---------------------------- MODULE KeysProofs ----------------------------
(***************************************************************************)
(* The safety properties of the run of MCKeys, for any number of versions, *)
(* kids, URLs, requests and faults.  The platform keys need that rotations *)
(* of a purpose do not overlap: with two the first property fails (run     *)
(* TwoRotations).                                                          *)
(***************************************************************************)
EXTENDS MCKeys, TLAPS

-----------------------------------------------------------------------------
(* Platform keys.                                                          *)

OneRotator == \A p, q \in Rotators : p = q

Vs == P!Versions
Steps == {"read", "register", "publish", "wait"}
Rotations == [step : Steps, version : Vs \cup {None}]

PlatformType ==
  /\ vault \in Vs
  /\ status \in [Vs -> {"absent", "active", "retired", "revoked"}]
  /\ boot \in {"starting", "up"}
  /\ pointer \in Vs \cup {None}
  /\ broken \in BOOLEAN
  /\ rotation \in [Rotators -> {None} \cup Rotations]

\* What has a row was read from Vault; if anything has, one row is active, and it
\* is the last.
RowsKnown ==
  /\ \A v \in Vs : status[v] # "absent" => v <= vault
  /\ status[vault] \in {"absent", "active"}
  /\ \A v, w \in Vs : status[v] = "active" /\ status[w] = "active" => v = w
  /\ \A v, w \in Vs : status[v] = "active" /\ status[w] # "absent" => w <= v
  /\ (\E v \in Vs : status[v] # "absent") => \E v \in Vs : status[v] = "active"

\* The backend signs with a key that has a row; what came later is the active one.
PointerKnown ==
  /\ boot = "starting" \/ broken => pointer = None
  /\ pointer # None =>
       /\ status[pointer] # "absent"
       /\ \A v \in Vs : v > pointer /\ status[v] # "absent" => status[v] = "active"

\* A rotation before its row was let in on the active key and has a version that
\* is new; afterwards its row is the active one.
RotationKnown ==
  \A r \in Rotators : rotation[r] # None =>
    /\ pointer # None
    /\ rotation[r].step \in {"read", "register"} =>
         status[vault] = "absent" /\ status[pointer] = "active"
    /\ rotation[r].step = "register" => rotation[r].version = vault
    /\ rotation[r].step \in {"publish", "wait"} =>
         rotation[r].version \in Vs /\ status[rotation[r].version] = "active"

PlatformInv == PlatformType /\ RowsKnown /\ PointerKnown /\ RotationKnown /\ RegisteredKeysVerify

LEMMA ActiveRowIs ==
  ASSUME RowsKnown
  PROVE  /\ P!ActiveRow = None <=> \A v \in Vs : status[v] # "active"
         /\ \A v \in Vs : status[v] = "active" => P!ActiveRow = v
         /\ P!ActiveRow # None => P!ActiveRow \in Vs /\ status[P!ActiveRow] = "active"
<1>1. None \notin Vs
  BY KeysAssumption DEF P!KeysAssumption, Vs, P!Versions
<1>2. P!ActiveRows = {v \in Vs : status[v] = "active"}
  BY DEF P!ActiveRows, Vs
<1>3. CASE P!ActiveRows = {}
  BY <1>2, <1>3 DEF P!ActiveRow
<1>4. CASE P!ActiveRows # {}
  <2>1. P!ActiveRow \in P!ActiveRows
    BY <1>4 DEF P!ActiveRow
  <2> QED BY <1>1, <1>2, <2>1 DEF RowsKnown
<1> QED BY <1>3, <1>4

LEMMA InitPlatform == ASSUME P!Init PROVE PlatformInv
<1>1. None \notin Nat /\ 1 \in Vs
  BY KeysAssumption DEF P!KeysAssumption, Vs, P!Versions
<1> QED
  BY <1>1 DEF P!Init, PlatformInv, PlatformType, RowsKnown, PointerKnown, RotationKnown,
     RegisteredKeysVerify, P!RegisteredKeysVerify, Vs

\* Steps of bundles, OPA and tokens change nothing of this.
LEMMA Elsewhere ==
  ASSUME PlatformInv, UNCHANGED <<vault, status, boot, pointer, pubkeys, broken, rotation>>
  PROVE  PlatformInv'
BY DEF PlatformInv, PlatformType, RowsKnown, PointerKnown, RotationKnown,
       RegisteredKeysVerify, P!RegisteredKeysVerify, P!PublishDocument

LEMMA NoneApart == None \notin Vs /\ None \notin Nat /\ Vs \subseteq Nat
BY KeysAssumption DEF P!KeysAssumption, Vs, P!Versions

-----------------------------------------------------------------------------
LEMMA BootStep ==
  ASSUME PlatformInv, P!BootMatches \/ P!BootMismatch \/ P!BootRegisters \/ P!BootFails
  PROVE  PlatformInv'
<1> USE DEF PlatformInv
<1>1. boot = "starting" /\ pointer = None /\ boot' = "up" /\ \A r \in Rotators : rotation[r] = None
  BY DEF P!BootMatches, P!BootMismatch, P!BootRegisters, P!BootFails, P!Reconciled,
         PointerKnown, RotationKnown
<1>2. UNCHANGED <<vault, rotation>>
  BY DEF P!BootMatches, P!BootMismatch, P!BootRegisters, P!BootFails, P!request
<1>3. RotationKnown'
  BY <1>1, <1>2 DEF RotationKnown
<1>4. CASE P!BootMatches
  <2>1. UNCHANGED status /\ pointer' = vault /\ broken' = FALSE /\ status[vault] = "active"
        /\ pubkeys' = pubkeys \cup P!PublishDocument
    BY <1>4, ActiveRowIs, NoneApart DEF P!BootMatches, P!Reconciled, PlatformType
  <2>2. PlatformType' /\ RowsKnown'
    BY <1>1, <1>2, <2>1 DEF PlatformType, RowsKnown
  <2>3. PointerKnown'
    BY <1>1, <1>2, <2>1, NoneApart DEF PlatformType, RowsKnown, PointerKnown
  <2>4. RegisteredKeysVerify'
    BY <2>1 DEF RegisteredKeysVerify, P!RegisteredKeysVerify, P!PublishDocument
  <2> QED BY <1>3, <2>2, <2>3, <2>4
<1>5. CASE P!BootMismatch \/ P!BootFails
  <2>1. UNCHANGED <<status, pointer, pubkeys>> /\ broken' = TRUE
    BY <1>5 DEF P!BootMismatch, P!BootFails, P!Reconciled
  <2> QED
    BY <1>1, <1>2, <1>3, <2>1
    DEF PlatformType, RowsKnown, PointerKnown, RegisteredKeysVerify, P!RegisteredKeysVerify
<1>6. CASE P!BootRegisters
  <2>1. \A v \in Vs : status[v] = "absent"
    BY <1>6, ActiveRowIs DEF P!BootRegisters, RowsKnown, PlatformType
  <2>2. /\ status' = [status EXCEPT ![vault] = "active"] /\ pointer' = vault /\ broken' = FALSE
        /\ pubkeys' = pubkeys \cup {vault} /\ vault \in Vs
    BY <1>6, <2>1 DEF P!BootRegisters, P!Reconciled, PlatformType
  <2>a. status' \in [Vs -> {"absent", "active", "retired", "revoked"}]
    BY <2>2 DEF PlatformType
  <2>b. vault' = vault /\ status'[vault] = "active" /\ \A v \in Vs \ {vault} : status'[v] = "absent"
    BY <1>2, <2>1, <2>2 DEF PlatformType
  <2>c. PlatformType'
    BY <1>1, <1>2, <2>2, <2>a DEF PlatformType
  <2>3. RowsKnown'
    BY <2>2, <2>b, NoneApart DEF RowsKnown
  <2>4. PointerKnown'
    BY <1>1, <1>2, <2>1, <2>2, NoneApart DEF PlatformType, PointerKnown
  <2>5. RegisteredKeysVerify'
    BY <2>1, <2>2 DEF PlatformType, RegisteredKeysVerify, P!RegisteredKeysVerify,
       P!PublishDocument, Vs
  <2> QED BY <1>3, <2>c, <2>3, <2>4, <2>5
<1> QED BY <1>4, <1>5, <1>6

LEMMA CrashStep == ASSUME PlatformInv, P!Crash PROVE PlatformInv'
<1>1. /\ boot' = "starting" /\ pointer' = None /\ broken' = FALSE
      /\ rotation' = [r \in Rotators |-> None] /\ UNCHANGED <<vault, status>>
  BY DEF P!Crash
<1> QED
  BY <1>1 DEF PlatformInv, PlatformType, RowsKnown, PointerKnown, RotationKnown,
     RegisteredKeysVerify, P!RegisteredKeysVerify

LEMMA RevokeStep ==
  ASSUME PlatformInv, NEW r \in Revokers, NEW v \in P!Versions, P!Revoke(r, v)
  PROVE  PlatformInv'
<1> USE DEF PlatformInv
<1>1. /\ status[v] = "retired" /\ status' = [status EXCEPT ![v] = "revoked"] /\ v \in Vs
      /\ pubkeys' = pubkeys \ {v} /\ UNCHANGED <<vault, boot, pointer, broken, rotation>>
  BY DEF P!Revoke, Vs
<1>2. PlatformType' /\ RowsKnown'
  BY <1>1 DEF PlatformType, RowsKnown
<1>3. PointerKnown' /\ RotationKnown'
  BY <1>1, NoneApart DEF PlatformType, PointerKnown, RotationKnown
<1>4. RegisteredKeysVerify'
  BY <1>1 DEF PlatformType, RegisteredKeysVerify, P!RegisteredKeysVerify, P!PublishDocument, Vs
<1> QED BY <1>2, <1>3, <1>4

-----------------------------------------------------------------------------
(* The rotation under way.                                                 *)

\* A step of r that changes no row, where r's new place is known.
LEMMA RotationMoves ==
  ASSUME OneRotator, PlatformInv, NEW r \in Rotators, NEW place \in {None} \cup Rotations,
         rotation' = [rotation EXCEPT ![r] = place],
         UNCHANGED <<vault, status, boot, pointer, pubkeys, broken>>,
         place # None =>
           /\ pointer # None
           /\ place.step \in {"read", "register"} =>
                status[vault] = "absent" /\ status[pointer] = "active"
           /\ place.step = "register" => place.version = vault
           /\ place.step \in {"publish", "wait"} =>
                place.version \in Vs /\ status[place.version] = "active"
  PROVE  PlatformInv'
<1> USE DEF PlatformInv
<1>1. PlatformType'
  BY DEF PlatformType
<1>2. \A q \in Rotators : rotation'[q] = place
  BY DEF OneRotator, PlatformType
<1>3. RotationKnown'
  BY <1>2 DEF RotationKnown
<1>4. RowsKnown' /\ PointerKnown' /\ RegisteredKeysVerify'
  BY DEF RowsKnown, PointerKnown, RegisteredKeysVerify, P!RegisteredKeysVerify, P!PublishDocument
<1> QED BY <1>1, <1>3, <1>4

LEMMA ARecord == \A s \in Steps, v \in Vs \cup {None} :
  [step |-> s, version |-> v] \in Rotations
BY DEF Rotations, Steps

LEMMA VaultRotateStep ==
  ASSUME OneRotator, PlatformInv, NEW r \in Rotators, P!VaultRotate(r)
  PROVE  PlatformInv'
<1> USE DEF PlatformInv
<1> DEFINE place == [step |-> "read", version |-> None]
<1>1. /\ vault' = vault + 1 /\ vault < MaxVersion /\ pointer # None /\ rotation[r] = None
      /\ rotation' = [rotation EXCEPT ![r] = place]
      /\ UNCHANGED <<status, boot, pointer, pubkeys, broken>> /\ ~P!Pending
  BY DEF P!VaultRotate, P!Step
<1>2. vault' \in Vs /\ vault \in Nat
  BY <1>1, KeysAssumption DEF P!KeysAssumption, PlatformType, Vs, P!Versions
<1>3. status[vault'] = "absent" /\ \A v \in Vs : status[v] # "absent" => v <= vault'
  BY <1>1, <1>2, NoneApart DEF RowsKnown, PlatformType
<1>4. status[pointer] = "active"
  BY <1>1, ActiveRowIs, NoneApart DEF P!Pending, RowsKnown, PointerKnown, PlatformType
<1>5. PlatformType'
  BY <1>1, <1>2, ARecord DEF PlatformType, Steps
<1>6. \A q \in Rotators : rotation'[q] = place
  BY <1>1 DEF OneRotator, PlatformType
<1>7. RowsKnown' /\ PointerKnown' /\ RotationKnown'
  BY <1>1, <1>3, <1>4, <1>6 DEF RowsKnown, PointerKnown, RotationKnown
<1>8. RegisteredKeysVerify'
  BY <1>1 DEF RegisteredKeysVerify, P!RegisteredKeysVerify, P!PublishDocument
<1> QED BY <1>5, <1>7, <1>8

LEMMA RegisterStep ==
  ASSUME OneRotator, PlatformInv, NEW r \in Rotators, P!Register(r)
  PROVE  PlatformInv'
<1> USE DEF PlatformInv
<1> DEFINE place == [step |-> "publish", version |-> vault]
<1>1. rotation[r] # None /\ rotation[r].step = "register"
  BY DEF P!Register, P!Rotating
<1>2. /\ rotation[r].version = vault /\ pointer # None
      /\ status[vault] = "absent" /\ status[pointer] = "active"
  BY <1>1 DEF RotationKnown
<1>3. /\ rotation' = [rotation EXCEPT ![r] = place]
      /\ status' = [v \in Vs |-> IF status[v] = "active" THEN "retired"
                                 ELSE IF v = vault /\ status[v] = "absent" THEN "active"
                                 ELSE status[v]]
      /\ pubkeys' = pubkeys \cup {vault} /\ broken' = FALSE
      /\ UNCHANGED <<vault, boot, pointer>>
  BY <1>2 DEF P!Register, P!Step, Vs
<1>4. boot = "up" /\ ~broken /\ vault \in Vs
  BY <1>2 DEF PointerKnown, PlatformType
<1>5. /\ status'[vault] = "active"
      /\ \A v \in Vs \ {vault} : status'[v] = IF status[v] = "active" THEN "retired" ELSE status[v]
  BY <1>2, <1>3, <1>4
<1>6. PlatformType'
  BY <1>3, <1>4, ARecord DEF PlatformType, Steps
<1>7. RowsKnown'
  BY <1>3, <1>4, <1>5, NoneApart DEF RowsKnown, PlatformType
<1>8. PointerKnown'
  BY <1>2, <1>3, <1>4, <1>5, NoneApart DEF PointerKnown, RowsKnown, PlatformType
<1>9. RotationKnown'
  <2>1. \A q \in Rotators : rotation'[q] = place
    BY <1>3 DEF OneRotator, PlatformType
  <2> QED BY <1>2, <1>3, <1>4, <1>5, <2>1 DEF RotationKnown
<1>10. RegisteredKeysVerify'
  BY <1>3, <1>4, <1>5 DEF RegisteredKeysVerify, P!RegisteredKeysVerify, P!PublishDocument, Vs
<1> QED BY <1>6, <1>7, <1>8, <1>9, <1>10

LEMMA CommitStep ==
  ASSUME OneRotator, PlatformInv, NEW r \in Rotators, P!Commit(r)
  PROVE  PlatformInv'
<1> USE DEF PlatformInv
<1>1. /\ rotation[r] # None /\ rotation[r].step = "wait" /\ pointer' = rotation[r].version
      /\ rotation' = [rotation EXCEPT ![r] = None]
      /\ UNCHANGED <<vault, status, boot, pubkeys, broken>>
  BY DEF P!Commit, P!Rotating
<1>2. pointer # None /\ pointer' \in Vs /\ status[pointer'] = "active"
  BY <1>1 DEF RotationKnown
<1>3. boot = "up" /\ ~broken
  BY <1>2 DEF PointerKnown, PlatformType
<1>4. status[vault] \in {"absent", "active"} /\ (status[vault] = "active" => pointer' = vault)
  BY <1>2 DEF RowsKnown, PlatformType
<1>5. PlatformType' /\ RowsKnown'
  BY <1>1, <1>2 DEF PlatformType, RowsKnown
<1>6. PointerKnown'
  BY <1>1, <1>2, <1>3, NoneApart DEF PointerKnown, RowsKnown, PlatformType
<1>7. RotationKnown'
  BY <1>1 DEF RotationKnown, OneRotator, PlatformType
<1>8. RegisteredKeysVerify'
  BY <1>1 DEF RegisteredKeysVerify, P!RegisteredKeysVerify, P!PublishDocument
<1> QED BY <1>5, <1>6, <1>7, <1>8

LEMMA MovesStep ==
  ASSUME OneRotator, PlatformInv, NEW r \in Rotators,
         P!ResumeRotation(r) \/ P!ReadPublicKey(r) \/ P!Publish(r) \/ P!TimesOut(r)
           \/ P!RotationFails(r)
  PROVE  PlatformInv'
<1>1. CASE P!ResumeRotation(r)
  <2> DEFINE place == [step |-> "publish", version |-> P!ActiveRow]
  <2>1. /\ rotation' = [rotation EXCEPT ![r] = place] /\ P!ActiveRow # None /\ pointer # None
        /\ UNCHANGED <<vault, status, boot, pointer, pubkeys, broken>>
    BY <1>1 DEF P!ResumeRotation, P!Pending, P!Step
  <2>2. P!ActiveRow \in Vs /\ status[P!ActiveRow] = "active"
    BY <2>1, ActiveRowIs DEF PlatformInv
  <2>3. place \in Rotations
    BY <2>2, ARecord DEF Steps
  <2> QED BY <2>1, <2>2, <2>3, RotationMoves
<1>2. CASE P!ReadPublicKey(r)
  <2> DEFINE place == [step |-> "register", version |-> vault]
  <2>1. /\ rotation' = [rotation EXCEPT ![r] = place]
        /\ rotation[r] # None /\ rotation[r].step = "read"
        /\ UNCHANGED <<vault, status, boot, pointer, pubkeys, broken>>
    BY <1>2 DEF P!ReadPublicKey, P!Rotating, P!Step
  <2>2. place \in Rotations
    BY ARecord DEF Steps, PlatformInv, PlatformType
  <2>3. pointer # None /\ status[vault] = "absent" /\ status[pointer] = "active"
    BY <2>1 DEF PlatformInv, RotationKnown
  <2> QED BY <2>1, <2>2, <2>3, RotationMoves
<1>3. CASE P!Publish(r)
  <2> DEFINE version == rotation[r].version
             place == [step |-> "wait", version |-> version]
  <2>1. /\ rotation' = [rotation EXCEPT ![r] = place]
        /\ rotation[r] # None /\ rotation[r].step = "publish"
        /\ UNCHANGED <<vault, status, boot, pointer, pubkeys, broken>>
    BY <1>3 DEF P!Publish, P!Rotating, P!Step
  <2>2. pointer # None /\ version \in Vs /\ status[version] = "active"
    BY <2>1 DEF PlatformInv, RotationKnown
  <2>3. place \in Rotations
    BY <2>2, ARecord DEF Steps
  <2> QED BY <2>1, <2>2, <2>3, RotationMoves
<1>4. CASE P!TimesOut(r) \/ P!RotationFails(r)
  <2>1. /\ rotation' = [rotation EXCEPT ![r] = None]
        /\ UNCHANGED <<vault, status, boot, pointer, pubkeys, broken>>
    BY <1>4 DEF P!TimesOut, P!RotationFails
  <2> QED BY <2>1, RotationMoves
<1> QED BY <1>1, <1>2, <1>3, <1>4

LEMMA PlatformStep ==
  ASSUME OneRotator, PlatformInv, [P!Next]_(P!vars)
  PROVE  PlatformInv'
<1> DEFINE Same == UNCHANGED <<vault, status, boot, pointer, pubkeys, broken, rotation>>
<1>1. CASE UNCHANGED P!vars
  <2>1. Same
    BY <1>1 DEF P!vars, P!request
  <2> QED BY <2>1, Elsewhere
<1>2. CASE P!Boots \/ P!BootFails
  BY <1>2, BootStep DEF P!Boots
<1>3. CASE P!Crash
  BY <1>3, CrashStep
<1>4. ASSUME NEW r \in Rotators, P!Rotate(r) \/ P!Proceeds(r) \/ P!Ends(r) \/ P!RotationFails(r)
      PROVE  PlatformInv'
  <2>1. CASE P!VaultRotate(r)
    BY <2>1, VaultRotateStep
  <2>2. CASE P!Register(r)
    BY <2>2, RegisterStep
  <2>3. CASE P!Commit(r)
    BY <2>3, CommitStep
  <2>4. CASE P!ResumeRotation(r) \/ P!ReadPublicKey(r) \/ P!Publish(r) \/ P!TimesOut(r)
             \/ P!RotationFails(r)
    BY <2>4, MovesStep
  <2> QED BY <1>4, <2>1, <2>2, <2>3, <2>4 DEF P!Rotate, P!Proceeds, P!Ends
<1>5. ASSUME NEW r \in Revokers, (\E v \in P!Versions : P!Revoke(r, v)) \/ P!PublishRevocation(r)
      PROVE  PlatformInv'
  <2>1. CASE \E v \in P!Versions : P!Revoke(r, v)
    BY <2>1, RevokeStep
  <2>2. CASE P!PublishRevocation(r)
    <3>1. Same
      BY <2>2 DEF P!PublishRevocation
    <3> QED BY <3>1, Elsewhere
  <2> QED BY <1>5, <2>1, <2>2
<1>6. CASE P!Polls \/ (\E b \in DOMAIN builds : P!BuildEnds(b) \/ P!BuildFails(b)) \/ P!OpaRestarts
  <2>1. Same
    BY <1>6 DEF P!Polls, P!PollCached, P!PollBuilds, P!BuildEnds, P!BuildFails, P!OpaRestarts,
       P!request
  <2> QED BY <2>1, Elsewhere
<1>7. CASE P!Mints \/ P!TokenExpires \/ P!PepRestarts
  <2>1. Same
    BY <1>7 DEF P!Mints, P!MintRead, P!PepMint, P!MintSign, P!TokenExpires, P!PepRestarts,
       P!request
  <2> QED BY <2>1, Elsewhere
<1> QED BY <1>1, <1>2, <1>3, <1>4, <1>5, <1>6, <1>7 DEF P!Next

-----------------------------------------------------------------------------
(* The trust keys of policies.                                             *)

\* A row, whatever it holds.
IsRow(row) ==
  \E Any : row \in [kind : Any, url : Any, mat : Any, status : Any, due : Any]

\* The key of an inline row is the one that was sent, whatever becomes of the row.
RowIsSent(row) == row # None => IsRow(row) /\ (row.kind = "inline" => row.mat = T!Sent)

TrustInv ==
  DOMAIN keys = Kids /\ keys = [k \in Kids |-> keys[k]] /\ \A k \in Kids : RowIsSent(keys[k])

\* What the edits of a row leave alone.
LEMMA RowEdited ==
  ASSUME NEW row, IsRow(row), NEW x
  PROVE  /\ IsRow([row EXCEPT !.mat = x]) /\ [row EXCEPT !.mat = x].mat = x
         /\ IsRow([row EXCEPT !.url = x]) /\ [row EXCEPT !.url = x].mat = row.mat
         /\ IsRow([row EXCEPT !.status = x]) /\ [row EXCEPT !.status = x].mat = row.mat
         /\ IsRow([row EXCEPT !.due = x]) /\ [row EXCEPT !.due = x].mat = row.mat
         /\ IsRow([row EXCEPT !.mat = x, !.due = FALSE])
         /\ [row EXCEPT !.mat = x, !.due = FALSE].kind = row.kind
         /\ [row EXCEPT !.mat = x].kind = row.kind /\ [row EXCEPT !.url = x].kind = row.kind
         /\ [row EXCEPT !.status = x].kind = row.kind /\ [row EXCEPT !.due = x].kind = row.kind
<1>1. PICK Any : row \in [kind : Any, url : Any, mat : Any, status : Any, due : Any]
  BY DEF IsRow
<1> DEFINE More == Any \cup {x, FALSE}
           Rows == [kind : More, url : More, mat : More, status : More, due : More]
<1>2. /\ [row EXCEPT !.mat = x] \in Rows /\ [row EXCEPT !.url = x] \in Rows
      /\ [row EXCEPT !.status = x] \in Rows /\ [row EXCEPT !.due = x] \in Rows
      /\ [row EXCEPT !.mat = x, !.due = FALSE] \in Rows
  BY <1>1
<1>3. \A s \in Rows : IsRow(s)
  BY Zenon DEF IsRow
<1>4. /\ [row EXCEPT !.mat = x].mat = x /\ [row EXCEPT !.url = x].mat = row.mat
      /\ [row EXCEPT !.status = x].mat = row.mat /\ [row EXCEPT !.due = x].mat = row.mat
      /\ [row EXCEPT !.mat = x, !.due = FALSE].kind = row.kind
      /\ [row EXCEPT !.mat = x].kind = row.kind /\ [row EXCEPT !.url = x].kind = row.kind
      /\ [row EXCEPT !.status = x].kind = row.kind /\ [row EXCEPT !.due = x].kind = row.kind
  BY <1>1
<1> QED BY <1>2, <1>3, <1>4

LEMMA InitTrust == ASSUME T!Init PROVE TrustInv
BY DEF T!Init, TrustInv, RowIsSent

\* One row is written.
LEMMA RowWritten ==
  ASSUME TrustInv, NEW k, NEW row, keys' = [keys EXCEPT ![k] = row], k \in Kids => RowIsSent(row)
  PROVE  TrustInv'
BY DEF TrustInv

LEMMA MaterialWritten ==
  ASSUME TrustInv, NEW k, NEW mat,
         T!TouchTrustKeyJwks(k, mat) \/ T!RecordTrustKeyJwksError(k)
  PROVE  TrustInv'
<1>1. CASE k \in Kids /\ T!Exists(k) /\ keys[k].kind = "jwks_url"
  <2>1. IsRow(keys[k])
    BY <1>1 DEF TrustInv, RowIsSent, T!Exists
  <2>2. /\ RowIsSent([keys[k] EXCEPT !.mat = mat, !.due = FALSE])
        /\ RowIsSent([keys[k] EXCEPT !.due = FALSE])
    BY <1>1, <2>1, RowEdited DEF RowIsSent
  <2>3. \/ keys' = [keys EXCEPT ![k] = [keys[k] EXCEPT !.mat = mat, !.due = FALSE]]
        \/ keys' = [keys EXCEPT ![k] = [keys[k] EXCEPT !.due = FALSE]]
    BY <1>1 DEF T!TouchTrustKeyJwks, T!RecordTrustKeyJwksError, TrustInv
  <2> QED BY <2>2, <2>3, RowWritten
<1>2. CASE ~(k \in Kids /\ T!Exists(k) /\ keys[k].kind = "jwks_url")
  <2>1. keys' = keys
    BY <1>2 DEF T!TouchTrustKeyJwks, T!RecordTrustKeyJwksError, TrustInv
  <2> QED BY <2>1 DEF TrustInv
<1> QED BY <1>1, <1>2

\* Edits by an administrator, revocations, and a TTL that runs out.
LEMMA RowChanged ==
  ASSUME TrustInv, NEW k, T!Exists(k), NEW x,
         \/ keys' = [keys EXCEPT ![k].mat = T!Sent] \/ keys' = [keys EXCEPT ![k].url = x]
         \/ keys' = [keys EXCEPT ![k].status = x] \/ keys' = [keys EXCEPT ![k].due = x]
  PROVE  TrustInv'
<1>1. CASE k \in Kids
  <2>1. IsRow(keys[k]) /\ (keys[k].kind = "inline" => keys[k].mat = T!Sent)
    BY <1>1 DEF TrustInv, RowIsSent, T!Exists
  <2>2. /\ RowIsSent([keys[k] EXCEPT !.mat = T!Sent]) /\ RowIsSent([keys[k] EXCEPT !.url = x])
        /\ RowIsSent([keys[k] EXCEPT !.status = x]) /\ RowIsSent([keys[k] EXCEPT !.due = x])
    BY <2>1, RowEdited DEF RowIsSent
  <2>3. \/ keys' = [keys EXCEPT ![k] = [keys[k] EXCEPT !.mat = T!Sent]]
        \/ keys' = [keys EXCEPT ![k] = [keys[k] EXCEPT !.url = x]]
        \/ keys' = [keys EXCEPT ![k] = [keys[k] EXCEPT !.status = x]]
        \/ keys' = [keys EXCEPT ![k] = [keys[k] EXCEPT !.due = x]]
    BY <1>1 DEF TrustInv
  <2> QED BY <2>2, <2>3, RowWritten
<1>2. CASE k \notin Kids
  BY <1>2 DEF TrustInv
<1> QED BY <1>1, <1>2

LEMMA NewRows ==
  ASSUME NEW url
  PROVE  RowIsSent(T!Inline(T!Sent)) /\ RowIsSent(T!JwksUrl(url)) /\ RowIsSent(None)
<1> DEFINE Any == {"inline", "jwks_url", None, T!Sent, url, "active", FALSE, TRUE}
           Rows == [kind : Any, url : Any, mat : Any, status : Any, due : Any]
<1>1. T!Inline(T!Sent) \in Rows /\ T!JwksUrl(url) \in Rows
  BY DEF T!Inline, T!JwksUrl
<1>2. \A s \in Rows : IsRow(s)
  BY Zenon DEF IsRow
<1>3. T!Inline(T!Sent).mat = T!Sent /\ T!JwksUrl(url).kind # "inline"
  BY DEF T!Inline, T!JwksUrl
<1> QED BY <1>1, <1>2, <1>3 DEF RowIsSent

LEMMA WritesTrust ==
  ASSUME TrustInv, NEW o \in Operators, T!Create(o) \/ T!Update(o) \/ T!Revoke(o) \/ T!RefreshNow(o)
  PROVE  TrustInv'
<1> DEFINE k == asking[o].kid
<1>0. ASSUME UNCHANGED keys PROVE TrustInv'
  BY <1>0 DEF TrustInv
<1>1. CASE T!Create(o)
  <2>1. \/ UNCHANGED keys
        \/ keys' = [keys EXCEPT ![k] = T!Inline(T!Sent)]
        \/ keys' = [keys EXCEPT ![k] = T!JwksUrl(asking[o].arg)]
    BY <1>1 DEF T!Create
  <2> QED BY <1>0, <2>1, NewRows, RowWritten
<1>2. CASE T!Update(o)
  <2>1. \/ UNCHANGED keys
        \/ T!Exists(k) /\ keys' = [keys EXCEPT ![k].mat = T!Sent]
        \/ T!Exists(k) /\ keys' = [keys EXCEPT ![k].url = asking[o].arg]
    BY <1>2 DEF T!Update
  <2> QED BY <1>0, <2>1, RowChanged
<1>3. CASE T!Revoke(o)
  <2>1. UNCHANGED keys \/ (T!Exists(k) /\ keys' = [keys EXCEPT ![k].status = "revoked"])
    BY <1>3 DEF T!Revoke
  <2> QED BY <1>0, <2>1, RowChanged
<1>4. CASE T!RefreshNow(o)
  BY <1>0, <1>4 DEF T!RefreshNow
<1> QED BY <1>1, <1>2, <1>3, <1>4

LEMMA TrustStep == ASSUME TrustInv, [T!Next]_(T!tkVars) PROVE TrustInv'
<1>0. ASSUME UNCHANGED keys PROVE TrustInv'
  BY <1>0 DEF TrustInv
<1>1. CASE UNCHANGED T!tkVars
  BY <1>0, <1>1 DEF T!tkVars
<1>2. CASE \E o \in Operators :
             T!AskCreate(o) \/ T!AskUpdate(o) \/ T!AskRevoke(o) \/ T!AskRefresh(o)
  BY <1>0, <1>2 DEF T!AskCreate, T!AskUpdate, T!AskRevoke, T!AskRefresh, T!Ask
<1>3. CASE \E o \in Operators : T!Answers(o)
  BY <1>3, WritesTrust DEF T!Answers
<1>4. CASE \E k \in Kids : T!Tick(k)
  BY <1>0, <1>4 DEF T!Tick
<1>5. CASE \E k \in Kids : T!Expires(k)
  BY <1>5, RowChanged DEF T!Expires
<1>6. CASE \E k \in Kids : T!Delete(k)
  BY <1>6, NewRows, RowWritten DEF T!Delete
<1>7. CASE \E w \in T!Workers : T!Served(w)
  BY <1>0, <1>7 DEF T!Served
<1>8. CASE \E w \in T!Workers : T!FetchWrites(w) \/ T!FetchFails(w)
  BY <1>8, MaterialWritten DEF T!FetchWrites, T!FetchFails
<1>9. CASE (\E u \in Urls : T!Rotates(u)) \/ T!Dies
  BY <1>0, <1>9 DEF T!Rotates, T!Dies
<1> QED BY <1>1, <1>2, <1>3, <1>4, <1>5, <1>6, <1>7, <1>8, <1>9 DEF T!Next

-----------------------------------------------------------------------------
(* The two parts of the run.                                               *)

LEMMA PartsBegin == ASSUME Init PROVE P!Init /\ T!Init
BY DEF Init

LEMMA PartsMove == ASSUME [Next]_all PROVE [P!Next]_(P!vars) /\ [T!Next]_(T!tkVars)
<1>1. UNCHANGED pVars => UNCHANGED P!vars
  BY DEF pVars, P!vars, P!request, P!opa, P!tokens
<1>2. UNCHANGED tVars => UNCHANGED T!tkVars
  BY DEF tVars, T!tkVars, T!tkCounts
<1>3. CASE UNCHANGED all
  BY <1>1, <1>2, <1>3 DEF all
<1>4. CASE Next
  BY <1>1, <1>2, <1>4 DEF Next
<1> QED BY <1>3, <1>4

LEMMA KeysPlatform == ASSUME OneRotator PROVE Spec => []PlatformInv
<1>1. Init => PlatformInv
  BY PartsBegin, InitPlatform
<1>2. PlatformInv /\ [Next]_all => PlatformInv'
  BY PartsMove, PlatformStep
<1> QED BY <1>1, <1>2, PTL DEF Spec

\* If no two rotations of a purpose overlap, the version with which Vault signs is
\* never retired or revoked, and no version beyond it has a row: whatever crashes,
\* fails, times out or is resumed between Vault's rotation and the commit.
THEOREM KeysSigningKeyStaysActive == ASSUME OneRotator PROVE Spec => []SigningKeyStaysActive
<1>1. PlatformInv => SigningKeyStaysActive
  BY NoneApart DEF PlatformInv, PlatformType, RowsKnown, SigningKeyStaysActive,
     P!SigningKeyStaysActive, Vs
<1> QED BY <1>1, KeysPlatform, PTL

\* A backend whose trust is intact keeps every active and every retired key in the
\* cache with which it verifies: no restart, rotation or revocation loses one.
THEOREM KeysRegisteredKeysVerify == ASSUME OneRotator PROVE Spec => []RegisteredKeysVerify
<1>1. PlatformInv => RegisteredKeysVerify
  BY DEF PlatformInv
<1> QED BY <1>1, KeysPlatform, PTL

\* At most one key with a row lies beyond the one that the backend points at: a
\* repeated request finishes the pending rotation, or finds none.
THEOREM KeysOneKeyPending == ASSUME OneRotator PROVE Spec => []OneKeyPending
<1>1. PlatformInv => OneKeyPending
  BY DEF PlatformInv, PointerKnown, RowsKnown, OneKeyPending, P!OneKeyPending, Vs
<1> QED BY <1>1, KeysPlatform, PTL

\* The key of an inline row is one that an administrator sent, however long a
\* fetch for an earlier row of that kid was under way: touchTrustKeyJwks() asks
\* for the kind of the row it writes.
THEOREM KeysInlineIsSent == Spec => []InlineIsSent
<1>1. Init => TrustInv
  BY PartsBegin, InitTrust
<1>2. TrustInv /\ [Next]_all => TrustInv'
  BY PartsMove, TrustStep
<1>3. TrustInv => InlineIsSent
  BY DEF TrustInv, RowIsSent, InlineIsSent, T!InlineIsSent, T!Exists
<1> QED BY <1>1, <1>2, <1>3, PTL DEF Spec
-----------------------------------------------------------------------------
(* The shape of the state, also when rotations overlap.                    *)

\* From the time the version of a rotation is read until it ends, it has one.
PlatformShape ==
  /\ P!TypeOK
  /\ \A r \in Rotators : rotation[r] # None /\ rotation[r].step # "read" =>
       rotation[r].version \in Vs

LEMMA InitPlatformShape == ASSUME P!Init PROVE PlatformShape
<1>1. 1 \in Vs /\ 0 \in 0..MaxFaults
  BY KeysAssumption DEF P!KeysAssumption, Vs, P!Versions
<1> QED BY <1>1 DEF P!Init, PlatformShape, P!TypeOK, P!TokenRecord, Vs

LEMMA ActiveRowShape == P!ActiveRow # None => P!ActiveRow \in Vs
<1>1. CASE P!ActiveRows = {}
  BY <1>1 DEF P!ActiveRow
<1>2. CASE P!ActiveRows # {}
  <2>1. P!ActiveRow \in P!ActiveRows
    BY <1>2 DEF P!ActiveRow
  <2> QED BY <2>1 DEF P!ActiveRows, Vs
<1> QED BY <1>1, <1>2

LEMMA BootShape ==
  ASSUME PlatformShape, P!BootMatches \/ P!BootMismatch \/ P!BootRegisters \/ P!BootFails
  PROVE  PlatformShape'
<1> USE DEF PlatformShape, P!TypeOK, P!Reconciled, P!request, P!opa, P!tokens
<1>1. UNCHANGED <<purpose, vault, rotation, revocation, bundle, builds, trusted, token, minting,
                  pepKid>> /\ boot' = "up" /\ broken' \in BOOLEAN
  BY DEF P!BootMatches, P!BootMismatch, P!BootRegisters, P!BootFails
<1>2. pointer' \in P!Versions \cup {None} /\ pubkeys' \subseteq P!Versions
  BY DEF P!BootMatches, P!BootMismatch, P!BootRegisters, P!BootFails, P!PublishDocument
<1>3. status' \in [P!Versions -> {"absent", "active", "retired", "revoked"}]
  <2>1. CASE P!BootRegisters
    BY <2>1 DEF P!BootRegisters
  <2>2. CASE UNCHANGED status
    BY <2>2
  <2> QED BY <2>1, <2>2 DEF P!BootMatches, P!BootMismatch, P!BootFails
<1>4. faults' \in 0..MaxFaults
  BY KeysAssumption DEF P!KeysAssumption, P!BootMatches, P!BootMismatch, P!BootRegisters, P!BootFails
<1> QED BY <1>1, <1>2, <1>3, <1>4

LEMMA CrashShape == ASSUME PlatformShape, P!Crash PROVE PlatformShape'
<1> USE DEF PlatformShape, P!TypeOK, P!Crash
<1>1. faults' \in 0..MaxFaults
  BY KeysAssumption DEF P!KeysAssumption
<1>2. token' \in {None} \cup P!TokenRecord
  OBVIOUS
<1>3. minting' \in {None} \cup [kid : P!Versions, under : P!Versions \cup {None}]
  OBVIOUS
<1>4. builds' \in [{"poll", "eager"} -> {None} \cup SUBSET P!Versions]
  OBVIOUS
<1> QED BY <1>1, <1>2, <1>3, <1>4

\* A request moves on to a step, with the version it has by then.
LEMMA StepShape ==
  ASSUME PlatformShape, NEW r \in Rotators, NEW s \in Steps, NEW v \in Vs \cup {None},
         s # "read" => v \in Vs, P!Step(r, s, v)
  PROVE  /\ rotation' \in [Rotators -> {None} \cup Rotations]
         /\ \A q \in Rotators : rotation'[q] # None /\ rotation'[q].step # "read" =>
              rotation'[q].version \in Vs
<1>1. rotation \in [Rotators -> {None} \cup Rotations]
  BY DEF PlatformShape, P!TypeOK, Rotations, Steps, Vs
<1> DEFINE new == [step |-> s, version |-> v]
<1>2. new \in Rotations /\ (new.step # "read" => new.version \in Vs)
  BY DEF Rotations
<1>3. rotation' = [rotation EXCEPT ![r] = new]
  BY DEF P!Step
<1> HIDE DEF new
<1>4. rotation' \in [Rotators -> {None} \cup Rotations]
  BY <1>1, <1>2, <1>3
<1>5. \A q \in Rotators : rotation'[q] = IF q = r THEN new ELSE rotation[q]
  BY <1>1, <1>3
<1> QED BY <1>2, <1>4, <1>5 DEF PlatformShape

LEMMA EndShape ==
  ASSUME PlatformShape, NEW r \in Rotators, rotation' = [rotation EXCEPT ![r] = None]
  PROVE  /\ rotation' \in [Rotators -> {None} \cup Rotations]
         /\ \A q \in Rotators : rotation'[q] # None /\ rotation'[q].step # "read" =>
              rotation'[q].version \in Vs
<1>1. rotation \in [Rotators -> {None} \cup Rotations]
  BY DEF PlatformShape, P!TypeOK, Rotations, Steps, Vs
<1>2. \A q \in Rotators : rotation'[q] = IF q = r THEN None ELSE rotation[q]
  BY <1>1
<1> QED BY <1>1, <1>2 DEF PlatformShape

LEMMA RotationShape ==
  ASSUME PlatformShape, NEW r \in Rotators,
         P!Rotate(r) \/ P!Proceeds(r) \/ P!Ends(r) \/ P!RotationFails(r)
  PROVE  PlatformShape'
<1> DEFINE Rest == UNCHANGED <<purpose, boot, revocation, trusted, minting, pepKid>>
           Kept == /\ rotation' \in [Rotators -> {None} \cup Rotations]
                   /\ \A q \in Rotators : rotation'[q] # None /\ rotation'[q].step # "read" =>
                        rotation'[q].version \in Vs
<1>0. P!TypeOK /\ vault \in Vs /\ None \in Vs \cup {None} /\ Vs = P!Versions
  BY DEF PlatformShape, P!TypeOK, Vs
<1>a. ASSUME Kept, Rest, UNCHANGED <<vault, status, pointer, pubkeys, broken, bundle, builds, token>>,
             faults' \in 0..MaxFaults
      PROVE  PlatformShape'
  BY <1>0, <1>a DEF PlatformShape, P!TypeOK, Rotations, Steps
<1>1. CASE P!ResumeRotation(r)
  <2>1. Kept
    BY <1>1, StepShape, ActiveRowShape DEF P!ResumeRotation, P!Pending, Steps
  <2> QED BY <1>0, <1>1, <1>a, <2>1 DEF P!ResumeRotation, P!opa, P!tokens, P!TypeOK
<1>2. CASE P!VaultRotate(r)
  <2>1. Kept
    BY <1>2, StepShape DEF P!VaultRotate, Steps
  <2>2. vault' \in Vs
    BY <1>0, <1>2, KeysAssumption DEF P!VaultRotate, P!KeysAssumption, P!Versions
  <2> QED
    BY <1>0, <1>2, <2>1, <2>2
    DEF P!VaultRotate, P!opa, P!tokens, PlatformShape, P!TypeOK, Rotations, Steps
<1>3. CASE P!ReadPublicKey(r)
  <2>1. Kept
    BY <1>0, <1>3, StepShape DEF P!ReadPublicKey, Steps
  <2> QED BY <1>0, <1>3, <1>a, <2>1 DEF P!ReadPublicKey, P!opa, P!tokens, P!TypeOK
<1>4. CASE P!Register(r)
  <2>1. rotation[r].version \in Vs
    BY <1>4 DEF P!Register, P!Rotating, PlatformShape
  <2>2. Kept
    BY <1>4, <2>1, StepShape DEF P!Register, Steps
  <2>3. status' \in [P!Versions -> {"absent", "active", "retired", "revoked"}]
    BY <1>0, <1>4 DEF P!Register, P!TypeOK
  <2> QED
    BY <1>0, <1>4, <2>1, <2>2, <2>3
    DEF P!Register, P!opa, P!tokens, PlatformShape, P!TypeOK, Rotations, Steps
<1>5. CASE P!Publish(r)
  <2>1. rotation[r].version \in Vs
    BY <1>5 DEF P!Publish, P!Rotating, PlatformShape
  <2>2. Kept
    BY <1>5, <2>1, StepShape DEF P!Publish, Steps
  <2>3. builds' \in [{"poll", "eager"} -> {None} \cup SUBSET P!Versions]
    BY <1>0, <1>5 DEF P!Publish, P!TypeOK, P!PublishDocument
  <2> QED
    BY <1>0, <1>5, <2>2, <2>3
    DEF P!Publish, P!tokens, PlatformShape, P!TypeOK, Rotations, Steps
<1>6. CASE P!Commit(r)
  <2>1. rotation[r].version \in Vs
    BY <1>6 DEF P!Commit, P!Rotating, PlatformShape
  <2>2. Kept
    BY <1>6, EndShape DEF P!Commit
  <2>3. token' \in {None} \cup P!TokenRecord
    BY <1>0, <1>6 DEF P!Commit, P!TypeOK
  <2> QED
    BY <1>0, <1>6, <2>1, <2>2, <2>3
    DEF P!Commit, P!opa, PlatformShape, P!TypeOK, Rotations, Steps
<1>7. CASE P!TimesOut(r)
  <2>1. Kept
    BY <1>7, EndShape DEF P!TimesOut
  <2> QED BY <1>0, <1>7, <1>a, <2>1 DEF P!TimesOut, P!opa, P!tokens, P!TypeOK
<1>8. CASE P!RotationFails(r)
  <2>1. Kept
    BY <1>8, EndShape DEF P!RotationFails
  <2>2. faults' \in 0..MaxFaults
    BY <1>0, <1>8, KeysAssumption DEF P!RotationFails, P!TypeOK, P!KeysAssumption
  <2> QED BY <1>0, <1>8, <1>a, <2>1, <2>2 DEF P!RotationFails, P!opa, P!tokens
<1> QED
  BY <1>1, <1>2, <1>3, <1>4, <1>5, <1>6, <1>7, <1>8 DEF P!Rotate, P!Proceeds, P!Ends

LEMMA RevocationShape ==
  ASSUME PlatformShape, NEW r \in Revokers,
         (\E v \in P!Versions : P!Revoke(r, v)) \/ P!PublishRevocation(r)
  PROVE  PlatformShape'
<1> USE DEF PlatformShape, P!TypeOK, P!opa, P!tokens
<1>1. CASE \E v \in P!Versions : P!Revoke(r, v)
  BY <1>1 DEF P!Revoke
<1>2. CASE P!PublishRevocation(r)
  BY <1>2 DEF P!PublishRevocation
<1> QED BY <1>1, <1>2

LEMMA OpaShape ==
  ASSUME PlatformShape,
         \/ P!Polls \/ P!OpaRestarts
         \/ \E b \in DOMAIN builds : P!BuildEnds(b) \/ P!BuildFails(b)
  PROVE  PlatformShape'
<1> USE DEF PlatformShape, P!TypeOK, P!request, P!tokens
<1>1. CASE P!Polls
  BY <1>1 DEF P!Polls, P!PollCached, P!PollBuilds, P!PublishDocument
<1>2. CASE P!OpaRestarts
  BY <1>2, KeysAssumption DEF P!OpaRestarts, P!KeysAssumption
<1>3. CASE \E b \in DOMAIN builds : P!BuildEnds(b) \/ P!BuildFails(b)
  <2>1. PICK b \in {"poll", "eager"} : P!BuildEnds(b) \/ P!BuildFails(b)
    BY <1>3
  <2>2. builds[b] \in SUBSET P!Versions /\ builds' = [builds EXCEPT ![b] = None]
    BY <2>1 DEF P!BuildEnds, P!BuildFails
  <2>3. CASE P!BuildEnds(b)
    BY <2>2, <2>3 DEF P!BuildEnds
  <2>4. CASE P!BuildFails(b)
    BY <2>2, <2>4, KeysAssumption DEF P!BuildFails, P!KeysAssumption
  <2> QED BY <2>1, <2>3, <2>4
<1> QED BY <1>1, <1>2, <1>3

LEMMA TokenShape ==
  ASSUME PlatformShape, P!Mints \/ P!TokenExpires \/ P!PepRestarts PROVE PlatformShape'
<1> USE DEF PlatformShape, P!TypeOK, P!request, P!opa
<1>1. CASE P!MintRead
  <2>1. minting' \in [kid : P!Versions, under : P!Versions \cup {None}]
    BY <1>1 DEF P!MintRead
  <2>2. token' \in {None} \cup P!TokenRecord
    BY <1>1 DEF P!MintRead
  <2> QED BY <1>1, <2>1, <2>2 DEF P!MintRead
<1>2. CASE P!PepMint
  <2>1. minting' \in [kid : P!Versions, under : P!Versions \cup {None}]
    BY <1>2 DEF P!PepMint
  <2> QED BY <1>2, <2>1 DEF P!PepMint
<1>3. CASE P!MintSign
  <2>1. token' \in P!TokenRecord
    BY <1>3 DEF P!MintSign, P!TokenRecord
  <2> QED BY <1>3, <2>1 DEF P!MintSign
<1>4. CASE P!TokenExpires
  BY <1>4 DEF P!TokenExpires
<1>5. CASE P!PepRestarts
  BY <1>5, KeysAssumption DEF P!PepRestarts, P!KeysAssumption
<1> QED BY <1>1, <1>2, <1>3, <1>4, <1>5 DEF P!Mints

LEMMA PlatformShapeStep == ASSUME PlatformShape, [P!Next]_(P!vars) PROVE PlatformShape'
<1>1. CASE UNCHANGED P!vars
  BY <1>1 DEF PlatformShape, P!TypeOK, P!vars, P!request, P!opa, P!tokens
<1>2. CASE P!Next
  BY <1>2, BootShape, CrashShape, RotationShape, RevocationShape, OpaShape, TokenShape
  DEF P!Next, P!Boots
<1> QED BY <1>1, <1>2

-----------------------------------------------------------------------------
(* The same of the trust keys.                                             *)

Rows == [kind : {"inline", "jwks_url"}, url : Urls \cup {None}, mat : T!Materials \cup {None},
         status : {"active", "revoked"}, due : BOOLEAN]
Fetches == [kid : Kids, url : Urls, got : T!Materials \cup {None}]
Asks == [kid : Kids, arg : Urls \cup {None},
         op : {"createInline", "createUrl", "patchMaterial", "patchUrl", "revoke", "refresh"}]

\* What is fetched is a URL: a jwks_url row has one, and so has a request that
\* makes such a row.
TrustShape ==
  /\ keys \in [Kids -> {None} \cup Rows]
  /\ \A k \in Kids : keys[k] # None /\ keys[k].kind = "jwks_url" => keys[k].url \in Urls
  /\ served \in [Urls -> T!Materials]
  /\ fetching \in [T!Workers -> {None} \cup Fetches]
  /\ asking \in [Operators -> {None} \cup Asks]
  /\ \A o \in Operators : asking[o] # None /\ asking[o].op \in {"createUrl", "patchUrl"} =>
       asking[o].arg \in Urls
  /\ edits \in 0..MaxEdits /\ rotations \in 0..MaxRotations

RowsShape ==
  /\ keys' \in [Kids -> {None} \cup Rows]
  /\ \A k \in Kids : keys'[k] # None /\ keys'[k].kind = "jwks_url" => keys'[k].url \in Urls

LEMMA InitTrustShape == ASSUME T!Init PROVE TrustShape
<1>1. 0 \in 0..MaxEdits /\ 0 \in 0..MaxRotations
  BY KeysAssumption DEF T!TrustKeysAssumption
<1>2. served \in [Urls -> T!Materials]
  BY <1>1 DEF T!Init, T!Materials
<1> QED BY <1>1, <1>2 DEF T!Init, TrustShape

\* A row that is replaced by a row, or by none.
LEMMA OneRow ==
  ASSUME TrustShape, NEW k \in Kids, NEW row \in {None} \cup Rows,
         row # None /\ row.kind = "jwks_url" => row.url \in Urls,
         keys' = [keys EXCEPT ![k] = row]
  PROVE  RowsShape
<1>1. \A i \in Kids : keys'[i] = IF i = k THEN row ELSE keys[i]
  BY DEF TrustShape
<1>2. keys' \in [Kids -> {None} \cup Rows]
  BY DEF TrustShape
<1> QED BY <1>1, <1>2 DEF TrustShape, RowsShape

\* A row that is edited stays of its kind.
LEMMA FieldShape ==
  ASSUME TrustShape, NEW k \in Kids, keys[k] # None,
         \/ \E due \in BOOLEAN : keys' = [keys EXCEPT ![k].due = due]
         \/ \E mat \in T!Materials : keys' = [keys EXCEPT ![k].mat = mat]
         \/ \E mat \in T!Materials : keys' = [keys EXCEPT ![k].mat = mat, ![k].due = FALSE]
         \/ \E url \in Urls : keys' = [keys EXCEPT ![k].url = url]
         \/ keys' = [keys EXCEPT ![k].status = "revoked"]
  PROVE  RowsShape
<1>0. keys[k] \in Rows /\ (keys[k].kind = "jwks_url" => keys[k].url \in Urls)
  BY DEF TrustShape
<1>1. ASSUME NEW due \in BOOLEAN, keys' = [keys EXCEPT ![k].due = due] PROVE RowsShape
  <2> DEFINE row == [keys[k] EXCEPT !.due = due]
  <2>1. row \in Rows /\ row.kind = keys[k].kind /\ row.url = keys[k].url
    BY <1>0 DEF Rows
  <2>2. keys' = [keys EXCEPT ![k] = row]
    BY <1>1
  <2> HIDE DEF row
  <2> QED BY <1>0, <2>1, <2>2, OneRow
<1>2. ASSUME NEW mat \in T!Materials, keys' = [keys EXCEPT ![k].mat = mat] PROVE RowsShape
  <2> DEFINE row == [keys[k] EXCEPT !.mat = mat]
  <2>1. row \in Rows /\ row.kind = keys[k].kind /\ row.url = keys[k].url
    BY <1>0 DEF Rows
  <2>2. keys' = [keys EXCEPT ![k] = row]
    BY <1>2
  <2> HIDE DEF row
  <2> QED BY <1>0, <2>1, <2>2, OneRow
<1>3. ASSUME NEW url \in Urls, keys' = [keys EXCEPT ![k].url = url] PROVE RowsShape
  <2> DEFINE row == [keys[k] EXCEPT !.url = url]
  <2>1. row \in Rows /\ row.kind = keys[k].kind /\ row.url = url
    BY <1>0 DEF Rows
  <2>2. keys' = [keys EXCEPT ![k] = row]
    BY <1>3
  <2> HIDE DEF row
  <2> QED BY <1>0, <2>1, <2>2, OneRow
<1>4. ASSUME keys' = [keys EXCEPT ![k].status = "revoked"] PROVE RowsShape
  <2> DEFINE row == [keys[k] EXCEPT !.status = "revoked"]
  <2>1. row \in Rows /\ row.kind = keys[k].kind /\ row.url = keys[k].url
    BY <1>0 DEF Rows
  <2>2. keys' = [keys EXCEPT ![k] = row]
    BY <1>4
  <2> HIDE DEF row
  <2> QED BY <1>0, <2>1, <2>2, OneRow
<1>5. ASSUME NEW mat \in T!Materials, keys' = [keys EXCEPT ![k].mat = mat, ![k].due = FALSE] PROVE RowsShape
  <2> DEFINE row == [keys[k] EXCEPT !.mat = mat, !.due = FALSE]
  <2>1. row \in Rows /\ row.kind = keys[k].kind /\ row.url = keys[k].url
    BY <1>0 DEF Rows
  <2>2. keys' = [keys EXCEPT ![k] = row]
    BY <1>5
  <2> HIDE DEF row
  <2> QED BY <1>0, <2>1, <2>2, OneRow
<1> QED BY <1>1, <1>2, <1>3, <1>4, <1>5

LEMMA TouchShape ==
  ASSUME TrustShape, NEW k \in Kids, NEW mat \in T!Materials, T!TouchTrustKeyJwks(k, mat)
  PROVE  RowsShape
<1>1. CASE keys' = keys
  BY <1>1 DEF TrustShape, RowsShape
<1>2. CASE T!Exists(k) /\ keys' = [keys EXCEPT ![k].mat = mat, ![k].due = FALSE]
  BY <1>2, FieldShape DEF T!Exists
<1> QED BY <1>1, <1>2 DEF T!TouchTrustKeyJwks

\* A request is answered, or goes on to a fetch.
AsksShape ==
  /\ fetching' \in [T!Workers -> {None} \cup Fetches]
  /\ asking' \in [Operators -> {None} \cup Asks]
  /\ \A o \in Operators : asking'[o] # None /\ asking'[o].op \in {"createUrl", "patchUrl"} =>
       asking'[o].arg \in Urls

LEMMA FetchIs ==
  ASSUME NEW k \in Kids, NEW url \in Urls PROVE T!Fetch(k, url) \in Fetches
BY DEF T!Fetch, Fetches

LEMMA AnsweredShape == ASSUME TrustShape, NEW o \in Operators, T!Answered(o) PROVE AsksShape
BY DEF TrustShape, T!Answered, AsksShape

LEMMA RefreshShape ==
  ASSUME TrustShape, RowsShape, NEW o \in Operators, NEW k \in Kids,
         T!Refresh(o, k, keys) \/ T!Refresh(o, k, keys')
  PROVE  AsksShape
<1>1. CASE T!Answered(o)
  BY <1>1, AnsweredShape
<1>2. ASSUME NEW url \in Urls, fetching' = [fetching EXCEPT ![o] = T!Fetch(k, url)], UNCHANGED asking
      PROVE  AsksShape
  BY <1>2, FetchIs DEF TrustShape, AsksShape
<1> QED BY <1>1, <1>2 DEF T!Refresh, TrustShape, RowsShape

LEMMA ReleaseShape == ASSUME TrustShape, NEW w \in T!Workers, T!Release(w) PROVE AsksShape
BY DEF TrustShape, T!Release, AsksShape

LEMMA Assembled ==
  ASSUME TrustShape, RowsShape, AsksShape, UNCHANGED <<served, edits, rotations>>
  PROVE  TrustShape'
BY DEF TrustShape, RowsShape, AsksShape

LEMMA AskShape ==
  ASSUME TrustShape, NEW o \in Operators,
         T!AskCreate(o) \/ T!AskUpdate(o) \/ T!AskRevoke(o) \/ T!AskRefresh(o)
  PROVE  TrustShape'
<1>1. PICK k \in Kids, op \in {"createInline", "createUrl", "patchMaterial", "patchUrl", "revoke",
                               "refresh"}, arg \in Urls \cup {None} :
        T!Ask(o, k, op, arg) /\ (op \in {"createUrl", "patchUrl"} => arg \in Urls)
  BY DEF T!AskCreate, T!AskUpdate, T!AskRevoke, T!AskRefresh
<1> DEFINE new == [kid |-> k, op |-> op, arg |-> arg]
<1>2. new \in Asks /\ (new.op \in {"createUrl", "patchUrl"} => new.arg \in Urls)
  BY <1>1 DEF Asks
<1>3. asking' = [asking EXCEPT ![o] = new] /\ edits < MaxEdits /\ edits' = edits + 1
      /\ UNCHANGED <<keys, served, fetching, rotations>>
  BY <1>1 DEF T!Ask
<1> HIDE DEF new
<1>4. edits' \in 0..MaxEdits
  BY <1>3, KeysAssumption DEF T!TrustKeysAssumption, TrustShape
<1>5. \A q \in Operators : asking'[q] = IF q = o THEN new ELSE asking[q]
  BY <1>3 DEF TrustShape
<1>6. asking' \in [Operators -> {None} \cup Asks]
  BY <1>2, <1>3 DEF TrustShape
<1> QED BY <1>2, <1>3, <1>4, <1>5, <1>6 DEF TrustShape

LEMMA NewRowIs ==
  /\ T!Sent \in T!Materials
  /\ T!Inline(T!Sent) \in Rows /\ T!Inline(T!Sent).kind = "inline"
  /\ \A url \in Urls : T!JwksUrl(url) \in Rows /\ T!JwksUrl(url).url = url
BY DEF T!Materials, T!Inline, T!JwksUrl, Rows

LEMMA AnswersShape == ASSUME TrustShape, NEW o \in Operators, T!Answers(o) PROVE TrustShape'
<1> DEFINE k == asking[o].kid
<1>0. /\ k \in Kids /\ UNCHANGED <<served, edits, rotations>>
      /\ asking[o].op \in {"createUrl", "patchUrl"} => asking[o].arg \in Urls
  BY DEF T!Answers, T!Create, T!Update, T!Revoke, T!RefreshNow, T!Asked, T!tkCounts, TrustShape, Asks
<1>k. UNCHANGED keys => RowsShape
  BY DEF TrustShape, RowsShape
<1>1. CASE T!Create(o)
  <2>1. CASE T!Answered(o) /\ UNCHANGED keys
    BY <1>0, <1>k, <2>1, AnsweredShape, Assembled
  <2>2. CASE ~T!Exists(k)
    <3> DEFINE row == IF asking[o].op = "createInline" THEN T!Inline(T!Sent)
                      ELSE T!JwksUrl(asking[o].arg)
    <3>1. keys' = [keys EXCEPT ![k] = row] /\ T!Refresh(o, k, keys')
      BY <1>1, <2>2 DEF T!Create
    <3>2. asking[o].op = "createInline" \/ asking[o].op = "createUrl"
      BY <1>1 DEF T!Create, T!Asked
    <3>3. row \in Rows /\ (row.kind = "jwks_url" => row.url \in Urls)
      BY <1>0, <3>2, NewRowIs
    <3> HIDE DEF row
    <3>4. RowsShape
      BY <1>0, <3>1, <3>3, OneRow
    <3> QED BY <1>0, <3>1, <3>4, RefreshShape, Assembled
  <2> QED BY <1>1, <2>1, <2>2 DEF T!Create
<1>2. CASE T!Update(o)
  <2>1. CASE T!Asked(o, "patchMaterial") /\ T!Answered(o)
             /\ keys' = IF T!Exists(k) THEN [keys EXCEPT ![k].mat = T!Sent] ELSE keys
    <3>1. RowsShape
      BY <1>0, <1>k, <2>1, FieldShape, NewRowIs DEF T!Exists
    <3> QED BY <1>0, <2>1, <3>1, AnsweredShape, Assembled
  <2>2. CASE T!Asked(o, "patchUrl") /\ T!Refresh(o, k, keys')
             /\ keys' = IF T!Exists(k) THEN [keys EXCEPT ![k].url = asking[o].arg] ELSE keys
    <3>1. asking[o].arg \in Urls
      BY <1>0, <2>2 DEF T!Asked
    <3>2. RowsShape
      BY <1>0, <1>k, <2>2, <3>1, FieldShape DEF T!Exists
    <3> QED BY <1>0, <2>2, <3>2, RefreshShape, Assembled
  <2> QED BY <1>2, <2>1, <2>2 DEF T!Update
<1>3. CASE T!Revoke(o)
  <2>1. RowsShape
    BY <1>0, <1>3, <1>k, FieldShape DEF T!Revoke, T!Exists
  <2> QED BY <1>0, <1>3, <2>1, AnsweredShape, Assembled DEF T!Revoke
<1>4. CASE T!RefreshNow(o)
  BY <1>0, <1>4, <1>k, RefreshShape, Assembled DEF T!RefreshNow
<1> QED BY <1>1, <1>2, <1>3, <1>4 DEF T!Answers

LEMMA FetchShape ==
  ASSUME TrustShape, NEW w \in T!Workers, T!Served(w) \/ T!FetchWrites(w) \/ T!FetchFails(w)
  PROVE  TrustShape'
<1>0. fetching[w] \in Fetches /\ fetching[w].kid \in Kids
  BY DEF T!Served, T!FetchWrites, T!FetchFails, TrustShape, Fetches
<1>1. CASE T!Served(w)
  <2> DEFINE new == [fetching[w] EXCEPT !.got = served[fetching[w].url]]
  <2>1. new \in Fetches
    BY <1>0 DEF Fetches, TrustShape
  <2>2. fetching' = [fetching EXCEPT ![w] = new] /\ UNCHANGED <<keys, served, asking, edits, rotations>>
    BY <1>1 DEF T!Served, T!tkCounts
  <2> HIDE DEF new
  <2>3. fetching' \in [T!Workers -> {None} \cup Fetches]
    BY <2>1, <2>2 DEF TrustShape
  <2> QED BY <2>2, <2>3 DEF TrustShape
<1>2. CASE T!FetchWrites(w)
  <2>1. fetching[w].got \in T!Materials
    BY <1>0, <1>2 DEF T!FetchWrites, Fetches
  <2> QED BY <1>0, <1>2, <2>1, TouchShape, ReleaseShape, Assembled DEF T!FetchWrites, T!tkCounts
<1>3. CASE T!FetchFails(w)
  <2>1. RowsShape
    <3>1. CASE UNCHANGED keys
      BY <3>1 DEF TrustShape, RowsShape
    <3>2. CASE T!Exists(fetching[w].kid) /\ keys' = [keys EXCEPT ![fetching[w].kid].due = FALSE]
      BY <1>0, <3>2, FieldShape DEF T!Exists
    <3> QED BY <1>3, <3>1, <3>2 DEF T!FetchFails, T!RecordTrustKeyJwksError
  <2> QED BY <1>3, <2>1, ReleaseShape, Assembled DEF T!FetchFails
<1> QED BY <1>1, <1>2, <1>3

LEMMA TrustShapeStep == ASSUME TrustShape, [T!Next]_(T!tkVars) PROVE TrustShape'
<1>1. CASE UNCHANGED T!tkVars
  BY <1>1 DEF TrustShape, T!tkVars, T!tkCounts
<1>2. CASE \E k \in Kids : T!Tick(k)
  <2>1. PICK k \in Kids : T!Tick(k)
    BY <1>2
  <2>2. T!Fetch(k, keys[k].url) \in Fetches /\ T!Ticker \in T!Workers
    BY <2>1, FetchIs DEF T!Tick, T!Exists, TrustShape, T!Workers
  <2> QED BY <2>1, <2>2 DEF T!Tick, T!tkCounts, TrustShape
<1>3. CASE \E k \in Kids : T!Expires(k)
  <2>1. PICK k \in Kids : T!Expires(k)
    BY <1>3
  <2>2. RowsShape
    BY <2>1, FieldShape DEF T!Expires, T!Exists
  <2> QED BY <2>1, <2>2 DEF T!Expires, T!tkCounts, TrustShape, RowsShape
<1>4. CASE \E k \in Kids : T!Delete(k)
  <2>1. PICK k \in Kids : T!Delete(k)
    BY <1>4
  <2>2. RowsShape
    BY <2>1, OneRow DEF T!Delete
  <2>3. edits' \in 0..MaxEdits
    BY <2>1, KeysAssumption DEF T!Delete, T!TrustKeysAssumption, TrustShape
  <2> QED BY <2>1, <2>2, <2>3 DEF T!Delete, TrustShape, RowsShape
<1>5. CASE \E u \in Urls : T!Rotates(u)
  <2>1. PICK u \in Urls : T!Rotates(u)
    BY <1>5
  <2>2. rotations' \in 0..MaxRotations /\ rotations + 1 \in 0..MaxRotations
    BY <2>1, KeysAssumption DEF T!Rotates, T!TrustKeysAssumption, TrustShape
  <2>3. <<u, rotations + 1>> \in T!Materials
    BY <2>2 DEF T!Materials
  <2>4. served' \in [Urls -> T!Materials]
    BY <2>1, <2>3 DEF T!Rotates, TrustShape
  <2> QED BY <2>1, <2>2, <2>4 DEF T!Rotates, TrustShape
<1>6. CASE T!Dies
  BY <1>6 DEF T!Dies, TrustShape
<1> QED BY <1>1, <1>2, <1>3, <1>4, <1>5, <1>6, AskShape, AnswersShape, FetchShape DEF T!Next

\* Every part of the state keeps its shape, with any number of rotations and
\* refreshes at once: a step that writes, signs or caches a version of the key has
\* one that Vault issued, and what is fetched is a URL.
THEOREM KeysTypeCorrect == Spec => []TypeOK
<1>1. Init => PlatformShape /\ TrustShape
  BY PartsBegin, InitPlatformShape, InitTrustShape
<1>2. PlatformShape /\ TrustShape /\ [Next]_all => (PlatformShape /\ TrustShape)'
  BY PartsMove, PlatformShapeStep, TrustShapeStep
<1>3. PlatformShape /\ TrustShape => TypeOK
  <2>1. TrustShape => T!TypeOK
    BY DEF TrustShape, T!TypeOK, Rows, Fetches
  <2> QED BY <2>1 DEF TypeOK, PlatformShape
<1> QED BY <1>1, <1>2, <1>3, PTL DEF Spec

=============================================================================
