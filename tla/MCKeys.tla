------------------------------- MODULE MCKeys -------------------------------
(***************************************************************************)
(* One run for what OPA comes to know: the two kinds of keys and, for the  *)
(* liveness of their distribution, the bundles of policies.  The parts     *)
(* keep no state in common: each behaviour is that of one part, chosen at  *)
(* the start, and the others stand still.                                  *)
(***************************************************************************)
EXTENDS Integers

CONSTANTS
  None,
  Rotators, Revokers, MaxVersion, MaxFaults,
  Kids, Urls, Operators, MaxEdits, MaxRotations, MaxFetchFaults,
  Orgs, Null, Policies, Callers, OrgOf, Regos, NoRego, Handlers, Opas, KeyOf, Builds, WarmsUp,
  Unread, MaxWrites

VARIABLES
  part,
  purpose, vault, status, boot, pointer, pubkeys, broken, rotation, revocation, bundle, builds,
  trusted, token, minting, pepKid, faults,
  keys, served, fetching, asking, edits, rotations, fetchFaults,
  tables, cache, build, building, job, poll, active, excused, revs, buildFaults

P == INSTANCE PlatformKeys
T == INSTANCE TrustKeys
B == INSTANCE BundleCache WITH faults <- buildFaults

ASSUME KeysAssumption == P!KeysAssumption /\ T!TrustKeysAssumption /\ B!BundleAssumption

pVars == <<purpose, vault, status, boot, pointer, pubkeys, broken, rotation, revocation, bundle,
           builds, trusted, token, minting, pepKid, faults>>
tVars == <<keys, served, fetching, asking, edits, rotations, fetchFaults>>
bVars == <<tables, cache, build, building, job, poll, active, excused, revs, buildFaults>>
all == <<part, pVars, tVars, bVars>>

Init ==
  /\ part \in {"platform", "trust", "bundles"}
  /\ P!Init /\ T!Init /\ B!Init
  /\ part # "bundles" => \A p \in Policies : tables.policies[p].rego = NoRego
  /\ part # "platform" => purpose = "pep-opa-auth-signing"

\* Two versions of the session key are enough for what differs between purposes,
\* the place where tokens are verified.
SessionBound == purpose = "session-signing" => vault' <= 2

\* Where the owner of a URL changes its key administrators make two changes: four
\* are for a kid that is revoked, deleted and created anew.
EditBound == rotations' > 0 => edits' <= 2

Next ==
  \/ part = "platform" /\ P!Next /\ SessionBound /\ UNCHANGED <<part, tVars, bVars>>
  \/ part = "trust" /\ T!Next /\ EditBound /\ UNCHANGED <<part, pVars, bVars>>
  \/ part = "bundles" /\ B!Next /\ UNCHANGED <<part, pVars, tVars>>

\* The fairness of each module, for the behaviours of its own part.
Platform(Act) == part = "platform" /\ Act
Trust(Act) == part = "trust" /\ Act
Bundles(Act) == part = "bundles" /\ Act

Fairness ==
  /\ WF_pVars(Platform(P!Boots))
  /\ \A r \in Rotators : WF_pVars(Platform(P!Proceeds(r))) /\ WF_pVars(Platform(P!Ends(r)))
  /\ \A r \in Revokers : WF_pVars(Platform(P!PublishRevocation(r)))
  /\ WF_pVars(Platform(P!Polls))
  /\ \A b \in {"poll", "eager"} : WF_pVars(Platform(P!BuildEnds(b)))
  /\ WF_pVars(Platform(P!Mints)) /\ WF_pVars(Platform(P!TokenExpires))
  /\ \A k \in Kids : WF_tVars(Trust(T!Tick(k))) /\ WF_tVars(Trust(T!Expires(k)))
  /\ \A o \in Operators : WF_tVars(Trust(T!Answers(o)))
  /\ \A w \in T!Workers : WF_tVars(Trust(T!Served(w) \/ T!FetchWrites(w)))
  /\ \A h \in Handlers : WF_bVars(Bundles(B!Invalidate(h)))
  /\ \A b \in Builds : WF_bVars(Bundles(B!BuildStep(b)))
  /\ \A o \in Opas : WF_bVars(Bundles(B!PollStep(o)))

Spec == Init /\ [][Next]_all
FairSpec == Spec /\ Fairness

\* One policy of one organisation, whose replicas poll its bundle.
MCOrgOf == [p \in Policies |-> CHOOSE o \in Orgs : TRUE]
MCKeyOf == [o \in Opas |-> CHOOSE k \in Orgs : TRUE]

-----------------------------------------------------------------------------
\* The shape of the state of the two kinds of keys.
TypeOK == P!TypeOK /\ T!TypeOK

\* Of PlatformKeys.
SigningKeyStaysActive == P!SigningKeyStaysActive
RegisteredKeysVerify == P!RegisteredKeysVerify
OneKeyPending == P!OneKeyPending
TrustRecovers == P!TrustRecovers

\* Of TrustKeys.
InlineIsSent == T!InlineIsSent
RowsHydrate == T!RowsHydrate

\* Of BundleCache.
Converges == \A o \in Opas : <>[](part = "bundles" => B!Converged(o))
FleetAgrees == B!FleetAgrees
EveryPollAnswered == B!EveryPollAnswered
=============================================================================
