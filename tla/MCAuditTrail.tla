---------------------------- MODULE MCAuditTrail ----------------------------
(***************************************************************************)
(* Several instances of AuditChain in one run, chosen at the start:        *)
(* requests that overlap while no user is deleted, requests one at a time  *)
(* that create and delete any user (without one of these two restrictions  *)
(* the studio can lose its last user: run SecondGenesis), and requests     *)
(* that overlap on a record and a row of one of the other kinds.           *)
(***************************************************************************)
EXTENDS MCAuditChain

VARIABLE part

\* A user who is there holds one content, and one who is gone is not updated:
\* the instances about other rows see to these.
Plain == CHOOSE c \in Contents : TRUE

\* The rows that the requests of an instance are about, and the requests.
InPlay ==
  [overlapping |-> Admins, single |-> Admins, tags |-> Records \cup TagLists,
   unimaged |-> Records \cup Unimaged, refreshed |-> Refreshed]

Asked ==
  [p \in DOMAIN InPlay |->
    {o \in Operation :
       /\ o.row \in InPlay[p] /\ o.after \in {Plain, Absent, Refetch}
       /\ p # "single" => o.actor = Root /\ ~IsUserDelete(o)}]

OnUsers == InPlay[part] = Admins

PlainUsers ==
  /\ \A a \in Admins : data[a] \in {Plain, Absent}
  /\ \A q \in Requests : pc[q] = "appended" => entry[q].payload.after = op[q].after
  /\ \A r \in Replicas : genesis[r] # NoRow => genesis[r].payload.after = Plain

\* Two requests of the root user, a rotation of the KMS key, three rows of log.
\* A KMS that does not answer at a boot is seen in the instance of single requests.
Overlapping ==
  /\ PlainUsers' /\ nextSeq' < MaxSeq + 1
  /\ \A r \in Replicas : boot[r] = "down" /\ chainBroken'[r] => ~Reconciles

\* One request of anybody, one replica, one version of the key.
OneAtATime ==
  /\ PlainUsers'
  /\ Cardinality({r \in Replicas : boot'[r] # "down"}) <= 1
  /\ \A p, q \in Requests : pc'[p] # "idle" /\ pc'[q] # "idle" => p = q
  /\ kmsVersion' = kmsVersion

\* Two requests about a record and its tags, a record and a row without image,
\* or a key that is refreshed, on one replica of a deployment that is being
\* upgraded.  A request passes the gate in one go, and they overlap from there.
OtherKinds ==
  /\ \A q \in Requests :
       pc[q] \in {"gate", "walked", "mismatch", "admitted"} => pc'[q] # pc[q]
  /\ Cardinality({r \in Replicas : boot'[r] # "down"}) <= 1
  /\ \A r \in Replicas : ~chainBroken'[r] /\ (boot[r] # "down" => boot'[r] # "down")
  /\ kmsVersion' = kmsVersion
  /\ nextSeq' < MaxSeq + 1

MCInit ==
  /\ Init
  /\ part \in DOMAIN InPlay
  /\ \A x \in Rows \ (Admins \cup InPlay[part]) : data[x] = Absent
  /\ IF OnUsers
     THEN PlainUsers
     ELSE /\ \A a \in Admins : data[a] = IF a = Root THEN Plain ELSE Absent
          /\ \A x \in (TagLists \cup Unimaged) \cap InPlay[part] : data[x] = data[Owner[x]]
          /\ \A x \in Rows : data[x] \in {Plain, Absent}

\* Next, for the requests of the instance.
Steps ==
  \/ \E q \in Requests, o \in Asked[part] : Arrive(q, o)
  \/ \E q \in Requests : RequestStep(q) \/ Abandon(q)
  \/ \E r \in Replicas : BootStep(r) \/ GenesisFails(r) \/ Crash(r)
  \/ \E x \in Refreshed : RefreshJwks(x)
  \/ RotateKmsKey

MCNext ==
  /\ Steps
  /\ part = "overlapping" => Overlapping
  /\ part = "single" => OneAtATime
  /\ ~OnUsers => OtherKinds
  /\ UNCHANGED part

MCSpec == MCInit /\ [][MCNext]_<<vars, part>>
==============================================================================
