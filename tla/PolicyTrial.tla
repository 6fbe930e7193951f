---------------------------- MODULE PolicyTrial ----------------------------
(***************************************************************************)
(* Asking a policy made from a template about one input after another: the *)
(* console loads the template with its sample input, the user edits or     *)
(* drops a field, and the PDP answers; the PEP's /discover says which      *)
(* policies an input can be put to.                                        *)
(***************************************************************************)
EXTENDS Rego

CONSTANTS Templates,  \* the rules of each template, by its id
          Samples,    \* per template and field the sample value and others to try
          MaxEdits    \* bounds the edits of one sample input

VARIABLES template,  \* the template's id
          index,     \* the input paths the bundle's policy index gives for it
          body,      \* the input sent
          edits      \* how many edits have been made

vars == <<template, index, body, edits>>

TemplateIds == DOMAIN Templates
Fields(t) == DOMAIN Samples[t]
Values(t, p) == ToSet(Samples[t][p])
Sample(t) == [p \in Fields(t) |-> Samples[t][p][1]]

(* --- What evaluating a policy looks at -------------------------------- *)
\* The names whose value, or whose absence, an evaluation can notice.
StandardReads(c) == {c.left} \cup RightPath(c)
AllReads(conds) == UNION {StandardReads(conds[k]) : k \in DOMAIN conds}
RawReads(c) ==
    {c.args[1]} \cup (IF c.does \in {"overlap", "disjoint", "prior", "chain", "jwt"}
                     THEN {c.args[2]} ELSE {})
CondReads(c) ==
    CASE c.type = "std"          -> StandardReads(c)
      [] c.type = "aggregate"    -> {c.collection} \cup AllReads(c.filter) \cup RightPath(c)
      [] c.type = "every"        -> {c.collection} \cup AllReads(c.conditions)
      [] c.type = "arith"        -> ToSet(c.args) \cup RightPath(c)
      [] c.type = "builtin_left" -> {c.arg} \cup RightPath(c)
      [] c.type = "object_get"   -> {c.obj, c.left} \cup RightPath(c)
      [] c.type = "verify"       -> ToSet(c.refs) \cup (IF c.dynamic THEN {c.selector} ELSE {})
      [] c.type = "raw"          -> RawReads(c)
GroupReads(g) == UNION {CondReads(g.conds[k]) : k \in DOMAIN g.conds}
BranchReads(b) == UNION {GroupReads(b.groups[k]) : k \in DOMAIN b.groups}
RuleReads(r) ==
    (IF r.kind = "result_object" THEN {"allow", r.default} ELSE {})
        \cup UNION {BranchReads(r.branches[k]) : k \in DOMAIN r.branches}
Reads(t) == UNION {RuleReads(Templates[t][k]) : k \in DOMAIN Templates[t]}
RuleNames(t) == {Templates[t][k].name : k \in DOMAIN Templates[t]}

(* --- What the templates are like -------------------------------------- *)
\* A key object_get reads has a default, so it is never required.
HasDefault == {"config.risk_level", "config.max_tx_usd"}

\* The two templates that collect violations without checking that what they
\* compare is there.
Unguarded == {"partial-risk-violations", "partial-batch-validation"}

\* The rules by which a template grants something.
Grants == {"allow", "allow_transfer", "allow_vote"}
Permits(t, input) ==
    LET document == Document(Templates[t], input)
    IN \E g \in Grants \cap DOMAIN document : document[g]

\* A condition is of a kind the compiler knows.  Expressions have their
\* operands, and a verify call the text it verifies.
CondKinds == {"std", "aggregate", "every", "arith", "builtin_left", "object_get", "verify", "raw"}
RawKinds == {"not_string", "not_typed", "overlap", "disjoint", "overlap_with", "member",
             "duplicates", "prior", "chain", "jwt"}
CondWellFormed(c) ==
    /\ c.type \in CondKinds
    /\ c.type = "raw" => c.does \in RawKinds
    /\ c.type = "arith" => 1 \in DOMAIN c.args /\ (c.expr = "fee" => 2 \in DOMAIN c.args)
    /\ c.type = "verify" => Len(c.refs) \in DOMAIN c.refs
\* A result_object bundles rules that come before it.
RuleWellFormed(t, k) ==
    LET r == Templates[t][k]
    IN /\ r.kind = "result_object" =>
            {"allow", r.default} \subseteq {Templates[t][j].name : j \in 1..(k - 1)}
       /\ \A b \in DOMAIN r.branches : \A g \in DOMAIN r.branches[b].groups :
            LET conds == r.branches[b].groups[g].conds
            IN \A n \in DOMAIN conds : CondWellFormed(conds[n])

\* A template and its sample input fit together: the sample has every path that
\* the rules require; a field they look at is required or has a default, and
\* what holds the latter is required; no rule is named like a field; and the
\* empty document is granted nothing, unless nothing is required.
TemplateFits(t) ==
    LET required == RequiredPaths(Templates[t])
    IN /\ Templates[t] \in Seq(ToSet(Templates[t]))
       /\ \A k \in DOMAIN Templates[t] : RuleWellFormed(t, k)
       /\ required \subseteq Fields(t)
       /\ \A p \in Fields(t) : 1 \in DOMAIN Samples[t][p]
       /\ Reads(t) \cap Fields(t) \subseteq required \cup HasDefault
       /\ HasDefault \cap Fields(t) # {} => "config" \in required
       /\ (RuleNames(t) \cup Grants) \cap Fields(t) = {}
       /\ t \in Unguarded \/ required = {} \/ ~Permits(t, << >>)
TrialAssumption ==
    /\ MaxEdits \in Nat
    /\ \A t \in TemplateIds : TemplateFits(t)

\* The sample, or the empty document a caller may send.
Init ==
    /\ template \in TemplateIds
    /\ index = RequiredPaths(Templates[template])
    /\ body \in {Sample(template), << >>}
    /\ edits = 0

\* The fields that lie within an object the input also names.
Inside(p) ==
    IF p = "config" THEN {"config.risk_level", "config.max_tx_usd"}
    ELSE IF p = "metadata" THEN {"metadata.version"} ELSE {}
Around(p) == {q \in Fields(template) : p \in Inside(q)}

Put(p) ==
    /\ Around(p) \subseteq DOMAIN body
    /\ \E v \in Values(template, p) :
         body' = [q \in DOMAIN body \cup {p} |-> IF q = p THEN v ELSE body[q]]
Drop(p) == body' = [q \in DOMAIN body \ ({p} \cup Inside(p)) |-> body[q]]

Step == \/ \E p \in Fields(template) : Put(p)
        \/ \E p \in DOMAIN body : Drop(p)
Next ==
    /\ edits < MaxEdits
    /\ edits' = edits + 1
    /\ UNCHANGED <<template, index>>
    /\ Step

Spec == Init /\ [][Next]_vars
----------------------------------------------------------------------------
\* The input holds fields of the template, each with a value it may take.
TypeOK ==
    /\ template \in TemplateIds
    /\ DOMAIN body \subseteq Fields(template)
    /\ \A p \in DOMAIN body : body[p] \in Values(template, p)
    /\ index \subseteq Fields(template)
    /\ edits \in 0..MaxEdits

\* Taking a field out of an input never turns a refusal into a grant: what a
\* missing field leaves undefined, a malformed_request branch or a positive
\* condition must catch.
DroppingStep ==
    LET dropped == DOMAIN body \ DOMAIN body'
    IN template \notin Unguarded /\ ~(dropped \subseteq HasDefault)
         => (Permits(template, body') => Permits(template, body))
DroppingNeverGrants == [][DroppingStep]_vars

\* The rules' values, without the input beside them.
Answer(t, input) ==
    [r \in RuleNames(t) |-> Document(Templates[t], input)[r]]

\* When /discover lists a policy in strict mode the input has all the policy
\* reads: no field that is still absent could change the answer.
StrictIsComplete ==
    StrictLists(index, body) =>
        \A p \in Fields(template) \ (DOMAIN body \cup HasDefault) :
            \A v \in Values(template, p) :
                Answer(template, Before(body, [q \in {p} |-> v])) = Answer(template, body)

\* A policy that score mode leaves out grants nothing on that input.
HiddenDenies ==
    template \notin Unguarded /\ ~ScoreLists(index, body)
        => ~Permits(template, body)

\* What /discover lists and leaves out agrees with what the PDP would answer.
DiscoverIsHonest == StrictIsComplete /\ HiddenDenies
============================================================================
