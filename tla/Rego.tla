------------------------------- MODULE Rego -------------------------------
(***************************************************************************)
(* What the rules of a policy specification mean once regoCompiler.js has  *)
(* compiled them and OPA evaluates them, and which input paths             *)
(* policyIndex.js says they read.  A specification is data: a rule is a    *)
(* sequence of branches (alternatives), a branch a sequence of groups (all *)
(* must hold), a group a sequence of conditions, and a condition a record. *)
(*                                                                         *)
(* An input maps dotted paths, without their leading "input.", to values.  *)
(* A path outside its domain is undefined, and in Rego a condition over an *)
(* undefined value simply does not hold while its negation does.  Values   *)
(* have the type the policy expects; null is the string "null".  The names *)
(* of the rules evaluated so far live beside the input in one function.    *)
(***************************************************************************)
EXTENDS Integers, Sequences, SequencesExt, TLC

CONSTANTS Now,   \* the PDP's clock
          Keys   \* the kids published at data.studio.keys

(* --- Conditions ------------------------------------------------------- *)
\* A standard condition; local when left is no input path (an element, a rule).
Cond(left, op, right, ref, local) ==
    [type |-> "std", left |-> left, op |-> op, right |-> right,
     ref |-> ref, local |-> local, negate |-> FALSE]
Not(c) == [c EXCEPT !.negate = ~@]

Is(p, v)      == Cond(p, "==", v, FALSE, FALSE)
IsNot(p, v)   == Cond(p, "!=", v, FALSE, FALSE)
AtMost(p, n)  == Cond(p, "<=", n, FALSE, FALSE)
AtLeast(p, n) == Cond(p, ">=", n, FALSE, FALSE)
Over(p, n)    == Cond(p, ">", n, FALSE, FALSE)
Under(p, n)   == Cond(p, "<", n, FALSE, FALSE)
OneOf(p, S)   == Cond(p, "in", S, FALSE, FALSE)
Has(p)        == Cond(p, "exists", 0, FALSE, FALSE)
IsType(p)     == Cond(p, "is_type", 0, FALSE, FALSE)
Same(p, q)    == Cond(p, "==", q, TRUE, FALSE)
Differ(p, q)  == Cond(p, "!=", q, TRUE, FALSE)
UpTo(p, q)    == Cond(p, "<=", q, TRUE, FALSE)
NoLess(p, q)  == Cond(p, ">=", q, TRUE, FALSE)
Below(p, q)   == Cond(p, "<", q, TRUE, FALSE)
Above(p, q)   == Cond(p, ">", q, TRUE, FALSE)
Listed(p, q)  == Cond(p, "in", q, TRUE, FALSE)
\* The same over the element of a filter or of an "every", or over a rule.
ItIs(p, v)     == Cond(p, "==", v, FALSE, TRUE)
ItIsNot(p, v)  == Cond(p, "!=", v, FALSE, TRUE)
ItIsOver(p, n) == Cond(p, ">", n, FALSE, TRUE)
ItDiffers(p, q) == Cond(p, "!=", q, TRUE, TRUE)
ItIsUpTo(p, q) == Cond(p, "<=", q, TRUE, TRUE)

\* The advanced kinds of condition, by their condType.
Tally(fn, coll, filter, op, right, ref) ==
    [type |-> "aggregate", fn |-> fn, collection |-> coll, filter |-> filter,
     op |-> op, right |-> right, ref |-> ref]
Every(coll, conds) == [type |-> "every", collection |-> coll, conditions |-> conds]
NoneIn(rule) == [type |-> "arith", expr |-> "count", args |-> <<rule>>, op |-> "==",
                 right |-> 0, ref |-> FALSE, paths |-> {}]
Arith(expr, args, op, right, ref) ==
    [type |-> "arith", expr |-> expr, args |-> args, op |-> op, right |-> right,
     ref |-> ref, paths |-> ToSet(args)]
Clock(builtin, arg, op, right, ref) ==
    [type |-> "builtin_left", builtin |-> builtin, arg |-> arg, op |-> op,
     right |-> right, ref |-> ref]
ObjectGet(obj, left, default, op, right, ref) ==
    [type |-> "object_get", obj |-> obj, left |-> left, default |-> default,
     op |-> op, right |-> right, ref |-> ref]
Verify(refs, selector, dynamic) ==
    [type |-> "verify", refs |-> refs, selector |-> selector, dynamic |-> dynamic]
\* Raw Rego, named for what its text does; paths are the input.a.b it spells out.
Raw(does, args, paths) == [type |-> "raw", does |-> does, args |-> args, paths |-> paths]
NotAString(p) == Raw("not_string", <<p>>, {})
NotTyped(p)   == Raw("not_typed", <<p>>, {})

(* --- Groups, branches and rules --------------------------------------- *)
AllOf(conds) == [mode |-> "and", conds |-> conds]
AnyOf(conds) == [mode |-> "or", conds |-> conds]
When(groups) == [value |-> "", groups |-> groups]
\* A branch with legacy flat conditions is one AND group (getGroups).
If(conds) == When(<<AllOf(conds)>>)
Flag(value, conds) == [If(conds) EXCEPT !.value = value]
Malformed(conds) == [k \in DOMAIN conds |-> Flag("malformed_request", <<conds[k]>>)]

Decide(name, default, branches) ==
    [name |-> name, kind |-> "boolean", default |-> default, branches |-> branches]
Allow(branches) == Decide("allow", FALSE, branches)
Collect(name, branches) ==
    [name |-> name, kind |-> "partial_set", default |-> {}, branches |-> branches]
AllowUnless(rule) == Allow(<<If(<<NoneIn(rule)>>)>>)
\* A result_object rule bundles the verdict and the reasons.
Bundle(reasons) ==
    [name |-> "result", kind |-> "result_object", default |-> reasons, branches |-> <<>>]

(* --- Sample inputs: a field's sample value, then others to try --------- *)
Yes(p) == p :> <<TRUE, FALSE>>
No(p) == p :> <<FALSE, TRUE>>
Text(p, s) == p :> <<s, "other">>
In(p, values) == p :> values

(* --- What the compiled text evaluates to ------------------------------ *)
Compare(a, op, b) ==
    CASE op = "==" -> a = b
      [] op = "!=" -> a # b
      [] op = "<"  -> a < b
      [] op = "<=" -> a <= b
      [] op = ">"  -> a > b
      [] op = ">=" -> a >= b
      [] op = "in" -> a \in b

\* lower(), net.cidr_contains(), time.weekday(), the address formats of the
\* chains and io.jwt.decode(), over the few values the inputs take.
Lower(s) == IF s = "ETH" THEN "eth" ELSE s
InNetwork == {<<"10.1.2.3", "10.0.0.0/8">>, <<"172.16.9.1", "172.16.0.0/12">>}
Days == <<"Thursday", "Friday", "Saturday", "Sunday", "Monday", "Tuesday", "Wednesday">>
Weekday(day) == Days[(day % 7) + 1]
HexAddress == {"0xfeed"}
Formats == [ethereum |-> HexAddress, polygon |-> HexAddress,
            bitcoin |-> {"bc1feed"}, solana |-> {"so1feed"}]
TokenSubject == [t1 |-> "usr-001", t2 |-> "usr-002"]
TokenExpiry  == [t1 |-> Now + 1, t2 |-> Now - 1]

Defined(env, p) == p \in DOMAIN env
RightDefined(c, env) == c.ref => Defined(env, c.right)
Right(c, env) == IF c.ref THEN env[c.right] ELSE c.right

\* renderCondition: the operators of a standard condition, then its negation.
\* A field the templates test with "exists" is never the boolean false.
Standard(c, env) ==
    LET holds ==
          /\ Defined(env, c.left)
          /\ RightDefined(c, env)
          /\ LET v == env[c.left]
             IN CASE c.op = "exists"        -> TRUE
                  [] c.op = "is_type"       -> TRUE
                  [] c.op = "lower_eq"      -> Lower(v) = c.right
                  [] c.op = "cidr_contains" -> <<v, c.right>> \in InNetwork
                  [] OTHER -> Compare(v, c.op, Right(c, env))
    IN IF c.negate THEN ~holds ELSE holds

\* The fields of an element, or what is known already, before what is behind it.
Before(front, env) ==
    [p \in DOMAIN front \cup DOMAIN env |-> IF p \in DOMAIN front THEN front[p] ELSE env[p]]

AllStandard(conds, env) == \A k \in DOMAIN conds : Standard(conds[k], env)

\* renderAggregateCondition: with a filter the collection becomes a
\* comprehension, which is empty when the collection is undefined; without
\* one an undefined collection leaves the whole condition undefined.
Elements(c, env) == IF Defined(env, c.collection) THEN env[c.collection] ELSE <<>>
Filtered(c, env) ==
    {k \in DOMAIN Elements(c, env) : AllStandard(c.filter, Before(Elements(c, env)[k], env))}
SumOver(seq, ks) == MapThenSumSet(LAMBDA k : seq[k], ks)
Aggregate(c, env) ==
    /\ c.filter = <<>> => Defined(env, c.collection)
    /\ RightDefined(c, env)
    /\ Compare(IF c.fn = "count" THEN Cardinality(Filtered(c, env))
               ELSE SumOver(Elements(c, env), Filtered(c, env)),
               c.op, Right(c, env))

\* renderEveryCondition: an undefined collection does not hold.
Universal(c, env) ==
    /\ Defined(env, c.collection)
    /\ \A k \in DOMAIN env[c.collection] :
          AllStandard(c.conditions, Before(env[c.collection][k], env))

\* renderArithCondition over the expressions the templates use: the size of a
\* partial set, a fee, the time since a field, the length of a field (which
\* stands for the field).
Arithmetic(c, env) ==
    /\ \A k \in DOMAIN c.args : Defined(env, c.args[k])
    /\ RightDefined(c, env)
    /\ IF c.expr = "count" THEN env[c.args[1]] = {}
       ELSE IF c.expr = "fee"   \* amount * rate_bps / 10000, without the fraction
       THEN Compare(env[c.args[1]] * env[c.args[2]], c.op, 10000 * Right(c, env))
       ELSE Compare(IF c.expr = "since" THEN Now - env[c.args[1]] ELSE env[c.args[1]],
                    c.op, Right(c, env))

\* renderBuiltinLeftCondition: time.now_ns() and time.weekday(arg).
BuiltinLeft(c, env) ==
    /\ c.builtin # "time.now_ns" => Defined(env, c.arg)
    /\ RightDefined(c, env)
    /\ LET value == IF c.builtin = "time.now_ns" THEN Now ELSE Weekday(env[c.arg])
       IN Compare(value, c.op, Right(c, env))

\* renderObjectGetCondition: the default stands in for an absent key.
Optional(c, env) ==
    /\ Defined(env, c.obj)
    /\ RightDefined(c, env)
    /\ Compare(IF Defined(env, c.left) THEN env[c.left] ELSE c.default,
               c.op, Right(c, env))

\* renderVerifyJwt and renderVerifyRaw: the key is data.studio.keys[selector],
\* a literal kid or an input path; an absent key leaves the call undefined.
\* A token or a signature is named by the kid whose key made it.
Verified(c, env) ==
    /\ \A k \in DOMAIN c.refs : Defined(env, c.refs[k])
    /\ c.dynamic => Defined(env, c.selector)
    /\ LET kid == IF c.dynamic THEN env[c.selector] ELSE c.selector
       IN kid \in Keys /\ env[c.refs[Len(c.refs)]] = kid

\* renderRawCondition: the text goes out as it is.  Its comprehensions are
\* empty over an undefined collection.
Approved(items) ==
    {k \in DOMAIN items : Standard(ItIs("item.decision", "approve"), items[k])}
Approvers(items) ==
    {items[k]["item.approver_user_id"] : k \in
       {j \in Approved(items) : Defined(items[j], "item.approver_user_id")}}
RawHolds(c, env) ==
    LET a == c.args
        Coll(p) == IF Defined(env, p) THEN env[p] ELSE {}
        items == IF Defined(env, a[1]) THEN env[a[1]] ELSE <<>>
    IN CASE c.does = "not_string" -> Defined(env, a[1]) => env[a[1]] = "null"
         [] c.does = "not_typed"  -> ~Defined(env, a[1])
         [] c.does = "overlap"    -> Coll(a[1]) \cap Coll(a[2]) # {}
         [] c.does = "disjoint"   -> Coll(a[1]) \cap Coll(a[2]) = {}
         [] c.does = "overlap_with" -> Coll(a[1]) \cap a[2] # {}
         [] c.does = "member"     -> a[2] \in Coll(a[1])
         [] c.does = "duplicates" -> Cardinality(Approved(items)) # Cardinality(Approvers(items))
         [] c.does = "prior"      -> Approvers(items) \cap Coll(a[2]) # {}
         [] c.does = "chain"      ->
               /\ Defined(env, a[1]) /\ env[a[1]] = a[3]
               /\ Defined(env, a[2]) /\ env[a[2]] \in Formats[a[3]]
         [] c.does = "jwt"        ->
               /\ Defined(env, a[1]) /\ Defined(env, a[2])
               /\ TokenSubject[env[a[1]]] = env[a[2]] /\ TokenExpiry[env[a[1]]] > Now

\* renderConditionByType.
Holds(c, env) ==
    CASE c.type = "std"          -> Standard(c, env)
      [] c.type = "aggregate"    -> Aggregate(c, env)
      [] c.type = "every"        -> Universal(c, env)
      [] c.type = "arith"        -> Arithmetic(c, env)
      [] c.type = "builtin_left" -> BuiltinLeft(c, env)
      [] c.type = "object_get"   -> Optional(c, env)
      [] c.type = "verify"       -> Verified(c, env)
      [] c.type = "raw"          -> RawHolds(c, env)

\* renderBranch and renderHelpers: an empty group is left out, an OR group of
\* several conditions becomes a helper with one head per condition.
GroupHolds(g, env) ==
    IF g.mode = "or" /\ Len(g.conds) > 1
    THEN \E k \in DOMAIN g.conds : Holds(g.conds[k], env)
    ELSE \A k \in DOMAIN g.conds : Holds(g.conds[k], env)
BranchHolds(b, env) == \A k \in DOMAIN b.groups : GroupHolds(b.groups[k], env)

\* renderRule and renderResultObjectRule: heads of one name are alternatives.
RuleValue(r, env) ==
    LET true == {k \in DOMAIN r.branches : BranchHolds(r.branches[k], env)}
    IN CASE r.kind = "partial_set"   -> {r.branches[k].value : k \in true}
         [] r.kind = "result_object" -> [allow |-> env["allow"],
                                         rejection_reasons |-> env[r.default]]
         [] OTHER -> IF true # {} THEN TRUE ELSE r.default

\* compile: the document of a policy, a rule after the rules it refers to.
With(env, r) == Before(env, [name \in {r.name} |-> RuleValue(r, env)])
Stages(rules, input) ==
    LET doc[k \in 0..Len(rules)] == IF k = 0 THEN input ELSE With(doc[k - 1], rules[k]) IN doc
Document(rules, input) == Stages(rules, input)[Len(rules)]

(* --- policyIndex.js and the PEP's /discover --------------------------- *)
\* collectFromCondition.  A filter and the body of an "every" are standard
\* conditions; a reference to an element or to a rule is no input path.
StandardPaths(c) == (IF c.local THEN {} ELSE {c.left}) \cup (IF c.ref THEN {c.right} ELSE {})
BodyPaths(conds) == UNION {StandardPaths(conds[k]) : k \in DOMAIN conds}
RightPath(c) == IF c.ref THEN {c.right} ELSE {}
CondPaths(c) ==
    CASE c.type = "std"          -> StandardPaths(c)
      [] c.type = "aggregate"    -> {c.collection} \cup BodyPaths(c.filter) \cup RightPath(c)
      [] c.type = "every"        -> {c.collection} \cup BodyPaths(c.conditions)
      [] c.type = "arith"        -> c.paths \cup RightPath(c)
      [] c.type = "builtin_left" -> (IF c.arg = "" THEN {} ELSE {c.arg}) \cup RightPath(c)
      [] c.type = "object_get"   -> {c.obj} \cup RightPath(c)
      [] c.type = "verify"       -> ToSet(c.refs) \cup (IF c.dynamic THEN {c.selector} ELSE {})
      [] c.type = "raw"          -> c.paths
\* collectFromBranch and extractInputPaths.
BranchPaths(b) ==
    UNION {UNION {CondPaths(b.groups[g].conds[k]) : k \in DOMAIN b.groups[g].conds} :
             g \in DOMAIN b.groups}
RequiredPaths(rules) ==
    UNION {UNION {BranchPaths(rules[r].branches[b]) : b \in DOMAIN rules[r].branches} :
             r \in DOMAIN rules}

\* /discover in strict mode lists a policy when the input has all its paths,
\* in score mode when it has one of them or the policy needs none.
\* Mutant: strict asks for one of the paths, as score mode does.
StrictLists_Any(required, input) == required = {} \/ required \cap DOMAIN input # {}
StrictLists(required, input) == required \subseteq DOMAIN input
ScoreLists(required, input) == required = {} \/ required \cap DOMAIN input # {}
============================================================================
