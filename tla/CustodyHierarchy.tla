-------------------------- MODULE CustodyHierarchy --------------------------
(***************************************************************************)
(* The policy templates of templates/custodyHierarchy.js: the gates of the *)
(* onboarding hierarchy, the approval quorums and the withdrawal flow.     *)
(* Times are in seconds, an address is named for its format and a reason   *)
(* is its length.                                                          *)
(***************************************************************************)
EXTENDS Rego

Jurisdictions == {"US-DE", "US-NY", "UK", "SG", "CH", "AE"}
PlatformAdmin == <<Is("actor.platform_role", "platform_admin"), Is("actor.mfa_verified", TRUE)>>

OnboardingRequest ==
    <<Allow(<<If(PlatformAdmin \o
                 <<Has("request.legal_entity.name"),
                   OneOf("request.legal_entity.jurisdiction", Jurisdictions),
                   Has("request.business_unit.name"), Has("request.portfolio.name"),
                   Has("request.vault.name"), Has("request.wallet.chain"),
                   AtLeast("request.quorum_m", 1), AtMost("request.quorum_m", 7),
                   Tally("count", "request.vault.whitelist", <<>>, "<=", 100, FALSE)>>)>>)>>

\* The branches the two quorums share; an approval is an element with a
\* decision, an approver, the approver's role and whether MFA was completed.
Approve == ItIs("item.decision", "approve")
Approvals(filter, op, right, ref) ==
    Tally("count", "request.approvals", filter, op, right, ref)
QuorumViolations(role) ==
    <<Flag("quorum_below_threshold",
           <<Approvals(<<Approve, ItDiffers("item.approver_user_id", "request.requester_user_id")>>,
                       "<", "request.quorum_m", TRUE)>>),
      Flag("approver_missing_mfa",
           <<Approvals(<<Approve, ItIsNot("item.approver_mfa", TRUE)>>, ">", 0, FALSE)>>),
      Flag("approver_wrong_role",
           <<Approvals(<<Approve, ItIsNot("item.approver_role", role)>>, ">", 0, FALSE)>>),
      Flag("duplicate_approver",
           <<Raw("duplicates", <<"request.approvals">>, {"request.approvals"})>>),
      Flag("explicit_reject_present",
           <<Approvals(<<ItIs("item.decision", "reject")>>, ">", 0, FALSE)>>)>>

OnboardingQuorum ==
    <<Collect("violations",
        Malformed(<<NotTyped("request.quorum_m"), NotTyped("request.approvals"),
                    NotAString("request.requester_user_id"),
                    NotTyped("request.prior_level_approvers")>>)
        \o QuorumViolations("onboarding_approver") \o
        <<Flag("cross_level_approval",
               <<Raw("prior", <<"request.approvals", "request.prior_level_approvers">>,
                     {"request.approvals", "request.prior_level_approvers"})>>)>>),
      AllowUnless("violations"), Bundle("violations")>>

LegalEntityCreate ==
    <<Allow(<<If(PlatformAdmin \o
                 <<Is("request.status", "approved"),
                   OneOf("request.legal_entity.jurisdiction", Jurisdictions),
                   Has("request.legal_entity.name")>>)>>)>>

BusinessUnitCreate ==
    <<Allow(<<If(<<Is("actor.legal_entity_role", "org_admin"), Is("legal_entity.active", TRUE),
                   OneOf("business_unit.kind", {"retail", "institutional", "prop_trading", "ops"}),
                   Has("business_unit.name")>>)>>)>>

PortfolioCreate ==
    <<Allow(<<If(<<Is("actor.business_unit_role", "bu_admin"), Is("business_unit.active", TRUE),
                   OneOf("portfolio.kind", {"fund", "client_account", "internal"}),
                   Has("portfolio.beneficial_owner"), Has("portfolio.name")>>)>>)>>

VaultCreate ==
    <<Allow(<<If(<<Is("actor.portfolio_role", "portfolio_admin"), Is("actor.mfa_verified", TRUE),
                   AtLeast("vault.quorum_m", 1), AtLeast("vault.quorum_n", 2),
                   AtMost("vault.quorum_n", 7), UpTo("vault.quorum_m", "vault.quorum_n"),
                   AtMost("vault.daily_limit_usd", 10000000),
                   Tally("count", "vault.whitelist", <<>>, ">=", 1, FALSE)>>)>>)>>

\* The helper rule of the two wallet gates: one branch for each chain.
Chains == <<"ethereum", "bitcoin", "solana", "polygon">>
ChainAddrValid(chain, address) ==
    Decide("chain_addr_valid", FALSE,
           [k \in DOMAIN Chains |-> If(<<Raw("chain", <<chain, address, Chains[k]>>,
                                             {chain, address})>>)])

WalletCreate ==
    <<ChainAddrValid("wallet.chain", "wallet.address"),
      Allow(<<If(<<Is("actor.vault_role", "vault_admin"), OneOf("wallet.chain", ToSet(Chains)),
                   ItIs("chain_addr_valid", TRUE)>>)>>)>>

\* Mutant: only the actor is checked.
WithdrawalMalformed_Actor ==
    Malformed(<<NotAString("actor.vault_role"), NotTyped("actor.mfa_verified")>>)
WithdrawalMalformed ==
    Malformed(<<NotAString("actor.vault_role"), NotTyped("actor.mfa_verified"),
                NotTyped("request.amount"), NotAString("request.destination_address"),
                NotAString("request.chain"), NotTyped("vault.daily_limit_usd"),
                NotTyped("vault.whitelist_addresses"), NotTyped("vault.last_withdrawal_at_ns")>>)
WithdrawalViolations ==
    <<Flag("not_vault_admin", <<IsNot("actor.vault_role", "vault_admin")>>),
      Flag("missing_mfa", <<IsNot("actor.mfa_verified", TRUE)>>),
      Flag("amount_invalid", <<AtMost("request.amount", 0)>>),
      Flag("amount_exceeds_limit", <<Above("request.amount", "vault.daily_limit_usd")>>),
      Flag("address_not_whitelisted",
           <<Not(Listed("request.destination_address", "vault.whitelist_addresses"))>>),
      Flag("timelock_violation",
           <<Arith("since", <<"vault.last_withdrawal_at_ns">>, "<", 60, FALSE)>>),
      Flag("invalid_chain_format", <<ItIsNot("chain_addr_valid", TRUE)>>)>>
WithdrawalRequest ==
    <<ChainAddrValid("request.chain", "request.destination_address"),
      Collect("violations", WithdrawalMalformed \o WithdrawalViolations),
      AllowUnless("violations"), Bundle("violations")>>

WithdrawalQuorum ==
    <<Collect("violations",
        Malformed(<<NotTyped("request.quorum_m"), NotTyped("request.approvals"),
                    NotAString("request.requester_user_id")>>)
        \o QuorumViolations("withdrawal_approver")),
      AllowUnless("violations"), Bundle("violations")>>

WithdrawalExecute ==
    <<Allow(<<If(<<Is("request.status", "approved"),
                   Same("request.amount", "request.approved_amount"),
                   Is("wallet.frozen", FALSE)>>)>>)>>

OverrideMalformed ==
    Malformed(<<NotAString("actor.platform_role"), NotTyped("actor.mfa_verified"),
                NotTyped("request.reason"), NotAString("request.scope"),
                NotTyped("request.duration_seconds"), NotTyped("request.business_hours"),
                NotTyped("request.cosigner_approvals")>>)
OverrideViolations ==
    <<Flag("not_platform_admin", <<IsNot("actor.platform_role", "platform_admin")>>),
      Flag("missing_mfa", <<IsNot("actor.mfa_verified", TRUE)>>),
      Flag("reason_too_short", <<Arith("length", <<"request.reason">>, "<", 20, FALSE)>>),
      Flag("invalid_scope", <<Not(OneOf("request.scope",
               {"vault_unfreeze", "limit_override", "whitelist_emergency_add"}))>>),
      Flag("duration_too_long", <<Over("request.duration_seconds", 600)>>),
      Flag("after_hours_no_cosigner",
           <<Is("request.business_hours", FALSE),
             Tally("count", "request.cosigner_approvals", <<>>, "<", 1, FALSE)>>)>>
EmergencyOverride ==
    <<Collect("violations", OverrideMalformed \o OverrideViolations),
      AllowUnless("violations"), Bundle("violations")>>

(* --- sampleInputs ------------------------------------------------------ *)
Approval(id, role, mfa, decision) ==
    "item.approver_user_id" :> id @@ "item.approver_role" :> role
    @@ "item.approver_mfa" :> mfa @@ "item.decision" :> decision
\* The sample's two approvals, then other lists: with an approval by the
\* requester, one repeated, one without MFA, a rejection, one alone, none.
ApprovalLists(role) ==
    LET by(id) == Approval(id, role, TRUE, "approve")
    IN <<<<by("u-2"), by("u-3")>>, <<by("u-1"), by("u-2")>>, <<by("u-2"), by("u-2")>>,
         <<by("u-2"), Approval("u-3", role, FALSE, "approve")>>,
         <<by("u-2"), by("u-3"), Approval("u-4", role, TRUE, "reject")>>,
         <<by("u-2"), Approval("u-3", "other", TRUE, "approve")>>, <<by("u-2")>>, <<>>>>

CustodyInputs ==
    "custody-onboarding-request" :> (Text("actor.platform_role", "platform_admin")
        @@ Yes("actor.mfa_verified") @@ Text("request.legal_entity.name", "Aristo Capital LLC")
        @@ Text("request.legal_entity.jurisdiction", "US-DE")
        @@ Text("request.business_unit.name", "Prop Desk")
        @@ Text("request.portfolio.name", "Flagship Fund")
        @@ Text("request.vault.name", "Cold Vault A") @@ In("request.vault.whitelist", <<<<"0xfeed">>>>)
        @@ Text("request.wallet.chain", "ethereum") @@ In("request.quorum_m", <<2, 0, 8>>)) @@
    "custody-onboarding-quorum" :> (In("request.quorum_m", <<2, 1, 3>>)
        @@ In("request.requester_user_id", <<"u-1", "u-2", "null">>)
        @@ In("request.prior_level_approvers", <<{}, {"u-2"}>>)
        @@ In("request.approvals", ApprovalLists("onboarding_approver"))) @@
    "custody-legal-entity-create" :> (Text("actor.platform_role", "platform_admin")
        @@ Yes("actor.mfa_verified") @@ Text("request.status", "approved")
        @@ Text("request.legal_entity.name", "Aristo Capital LLC")
        @@ Text("request.legal_entity.jurisdiction", "US-DE")) @@
    "custody-business-unit-create" :> (Text("actor.legal_entity_role", "org_admin")
        @@ Yes("legal_entity.active") @@ Text("business_unit.name", "Prop Desk")
        @@ Text("business_unit.kind", "prop_trading")) @@
    "custody-portfolio-create" :> (Text("actor.business_unit_role", "bu_admin")
        @@ Yes("business_unit.active") @@ Text("portfolio.name", "Flagship Fund")
        @@ Text("portfolio.kind", "fund") @@ Text("portfolio.beneficial_owner", "ACME LP")) @@
    "custody-vault-create" :> (Text("actor.portfolio_role", "portfolio_admin")
        @@ Yes("actor.mfa_verified") @@ In("vault.quorum_m", <<2, 0, 4>>)
        @@ In("vault.quorum_n", <<3, 1, 8>>) @@ In("vault.daily_limit_usd", <<1000000, 10000001>>)
        @@ In("vault.whitelist", <<<<"0xfeed">>, <<>>>>)) @@
    "custody-wallet-create" :> (Text("actor.vault_role", "vault_admin")
        @@ In("wallet.chain", <<"ethereum", "bitcoin", "other">>)
        @@ In("wallet.address", <<"0xfeed", "bc1feed">>)) @@
    "custody-withdrawal-request" :> (Text("actor.vault_role", "vault_admin")
        @@ Yes("actor.mfa_verified") @@ In("request.amount", <<500000, 0, 1000001>>)
        @@ In("request.destination_address", <<"0xfeed", "bc1feed", "null">>)
        @@ In("request.chain", <<"ethereum", "bitcoin">>)
        @@ In("vault.daily_limit_usd", <<1000000>>)
        @@ In("vault.whitelist_addresses", <<{"0xfeed"}, {"0xfeed", "bc1feed"}>>)
        @@ In("vault.last_withdrawal_at_ns", <<0, Now - 59>>)) @@
    "custody-withdrawal-quorum" :> (In("request.quorum_m", <<2, 1, 3>>)
        @@ In("request.requester_user_id", <<"u-1", "u-2", "null">>)
        @@ In("request.approvals", ApprovalLists("withdrawal_approver"))) @@
    "custody-withdrawal-execute" :> (Text("request.status", "approved")
        @@ In("request.amount", <<500000, 500001>>) @@ In("request.approved_amount", <<500000>>)
        @@ No("wallet.frozen")) @@
    "custody-emergency-override" :> (Text("actor.platform_role", "platform_admin")
        @@ Yes("actor.mfa_verified") @@ In("request.reason", <<44, 19>>)
        @@ In("request.scope", <<"vault_unfreeze", "other", "null">>)
        @@ In("request.duration_seconds", <<300, 601>>) @@ Yes("request.business_hours")
        @@ In("request.cosigner_approvals", <<<<>>, <<"u-2">>>>))

CustodyTemplates ==
    "custody-onboarding-request" :> OnboardingRequest @@
    "custody-onboarding-quorum" :> OnboardingQuorum @@
    "custody-legal-entity-create" :> LegalEntityCreate @@
    "custody-business-unit-create" :> BusinessUnitCreate @@
    "custody-portfolio-create" :> PortfolioCreate @@
    "custody-vault-create" :> VaultCreate @@
    "custody-wallet-create" :> WalletCreate @@
    "custody-withdrawal-request" :> WithdrawalRequest @@
    "custody-withdrawal-quorum" :> WithdrawalQuorum @@
    "custody-withdrawal-execute" :> WithdrawalExecute @@
    "custody-emergency-override" :> EmergencyOverride
============================================================================
