--------------------------- MODULE DigitalAssets ---------------------------
(***************************************************************************)
(* The policy templates of templates/digitalAssets.js, as the rules the    *)
(* compiler is given.  Ratios are in hundredths, names and descriptions    *)
(* are left out, and "input." is left out of the paths.                    *)
(***************************************************************************)
EXTENDS Rego

KycAmlBaseline ==
    <<Allow(<<If(<<Is("user.kyc_status", "verified"), Is("user.sanctioned", FALSE),
                   AtMost("user.risk_score", 70)>>)>>),
      Decide("deny_reasons", {}, <<>>)>>

TxLimitsTiered ==
    <<Allow(<<If(<<Is("user.tier", "retail"), AtMost("amount", 10000)>>),
              If(<<Is("user.tier", "pro"), AtMost("amount", 250000)>>),
              If(<<Is("user.tier", "institutional"), Is("approval.signed", TRUE)>>)>>)>>

SanctionsScreening ==
    <<Decide("deny", FALSE,
        <<If(<<Listed("tx.from_address", "lists.sanctioned_addresses")>>),
          If(<<Listed("tx.to_address", "lists.sanctioned_addresses")>>),
          If(<<Listed("user.country", "lists.sanctioned_countries")>>),
          If(<<Listed("counterparty.name", "lists.sanctioned_names")>>)>>)>>

StablecoinMint ==
    <<Allow(<<If(<<Is("requester.role", "minter"), Is("requester.approved", TRUE),
                   AtLeast("reserves.ratio", 100), UpTo("mint.amount", "limits.daily_remaining"),
                   Over("mint.amount", 0)>>)>>),
      Decide("requires_multisig", FALSE, <<If(<<Over("mint.amount", 5000000)>>)>>)>>

StablecoinRedeem ==
    <<Allow(<<If(<<Is("holder.whitelisted", TRUE), Is("system.paused", FALSE),
                   AtMost("redeem.slippage_bps", 50), UpTo("redeem.amount", "holder.balance")>>)>>)>>

DefiProtocolAccess ==
    <<Allow(<<If(<<Is("wallet.verified", TRUE),
                   OneOf("wallet.country", {"US", "GB", "DE", "FR", "JP", "SG", "CH"}),
                   AtMost("protocol.risk_tier", 3)>>),
              If(<<Is("wallet.verified", TRUE), AtLeast("protocol.risk_tier", 4),
                   Is("user.accredited", TRUE)>>)>>)>>

CustodyWithdrawal ==
    <<Collect("malformed_inputs",
        Malformed(<<NotTyped("amount"), NotTyped("approvals.count"),
                    NotTyped("destination.whitelisted")>>)),
      Allow(<<If(<<NoneIn("malformed_inputs"), AtMost("amount", 100000),
                   AtLeast("approvals.count", 2), Is("destination.whitelisted", TRUE)>>),
              If(<<NoneIn("malformed_inputs"), Over("amount", 100000), AtMost("amount", 5000000),
                   AtLeast("approvals.count", 3), Is("compliance.signed", TRUE),
                   Is("destination.whitelisted", TRUE)>>),
              If(<<NoneIn("malformed_inputs"), Over("amount", 5000000),
                   AtLeast("approvals.count", 5), Is("board.signed", TRUE),
                   AtLeast("cooling_period_hours_elapsed", 24),
                   Is("destination.whitelisted", TRUE)>>)>>),
      Bundle("malformed_inputs")>>

TravelRule ==
    <<Allow(<<If(<<Under("tx.amount_usd", 1000)>>),
              If(<<AtLeast("tx.amount_usd", 1000), Has("originator.name"),
                   Has("originator.address"), Has("originator.vasp_id"), Has("beneficiary.name"),
                   Has("beneficiary.account"), Has("beneficiary.vasp_id")>>)>>)>>

CrossBorderPayment ==
    LET currencies == {"USD", "EUR", "GBP", "SGD", "USDC", "EURC"}
    IN <<Allow(<<If(<<OneOf("corridor", {"US-EU", "US-UK", "US-SG", "EU-UK", "EU-SG", "UK-SG"}),
                      OneOf("currency.from", currencies), OneOf("currency.to", currencies),
                      AtMost("fx.deviation_bps", 25), AtMost("settlement.t_plus", 2)>>)>>)>>

SecurityTokenTransfer ==
    <<Decide("allow_transfer", FALSE,
        <<If(<<Is("from.identity_verified", TRUE), Is("to.identity_verified", TRUE),
               Is("from.claims.accredited", TRUE), Is("to.claims.accredited", TRUE),
               AtMost("lockup.days_remaining", 0), AtMost("captable.holders_after", 99)>>)>>)>>

GovernanceVote ==
    <<Decide("allow_vote", FALSE,
        <<If(<<Is("voter.registered", TRUE), AtLeast("voter.snapshot_balance", 100),
               Is("proposal.status", "active"), Is("voter.has_voted", FALSE)>>)>>),
      Decide("vote_weight", 0, <<>>)>>

SettlementWindow ==
    <<Allow(<<If(<<Is("market.is_open", TRUE), Is("market.is_business_day", TRUE),
                   NoLess("inventory.available", "trade.quantity"),
                   Is("counterparty.standing", "good"),
                   NoLess("counterparty.credit_remaining", "trade.notional")>>)>>)>>

RbacStarter ==
    <<Allow(<<If(<<Is("user.role", "admin")>>),
              If(<<Is("user.role", "editor"), OneOf("action", {"read", "write"})>>),
              If(<<Is("user.role", "viewer"), Is("action", "read")>>)>>)>>

MakerChecker ==
    <<Allow(<<If(<<Has("maker.id"), Has("checker.id"), Differ("maker.id", "checker.id"),
                   Is("maker.active", TRUE), Is("checker.active", TRUE),
                   Is("checker.signed", TRUE), AtMost("checker.signed_within_minutes", 60),
                   OneOf("action.risk_tier", {"low", "medium", "high"})>>)>>)>>

NestedQuorum ==
    <<Allow(<<If(<<AtMost("amount", 250000), AtLeast("tier_ops.approvals_count", 2)>>),
              If(<<Over("amount", 250000), AtMost("amount", 10000000),
                   AtLeast("tier_ops.approvals_count", 2),
                   AtLeast("tier_risk.approvals_count", 1), Is("compliance.signed", TRUE)>>),
              If(<<Over("amount", 10000000), AtLeast("tier_ops.approvals_count", 2),
                   AtLeast("tier_risk.approvals_count", 1),
                   AtLeast("tier_board.approvals_count", 1),
                   AtLeast("cooling_period_hours_elapsed", 24)>>)>>)>>

TreasuryRebalance ==
    <<Allow(<<If(<<AtLeast("allocation.cash_pct_after", 5),
                   AtMost("allocation.t_bills_pct_after", 70),
                   AtMost("allocation.crypto_pct_after", 25),
                   AtMost("allocation.stablecoin_pct_after", 40),
                   AtMost("counterparty.exposure_pct_after", 20),
                   OneOf("counterparty.rating", {"A", "AA", "AAA"}),
                   Is("window.is_rebalance_day", TRUE), Is("policy.signed_by_cfo", TRUE)>>)>>)>>

OtcSwap ==
    <<Allow(<<If(<<Is("counterparty.whitelisted", TRUE), Is("counterparty.isda_signed", TRUE),
                   Is("counterparty.csa_in_place", TRUE), AtMost("trade.price_deviation_bps", 50),
                   UpTo("trade.notional_usd", "counterparty.notional_limit_usd"),
                   Is("collateral.initial_margin_posted", TRUE),
                   AtMost("collateral.haircut_pct", 8),
                   OneOf("product.type", {"irs", "fx_swap", "tr_swap", "perp_swap"})>>)>>)>>

TokenLifecycle ==
    <<Allow(<<If(<<Is("action", "mint"), Is("actor.role", "minter"), Is("actor.authorized", TRUE),
                   UpTo("supply.after", "supply.cap"), Is("target.frozen", FALSE)>>),
              If(<<Is("action", "burn"), OneOf("actor.role", {"burner", "minter"}),
                   Is("actor.authorized", TRUE), NoLess("target.balance", "amount")>>),
              If(<<Is("action", "freeze"), Is("actor.role", "compliance"),
                   Is("order.signed", TRUE),
                   OneOf("order.type", {"regulatory", "court", "internal_compliance"})>>)>>)>>

MarginHealth ==
    <<Collect("malformed_inputs",
        Malformed(<<NotTyped("position.ltv_after"), NotTyped("margin_call.open")>>)),
      Allow(<<If(<<NoneIn("malformed_inputs"), AtMost("position.ltv_after", 65),
                   OneOf("collateral.type", {"USDC", "USDT", "BTC", "ETH", "TBILL"}),
                   AtMost("collateral.haircut_pct", 15), Is("position.liquidation_active", FALSE),
                   Is("margin_call.open", FALSE)>>),
              If(<<NoneIn("malformed_inputs"), Is("action", "top_up"),
                   Is("margin_call.open", TRUE),
                   Over("margin_call.cure_window_minutes_remaining", 0),
                   AtMost("position.ltv_after", 55)>>)>>),
      Bundle("malformed_inputs")>>

BridgeCrossChain ==
    LET chains == {"ethereum", "polygon", "arbitrum", "base", "optimism", "solana"}
    IN <<Allow(<<If(<<OneOf("source_chain", chains), OneOf("dest_chain", chains),
                      Differ("source_chain", "dest_chain"), Is("bridge.paused", FALSE),
                      AtMost("transfer.amount_usd", 500000),
                      AtMost("bridge.daily_volume_usd_after", 10000000),
                      AtMost("peg.deviation_bps", 30), Is("user.kyc_status", "verified")>>)>>)>>

VestingTimelock ==
    <<Allow(<<If(<<NoLess("now_ts", "schedule.cliff_ts"),
                   NoLess("now_ts", "schedule.next_unlock_ts"),
                   Is("beneficiary.kyc_status", "verified"),
                   Is("beneficiary.terminated_for_cause", FALSE), Is("clawback.active", FALSE),
                   UpTo("request.amount", "schedule.vested_amount")>>)>>)>>

OraclePrice ==
    <<Allow(<<If(<<AtMost("feed.staleness_seconds", 60), AtLeast("feed.reporter_count", 3),
                   AtMost("feed.deviation_bps_vs_reference", 75),
                   Is("feed.circuit_breaker_tripped", FALSE), Has("asset.symbol")>>)>>)>>

KillSwitch ==
    <<Allow(<<If(<<Is("incident.active", FALSE), Is("system.health", "green")>>),
              If(<<Is("action", "resume"), Is("signoff.ciso", TRUE), Is("signoff.cto", TRUE),
                   Differ("signoff.ciso_id", "signoff.cto_id"),
                   Is("justification.recorded", TRUE)>>)>>)>>

ReportingTrigger ==
    <<Decide("report_required", FALSE,
        <<If(<<AtLeast("tx.cash_equivalent_usd", 10000), Is("tx.jurisdiction", "US")>>),
          If(<<Is("tx.risk_flagged", TRUE)>>),
          If(<<AtLeast("tx.amount_eur", 1000), OneOf("tx.jurisdiction", {"EU", "EEA"}),
               Is("tx.casp_to_casp", TRUE)>>),
          If(<<OneOf("product.type", {"irs", "fx_swap", "tr_swap", "future", "option"}),
               OneOf("tx.jurisdiction", {"EU", "EEA", "UK"})>>)>>)>>

PreTradeRisk ==
    <<Allow(<<If(<<UpTo("order.notional_usd", "limits.fat_finger_usd"),
                   UpTo("order.qty", "limits.fat_finger_qty"),
                   AtMost("order.price_deviation_bps", 200),
                   UpTo("position.size_after", "limits.position_max"),
                   NoLess("daily.realized_pnl_usd", "limits.daily_loss_floor_usd"),
                   AtMost("rate.orders_last_minute", 60),
                   OneOf("symbol", {"BTC-USD", "ETH-USD", "SOL-USD", "USDC-USD"})>>)>>)>>

LendingOrigination ==
    <<Allow(<<If(<<Is("borrower.kyc_status", "verified"), AtMost("borrower.risk_score", 60),
                   Under("borrower.outstanding_loans_count", 5),
                   OneOf("collateral.type", {"BTC", "ETH", "USDC", "TBILL", "STETH"}),
                   AtMost("loan.ltv_origination", 50), AtLeast("loan.term_days", 7),
                   AtMost("loan.term_days", 365),
                   UpTo("loan.principal_usd", "book.available_liquidity_usd"),
                   NoLess("loan.rate_apr", "book.min_rate_apr")>>)>>)>>

NftRoyalty ==
    <<Allow(<<If(<<Is("collection.paused", FALSE), Is("marketplace.whitelisted", TRUE),
                   NoLess("royalty.paid_bps", "collection.royalty_bps"),
                   UpTo("token.locked_until_ts", "now_ts"), Is("from.sanctioned", FALSE),
                   Is("to.sanctioned", FALSE), Has("token.id")>>),
              If(<<Is("action", "forced_transfer"), Is("order.signed", TRUE),
                   OneOf("order.type", {"court", "regulatory"})>>)>>)>>

InsiderBlackout ==
    <<Allow(<<If(<<Is("trader.is_insider", FALSE)>>),
              If(<<Is("trader.is_insider", TRUE), Is("window.in_blackout", FALSE),
                   Is("trader.on_restricted_list", FALSE), Has("symbol")>>),
              If(<<Is("trader.is_insider", TRUE), Is("plan.is_10b5_1", TRUE),
                   Is("plan.compliance_signed", TRUE), AtLeast("plan.cooldown_days_elapsed", 30),
                   Same("order.symbol", "plan.symbol"),
                   UpTo("order.qty", "plan.qty_remaining")>>)>>)>>

FundFlows ==
    <<Allow(<<If(<<Is("action", "subscribe"), Is("fund.status", "open"),
                   Is("investor.accredited", TRUE), Is("investor.kyc_status", "verified"),
                   Below("now_ts", "fund.next_cutoff_ts"), AtMost("nav.staleness_hours", 24),
                   NoLess("subscription.amount_usd", "fund.min_ticket_usd")>>),
              If(<<Is("action", "redeem"), Is("fund.gate_active", FALSE),
                   NoLess("redemption.notice_days_observed", "fund.notice_period_days"),
                   UpTo("redemption.amount_units", "investor.units_held"),
                   AtMost("redemption.amount_pct_of_nav", 5),
                   AtMost("nav.staleness_hours", 24)>>)>>)>>

RbacMatrix ==
    <<Allow(<<When(<<AnyOf(<<Is("user.role", "admin"), Is("user.role", "owner"),
                             Is("user.role", "auditor")>>),
                     AnyOf(<<Is("action", "read"), Is("action", "list"),
                             Is("action", "describe")>>),
                     AllOf(<<Same("resource.tenant_id", "user.tenant_id"),
                             OneOf("resource.classification", {"public", "internal"})>>)>>)>>)>>

ContractUpgrade ==
    <<Allow(<<If(<<Is("timelock.elapsed", TRUE), AtLeast("timelock.delay_hours_observed", 48),
                   Is("proposer.authorized", TRUE), AtLeast("multisig.signatures_count", 4),
                   AtLeast("multisig.threshold", 4), Is("audit.attested", TRUE),
                   AtMost("audit.age_days", 90),
                   OneOf("upgrade.target_chain",
                         {"ethereum", "polygon", "arbitrum", "base", "optimism"})>>)>>)>>

FeeRateCheck ==
    <<Allow(<<If(<<Has("amount"), Has("rate_bps"), Has("max_fee"), AtLeast("amount", 1),
                   Arith("fee", <<"amount", "rate_bps">>, "<=", "max_fee", TRUE),
                   UpTo("amount", "daily_limit")>>)>>)>>

BatchTxLimits ==
    <<Allow(<<If(<<Has("batch_id"), IsType("transactions"), Has("per_tx_limit"),
                   Every("transactions", <<ItIsOver("tx.amount", 0),
                                           ItIsUpTo("tx.amount", "per_tx_limit"),
                                           ItIs("tx.status", "cleared")>>)>>)>>)>>

DailyVolumeCap ==
    <<Allow(<<If(<<Over("amount", 0), Has("daily_cap"), UpTo("amount", "daily_cap"),
                   Tally("sum", "today_amounts", <<>>, "<=", "daily_cap", TRUE)>>)>>)>>

MultiSigQuorum ==
    <<Allow(<<If(<<IsType("signatures"), UpTo("amount", "quorum_limit"),
                   Tally("count", "signatures", <<ItIs("item.valid", TRUE)>>, ">=", 3, FALSE)>>)>>)>>

VestingUnlock ==
    <<Allow(<<If(<<Is("beneficiary.kyc_status", "verified"), Is("clawback_active", FALSE),
                   Is("cliff_elapsed", TRUE),
                   Clock("time.now_ns", "", ">=", "unlock_ts_ns", TRUE)>>)>>)>>

BusinessHours ==
    LET On(day) == Clock("time.weekday", "ts_ns", "==", day, FALSE)
    IN <<Allow(<<When(<<AllOf(<<AtLeast("hour_utc", 8), Under("hour_utc", 17),
                                UpTo("amount", "session_limit")>>),
                        AnyOf(<<On("Monday"), On("Tuesday"), On("Wednesday"), On("Thursday"),
                                On("Friday")>>)>>)>>)>>

AssetSymbol ==
    LET Symbol(s) == [Is("asset_symbol", s) EXCEPT !.op = "lower_eq"]
    IN <<Allow(<<When(<<AllOf(<<Is("user.kyc_status", "verified"), Over("amount", 0),
                                AtMost("amount", 5000000)>>),
                        AnyOf(<<Symbol("eth"), Symbol("btc"), Symbol("usdc"),
                                Symbol("usdt")>>)>>)>>)>>

IpAllowlist ==
    LET Within(cidr) == [Is("client_ip", cidr) EXCEPT !.op = "cidr_contains"]
    IN <<Allow(<<If(<<Has("client_ip"), Within("10.0.0.0/8"),
                      OneOf("user.role", {"trader", "admin", "compliance"})>>),
                 If(<<Has("client_ip"), Within("172.16.0.0/12"),
                      OneOf("user.role", {"admin"})>>)>>)>>

InputTypeGuard ==
    <<Allow(<<If(<<IsType("amount"), IsType("user_id"), Over("amount", 0),
                   AtMost("amount", 10000000), IsNot("user_id", "")>>),
              If(<<IsType("amount"), IsType("user_id"), IsType("metadata"),
                   IsType("line_items"), Over("amount", 0), Has("metadata.version")>>)>>)>>

RiskViolations ==
    <<Collect("violations",
        <<Flag("amount_exceeds_limit", <<Above("amount", "trade_limit")>>),
          Flag("kyc_not_verified", <<IsNot("counterparty.kyc_status", "verified")>>),
          Flag("asset_not_allowed",
               <<Not(OneOf("asset", {"BTC", "ETH", "USDC", "USDT", "SOL"}))>>)>>),
      AllowUnless("violations"), Bundle("violations")>>

SafeConfig ==
    <<Allow(<<If(<<Is("user.active", TRUE),
                   ObjectGet("config", "config.risk_level", "low", "in", {"low", "medium"}, FALSE),
                   ObjectGet("config", "config.max_tx_usd", 100000, ">=", "amount", TRUE)>>)>>)>>

SetPermission ==
    <<Allow(<<If(<<Is("user.active", TRUE),
                   Raw("overlap_with", <<"user.roles", {"trade", "execute"}>>, {"user.roles"})>>),
              If(<<Is("user.active", TRUE),
                   Raw("member", <<"user.roles", "admin">>, {"user.roles"})>>)>>)>>

JwtClaims ==
    <<Allow(<<If(<<Has("jwt_token"), Has("user_id"),
                   Raw("jwt", <<"jwt_token", "user_id">>, {"jwt_token", "user_id"})>>)>>)>>

BatchValidation ==
    <<Collect("batch_violations",
        <<Flag("empty_batch", <<Tally("count", "transactions", <<>>, "==", 0, FALSE)>>),
          Flag("batch_too_large",
               <<Tally("count", "transactions", <<>>, ">", "max_batch_size", TRUE)>>),
          Flag("unauthorized_submitter", <<IsNot("submitter.authorized", TRUE)>>)>>),
      AllowUnless("batch_violations"), Bundle("batch_violations")>>

(* --- sampleInputs ------------------------------------------------------ *)
DigitalInputs1 ==
    "kyc-aml-baseline" :> (Text("user.kyc_status", "verified") @@ No("user.sanctioned")
        @@ In("user.risk_score", <<25, 71>>)) @@
    "tx-limits-tiered" :> (In("user.tier", <<"pro", "retail", "institutional">>)
        @@ In("amount", <<50000, 5000, 300000>>) @@ No("approval.signed")) @@
    "sanctions-screening" :> (In("tx.from_address", <<"0xabc", "0xbad1">>)
        @@ In("tx.to_address", <<"0xdef", "0xbad2">>) @@ In("user.country", <<"US", "IR">>)
        @@ In("counterparty.name", <<"ACME Corp", "BadActor LLC">>)
        @@ In("lists.sanctioned_addresses", <<{"0xbad1", "0xbad2"}>>)
        @@ In("lists.sanctioned_countries", <<{"IR", "KP", "CU"}>>)
        @@ In("lists.sanctioned_names", <<{"BadActor LLC"}>>)) @@
    "stablecoin-mint" :> (Text("requester.role", "minter") @@ Yes("requester.approved")
        @@ In("reserves.ratio", <<102, 99>>) @@ In("mint.amount", <<1000000, 0, 6000000>>)
        @@ In("limits.daily_remaining", <<10000000, 5>>)) @@
    "stablecoin-redeem" :> (Yes("holder.whitelisted") @@ In("holder.balance", <<50000, 5>>)
        @@ No("system.paused") @@ In("redeem.slippage_bps", <<12, 51>>)
        @@ In("redeem.amount", <<10000, 60000>>)) @@
    "defi-protocol-access" :> (Yes("wallet.verified") @@ In("wallet.country", <<"DE", "KP">>)
        @@ In("protocol.risk_tier", <<2, 4>>) @@ No("user.accredited")) @@
    "custody-withdrawal" :> (In("amount", <<250000, 100000, 6000000>>)
        @@ In("approvals.count", <<3, 2, 5>>) @@ Yes("compliance.signed") @@ No("board.signed")
        @@ Yes("destination.whitelisted") @@ In("cooling_period_hours_elapsed", <<0, 24>>)) @@
    "travel-rule" :> (In("tx.amount_usd", <<5000, 999>>) @@ Text("originator.name", "Alice")
        @@ Text("originator.address", "1 Main St") @@ Text("originator.vasp_id", "VASP-A")
        @@ Text("beneficiary.name", "Bob") @@ Text("beneficiary.account", "ACC-001")
        @@ Text("beneficiary.vasp_id", "VASP-B")) @@
    "cross-border-payment" :> (Text("corridor", "US-EU") @@ Text("currency.from", "USD")
        @@ Text("currency.to", "EUR") @@ In("fx.deviation_bps", <<8, 26>>)
        @@ In("settlement.t_plus", <<1, 3>>)) @@
    "security-token-transfer" :> (Yes("from.identity_verified") @@ Yes("from.claims.accredited")
        @@ Yes("to.identity_verified") @@ Yes("to.claims.accredited")
        @@ In("lockup.days_remaining", <<0, 1>>) @@ In("captable.holders_after", <<47, 100>>)) @@
    "governance-vote" :> (Yes("voter.registered") @@ In("voter.snapshot_balance", <<1500, 99>>)
        @@ No("voter.has_voted") @@ Text("proposal.status", "active")) @@
    "settlement-window" :> (Yes("market.is_open") @@ Yes("market.is_business_day")
        @@ In("inventory.available", <<1000, 99>>) @@ In("trade.quantity", <<100, 1001>>)
        @@ In("trade.notional", <<50000, 600000>>) @@ Text("counterparty.standing", "good")
        @@ In("counterparty.credit_remaining", <<500000, 5>>)) @@
    "rbac-starter" :> (In("user.role", <<"editor", "viewer", "admin">>)
        @@ In("action", <<"write", "read", "delete">>)) @@
    "maker-checker-approval" :> (In("maker.id", <<"alice@firm.com", "bob@firm.com">>)
        @@ Yes("maker.active") @@ In("checker.id", <<"bob@firm.com", "alice@firm.com">>)
        @@ Yes("checker.active") @@ Yes("checker.signed")
        @@ In("checker.signed_within_minutes", <<12, 61>>) @@ Text("action.risk_tier", "medium")) @@
    "nested-quorum-approval" :> (In("amount", <<5000000, 250000, 20000000>>)
        @@ In("tier_ops.approvals_count", <<2, 1>>) @@ In("tier_risk.approvals_count", <<1, 0>>)
        @@ In("tier_board.approvals_count", <<0, 1>>) @@ Yes("compliance.signed")
        @@ In("cooling_period_hours_elapsed", <<0, 24>>)) @@
    "treasury-rebalance" :> (In("allocation.cash_pct_after", <<12, 4>>)
        @@ In("allocation.t_bills_pct_after", <<55, 71>>)
        @@ In("allocation.crypto_pct_after", <<18, 26>>)
        @@ In("allocation.stablecoin_pct_after", <<15, 41>>)
        @@ In("counterparty.exposure_pct_after", <<14, 21>>)
        @@ Text("counterparty.rating", "AA") @@ Yes("window.is_rebalance_day")
        @@ Yes("policy.signed_by_cfo"))

DigitalInputs2 ==
    "otc-swap-execution" :> (Yes("counterparty.whitelisted") @@ Yes("counterparty.isda_signed")
        @@ Yes("counterparty.csa_in_place") @@ In("counterparty.notional_limit_usd", <<50000000, 5>>)
        @@ In("trade.price_deviation_bps", <<18, 51>>) @@ In("trade.notional_usd", <<12000000>>)
        @@ Yes("collateral.initial_margin_posted") @@ In("collateral.haircut_pct", <<5, 9>>)
        @@ Text("product.type", "irs")) @@
    "token-lifecycle-control" :> (In("action", <<"mint", "burn", "freeze">>)
        @@ In("actor.role", <<"minter", "compliance">>) @@ Yes("actor.authorized")
        @@ In("supply.after", <<950000000>>) @@ In("supply.cap", <<1000000000, 5>>)
        @@ No("target.frozen") @@ In("target.balance", <<0, 1000>>) @@ In("amount", <<1000>>)
        @@ No("order.signed") @@ In("order.type", <<"internal_compliance", "none">>)) @@
    "margin-collateral-health" :> (In("action", <<"open", "top_up">>)
        @@ In("position.ltv_after", <<42, 60, 66>>) @@ No("position.liquidation_active")
        @@ Text("collateral.type", "USDC") @@ In("collateral.haircut_pct", <<2, 16>>)
        @@ No("margin_call.open") @@ In("margin_call.cure_window_minutes_remaining", <<0, 5>>)) @@
    "bridge-cross-chain" :> (In("source_chain", <<"ethereum", "arbitrum">>)
        @@ In("dest_chain", <<"arbitrum", "ethereum">>) @@ No("bridge.paused")
        @@ In("bridge.daily_volume_usd_after", <<2500000, 10000001>>)
        @@ In("transfer.amount_usd", <<75000, 500001>>) @@ In("peg.deviation_bps", <<8, 31>>)
        @@ Text("user.kyc_status", "verified")) @@
    "vesting-timelock-release" :> (In("now_ts", <<5, 1>>) @@ In("schedule.cliff_ts", <<2>>)
        @@ In("schedule.next_unlock_ts", <<4, 6>>) @@ In("schedule.vested_amount", <<25000, 5>>)
        @@ Text("beneficiary.kyc_status", "verified") @@ No("beneficiary.terminated_for_cause")
        @@ No("clawback.active") @@ In("request.amount", <<5000>>)) @@
    "oracle-price-validity" :> (In("feed.staleness_seconds", <<12, 61>>)
        @@ In("feed.reporter_count", <<7, 2>>)
        @@ In("feed.deviation_bps_vs_reference", <<22, 76>>)
        @@ No("feed.circuit_breaker_tripped") @@ Text("asset.symbol", "ETH-USD")) @@
    "emergency-kill-switch" :> (In("action", <<"trade", "resume">>) @@ No("incident.active")
        @@ Text("system.health", "green") @@ No("signoff.ciso") @@ No("signoff.cto")
        @@ In("signoff.ciso_id", <<"", "c1">>) @@ In("signoff.cto_id", <<"", "c2">>)
        @@ No("justification.recorded")) @@
    "regulatory-reporting-trigger" :> (In("tx.cash_equivalent_usd", <<12500, 9999>>)
        @@ In("tx.amount_eur", <<0, 1000>>) @@ In("tx.jurisdiction", <<"US", "EU">>)
        @@ No("tx.risk_flagged") @@ No("tx.casp_to_casp") @@ In("product.type", <<"spot", "irs">>)) @@
    "smart-contract-upgrade" :> (Yes("timelock.elapsed")
        @@ In("timelock.delay_hours_observed", <<72, 47>>) @@ Yes("proposer.authorized")
        @@ In("multisig.signatures_count", <<5, 3>>) @@ In("multisig.threshold", <<4, 3>>)
        @@ Yes("audit.attested") @@ In("audit.age_days", <<30, 91>>)
        @@ Text("upgrade.target_chain", "ethereum")) @@
    "rbac-matrix" :> (Text("user.role", "auditor") @@ Text("user.tenant_id", "tenant-007")
        @@ Text("action", "list") @@ Text("resource.tenant_id", "tenant-007")
        @@ Text("resource.classification", "internal")) @@
    "pre-trade-risk-check" :> (In("order.notional_usd", <<200000, 1000001>>)
        @@ In("order.qty", <<5, 51>>) @@ In("order.price_deviation_bps", <<35, 201>>)
        @@ In("limits.fat_finger_usd", <<1000000>>) @@ In("limits.fat_finger_qty", <<50>>)
        @@ In("limits.position_max", <<500>>) @@ In("limits.daily_loss_floor_usd", <<-100000>>)
        @@ In("position.size_after", <<120, 501>>) @@ In("daily.realized_pnl_usd", <<-15000, -100001>>)
        @@ In("rate.orders_last_minute", <<12, 61>>) @@ Text("symbol", "ETH-USD")) @@
    "lending-origination" :> (Text("borrower.kyc_status", "verified")
        @@ In("borrower.risk_score", <<35, 61>>) @@ In("borrower.outstanding_loans_count", <<1, 5>>)
        @@ Text("collateral.type", "ETH") @@ In("loan.ltv_origination", <<40, 51>>)
        @@ In("loan.term_days", <<90, 6, 366>>) @@ In("loan.principal_usd", <<250000>>)
        @@ In("loan.rate_apr", <<85, 5>>) @@ In("book.available_liquidity_usd", <<25000000, 5>>)
        @@ In("book.min_rate_apr", <<60>>)) @@
    "nft-royalty-transfer" :> (In("action", <<"transfer", "forced_transfer">>)
        @@ No("collection.paused") @@ In("collection.royalty_bps", <<500>>)
        @@ Yes("marketplace.whitelisted") @@ In("royalty.paid_bps", <<500, 499>>)
        @@ Text("token.id", "NFT-001") @@ In("token.locked_until_ts", <<3, 7>>)
        @@ In("now_ts", <<5>>) @@ No("from.sanctioned") @@ No("to.sanctioned")
        @@ No("order.signed") @@ In("order.type", <<"internal_compliance", "court">>)) @@
    "insider-trading-blackout" :> (Yes("trader.is_insider") @@ No("trader.on_restricted_list")
        @@ No("window.in_blackout") @@ No("plan.is_10b5_1") @@ No("plan.compliance_signed")
        @@ In("plan.cooldown_days_elapsed", <<0, 30>>) @@ Text("plan.symbol", "ACME")
        @@ In("plan.qty_remaining", <<0, 10>>) @@ Text("order.symbol", "ACME")
        @@ In("order.qty", <<10>>) @@ Text("symbol", "ACME")) @@
    "fund-subscription-redemption" :> (In("action", <<"subscribe", "redeem">>)
        @@ Text("fund.status", "open") @@ In("fund.next_cutoff_ts", <<7, 5>>)
        @@ In("fund.min_ticket_usd", <<100000>>) @@ In("fund.notice_period_days", <<30>>)
        @@ No("fund.gate_active") @@ Yes("investor.accredited")
        @@ Text("investor.kyc_status", "verified") @@ In("investor.units_held", <<0, 5>>)
        @@ In("now_ts", <<5>>) @@ In("nav.staleness_hours", <<4, 25>>)
        @@ In("subscription.amount_usd", <<250000, 5>>)
        @@ In("redemption.notice_days_observed", <<0, 30>>) @@ In("redemption.amount_units", <<0, 6>>)
        @@ In("redemption.amount_pct_of_nav", <<0, 6>>))

Transaction(amount, status) == "tx.amount" :> amount @@ "tx.status" :> status
Signature(valid) == "item.valid" :> valid
DigitalInputs3 ==
    "fee-rate-check" :> (In("amount", <<100000, 0>>) @@ In("rate_bps", <<30, 60>>)
        @@ In("max_fee", <<500>>) @@ In("daily_limit", <<1000000, 5>>)) @@
    "batch-tx-limits" :> (Text("batch_id", "batch-001") @@ In("per_tx_limit", <<50000, 5>>)
        @@ In("transactions", <<<<Transaction(10000, "cleared"), Transaction(25000, "cleared")>>,
                                <<>>, <<Transaction(10000, "held")>>>>)) @@
    "daily-volume-cap" :> (In("amount", <<200000, 0, 1000001>>) @@ In("daily_cap", <<1000000>>)
        @@ In("today_amounts", <<<<150000, 250000, 100000>>, <<>>, <<900000, 200000>>>>)) @@
    "multi-sig-quorum-live" :> (In("amount", <<75000, 250001>>) @@ In("quorum_limit", <<250000>>)
        @@ In("signatures",
              <<<<Signature(TRUE), Signature(TRUE), Signature(TRUE), Signature(FALSE)>>,
                <<Signature(TRUE), Signature(TRUE), Signature(FALSE)>>>>)) @@
    "vesting-unlock-live" :> (Text("beneficiary.kyc_status", "verified") @@ No("clawback_active")
        @@ Yes("cliff_elapsed") @@ In("unlock_ts_ns", <<Now - 1, Now + 1>>)) @@
    "business-hours-trading" :> (In("ts_ns", <<4, 2>>) @@ In("hour_utc", <<10, 7, 17>>)
        @@ In("amount", <<50000, 500001>>) @@ In("session_limit", <<500000>>)) @@
    "asset-symbol-normalized" :> (In("asset_symbol", <<"ETH", "usdc", "doge">>)
        @@ In("amount", <<1000, 0>>) @@ Text("user.kyc_status", "verified")) @@
    "ip-allowlist-access" :> (In("client_ip", <<"10.1.2.3", "172.16.9.1", "8.8.8.8">>)
        @@ In("user.role", <<"trader", "admin">>)) @@
    "input-type-guard" :> (In("amount", <<5000, 0, 10000001>>) @@ In("user_id", <<"usr-001", "">>)
        @@ In("metadata", <<"object">>) @@ In("metadata.version", <<"1.0">>)
        @@ In("line_items", <<<<>>>>)) @@
    "partial-risk-violations" :> (In("amount", <<50000, 100001>>) @@ In("trade_limit", <<100000>>)
        @@ Text("counterparty.kyc_status", "verified") @@ Text("asset", "ETH")) @@
    "object-safe-config" :> (Yes("user.active") @@ In("config", <<"object">>)
        @@ In("config.risk_level", <<"medium", "high">>) @@ In("config.max_tx_usd", <<500000, 5>>)
        @@ In("amount", <<75000, 200000>>)) @@
    "set-permission-check" :> (Yes("user.active")
        @@ In("user.roles", <<{"trade", "view"}, {"view"}, {"admin"}>>)) @@
    "jwt-claims-verify" :> (In("jwt_token", <<"t1", "t2">>) @@ In("user_id", <<"usr-001", "usr-002">>)) @@
    "partial-batch-validation" :> (In("max_batch_size", <<100, 1>>) @@ Yes("submitter.authorized")
        @@ In("transactions", <<<<"tx-1", "tx-2">>, <<>>>>))

DigitalAssets ==
    "kyc-aml-baseline" :> KycAmlBaseline @@ "tx-limits-tiered" :> TxLimitsTiered @@
    "sanctions-screening" :> SanctionsScreening @@ "stablecoin-mint" :> StablecoinMint @@
    "stablecoin-redeem" :> StablecoinRedeem @@ "defi-protocol-access" :> DefiProtocolAccess @@
    "custody-withdrawal" :> CustodyWithdrawal @@ "travel-rule" :> TravelRule @@
    "cross-border-payment" :> CrossBorderPayment @@
    "security-token-transfer" :> SecurityTokenTransfer @@
    "governance-vote" :> GovernanceVote @@ "settlement-window" :> SettlementWindow @@
    "rbac-starter" :> RbacStarter @@ "maker-checker-approval" :> MakerChecker @@
    "nested-quorum-approval" :> NestedQuorum @@ "treasury-rebalance" :> TreasuryRebalance @@
    "otc-swap-execution" :> OtcSwap @@ "token-lifecycle-control" :> TokenLifecycle @@
    "margin-collateral-health" :> MarginHealth @@ "bridge-cross-chain" :> BridgeCrossChain @@
    "vesting-timelock-release" :> VestingTimelock @@ "oracle-price-validity" :> OraclePrice @@
    "emergency-kill-switch" :> KillSwitch @@
    "regulatory-reporting-trigger" :> ReportingTrigger @@
    "pre-trade-risk-check" :> PreTradeRisk @@ "lending-origination" :> LendingOrigination @@
    "nft-royalty-transfer" :> NftRoyalty @@ "insider-trading-blackout" :> InsiderBlackout @@
    "fund-subscription-redemption" :> FundFlows @@ "rbac-matrix" :> RbacMatrix @@
    "smart-contract-upgrade" :> ContractUpgrade @@ "fee-rate-check" :> FeeRateCheck @@
    "batch-tx-limits" :> BatchTxLimits @@ "daily-volume-cap" :> DailyVolumeCap @@
    "multi-sig-quorum-live" :> MultiSigQuorum @@ "vesting-unlock-live" :> VestingUnlock @@
    "business-hours-trading" :> BusinessHours @@ "asset-symbol-normalized" :> AssetSymbol @@
    "ip-allowlist-access" :> IpAllowlist @@ "input-type-guard" :> InputTypeGuard @@
    "partial-risk-violations" :> RiskViolations @@ "object-safe-config" :> SafeConfig @@
    "set-permission-check" :> SetPermission @@ "jwt-claims-verify" :> JwtClaims @@
    "partial-batch-validation" :> BatchValidation
============================================================================
