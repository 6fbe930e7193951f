-------------------------- MODULE SaasMultitenant --------------------------
(***************************************************************************)
(* The policy templates of templates/saasMultitenant.js and                *)
(* templates/trustedAuth.js.                                               *)
(***************************************************************************)
EXTENDS Rego

SameTenant == Same("user.tenant_id", "resource.tenant_id")
Active == Is("user.active", TRUE)

TenantIsolation ==
    <<Collect("malformed_inputs",
        Malformed(<<NotAString("user.tenant_id"), NotTyped("user.active"), NotAString("action")>>)),
      Allow(<<If(<<NoneIn("malformed_inputs"), SameTenant, Active,
                   Is("tenant.status", "active"), Is("tenant.suspended", FALSE)>>),
              If(<<NoneIn("malformed_inputs"), Is("user.platform_role", "platform_admin"),
                   Is("user.mfa_verified", TRUE), OneOf("action", {"read", "list", "audit"})>>)>>),
      Bundle("malformed_inputs")>>

TenantProvisioning ==
    <<Allow(<<If(<<Is("action", "create"), Is("actor.platform_role", "platform_admin"),
                   Is("actor.mfa_verified", TRUE),
                   Below("platform.tenant_count", "platform.tenant_quota")>>),
              If(<<Is("action", "update"), Is("actor.role", "tenant_owner"),
                   Same("actor.tenant_id", "target_tenant.id"), Is("actor.active", TRUE)>>),
              If(<<OneOf("action", {"deactivate", "archive"}),
                   Is("actor.platform_role", "platform_admin"), Is("actor.mfa_verified", TRUE),
                   Is("approval.signed", TRUE), Has("approval.reason")>>)>>)>>

OrgMemberAccess ==
    LET scope == <<SameTenant, Same("user.org_id", "resource.org_id"), Active>>
    IN <<Allow(<<When(<<AnyOf(<<Is("user.org_role", "org_admin"), Is("user.org_role", "org_member"),
                                Is("user.org_role", "org_viewer")>>),
                        AllOf(scope \o <<Is("org.active", TRUE),
                                         OneOf("action", {"read", "list", "describe"})>>)>>),
                 When(<<AnyOf(<<Is("user.org_role", "org_admin"), Is("user.org_role", "org_member")>>),
                        AllOf(scope \o <<Is("org.active", TRUE),
                                         OneOf("action", {"create", "update", "write"})>>)>>),
                 If(<<Is("user.org_role", "org_admin")>> \o scope \o
                      <<OneOf("action", {"archive", "manage_members"})>>)>>)>>

DomainGate ==
    <<Allow(<<When(<<AllOf(<<SameTenant, Same("user.org_id", "resource.org_id"),
                             Same("user.domain_id", "resource.domain_id"), Active,
                             Is("domain.status", "active")>>),
                     AnyOf(<<OneOf("action", {"read", "list"}),
                             OneOf("user.domain_role", {"domain_editor", "domain_admin"})>>)>>),
              When(<<AllOf(<<SameTenant, Active, Is("domain.restricted", FALSE)>>),
                     AnyOf(<<Is("user.role", "org_admin"), Is("user.role", "tenant_admin")>>)>>)>>)>>

GroupPermission ==
    <<Allow(<<If(<<Active, Is("group.active", TRUE), SameTenant, Same("user.group_id", "group.id"),
                   Raw("overlap", <<"group.permissions", "required_permissions">>,
                       {"group.permissions", "required_permissions"})>>),
              If(<<Active, SameTenant,
                   Raw("member", <<"user.roles", "super_admin">>, {"user.roles"})>>)>>)>>

RoleAssignment ==
    LET assigning == OneOf("action", {"assign_role", "revoke_role"})
        notSelf == Differ("assigner.id", "target_user.id")
        sameTenant == Same("assigner.tenant_id", "target_user.tenant_id")
        members == {"org_member", "org_viewer", "domain_editor", "domain_viewer"}
    IN <<Allow(<<If(<<assigning, Is("assigner.role", "org_admin"), sameTenant,
                      Same("assigner.org_id", "target_user.org_id"),
                      OneOf("target_role.name", members), notSelf>>),
                 If(<<assigning, Is("assigner.role", "tenant_owner"), sameTenant,
                      Is("assigner.mfa_verified", TRUE),
                      OneOf("target_role.name",
                            members \cup {"org_admin", "tenant_admin", "domain_admin"}), notSelf>>),
                 If(<<assigning, Is("assigner.platform_role", "platform_admin"),
                      Is("assigner.mfa_verified", TRUE), Has("audit.ticket_id")>>)>>)>>

UserLifecycle ==
    LET admin == OneOf("actor.role", {"org_admin", "tenant_admin", "tenant_owner"})
        owner == Is("actor.role", "tenant_owner")
        sameTenant == Same("actor.tenant_id", "target_user.tenant_id")
        notSelf == Differ("actor.id", "target_user.id")
    IN <<Allow(<<If(<<Is("action", "invite"), admin, Same("actor.tenant_id", "target_tenant.id"),
                      Is("actor.active", TRUE), Below("tenant.seats_used", "tenant.seats_quota")>>),
                 If(<<Is("action", "activate"), admin, sameTenant, Is("actor.active", TRUE),
                      notSelf>>),
                 If(<<Is("action", "deactivate"), admin, sameTenant, notSelf,
                      OneOf("target_user.role",
                            {"org_member", "org_viewer", "domain_editor", "domain_viewer"})>>),
                 If(<<Is("action", "archive"), owner, sameTenant,
                      Is("actor.mfa_verified", TRUE), notSelf>>),
                 If(<<Is("action", "promote"), owner, sameTenant, Is("actor.mfa_verified", TRUE),
                      notSelf, OneOf("new_role", {"org_admin", "tenant_admin", "domain_admin"})>>)>>)>>

CrossOrgSharing ==
    LET shared == <<SameTenant, Active, Is("resource.shared", TRUE),
                    Is("share_agreement.active", TRUE)>>
    IN <<Allow(<<If(shared \o <<Same("share_agreement.from_org_id", "resource.org_id"),
                                Same("share_agreement.to_org_id", "user.org_id"),
                                OneOf("action", {"read", "list"})>>),
                 If(shared \o <<Is("share_agreement.write_access", TRUE),
                                OneOf("action", {"create", "update"}),
                                Tally("count", "share_agreement.approvers",
                                      <<ItIs("item.approved", TRUE)>>, ">=", 2, FALSE)>>)>>)>>

AccessViolations ==
    <<Collect("violations",
        Malformed(<<NotAString("user.tenant_id"), NotTyped("user.active"),
                    NotAString("user.org_id"), NotAString("user.domain_id"),
                    NotTyped("user.permissions"), NotAString("resource.tenant_id"),
                    NotAString("resource.org_id"), NotAString("resource.domain_id"),
                    NotTyped("resource.cross_org_shared"), NotTyped("resource.archived"),
                    NotTyped("domain.restricted"), NotTyped("required_permissions")>>) \o
        <<Flag("tenant_mismatch", <<Differ("user.tenant_id", "resource.tenant_id")>>),
          Flag("user_inactive", <<IsNot("user.active", TRUE)>>),
          Flag("org_not_member", <<Differ("user.org_id", "resource.org_id"),
                                   IsNot("resource.cross_org_shared", TRUE)>>),
          Flag("domain_restricted", <<Is("domain.restricted", TRUE),
                                      Differ("user.domain_id", "resource.domain_id")>>),
          Flag("permission_denied",
               <<Raw("disjoint", <<"user.permissions", "required_permissions">>,
                     {"user.permissions", "required_permissions"})>>),
          Flag("resource_archived", <<Is("resource.archived", TRUE)>>)>>),
      AllowUnless("violations"), Bundle("violations")>>

PlatformAdminAccess ==
    <<Collect("malformed_inputs",
        Malformed(<<NotAString("actor.platform_role"), NotTyped("actor.active"),
                    NotTyped("actor.mfa_verified"), NotAString("ticket.status"),
                    NotAString("ticket.id"), NotAString("action"), NotTyped("ticket.approvals")>>)),
      Allow(<<If(<<NoneIn("malformed_inputs"), Is("actor.platform_role", "platform_admin"),
                   Is("actor.active", TRUE), Is("actor.mfa_verified", TRUE),
                   Is("ticket.status", "open"), Has("ticket.id"),
                   OneOf("action", {"read", "list", "audit", "describe"}),
                   Tally("count", "ticket.approvals",
                         <<ItIs("item.role", "supervisor"), ItIs("item.approved", TRUE)>>,
                         ">=", 1, FALSE)>>)>>),
      Decide("audit_required", TRUE, <<If(<<Is("actor.platform_role", "platform_admin")>>)>>),
      Bundle("malformed_inputs")>>

(* --- trustedAuth.js ---------------------------------------------------- *)
JwtGate == <<Allow(<<If(<<Verify(<<"token">>, "platform-1", FALSE)>>)>>)>>
JwtMultitenant == <<Allow(<<If(<<Verify(<<"token">>, "kid", TRUE)>>)>>)>>
WebhookHmac == <<Allow(<<If(<<Verify(<<"payload", "signature">>, "webhook-1", FALSE)>>)>>)>>
JwtAmountCap ==
    LET Tier(tier, cap) == If(<<NoneIn("malformed_inputs"), Verify(<<"token">>, "platform-1", FALSE),
                                Is("user.tier", tier), AtMost("amount", cap)>>)
    IN <<Collect("malformed_inputs",
           Malformed(<<NotAString("token"), NotAString("user.tier"), NotTyped("amount")>>)),
         Allow(<<Tier("retail", 10000), Tier("pro", 250000)>>),
         Bundle("malformed_inputs")>>

(* --- sampleInputs ------------------------------------------------------ *)
Approver(approved) == "item.approved" :> approved
SignedOff(role) == "item.role" :> role @@ "item.approved" :> TRUE

SaasInputs ==
    "mt-tenant-isolation" :> (In("user.tenant_id", <<"tenant-abc", "other", "null">>)
        @@ Yes("user.active") @@ In("user.platform_role", <<"null", "platform_admin">>)
        @@ No("user.mfa_verified") @@ Text("resource.tenant_id", "tenant-abc")
        @@ Text("tenant.status", "active") @@ No("tenant.suspended") @@ Text("action", "read")) @@
    "mt-tenant-provisioning" :> (In("action", <<"create", "update", "archive">>)
        @@ Text("actor.platform_role", "platform_admin") @@ Yes("actor.mfa_verified")
        @@ In("actor.role", <<"platform_admin", "tenant_owner">>)
        @@ In("actor.tenant_id", <<"null", "tenant-xyz">>) @@ Yes("actor.active")
        @@ In("platform.tenant_count", <<42, 100>>) @@ In("platform.tenant_quota", <<100>>)
        @@ In("target_tenant.id", <<"tenant-xyz">>) @@ No("approval.signed")
        @@ In("approval.reason", <<"null", "breach">>)) @@
    "mt-org-member-access" :> (Text("user.tenant_id", "tenant-abc") @@ Text("user.org_id", "org-001")
        @@ In("user.org_role", <<"org_member", "org_admin", "org_viewer">>) @@ Yes("user.active")
        @@ In("resource.tenant_id", <<"tenant-abc">>) @@ In("resource.org_id", <<"org-001">>)
        @@ Yes("org.active") @@ In("action", <<"read", "write", "archive">>)) @@
    "mt-domain-resource-gate" :> (Text("user.tenant_id", "tenant-abc")
        @@ Text("user.org_id", "org-001") @@ Text("user.domain_id", "domain-us")
        @@ Text("user.domain_role", "domain_editor") @@ In("user.role", <<"org_member", "org_admin">>)
        @@ Yes("user.active") @@ In("resource.tenant_id", <<"tenant-abc">>)
        @@ In("resource.org_id", <<"org-001">>) @@ In("resource.domain_id", <<"domain-us">>)
        @@ Text("domain.status", "active") @@ No("domain.restricted")
        @@ In("action", <<"read", "write">>)) @@
    "mt-group-permission-check" :> (Yes("user.active") @@ Text("user.tenant_id", "tenant-abc")
        @@ Text("user.group_id", "grp-traders") @@ In("user.roles", <<{}, {"super_admin"}>>)
        @@ In("group.id", <<"grp-traders">>) @@ Yes("group.active")
        @@ In("group.permissions", <<{"view_portfolio", "submit_order", "view_reports"}, {}>>)
        @@ In("resource.tenant_id", <<"tenant-abc">>)
        @@ In("required_permissions", <<{"submit_order"}, {"settle"}>>)) @@
    "mt-role-assignment-guard" :> (Text("action", "assign_role")
        @@ In("assigner.role", <<"org_admin", "tenant_owner">>)
        @@ Text("assigner.tenant_id", "tenant-abc") @@ Text("assigner.org_id", "org-001")
        @@ Yes("assigner.mfa_verified") @@ In("assigner.id", <<"user-admin", "user-bob">>)
        @@ In("assigner.platform_role", <<"null", "platform_admin">>)
        @@ In("target_user.tenant_id", <<"tenant-abc">>) @@ In("target_user.org_id", <<"org-001">>)
        @@ In("target_user.id", <<"user-bob">>) @@ In("target_role.name", <<"org_member", "org_admin">>)
        @@ In("audit.ticket_id", <<"null">>))

SaasInputs2 ==
    "mt-user-lifecycle" :> (In("action", <<"invite", "activate", "deactivate", "archive", "promote">>)
        @@ In("actor.role", <<"org_admin", "tenant_owner">>) @@ Text("actor.tenant_id", "tenant-abc")
        @@ Yes("actor.active") @@ Yes("actor.mfa_verified")
        @@ In("actor.id", <<"admin-001", "user-new">>) @@ In("target_tenant.id", <<"tenant-abc">>)
        @@ In("target_user.tenant_id", <<"tenant-abc">>)
        @@ In("target_user.role", <<"org_member", "org_admin">>)
        @@ In("target_user.id", <<"user-new">>) @@ In("tenant.seats_used", <<8, 50>>)
        @@ In("tenant.seats_quota", <<50>>) @@ In("new_role", <<"null", "org_admin">>)) @@
    "mt-cross-org-sharing" :> (Text("user.tenant_id", "tenant-abc") @@ Text("user.org_id", "org-002")
        @@ Yes("user.active") @@ In("resource.tenant_id", <<"tenant-abc">>)
        @@ In("resource.org_id", <<"org-001">>) @@ Yes("resource.shared")
        @@ Yes("share_agreement.active") @@ Text("share_agreement.from_org_id", "org-001")
        @@ In("share_agreement.to_org_id", <<"org-002">>) @@ No("share_agreement.write_access")
        @@ In("share_agreement.approvers", <<<<Approver(TRUE), Approver(TRUE)>>, <<Approver(TRUE)>>>>)
        @@ In("action", <<"read", "update">>)) @@
    "mt-access-violations" :> (Text("user.tenant_id", "tenant-abc")
        @@ In("user.org_id", <<"org-001", "other", "null">>)
        @@ Text("user.domain_id", "domain-us") @@ Yes("user.active")
        @@ In("user.permissions", <<{"view_portfolio", "submit_order"}, {}>>)
        @@ In("resource.tenant_id", <<"tenant-abc">>) @@ In("resource.org_id", <<"org-001">>)
        @@ In("resource.domain_id", <<"domain-us">>) @@ No("resource.cross_org_shared")
        @@ No("resource.archived") @@ No("domain.restricted")
        @@ In("required_permissions", <<{"submit_order"}>>)) @@
    "mt-platform-admin-access" :> (Text("action", "read")
        @@ Text("actor.platform_role", "platform_admin") @@ Yes("actor.active")
        @@ Yes("actor.mfa_verified") @@ Text("ticket.id", "TICKET-4892")
        @@ Text("ticket.status", "open")
        @@ In("ticket.approvals", <<<<SignedOff("supervisor")>>, <<SignedOff("engineer")>>, <<>>>>))

TrustedInputs ==
    "trusted-jwt-gate" :> In("token", <<"unsigned", "platform-1", "tenant-acme">>) @@
    "trusted-jwt-multitenant" :> (In("token", <<"unsigned", "platform-1", "tenant-acme">>)
        @@ In("kid", <<"tenant-acme", "platform-1">>)) @@
    "trusted-webhook-hmac" :> (Text("payload", "payment.completed")
        @@ In("signature", <<"unsigned", "webhook-1", "platform-1">>)) @@
    "trusted-jwt-with-amount-cap" :> (In("token", <<"unsigned", "platform-1", "null">>)
        @@ In("user.tier", <<"pro", "retail", "null">>) @@ In("amount", <<50000, 300000, 5000>>))

SaasTemplates ==
    "mt-tenant-isolation" :> TenantIsolation @@ "mt-tenant-provisioning" :> TenantProvisioning @@
    "mt-org-member-access" :> OrgMemberAccess @@ "mt-domain-resource-gate" :> DomainGate @@
    "mt-group-permission-check" :> GroupPermission @@ "mt-role-assignment-guard" :> RoleAssignment @@
    "mt-user-lifecycle" :> UserLifecycle @@ "mt-cross-org-sharing" :> CrossOrgSharing @@
    "mt-access-violations" :> AccessViolations @@ "mt-platform-admin-access" :> PlatformAdminAccess

TrustedTemplates ==
    "trusted-jwt-gate" :> JwtGate @@ "trusted-jwt-multitenant" :> JwtMultitenant @@
    "trusted-webhook-hmac" :> WebhookHmac @@ "trusted-jwt-with-amount-cap" :> JwtAmountCap
============================================================================
