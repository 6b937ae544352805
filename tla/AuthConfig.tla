----------------------------- MODULE AuthConfig -----------------------------
(***************************************************************************)
(* The role vocabulary of auth_config.yaml and of the code around it: the  *)
(* v3 roles with their permissions, and the legacy role names a request to *)
(* change a role still carries.  No state: the singleton AuthConfig is     *)
(* read-only once loaded.                                                  *)
(***************************************************************************)

AccountRoles == {"account_owner", "account_admin", "account_member"}
SpaceRoles   == {"space_admin", "space_member", "space_viewer"}
LegacyRoles  == {"owner", "admin", "member", "viewer"}
RoleNames    == AccountRoles \cup SpaceRoles \cup LegacyRoles

\* The names the last-owner checks and the actor checks group together.
OwnerRoles == {"owner", "account_owner"}
AdminRoles == {"admin", "account_admin"}

\* permission_map, as loaded from the shipped auth_config.yaml.
permission_map ==
    [ super_admin    |-> {"platform:configure", "accounts:manage", "users:suspend"},
      account_owner  |-> {"account:delete", "account:read", "spaces:create",
                          "members:manage", "members:invite"},
      account_admin  |-> {"account:read", "spaces:create", "members:invite"},
      account_member |-> {"account:read"},
      space_admin    |-> {"space:delete", "space:configure", "space:read",
                          "members:manage", "members:invite",
                          "data:read", "data:write"},
      space_member   |-> {"space:read", "data:read", "data:write"},
      space_viewer   |-> {"space:read", "data:read"} ]

\* A name the file does not define, every legacy name among them, has none.
permissions_for_role(role) ==
    IF role \in DOMAIN permission_map THEN permission_map[role] ELSE {}

\* Mutant: the invitation's role replaces the one the membership has.
RoleOfInvitation(existing, invited) == invited

\* Never downgrade through an invitation: the role a membership of role
\* `existing` has after its user accepted an invitation for role `invited`.
RoleAfterAccept(existing, invited) ==
    IF permissions_for_role(invited) \subseteq permissions_for_role(existing)
    THEN existing
    ELSE invited
=============================================================================
