--------------------------- MODULE CognitoAccounts ---------------------------
(***************************************************************************)
(* The accounts of the Cognito user pool, as cognito_admin_service and the *)
(* custom_ui endpoints change them.  Cognito itself is external: what a    *)
(* call does to an account is modelled from the errors and statuses the    *)
(* service's functions tell apart.                                         *)
(*                                                                         *)
(* An account is found by its address and known by its sub, which a new    *)
(* account at the same address does not inherit.  Each call is one step,   *)
(* and one that Cognito refuses or that is lost changes nothing.  Codes    *)
(* sent by mail reach the holder of the address.                           *)
(***************************************************************************)
CONSTANTS
    Emails,       \* addresses
    Subs,         \* identities Cognito can hand out (bounds the sign-ups)
    Ops,          \* requests of platform admins
    Deployments,  \* the settings to look at: auth_mode, who takes part and
                  \* what the admins do there (bounds the instance)
    None          \* no account, no row, no request

(***************************************************************************)
(* known: somebody knows the password.  code: a reset code is out.         *)
(***************************************************************************)
Account ==
    [ sub : Subs, enabled : BOOLEAN, known : BOOLEAN, code : BOOLEAN,
      status : {"UNCONFIRMED", "CONFIRMED", "FORCE_CHANGE_PASSWORD", "RESET_REQUIRED"} ]

ASSUME DeploymentsKnown ==
    Deployments \subseteq [ auth_mode : {"hosted_ui", "custom_ui"},
                            emails : SUBSET Emails, ops : SUBSET Ops ]

ASSUME NoAccount == None \notin Account

VARIABLES
    deployment,  \* the one this is
    pool,        \* the account at each address
    subs,        \* identities never handed out
    moved        \* identities that have changed their address (a ghost)

cognito == <<deployment, pool, subs, moved>>

CognitoTypeOK ==
    /\ deployment \in Deployments
    /\ pool \in [Emails -> Account \cup {None}]
    /\ subs \subseteq Subs
    /\ moved \subseteq Subs

-----------------------------------------------------------------------------
NewAccount(s, status, known) ==
    [ sub |-> s, enabled |-> TRUE, known |-> known, code |-> FALSE, status |-> status ]

\* Cognito refuses whatever a disabled account asks for.
In(e, statuses) == pool[e] # None /\ pool[e].enabled /\ pool[e].status \in statuses

Put(e, account) ==
    /\ pool' = [pool EXCEPT ![e] = account]
    /\ UNCHANGED <<deployment, subs, moved>>

Create(e, status, known) ==
    /\ pool[e] = None
    /\ \E s \in subs :
         /\ pool' = [pool EXCEPT ![e] = NewAccount(s, status, known)]
         /\ subs' = subs \ {s}
    /\ UNCHANGED <<deployment, moved>>

\* Some people have accounts, one with a temporary password that the Cognito
\* console has mailed.
CognitoInit ==
    /\ deployment \in Deployments
    /\ pool \in [Emails -> {None} \cup
                    [ sub : Subs, enabled : {TRUE}, known : {TRUE}, code : {FALSE},
                      status : {"CONFIRMED", "FORCE_CHANGE_PASSWORD"} ]]
    /\ \A e \in Emails : pool[e] # None =>
         /\ e \in deployment.emails
         /\ pool[e].status # "CONFIRMED" => deployment.auth_mode = "custom_ui"
         /\ \A f \in Emails \ {e} : pool[f] # None => pool[f].sub # pool[e].sub
    /\ subs = {s \in Subs : \A e \in Emails : pool[e] # None => pool[e].sub # s}
    /\ moved = {}

-----------------------------------------------------------------------------
(* Cognito's own pages and console *)

HostedSignUp(e) == deployment.auth_mode = "hosted_ui" /\ Create(e, "CONFIRMED", TRUE)

\* "Updates email/name if changed in Cognito".
ChangeAddress(e, f) ==
    /\ In(e, {"CONFIRMED"}) /\ pool[f] = None
    /\ pool' = [pool EXCEPT ![f] = pool[e], ![e] = None]
    /\ moved' = moved \cup {pool[e].sub}
    /\ UNCHANGED <<deployment, subs>>

\* "Handles edge case where Cognito user was deleted/recreated".
RemoveAccount(e) == deployment.auth_mode = "hosted_ui" /\ pool[e] # None /\ Put(e, None)

-----------------------------------------------------------------------------
(* custom_ui_routes: 404 in the other mode *)

_require_custom_ui == deployment.auth_mode = "custom_ui"

\* Confirmed at once where the pool is set up so.
sign_up_user(e) ==
    /\ _require_custom_ui
    /\ \E status \in {"UNCONFIRMED", "CONFIRMED"} : Create(e, status, TRUE)

\* resend_confirmation_code only mails the code again.
confirm_sign_up(e) ==
    /\ _require_custom_ui
    /\ In(e, {"UNCONFIRMED"})
    /\ Put(e, [pool[e] EXCEPT !.status = "CONFIRMED"])

\* "Cannot reset password for this account" while it has never been confirmed
\* or has a temporary password; an unknown address is answered as a known one.
forgot_password(e) ==
    /\ _require_custom_ui
    /\ In(e, {"CONFIRMED", "RESET_REQUIRED"})
    /\ Put(e, [pool[e] EXCEPT !.code = TRUE])

confirm_forgot_password(e) ==
    /\ _require_custom_ui
    /\ pool[e] # None /\ pool[e].enabled /\ pool[e].code
    /\ Put(e, [pool[e] EXCEPT !.status = "CONFIRMED", !.known = TRUE, !.code = FALSE])

\* Mutant: the new password of an account there is is made permanent.
create_invited_permanent(e) ==
    /\ _require_custom_ui
    /\ \/ Create(e, "FORCE_CHANGE_PASSWORD", FALSE)
       \/ /\ pool[e] # None
          /\ Put(e, [pool[e] EXCEPT !.status = "CONFIRMED", !.known = FALSE])

\* An invitation in custom_ui mode.  MessageAction SUPPRESS keeps Cognito from
\* mailing the temporary password, and create_invitation_response drops it.
create_invited_cognito_user(e) ==
    /\ _require_custom_ui
    /\ \/ Create(e, "FORCE_CHANGE_PASSWORD", FALSE)
       \/ /\ pool[e] # None
          /\ Put(e, [pool[e] EXCEPT !.status = "FORCE_CHANGE_PASSWORD", !.known = FALSE])

\* initiate_auth: tokens, or the challenge NEW_PASSWORD_REQUIRED.
Authenticates(e) == In(e, {"CONFIRMED"}) /\ pool[e].known

Challenges(e) == _require_custom_ui /\ In(e, {"FORCE_CHANGE_PASSWORD"}) /\ pool[e].known

\* Answering the challenge of the session a login has given.
respond_to_new_password_challenge(e, s) ==
    /\ In(e, {"FORCE_CHANGE_PASSWORD"}) /\ pool[e].sub = s
    /\ Put(e, [pool[e] EXCEPT !.status = "CONFIRMED", !.known = TRUE])

-----------------------------------------------------------------------------
(* Calls for platform admins *)

\* UserNotFoundException counts as success.
admin_delete_user(e) == Put(e, None)

admin_disable_user(e) == pool[e] # None /\ Put(e, [pool[e] EXCEPT !.enabled = FALSE])

admin_enable_user(e) == pool[e] # None /\ Put(e, [pool[e] EXCEPT !.enabled = TRUE])

\* "They may need to confirm their account first".
admin_reset_user_password(e) ==
    /\ In(e, {"CONFIRMED", "RESET_REQUIRED"})
    /\ Put(e, [pool[e] EXCEPT !.status = "RESET_REQUIRED", !.code = TRUE])

CognitoNext ==
    \E e \in deployment.emails :
        \/ HostedSignUp(e) \/ RemoveAccount(e)
        \/ \E f \in deployment.emails : ChangeAddress(e, f)
        \/ sign_up_user(e) \/ confirm_sign_up(e)
        \/ forgot_password(e) \/ confirm_forgot_password(e)
        \/ create_invited_cognito_user(e)
=============================================================================
