------------------------------ MODULE AuthDomain ------------------------------
(***************************************************************************)
(* The auth domain of auth-profile-service: the closed sets of             *)
(* app/domain/auth/enums.py, who may do what (role_policy.py), and the     *)
(* transitions of the User aggregate (user.py), as pure operators.  The    *)
(* modules that have state (Accounts, AccountLifecycle, Sessions) are      *)
(* built from them.                                                        *)
(***************************************************************************)

Roles == {"BASIC_USER", "DEVELOPER", "SUPPORT", "ADMIN"}

States == {"PENDING", "ACTIVE", "REJECTED", "BANNED"}

RequestStatuses == {"PENDING", "APPROVED", "REJECTED"}

-----------------------------------------------------------------------------
(* RolePolicy *)

SelfRequestable == {"DEVELOPER", "SUPPORT"}

(* RolePolicy.can_request: never the role one has; a basic user may only   *)
(* ask for one of the self-requestable roles.                              *)
CanRequest(current, requested) ==
    /\ requested # current
    /\ requested \in SelfRequestable \/ current # "BASIC_USER"

(* The roles that may grant a role directly. *)
Granters == {"ADMIN"}

(* The roles that may decide a role request or a registration, and ban.    *)
Moderators == {"SUPPORT", "ADMIN"}

-----------------------------------------------------------------------------
(* The User aggregate: the fields that decide something. password_hash,    *)
(* display_name and created_at are never changed after registration.       *)

(* Faulty variant: what register did before accounts were active at once.  *)
RegisteredPending(id, email) ==
    [id |-> id, email |-> email, role |-> "BASIC_USER", state |-> "PENDING"]

(* User.register: the account is usable at once. *)
Registered(id, email) ==
    [id |-> id, email |-> email, role |-> "BASIC_USER", state |-> "ACTIVE"]

(* User.register_super_admin, the factory of the start-up seed. *)
SuperAdmin(id, email) ==
    [id |-> id, email |-> email, role |-> "ADMIN", state |-> "ACTIVE"]

(* Faulty variant: ban stores a state the enumeration does not have.       *)
TransitionToDisabled ==
    [approve_registration |->
        [from |-> "PENDING", to |-> "ACTIVE",   event |-> "RegistrationApproved"],
     reject_registration  |->
        [from |-> "PENDING", to |-> "REJECTED", event |-> "RegistrationRejected"],
     ban                  |->
        [from |-> "ACTIVE",  to |-> "DISABLED", event |-> "UserBanned"],
     unban                |->
        [from |-> "DISABLED", to |-> "ACTIVE",  event |-> "UserUnbanned"]]

(* The four guarded transitions of the account state machine: the state    *)
(* each one requires, the one it sets and the event it raises.             *)
Transition ==
    [approve_registration |->
        [from |-> "PENDING", to |-> "ACTIVE",   event |-> "RegistrationApproved"],
     reject_registration  |->
        [from |-> "PENDING", to |-> "REJECTED", event |-> "RegistrationRejected"],
     ban                  |->
        [from |-> "ACTIVE",  to |-> "BANNED",   event |-> "UserBanned"],
     unban                |->
        [from |-> "BANNED",  to |-> "ACTIVE",   event |-> "UserUnbanned"]]

CanLogin(user) == user.state = "ACTIVE"

-----------------------------------------------------------------------------
(* Domain events, reduced to what a consumer can tell them apart by: `by`  *)
(* is the actor (the user itself when nobody else acts), `role` the role   *)
(* the user ends with or asks for.                                         *)
EventTypes ==
    {"UserRegistered", "RegistrationApproved", "RegistrationRejected",
     "UserBanned", "UserUnbanned", "RoleGranted", "RoleRequested"}

Event(type, user, by, role) ==
    [type |-> type, user |-> user, by |-> by, role |-> role]

(* The state an event announces, for the events that announce one. *)
Announces(e, state) ==
    \/ /\ e.type \in {"UserRegistered", "RegistrationApproved", "UserUnbanned"}
       /\ state = "ACTIVE"
    \/ e.type = "RegistrationRejected" /\ state = "REJECTED"
    \/ e.type = "UserBanned" /\ state = "BANNED"
=============================================================================
