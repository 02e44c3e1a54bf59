------------------------------ MODULE Accounts ------------------------------
(***************************************************************************)
(* Who may do what: the accounts and their tiers (users.service.ts), the   *)
(* custom roles laid over them (roles.service.ts, permission.types.ts),    *)
(* registration against the licensed seats (auth.service.ts) and the       *)
(* license (license.service.ts).  Every operation is a request of several  *)
(* database commands, nothing is a transaction, and requests interleave:   *)
(* a step is one command.  A request begins where the last of its first    *)
(* reads is answered (the guards of the route and the actor's row; the     *)
(* email and the number of accounts): what they refuse never starts.       *)
(* Of the permissions only those that decide here are kept; who may make   *)
(* calls and the landing page of a role decide nothing and are left out.   *)
(* X_<fault> is X with one mistake.                                        *)
(***************************************************************************)
EXTENDS Naturals, FiniteSets

CONSTANTS
    People,     \* accounts, each with an email of its own
    Designated, \* subset of People: the one with SUPER_ADMIN_EMAIL, or none
    Roles,      \* ids of custom roles
    Keys,       \* signed license keys
    Seats,      \* Seats[k]: the seats key k grants
    FreeSeats,  \* the seats of the built-in tier
    Requests,   \* slots for the requests in flight
    NONE,       \* no role, no person
    KEEP,       \* undefined, in a change
    MaxRequests \* bound: requests ever begun, registrations apart

ASSUME AccountsAssumption ==
    /\ IsFiniteSet(People) /\ Designated \subseteq People
    /\ Seats \in [Keys -> Nat \ {0}] /\ FreeSeats \in Nat \ {0}
    /\ NONE \notin Roles \cup People \cup Keys /\ KEEP \notin Roles /\ KEEP # NONE
    /\ MaxRequests \in Nat

VARIABLES
    row,      \* row[p]: tier ("NONE": not yet, "DELETED": no more), custom role
    perms,    \* perms[o]: the permissions of custom role o, {} when there is none
    retired,  \* the custom roles that were removed
    active,   \* the key of the latest ACTIVE license: no other is ever read
    expired,  \* the keys past their days
    req,      \* the requests
    begun     \* how many there were, registrations apart

roles == <<perms, retired>>
license == <<active, expired>>
vars == <<row, roles, license, req, begun>>

Tiers == {"USER", "ADMIN", "SUPER_ADMIN"}
Rank == [USER |-> 0, ADMIN |-> 1, SUPER_ADMIN |-> 2]
Permissions == {"meetings.host", "users.manage", "license.manage"}
Assignable == {"meetings.host", "users.manage"}
RolePermissions ==
    [USER |-> {"meetings.host"}, ADMIN |-> Assignable, SUPER_ADMIN |-> Permissions]

Exists(p) == row[p].tier \in Tiers
Count == Cardinality({p \in People : Exists(p)})
Supers == {p \in People : row[p].tier = "SUPER_ADMIN"}

\* resolveUserPermissions(): an overlay never touches a super-admin.
Resolve(p) ==
    IF row[p].custom # NONE /\ row[p].tier # "SUPER_ADMIN" THEN perms[row[p].custom]
    ELSE RolePermissions[row[p].tier]

May(p, permission) == Exists(p) /\ permission \in Resolve(p)

Ops == {"register", "update", "bulk", "delete", "createRole", "updateRole", "removeRole", "activate"}
Places ==
    {"idle", "license", "seats", "create", "targets", "supers", "batch", "write", "revoke", "upsert"}

Idle == [at |-> "idle", op |-> "update", who |-> {}, tier |-> "USER",
         role |-> KEEP, custom |-> KEEP, perms |-> {}, key |-> NONE, n |-> 0, stale |-> FALSE]

TypeOK ==
    /\ row \in [People -> [tier : Tiers \cup {"NONE", "DELETED"}, custom : Roles \cup {NONE}]]
    /\ \A p \in People : ~Exists(p) => row[p].custom = NONE
    /\ perms \in [Roles -> SUBSET Assignable]
    /\ retired \subseteq Roles
    /\ \A p \in People : row[p].custom # NONE => perms[row[p].custom] # {}
    /\ active \in Keys \cup {NONE} /\ expired \subseteq Keys
    /\ req \in [Requests -> [at : Places, op : Ops, who : SUBSET People,
                             tier : Tiers, role : Tiers \cup {KEEP},
                             custom : Roles \cup {NONE, KEEP}, perms : SUBSET Permissions,
                             key : Keys \cup {NONE}, n : Nat, stale : BOOLEAN]]
    /\ begun \in 0 .. MaxRequests

Init ==
    /\ row = [p \in People |-> [tier |-> "NONE", custom |-> NONE]]
    /\ perms = [o \in Roles |-> {}] /\ retired = {}
    /\ active = NONE /\ expired = {}
    /\ req = [r \in Requests |-> Idle]
    /\ begun = 0

-----------------------------------------------------------------------------
(* Requests                                                                *)

At(r, place) == req[r].at = place

Begin(r, request) ==
    /\ req' = [req EXCEPT ![r] = request]
    /\ UNCHANGED <<row, roles, license>>

Read == UNCHANGED <<row, roles, license, begun>>
Goto(r, place) == req' = [req EXCEPT ![r].at = place] /\ Read
Refuse(r) == req' = [req EXCEPT ![r] = Idle] /\ Read

\* The request has written and is answered; what the others have read of the
\* accounts is no longer true.  (stale is history: the code never asks.)
Answer(r) ==
    /\ req' = [s \in Requests |->
           IF s = r THEN Idle
           ELSE IF req[s].at # "idle" /\ row' # row THEN [req[s] EXCEPT !.stale = TRUE]
           ELSE req[s]]
    /\ UNCHANGED begun

\* A database error, or the process dies.  (Only an activation writes twice:
\* any other request that fails has never begun.)
Fail(r) == At(r, "upsert") /\ Refuse(r)

-----------------------------------------------------------------------------
(* Registration                                                            *)

\* No account has the email yet.  The designated one is the owner, or the
\* first, and needs no seat.
BeginRegister(r, p) ==
    LET owner == Count = 0 \/ p \in Designated
    IN  /\ row[p].tier = "NONE"
        /\ Begin(r, [Idle EXCEPT !.at = IF owner THEN "create" ELSE "license", !.op = "register",
                                 !.who = {p}, !.tier = IF owner THEN "SUPER_ADMIN" ELSE "USER"])

\* active(): the latest license, while it lasts, else the built-in tier.
Capacity ==
    IF active # NONE /\ active \notin expired THEN Seats[active]
    ELSE FreeSeats

ReadLicense(r) ==
    /\ At(r, "license")
    /\ req' = [req EXCEPT ![r].at = "seats", ![r].n = Capacity]
    /\ Read

\* Variant: the count is compared one seat late.
CountSeats_late(r) ==
    /\ At(r, "seats")
    /\ IF Count > req[r].n THEN Refuse(r)
       ELSE req' = [req EXCEPT ![r].at = "create", ![r].stale = FALSE] /\ Read

CountSeats(r) ==
    /\ At(r, "seats")
    /\ IF Count >= req[r].n THEN Refuse(r)
       ELSE req' = [req EXCEPT ![r].at = "create", ![r].stale = FALSE] /\ Read

\* After the password was hashed; the email is unique in the database.
Create(r) ==
    /\ At(r, "create")
    /\ \/ /\ \E p \in req[r].who : row[p].tier # "NONE"
          /\ Refuse(r)
       \/ /\ \A p \in req[r].who : row[p].tier = "NONE"
          /\ row' = [p \in People |-> IF p \in req[r].who THEN [tier |-> req[r].tier, custom |-> NONE]
                                      ELSE row[p]]
          /\ Answer(r)
          /\ UNCHANGED <<roles, license>>

-----------------------------------------------------------------------------
(* Managing accounts: one (update), several (bulk), or its end (delete)    *)

\* A tier, a custom role, or none any more.
Assignments ==
    {[role |-> t, custom |-> KEEP] : t \in Tiers} \cup
    {[role |-> KEEP, custom |-> o] : o \in Roles \cup {NONE}}

\* Nothing of the two: the call lever is set, or the account deleted.
Neither == [role |-> KEEP, custom |-> KEEP]

BeginManage(r, actor, op, who, change) ==
    /\ May(actor, "users.manage")
    /\ Begin(r, [Idle EXCEPT !.at = "targets", !.op = op, !.who = who, !.tier = row[actor].tier,
                             !.role = change.role, !.custom = change.custom])

\* The page offers no change of one's own account; the API takes it.
ChangeAssignment(r, actor) ==
    \E p \in People, change \in Assignments : BeginManage(r, actor, "update", {p}, change)

ToggleCalls(r, actor) ==
    \E p \in People : BeginManage(r, actor, "update", {p}, Neither)

RemoveUser(r, actor) ==
    \E p \in People \ {actor} : BeginManage(r, actor, "delete", {p}, Neither)

\* One change for all that are ticked.
ApplyBulk(r, actor) ==
    \E who \in SUBSET People \ {{}}, change \in Assignments \cup {Neither} :
        BeginManage(r, actor, "bulk", who, change)

\* The built-in tier a change resolves to.
NewRole(q) == IF q.custom \in Roles THEN "USER" ELSE q.role

\* A super-admin among the targets will not be one any more.
Demotes(q) == q.op = "delete" \/ NewRole(q) \in Tiers \ {"SUPER_ADMIN"}

\* Variant: without the order of the tiers.
Allowed_upwards(q, targets) ==
    NewRole(q) = "SUPER_ADMIN" => q.tier = "SUPER_ADMIN"

\* assertActorMayManage(), but for the last super-admin.
Allowed(q, targets) ==
    /\ \A p \in targets : Rank[row[p].tier] <= Rank[q.tier]
    /\ NewRole(q) = "SUPER_ADMIN" => q.tier = "SUPER_ADMIN"

ReadTargets(r) ==
    LET q == req[r]
        targets == {p \in q.who : Exists(p)}
        demoted == IF Demotes(q) THEN targets \cap Supers ELSE {}
    IN  /\ At(r, "targets")
        /\ IF Allowed(q, targets) /\ (q.op # "bulk" => targets = q.who)
           THEN /\ req' = [req EXCEPT ![r] =
                      [q EXCEPT !.at = IF demoted = {} THEN "write" ELSE "supers",
                                !.who = targets, !.n = Cardinality(demoted), !.stale = FALSE]]
                /\ Read
           ELSE Refuse(r)

\* The last super-admin stays.
CountSupers(r) ==
    /\ At(r, "supers")
    /\ IF Cardinality(Supers) <= 1 THEN Refuse(r)
       ELSE Goto(r, IF req[r].op = "bulk" THEN "batch" ELSE "write")

\* Variant: the targets are only counted one by one.
CountBatch_skipped(r) ==
    /\ At(r, "batch")
    /\ Goto(r, "write")

\* And a batch leaves one.
CountBatch(r) ==
    /\ At(r, "batch")
    /\ IF Cardinality(Supers) < req[r].n + 1 THEN Refuse(r)
       ELSE Goto(r, "write")

\* A custom role comes with the USER tier, a tier without a custom role.
Changed(old, q) ==
    IF q.op = "delete" THEN [tier |-> "DELETED", custom |-> NONE]
    ELSE IF q.custom = KEEP THEN
        IF q.role = KEEP THEN old ELSE [tier |-> q.role, custom |-> NONE]
    ELSE IF q.custom = NONE THEN [old EXCEPT !.custom = NONE]
    ELSE [tier |-> "USER", custom |-> q.custom]

\* One command.  It fails when the one account, or the role, is gone; a role
\* that roleExists() has not found never comes.
Write(r) ==
    LET q == req[r]
        targets == {p \in q.who : Exists(p)}
    IN  /\ At(r, "write") /\ q.op \in {"update", "bulk", "delete"}
        /\ \/ /\ (q.op # "bulk" /\ targets = {}) \/ (q.custom \in Roles /\ perms[q.custom] = {})
              /\ Refuse(r)
           \/ /\ (q.op = "bulk" \/ targets # {}) /\ (q.custom \in Roles => perms[q.custom] # {})
              /\ row' = [p \in People |-> IF p \in targets THEN Changed(row[p], q) ELSE row[p]]
              /\ Answer(r)
              /\ UNCHANGED <<roles, license>>

-----------------------------------------------------------------------------
(* Custom roles, for super-admins                                          *)

\* Variant: every known permission is taken.
Sanitize_allKnown(wanted) == wanted \cap Permissions

Sanitize(wanted) == wanted \cap Assignable

SuperAdmin(p) == row[p].tier = "SUPER_ADMIN"

\* The editor saves a new role or an old one, with one permission at least.
SaveRole(r, actor) ==
    \E wanted \in SUBSET Permissions :
        /\ SuperAdmin(actor) /\ Sanitize(wanted) # {}
        /\ \/ Begin(r, [Idle EXCEPT !.at = "write", !.op = "createRole", !.perms = Sanitize(wanted)])
           \/ \E o \in Roles :
                  /\ perms[o] # {}
                  /\ Begin(r, [Idle EXCEPT !.at = "write", !.op = "updateRole", !.custom = o,
                                           !.perms = Sanitize(wanted)])

RemoveRole(r, actor) ==
    \E o \in Roles :
        /\ SuperAdmin(actor) /\ perms[o] # {}
        /\ Begin(r, [Idle EXCEPT !.at = "write", !.op = "removeRole", !.custom = o])

CreateRole(r) ==
    /\ At(r, "write") /\ req[r].op = "createRole"
    /\ \E o \in Roles \ retired : perms[o] = {} /\ perms' = [perms EXCEPT ![o] = req[r].perms]
    /\ UNCHANGED <<row, retired, license>>
    /\ Answer(r)

\* Variant: the members keep the number of the role.
WriteRole_keepsMembers(r) ==
    LET q == req[r]
    IN  /\ At(r, "write") /\ q.op \in {"updateRole", "removeRole"}
        /\ perms' = [perms EXCEPT ![q.custom] = q.perms]
        /\ retired' = IF q.op = "removeRole" THEN retired \cup {q.custom} ELSE retired
        /\ UNCHANGED <<row, license>>
        /\ Answer(r)

\* The members of a removed role go back to their tier (onDelete: SetNull).
WriteRole(r) ==
    LET q == req[r]
    IN  /\ At(r, "write") /\ q.op \in {"updateRole", "removeRole"}
        /\ \/ perms[q.custom] = {} /\ Refuse(r)
           \/ /\ perms[q.custom] # {}
              /\ perms' = [perms EXCEPT ![q.custom] = q.perms]
              /\ \/ q.op = "updateRole" /\ UNCHANGED <<row, retired>>
                 \/ /\ q.op = "removeRole"
                    /\ retired' = retired \cup {q.custom}
                    /\ row' = [p \in People |-> IF row[p].custom = q.custom
                                                THEN [row[p] EXCEPT !.custom = NONE] ELSE row[p]]
              /\ UNCHANGED license
              /\ Answer(r)

-----------------------------------------------------------------------------
(* The license, for super-admins                                           *)

\* The key is signed and has not expired.
Activate(r, actor) ==
    \E k \in Keys \ expired :
        /\ SuperAdmin(actor)
        /\ Begin(r, [Idle EXCEPT !.at = "revoke", !.op = "activate", !.key = k])

Revoke(r) ==
    /\ At(r, "revoke")
    /\ active' = NONE
    /\ req' = [req EXCEPT ![r].at = "upsert"]
    /\ UNCHANGED <<row, roles, expired, begun>>

Upsert(r) ==
    /\ At(r, "upsert")
    /\ active' = req[r].key
    /\ UNCHANGED <<row, roles, expired>>
    /\ Answer(r)

KeyExpires(k) ==
    /\ k \notin expired
    /\ expired' = expired \cup {k}
    /\ UNCHANGED <<row, roles, active, req, begun>>

-----------------------------------------------------------------------------
Arrive(r) ==
    /\ At(r, "idle")
    /\ \/ \E p \in People : BeginRegister(r, p) /\ UNCHANGED begun
       \/ /\ begun < MaxRequests /\ begun' = begun + 1
          /\ \E actor \in {p \in People : Exists(p)} :
                 \/ ChangeAssignment(r, actor) \/ ToggleCalls(r, actor) \/ RemoveUser(r, actor)
                 \/ ApplyBulk(r, actor)
                 \/ SaveRole(r, actor) \/ RemoveRole(r, actor) \/ Activate(r, actor)

Proceed(r) ==
    \/ ReadLicense(r) \/ CountSeats(r) \/ Create(r)
    \/ ReadTargets(r) \/ CountSupers(r) \/ CountBatch(r) \/ Write(r)
    \/ CreateRole(r) \/ WriteRole(r)
    \/ Revoke(r) \/ Upsert(r)
    \/ Fail(r)

Next == (\E r \in Requests : Arrive(r) \/ Proceed(r)) \/ \E k \in Keys : KeyExpires(k)

Spec == Init /\ [][Next]_vars

-----------------------------------------------------------------------------
(* Properties                                                              *)

\* The request whose last command this step is.
Writes(r) == ~At(r, "idle") /\ req'[r] = Idle

\* "The last super-admin can never be demoted" (users.service.ts:252): while
\* there was a super-admin there is one, unless the request that takes the last
\* one away acts on what another write has made untrue since its reads
\* (users.service.ts:131-152, 164-178 and 196-224 are no transactions).
OwnerRemains ==
    [][Supers # {} /\ Supers' = {} => \E r \in Requests : Writes(r) /\ req[r].stale]_vars

\* The hierarchy of users.service.ts:249-251, for any interleaving: an account
\* changes its tier only by a request of somebody whose tier was not below it
\* (unless the account changed after it was read), and becomes super-admin only
\* by one of a super-admin.  It does not say that nobody raises himself: see
\* CustomRoleNeverEscalates.
HierarchyHolds ==
    [][\A p \in People : Exists(p) /\ row'[p].tier # row[p].tier =>
           \E r \in Requests :
               /\ Writes(r) /\ p \in req[r].who
               /\ Rank[row[p].tier] <= Rank[req[r].tier] \/ req[r].stale
               /\ row'[p].tier = "SUPER_ADMIN" => req[r].tier = "SUPER_ADMIN"]_vars

\* "A custom role always sits at USER tier, so it can never escalate"
\* (users.service.ts:9-11): no account rises by a request of somebody of the
\* USER tier, who manages accounts through a custom role.  The code allows it:
\* assertActorMayManage() compares the tier of the target and not the new one,
\* so he may make anybody of the USER tier an ADMIN, himself included.
CustomRoleNeverEscalates ==
    [][\A p \in People, r \in Requests :
           /\ Exists(p) /\ row'[p].tier \in Tiers
           /\ Writes(r) /\ p \in req[r].who /\ req[r].tier = "USER"
           => Rank[row'[p].tier] <= Rank[row[p].tier]]_vars

\* A new account that is no owner has a seat of the license its request has
\* read, unless others were created since its count (auth.service.ts:55-66,
\* license.service.ts:76-85).
SeatsHold ==
    [][\A r \in Requests :
           Writes(r) /\ Count' > Count /\ req[r].tier = "USER" /\ ~req[r].stale => Count' <= req[r].n]_vars

\* A custom role overlays the USER tier only and never carries
\* license.manage (schema.prisma:76-78): license control is the super-admins',
\* through every order of assignments, edits and removals of roles.
OverlayNeverEscalates ==
    \A p \in People :
        /\ row[p].custom # NONE => row[p].tier = "USER"
        /\ May(p, "license.manage") => row[p].tier = "SUPER_ADMIN"

=============================================================================
