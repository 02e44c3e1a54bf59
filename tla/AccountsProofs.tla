---------------------------- MODULE AccountsProofs ----------------------------
(***************************************************************************)
(* Theorems about Accounts, for any people, roles, keys, seats and any     *)
(* number of requests.                                                     *)
(***************************************************************************)
EXTENDS Accounts, FiniteSetTheorems, TLAPS

USE AccountsAssumption

Managing == {"update", "bulk", "delete"}

Request == [at : Places, op : Ops, who : SUBSET People, tier : Tiers, role : Tiers \cup {KEEP},
            custom : Roles \cup {NONE, KEEP}, perms : SUBSET Permissions,
            key : Keys \cup {NONE}, n : Nat, stale : BOOLEAN]

(* The type invariant in parts, with what the requests carry with them.    *)

RowType == row \in [People -> [tier : Tiers \cup {"NONE", "DELETED"}, custom : Roles \cup {NONE}]]

\* A custom role is an existing one, over the USER tier of an existing account.
Overlays ==
    \A p \in People : row[p].custom # NONE => row[p].tier = "USER" /\ perms[row[p].custom] # {}

RoleType == perms \in [Roles -> SUBSET Assignable] /\ retired \subseteq Roles

LicenseType == active \in Keys \cup {NONE} /\ expired \subseteq Keys

RequestType == req \in [Requests -> Request]

\* What a request has been checked for, and no other request can change.
Shape(q) ==
    /\ q.at \in {"license", "seats", "create"} => \E p \in People : q.who = {p}
    /\ q.at \in {"targets", "supers", "batch"} => q.op \in Managing
    /\ q.at = "batch" => q.op = "bulk"
    /\ q.at \in {"targets", "supers", "batch", "write"} /\ q.op \in {"update", "delete"} =>
           \E p \in People : q.who = {p}
    /\ q.at \in {"supers", "batch", "write"} /\ q.op \in Managing /\ NewRole(q) = "SUPER_ADMIN" =>
           q.tier = "SUPER_ADMIN"
    /\ q.at = "write" /\ q.op \in {"createRole", "updateRole"} =>
           q.perms # {} /\ q.perms \subseteq Assignable
    /\ q.at = "write" /\ q.op = "removeRole" => q.perms = {}
    /\ q.at = "write" /\ q.op \in {"updateRole", "removeRole"} => q.custom \in Roles
    /\ q.at \in {"revoke", "upsert"} => q.key \in Keys

\* A request that has just begun has read nothing that others could change.
Unread(q) ==
    /\ q.at \notin {"supers", "batch"}
    /\ q.at = "write" => q.op \notin Managing
    /\ q.at = "create" => q.tier = "SUPER_ADMIN"

Shaped == \A r \in Requests : Shape(req[r])

Parts == /\ RowType /\ Overlays /\ RoleType /\ LicenseType
         /\ RequestType /\ begun \in 0 .. MaxRequests

\* The parts of the type invariant, put together.
LEMMA PartsGiveType == Parts => TypeOK
BY DEF Parts, RowType, Overlays, RoleType, LicenseType, RequestType, Request, TypeOK, Exists, Tiers

\* A request that has not begun has its type and has read nothing.
LEMMA IdleRequest == Idle \in Request /\ Shape(Idle) /\ Unread(Idle) /\ Idle.at = "idle"
BY DEF Idle, Request, Places, Ops, Tiers, Permissions, Shape, Unread

-----------------------------------------------------------------------------
(* How requests begin, go on and end                                       *)

\* A request moves on and leaves the others alone.
LEMMA Puts ==
  ASSUME RequestType, NEW r \in Requests, NEW q \in Request, req' = [req EXCEPT ![r] = q]
  PROVE  RequestType' /\ req'[r] = q /\ \A s \in Requests \ {r} : req'[s] = req[s]
BY DEF RequestType

\* Whatever a request is to do, it begins with what it may carry.
LEMMA Arrival ==
  ASSUME Parts, NEW r \in Requests, Arrive(r)
  PROVE  /\ \E q \in Request : Begin(r, q) /\ Shape(q) /\ Unread(q) /\ q.at # "idle"
         /\ begun' \in 0 .. MaxRequests
<1>1. ASSUME NEW p \in People, BeginRegister(r, p)
      PROVE  \E q \in Request : Begin(r, q) /\ Shape(q) /\ Unread(q) /\ q.at # "idle"
  <2> DEFINE owner == Count = 0 \/ p \in Designated
             q == [Idle EXCEPT !.at = IF owner THEN "create" ELSE "license", !.op = "register",
                               !.who = {p}, !.tier = IF owner THEN "SUPER_ADMIN" ELSE "USER"]
  <2>1. Begin(r, q)
    BY <1>1 DEF BeginRegister
  <2>2. q \in Request /\ Shape(q) /\ Unread(q) /\ q.at # "idle"
    <3>1. CASE owner
      BY <3>1 DEF Idle, Request, Places, Ops, Tiers, Shape, Unread
    <3>2. CASE ~owner
      BY <3>2 DEF Idle, Request, Places, Ops, Tiers, Shape, Unread
    <3> QED
      BY <3>1, <3>2
  <2> QED
    BY <2>1, <2>2
<1>2. ASSUME NEW actor \in People, NEW op \in Managing, NEW who \in SUBSET People,
             NEW change \in Assignments \cup {Neither},
             op # "bulk" => \E p \in People : who = {p}, BeginManage(r, actor, op, who, change)
      PROVE  \E q \in Request : Begin(r, q) /\ Shape(q) /\ Unread(q) /\ q.at # "idle"
  <2> DEFINE q == [Idle EXCEPT !.at = "targets", !.op = op, !.who = who, !.tier = row[actor].tier,
                               !.role = change.role, !.custom = change.custom]
  <2>1. Begin(r, q) /\ row[actor].tier \in Tiers
    BY <1>2 DEF BeginManage, May, Exists
  <2>2. change.role \in Tiers \cup {KEEP} /\ change.custom \in Roles \cup {NONE, KEEP}
    BY DEF Assignments, Neither
  <2>3. q \in Request
    BY <2>1, <2>2 DEF Idle, Request, Places, Ops, Managing
  <2>4. Shape(q) /\ Unread(q) /\ q.at # "idle"
    BY <1>2 DEF Shape, Unread, Idle, Managing
  <2> QED
    BY <2>1, <2>3, <2>4
<1>3. ASSUME NEW actor \in People, SaveRole(r, actor)
      PROVE  \E q \in Request : Begin(r, q) /\ Shape(q) /\ Unread(q) /\ q.at # "idle"
  <2>1. PICK wanted \in SUBSET Permissions :
            /\ Sanitize(wanted) # {}
            /\ \/ Begin(r, [Idle EXCEPT !.at = "write", !.op = "createRole", !.perms = Sanitize(wanted)])
               \/ \E o \in Roles :
                      Begin(r, [Idle EXCEPT !.at = "write", !.op = "updateRole", !.custom = o,
                                            !.perms = Sanitize(wanted)])
    BY <1>3 DEF SaveRole
  <2>2. Sanitize(wanted) \subseteq Assignable /\ Sanitize(wanted) \in SUBSET Permissions
    BY DEF Sanitize, Assignable
  <2>3. CASE Begin(r, [Idle EXCEPT !.at = "write", !.op = "createRole", !.perms = Sanitize(wanted)])
    <3> DEFINE q == [Idle EXCEPT !.at = "write", !.op = "createRole", !.perms = Sanitize(wanted)]
    <3>1. q \in Request
      BY <2>2 DEF Idle, Request, Places, Ops, Tiers
    <3>2. Shape(q) /\ Unread(q) /\ q.at # "idle"
      BY <2>1, <2>2 DEF Shape, Unread, Idle, Managing
    <3> QED
      BY <2>3, <3>1, <3>2
  <2>4. ASSUME NEW o \in Roles,
               Begin(r, [Idle EXCEPT !.at = "write", !.op = "updateRole", !.custom = o,
                                     !.perms = Sanitize(wanted)])
        PROVE  \E q \in Request : Begin(r, q) /\ Shape(q) /\ Unread(q) /\ q.at # "idle"
    <3> DEFINE q == [Idle EXCEPT !.at = "write", !.op = "updateRole", !.custom = o,
                                 !.perms = Sanitize(wanted)]
    <3>1. q \in Request
      BY <2>2 DEF Idle, Request, Places, Ops, Tiers
    <3>2. Shape(q) /\ Unread(q) /\ q.at # "idle"
      BY <2>1, <2>2 DEF Shape, Unread, Idle, Managing
    <3> QED
      BY <2>4, <3>1, <3>2
  <2> QED
    BY <2>1, <2>3, <2>4
<1>4. ASSUME NEW actor \in People, RemoveRole(r, actor)
      PROVE  \E q \in Request : Begin(r, q) /\ Shape(q) /\ Unread(q) /\ q.at # "idle"
  <2>1. PICK o \in Roles :
            Begin(r, [Idle EXCEPT !.at = "write", !.op = "removeRole", !.custom = o])
    BY <1>4 DEF RemoveRole
  <2> DEFINE q == [Idle EXCEPT !.at = "write", !.op = "removeRole", !.custom = o]
  <2>2. q \in Request /\ Shape(q) /\ Unread(q) /\ q.at # "idle"
    BY DEF Idle, Request, Places, Ops, Tiers, Shape, Unread, Managing
  <2> QED
    BY <2>1, <2>2
<1>5. ASSUME NEW actor \in People, Activate(r, actor)
      PROVE  \E q \in Request : Begin(r, q) /\ Shape(q) /\ Unread(q) /\ q.at # "idle"
  <2>1. PICK k \in Keys \ expired :
            Begin(r, [Idle EXCEPT !.at = "revoke", !.op = "activate", !.key = k])
    BY <1>5 DEF Activate
  <2> DEFINE q == [Idle EXCEPT !.at = "revoke", !.op = "activate", !.key = k]
  <2>2. q \in Request /\ Shape(q) /\ Unread(q) /\ q.at # "idle"
    BY DEF Idle, Request, Places, Ops, Tiers, Shape, Unread, Managing
  <2> QED
    BY <2>1, <2>2
<1>6. ASSUME NEW actor \in People,
             \/ ChangeAssignment(r, actor) \/ ToggleCalls(r, actor) \/ RemoveUser(r, actor)
             \/ ApplyBulk(r, actor)
      PROVE  \E q \in Request : Begin(r, q) /\ Shape(q) /\ Unread(q) /\ q.at # "idle"
  <2>1. CASE ApplyBulk(r, actor)
    BY <1>2, <2>1 DEF ApplyBulk, Managing
  <2>2. CASE ChangeAssignment(r, actor)
    BY <1>2, <2>2 DEF ChangeAssignment, Managing
  <2>3. CASE ToggleCalls(r, actor)
    BY <1>2, <2>3 DEF ToggleCalls, Managing
  <2>4. CASE RemoveUser(r, actor)
    BY <1>2, <2>4 DEF RemoveUser, Managing
  <2> QED
    BY <1>6, <2>1, <2>2, <2>3, <2>4
<1>7. begun' \in 0 .. MaxRequests
  BY DEF Arrive, Parts
<1> QED
  BY <1>1, <1>3, <1>4, <1>5, <1>6, <1>7 DEF Arrive

\* A request that is answered is idle again; the others stay as they were, but
\* that some of them learn nothing of it.
LEMMA Answered ==
  ASSUME RequestType, Shaped, NEW r \in Requests, Answer(r)
  PROVE  /\ RequestType' /\ Shaped' /\ req'[r] = Idle /\ begun' = begun
         /\ \A s \in Requests \ {r} :
                \/ req'[s] = req[s] /\ (row' = row \/ req[s].at = "idle")
                \/ req'[s] = [req[s] EXCEPT !.stale = TRUE]
<1>1. ASSUME NEW s \in Requests \ {r}
      PROVE  /\ req'[s] \in Request /\ Shape(req'[s])
             /\ \/ req'[s] = req[s] /\ (row' = row \/ req[s].at = "idle")
                \/ req'[s] = [req[s] EXCEPT !.stale = TRUE]
  <2>1. CASE req[s].at # "idle" /\ row' # row
    <3>1. req'[s] = [req[s] EXCEPT !.stale = TRUE]
      BY <2>1 DEF Answer
    <3>2. req[s] \in Request /\ Shape(req[s])
      BY DEF RequestType, Shaped
    <3>3. req'[s] \in Request
      BY <3>1, <3>2 DEF Request
    <3>4. /\ req'[s].at = req[s].at /\ req'[s].op = req[s].op /\ req'[s].who = req[s].who
          /\ req'[s].perms = req[s].perms /\ req'[s].custom = req[s].custom
          /\ req'[s].key = req[s].key /\ req'[s].tier = req[s].tier /\ req'[s].role = req[s].role
      BY <3>1, <3>2 DEF Request
    <3>5. Shape(req'[s])
      BY <3>2, <3>4 DEF Shape, NewRole
    <3> QED
      BY <3>1, <3>3, <3>5
  <2>2. CASE ~(req[s].at # "idle" /\ row' # row)
    BY <2>2 DEF Answer, RequestType, Shaped
  <2> QED
    BY <2>1, <2>2
<1>2. req'[r] = Idle /\ begun' = begun
  BY DEF Answer
<1>3. \A s \in Requests : req'[s] \in Request /\ Shape(req'[s])
  BY <1>1, <1>2, IdleRequest
<1>4. req' \in [Requests -> Request]
  <2>1. req' = [s \in Requests |-> req'[s]]
    BY DEF Answer
  <2> QED
    BY <1>3, <2>1
<1> QED
  BY <1>1, <1>2, <1>3, <1>4 DEF RequestType, Shaped

\* A request that goes on by itself leaves the others and the data alone.
LEMMA GoesOn ==
  ASSUME Parts, Shaped, NEW r \in Requests, NEW q \in Request, Shape(q),
         req' = [req EXCEPT ![r] = q], Read
  PROVE  Parts' /\ Shaped'
<1>1. RequestType' /\ Shaped'
  BY Puts DEF Parts, Shaped
<1> QED
  BY <1>1 DEF Parts, RowType, Overlays, RoleType, LicenseType, Read, roles, license

\* A refused request ends without a write.
LEMMA Refused ==
  ASSUME Parts, Shaped, NEW r \in Requests, Refuse(r)
  PROVE  Parts' /\ Shaped'
BY GoesOn, IdleRequest DEF Refuse

-----------------------------------------------------------------------------
(* The steps of a request                                                  *)

\* The steps that only read.
LEMMA Reads ==
  ASSUME Parts, Shaped, NEW r \in Requests,
         ReadLicense(r) \/ CountSeats(r) \/ ReadTargets(r) \/ CountSupers(r) \/ CountBatch(r) \/ Fail(r)
  PROVE  Parts' /\ Shaped'
<1> DEFINE q == req[r]
<1>0. q \in Request /\ Shape(q)
  BY DEF Parts, RequestType, Shaped
<1>1. CASE Refuse(r)
  BY <1>1, Refused
<1>2. CASE ReadLicense(r)
  <2>1. Capacity \in Nat
    BY DEF Parts, LicenseType, Capacity
  <2>2. [q EXCEPT !.at = "seats", !.n = Capacity] \in Request
    BY <1>0, <2>1 DEF Request, Places
  <2>3. Shape([q EXCEPT !.at = "seats", !.n = Capacity])
    BY <1>0, <1>2 DEF ReadLicense, At, Shape, Request
  <2>4. req' = [req EXCEPT ![r] = [q EXCEPT !.at = "seats", !.n = Capacity]] /\ Read
    BY <1>2 DEF ReadLicense
  <2> QED
    BY <2>2, <2>3, <2>4, GoesOn
<1>3. CASE CountSeats(r) /\ ~Refuse(r)
  <2>1. [q EXCEPT !.at = "create", !.stale = FALSE] \in Request
    BY <1>0 DEF Request, Places
  <2>2. Shape([q EXCEPT !.at = "create", !.stale = FALSE])
    BY <1>0, <1>3 DEF CountSeats, At, Shape, Request
  <2>3. req' = [req EXCEPT ![r] = [q EXCEPT !.at = "create", !.stale = FALSE]] /\ Read
    BY <1>3 DEF CountSeats
  <2> QED
    BY <2>1, <2>2, <2>3, GoesOn
<1>4. CASE ReadTargets(r) /\ ~Refuse(r)
  <2> DEFINE targets == {p \in q.who : Exists(p)}
             demoted == IF Demotes(q) THEN targets \cap Supers ELSE {}
             next == [q EXCEPT !.at = IF demoted = {} THEN "write" ELSE "supers",
                               !.who = targets, !.n = Cardinality(demoted), !.stale = FALSE]
  <2>1. /\ req' = [req EXCEPT ![r] = next] /\ Read /\ q.at = "targets"
        /\ Allowed(q, targets) /\ (q.op # "bulk" => targets = q.who)
    BY <1>4 DEF ReadTargets, At
  <2>2. targets \subseteq People /\ Cardinality(demoted) \in Nat
    <3>1. targets \subseteq People /\ demoted \subseteq People
      BY <1>0 DEF Request
    <3>2. IsFiniteSet(demoted)
      BY <3>1, FS_Subset
    <3> QED
      BY <3>1, <3>2, FS_CardinalityType
  <2>3. next \in Request
    BY <1>0, <2>2 DEF Request, Places
  <2>4. next.at \in {"write", "supers"} /\ next.op = q.op /\ next.who = targets
        /\ next.role = q.role /\ next.custom = q.custom /\ next.tier = q.tier /\ q.op \in Managing
    BY <1>0, <2>1 DEF Request, Shape
  <2>5. Shape(next)
    <3> HIDE DEF next
    <3> QED
      BY <1>0, <2>1, <2>4 DEF Shape, Allowed, NewRole, Managing
  <2> QED
    BY <2>1, <2>3, <2>5, GoesOn
<1>5. ASSUME NEW place \in {"batch", "write"}, Goto(r, place), q.at \in {"supers", "batch"},
             place = "batch" => q.op = "bulk"
      PROVE  Parts' /\ Shaped'
  <2> DEFINE next == [q EXCEPT !.at = place]
  <2>1. next \in Request
    BY <1>0 DEF Request, Places
  <2>2. /\ next.at = place /\ next.op = q.op /\ next.who = q.who /\ next.role = q.role
        /\ next.custom = q.custom /\ next.tier = q.tier /\ q.op \in Managing
    BY <1>0, <1>5 DEF Request, Shape
  <2>3. Shape(next)
    <3> HIDE DEF next
    <3> QED
      BY <1>0, <1>5, <2>2 DEF Shape, NewRole, Managing
  <2>4. req' = [req EXCEPT ![r] = next] /\ Read
    BY <1>5 DEF Goto
  <2> QED
    BY <2>1, <2>3, <2>4, GoesOn
<1>6. CASE CountSupers(r) /\ ~Refuse(r)
  BY <1>5, <1>6 DEF CountSupers, At
<1>7. CASE CountBatch(r) /\ ~Refuse(r)
  BY <1>5, <1>7 DEF CountBatch, At
<1> QED
  BY <1>1, <1>2, <1>3, <1>4, <1>6, <1>7 DEF Fail

\* A new account has no custom role.
LEMMA Creates ==
  ASSUME Parts, Shaped, NEW r \in Requests, Create(r)
  PROVE  Parts' /\ Shaped'
<1>1. CASE Refuse(r)
  BY <1>1, Refused
<1>2. CASE ~Refuse(r)
  <2>1. /\ row' = [p \in People |-> IF p \in req[r].who THEN [tier |-> req[r].tier, custom |-> NONE]
                                    ELSE row[p]]
        /\ Answer(r) /\ UNCHANGED roles /\ UNCHANGED license
    BY <1>2 DEF Create
  <2>2. RequestType' /\ Shaped' /\ begun' = begun
    BY <2>1, Answered DEF Parts
  <2>3. req[r].tier \in Tiers
    BY DEF Parts, RequestType, Request
  <2>4. RowType' /\ Overlays'
    BY <2>1, <2>3 DEF Parts, RowType, Overlays, roles
  <2> QED
    BY <2>1, <2>2, <2>4 DEF Parts, RoleType, LicenseType, roles, license
<1> QED
  BY <1>1, <1>2

\* A change of an account gives it a custom role only with the USER tier, and
\* only one that exists.
LEMMA ChangedRow ==
  ASSUME Parts, Shaped, NEW r \in Requests, NEW p \in People, Exists(p),
         req[r].custom \in Roles => perms[req[r].custom] # {}
  PROVE  LET new == Changed(row[p], req[r]) IN
         /\ new \in [tier : Tiers \cup {"NONE", "DELETED"}, custom : Roles \cup {NONE}]
         /\ new.custom # NONE => new.tier = "USER" /\ perms[new.custom] # {}
<1> DEFINE q == req[r]
<1>1. q \in Request /\ row[p] \in [tier : Tiers \cup {"NONE", "DELETED"}, custom : Roles \cup {NONE}]
  BY DEF Parts, RequestType, RowType
<1>2. row[p].custom # NONE => row[p].tier = "USER" /\ perms[row[p].custom] # {}
  BY DEF Parts, Overlays
<1>3. CASE q.op = "delete"
  BY <1>3 DEF Changed
<1>4. CASE q.op # "delete" /\ q.custom = KEEP
  BY <1>1, <1>2, <1>4 DEF Changed, Request
<1>5. CASE q.op # "delete" /\ q.custom = NONE /\ q.custom # KEEP
  BY <1>1, <1>5 DEF Changed, Request
<1>6. CASE q.op # "delete" /\ q.custom \notin {NONE, KEEP}
  <2>1. q.custom \in Roles
    BY <1>1, <1>6 DEF Request
  <2>2. Changed(row[p], q) = [tier |-> "USER", custom |-> q.custom]
    BY <1>6 DEF Changed
  <2> QED
    BY <2>1, <2>2 DEF Tiers
<1> QED
  BY <1>3, <1>4, <1>5, <1>6

\* A write of an account keeps the types.
LEMMA Writing ==
  ASSUME Parts, Shaped, NEW r \in Requests, Write(r)
  PROVE  Parts' /\ Shaped'
<1> DEFINE targets == {p \in req[r].who : Exists(p)}
<1>1. CASE Refuse(r)
  BY <1>1, Refused
<1>2. CASE ~Refuse(r)
  <2>1. /\ row' = [p \in People |-> IF p \in targets THEN Changed(row[p], req[r]) ELSE row[p]]
        /\ req[r].custom \in Roles => perms[req[r].custom] # {}
        /\ Answer(r) /\ UNCHANGED roles /\ UNCHANGED license
    BY <1>2 DEF Write
  <2>2. RequestType' /\ Shaped' /\ begun' = begun
    BY <2>1, Answered DEF Parts
  <2>3. ASSUME NEW p \in People
        PROVE  /\ row'[p] \in [tier : Tiers \cup {"NONE", "DELETED"}, custom : Roles \cup {NONE}]
               /\ row'[p].custom # NONE => row'[p].tier = "USER" /\ perms[row'[p].custom] # {}
    <3>1. CASE p \in targets
      <4>1. Exists(p) /\ row'[p] = Changed(row[p], req[r])
        BY <2>1, <3>1
      <4> QED
        BY <2>1, <4>1, ChangedRow
    <3>2. CASE p \notin targets
      <4>1. row'[p] = row[p]
        BY <2>1, <3>2
      <4> QED
        BY <4>1 DEF Parts, RowType, Overlays
    <3> QED
      BY <3>1, <3>2
  <2>4. RowType' /\ Overlays'
    <3>1. row' = [p \in People |-> row'[p]]
      BY <2>1
    <3> QED
      BY <2>1, <2>3, <3>1 DEF RowType, Overlays, roles
  <2> QED
    BY <2>1, <2>2, <2>4 DEF Parts, RoleType, LicenseType, roles, license
<1> QED
  BY <1>1, <1>2

\* A removed role leaves no account behind that carries it.
LEMMA WritesRole ==
  ASSUME Parts, Shaped, NEW r \in Requests, CreateRole(r) \/ WriteRole(r)
  PROVE  Parts' /\ Shaped'
<1> DEFINE q == req[r]
<1>0. q \in Request /\ Shape(q)
  BY DEF Parts, RequestType, Shaped
<1>1. CASE Refuse(r)
  BY <1>1, Refused
<1>2. CASE CreateRole(r)
  <2>1. PICK o \in Roles \ retired : perms[o] = {} /\ perms' = [perms EXCEPT ![o] = q.perms]
    BY <1>2 DEF CreateRole
  <2>2. /\ UNCHANGED <<row, retired, license>> /\ Answer(r)
        /\ q.perms # {} /\ q.perms \subseteq Assignable
    BY <1>0, <1>2 DEF CreateRole, At, Shape
  <2>3. RequestType' /\ Shaped' /\ begun' = begun
    BY <2>2, Answered DEF Parts
  <2>4. RoleType' /\ Overlays' /\ RowType'
    BY <2>1, <2>2 DEF Parts, RoleType, Overlays, RowType
  <2> QED
    BY <2>2, <2>3, <2>4 DEF Parts, LicenseType, license
<1>3. CASE WriteRole(r) /\ ~Refuse(r)
  <2>1. /\ q.op \in {"updateRole", "removeRole"} /\ q.at = "write" /\ q.custom \in Roles
        /\ perms' = [perms EXCEPT ![q.custom] = q.perms] /\ q.perms \subseteq Assignable
        /\ UNCHANGED license /\ Answer(r)
    BY <1>0, <1>3 DEF WriteRole, At, Shape
  <2>2. RequestType' /\ Shaped' /\ begun' = begun
    BY <2>1, Answered DEF Parts
  <2>3. CASE q.op = "updateRole"
    <3>1. UNCHANGED <<row, retired>> /\ q.perms # {}
      BY <1>0, <1>3, <2>1, <2>3 DEF WriteRole, Shape
    <3> QED
      BY <2>1, <2>2, <3>1 DEF Parts, RowType, Overlays, RoleType, LicenseType, license
  <2>4. CASE q.op = "removeRole"
    <3>1. /\ retired' = retired \cup {q.custom}
          /\ row' = [p \in People |-> IF row[p].custom = q.custom
                                      THEN [row[p] EXCEPT !.custom = NONE] ELSE row[p]]
      BY <1>3, <2>4 DEF WriteRole
    <3>2. RowType' /\ Overlays'
      BY <2>1, <3>1 DEF Parts, RowType, Overlays, RoleType
    <3> QED
      BY <2>1, <2>2, <3>1, <3>2 DEF Parts, RoleType, LicenseType, license
  <2> QED
    BY <2>1, <2>3, <2>4
<1> QED
  BY <1>1, <1>2, <1>3

\* A write of a license keeps the types.
LEMMA WritesLicense ==
  ASSUME Parts, Shaped, NEW r \in Requests, Revoke(r) \/ Upsert(r)
  PROVE  Parts' /\ Shaped'
<1> DEFINE q == req[r]
<1>0. q \in Request /\ Shape(q)
  BY DEF Parts, RequestType, Shaped
<1>1. CASE Revoke(r)
  <2>1. [q EXCEPT !.at = "upsert"] \in Request /\ Shape([q EXCEPT !.at = "upsert"])
    BY <1>0, <1>1 DEF Revoke, At, Request, Places, Shape
  <2>2. RequestType' /\ Shaped'
    BY <1>1, <2>1, Puts DEF Revoke, Parts, Shaped
  <2> QED
    BY <1>1, <2>2 DEF Revoke, Parts, RowType, Overlays, RoleType, LicenseType, roles
<1>2. CASE Upsert(r)
  <2>1. RequestType' /\ Shaped' /\ begun' = begun
    BY <1>2, Answered DEF Upsert, Parts
  <2>2. q.key \in Keys
    BY <1>0, <1>2 DEF Upsert, At, Shape
  <2>3. active' \in Keys
    BY <1>2, <2>2 DEF Upsert
  <2> QED
    BY <1>2, <2>1, <2>3 DEF Upsert, Parts, RowType, Overlays, RoleType, LicenseType, roles
<1> QED
  BY <1>1, <1>2

\* Every step keeps the types.
LEMMA PartsStay == Parts /\ Shaped /\ [Next]_vars => Parts' /\ Shaped'
<1> SUFFICES ASSUME Parts, Shaped, [Next]_vars PROVE Parts' /\ Shaped'
  OBVIOUS
<1>1. CASE UNCHANGED vars
  BY <1>1
  DEF vars, roles, license, Parts, Shaped, RowType, Overlays, RoleType, LicenseType, RequestType
<1>2. ASSUME NEW r \in Requests, Arrive(r) PROVE Parts' /\ Shaped'
  <2>1. PICK q \in Request : Begin(r, q) /\ Shape(q)
    BY <1>2, Arrival
  <2>2. RequestType' /\ Shaped' /\ begun' \in 0 .. MaxRequests
    BY <1>2, <2>1, Puts, Arrival DEF Begin, Parts, Shaped
  <2> QED
    BY <2>1, <2>2 DEF Begin, Parts, RowType, Overlays, RoleType, LicenseType, roles, license
<1>3. ASSUME NEW r \in Requests, Proceed(r) PROVE Parts' /\ Shaped'
  BY <1>3, Reads, Creates, Writing, WritesRole, WritesLicense DEF Proceed
<1>4. ASSUME NEW k \in Keys, KeyExpires(k) PROVE Parts' /\ Shaped'
  BY <1>4
  DEF KeyExpires, roles, Parts, Shaped, RowType, Overlays, RoleType, LicenseType, RequestType
<1> QED
  BY <1>1, <1>2, <1>3, <1>4 DEF Next

\* The types hold at first.
LEMMA PartsStart == Init => Parts /\ Shaped
<1> SUFFICES ASSUME Init PROVE Parts /\ Shaped
  OBVIOUS
<1>1. RequestType /\ Shaped
  BY IdleRequest DEF Init, RequestType, Shaped
<1>2. RowType /\ Overlays /\ RoleType /\ LicenseType /\ begun \in 0 .. MaxRequests
  BY DEF Init, RowType, Overlays, RoleType, LicenseType
<1> QED
  BY <1>1, <1>2 DEF Parts

\* Every variable keeps its type, and every account that carries a custom role
\* carries one that exists.
THEOREM TypeCorrect == Spec => []TypeOK
BY PartsStart, PartsStay, PartsGiveType, PTL DEF Spec

\* No custom role reaches beyond the USER tier, and nobody but a super-admin
\* may manage the license (schema.prisma:76-78).
THEOREM OverlaysAreHarmless == Spec => []OverlayNeverEscalates
<1>1. Parts => OverlayNeverEscalates
  <2> SUFFICES ASSUME Parts, NEW p \in People
               PROVE  /\ row[p].custom # NONE => row[p].tier = "USER"
                      /\ May(p, "license.manage") => row[p].tier = "SUPER_ADMIN"
    BY DEF OverlayNeverEscalates
  <2>1. row[p].custom # NONE => row[p].tier = "USER"
    BY DEF Parts, Overlays
  <2>2. ASSUME May(p, "license.manage"), row[p].tier # "SUPER_ADMIN" PROVE FALSE
    <3>1. row[p].tier \in {"USER", "ADMIN"} /\ "license.manage" \in Resolve(p)
      BY <2>2 DEF May, Exists, Tiers
    <3>2. Resolve(p) \subseteq Assignable
      <4>1. CASE row[p].custom # NONE
        BY <2>2, <4>1 DEF Resolve, Parts, RowType, RoleType
      <4>2. CASE row[p].custom = NONE
        BY <3>1, <4>2 DEF Resolve, RolePermissions, Assignable
      <4> QED
        BY <4>1, <4>2
    <3> QED
      BY <3>1, <3>2 DEF Assignable
  <2> QED
    BY <2>1, <2>2
<1> QED
  BY <1>1, PartsStart, PartsStay, PTL DEF Spec

-----------------------------------------------------------------------------
(* What a request may rely on while nobody else has written the accounts   *)

\* Nothing of the accounts has changed since the reads of request r: the
\* targets are not above the one who asks, and enough super-admins and seats
\* are left.
Relies(r) ==
    LET q == req[r]
        removed == {p \in q.who : p \in Supers}
    IN  /\ q.at \in {"supers", "batch", "write"} /\ q.op \in Managing =>
               \A p \in q.who : Exists(p) /\ Rank[row[p].tier] <= Rank[q.tier]
        /\ q.at \in {"supers", "batch"} => q.n = Cardinality(removed)
        /\ q.at = "write" /\ q.op \in Managing /\ Demotes(q) =>
               removed = {} \/ Supers \ q.who # {}
        /\ q.at = "create" /\ q.tier = "USER" => Count < q.n

Careful == \A r \in Requests : ~req[r].stale => Relies(r)

\* A set of people is finite.
LEMMA SomePeople ==
  ASSUME NEW S, S \subseteq People
  PROVE  IsFiniteSet(S) /\ Cardinality(S) \in Nat
BY FS_Subset, FS_CardinalityType

\* While the rows are the same, so are the counts made of them.
LEMMA SameAccounts ==
  ASSUME UNCHANGED row
  PROVE  Supers' = Supers /\ Count' = Count /\ \A p \in People : Exists(p)' = Exists(p)
BY DEF Supers, Count, Exists

\* A request that has not moved relies on what it relied on.
LEMMA Unmoved ==
  ASSUME RequestType, NEW r \in Requests, req'[r] = req[r], UNCHANGED row, Relies(r)
  PROVE  Relies(r)'
<1>1. req[r].who \subseteq People
  BY DEF RequestType, Request
<1> QED
  BY <1>1, SameAccounts DEF Relies

\* The requests that did not take the step still rely on what they have read.
LEMMA OthersRely ==
  ASSUME RequestType, Careful, NEW r \in Requests,
         \/ row' = row /\ \A s \in Requests \ {r} : req'[s] = req[s]
         \/ \A s \in Requests \ {r} :
                \/ req'[s] = req[s] /\ (row' = row \/ req[s].at = "idle")
                \/ req'[s] = [req[s] EXCEPT !.stale = TRUE],
         ~req'[r].stale => Relies(r)'
  PROVE  Careful'
<1> SUFFICES ASSUME NEW s \in Requests \ {r}, ~req'[s].stale PROVE Relies(s)'
  BY DEF Careful
<1>1. req[s] \in Request
  BY DEF RequestType
<1>0. [req[s] EXCEPT !.stale = TRUE].stale = TRUE
  BY <1>1 DEF Request
<1>2. req'[s] = req[s] /\ (row' = row \/ req[s].at = "idle")
  BY <1>0
<1>3. CASE row' = row
  BY <1>2, <1>3, Unmoved DEF Careful
<1>4. CASE req[s].at = "idle"
  BY <1>2, <1>4 DEF Relies
<1> QED
  BY <1>2, <1>3, <1>4

\* A request that has not begun relies on nothing.
LEMMA IdleRelies ==
  ASSUME NEW r \in Requests, req'[r] = Idle
  PROVE  Relies(r)'
BY DEF Relies, Idle

\* Reading the targets, and finding them allowed, is what a change relies on.
LEMMA TargetsRead ==
  ASSUME Parts, Shaped, NEW r \in Requests, ReadTargets(r), ~Refuse(r)
  PROVE  Relies(r)'
<1> DEFINE q == req[r]
           targets == {p \in q.who : Exists(p)}
           demoted == IF Demotes(q) THEN targets \cap Supers ELSE {}
           next == [q EXCEPT !.at = IF demoted = {} THEN "write" ELSE "supers",
                             !.who = targets, !.n = Cardinality(demoted), !.stale = FALSE]
<1>1. /\ req' = [req EXCEPT ![r] = next] /\ UNCHANGED row
      /\ \A p \in targets : Rank[row[p].tier] <= Rank[q.tier]
  BY DEF ReadTargets, Allowed, Read
<1>2. q \in Request
  BY DEF Parts, RequestType
<1>3. /\ req'[r].at = (IF demoted = {} THEN "write" ELSE "supers") /\ req'[r].who = targets
      /\ req'[r].n = Cardinality(demoted) /\ req'[r].op = q.op /\ req'[r].tier = q.tier
      /\ req'[r].role = q.role /\ req'[r].custom = q.custom
  BY <1>1, <1>2 DEF Parts, RequestType, Request
<1>4. Supers' = Supers /\ \A p \in targets : Exists(p)' /\ row'[p] = row[p]
  BY <1>1, <1>2, SameAccounts DEF Request
<1>5. Demotes(req'[r]) = Demotes(q)
  BY <1>3 DEF Demotes, NewRole
<1>6. {p \in targets : p \in Supers} = targets \cap Supers
  OBVIOUS
<1>7. CASE demoted = {}
  BY <1>1, <1>3, <1>4, <1>5, <1>6, <1>7 DEF Relies
<1>8. CASE demoted # {}
  <2>1. Demotes(q) /\ demoted = targets \cap Supers
    BY <1>8
  <2>2. {p \in req'[r].who : p \in Supers'} = demoted
    BY <1>3, <1>4, <2>1
  <2>3. req'[r].n = Cardinality({p \in req'[r].who : p \in Supers'}) /\ req'[r].at = "supers"
    BY <1>3, <1>8, <2>2
  <2>4. \A p \in req'[r].who : Exists(p)' /\ Rank[row'[p].tier] <= Rank[req'[r].tier]
    BY <1>1, <1>3, <1>4
  <2> QED
    BY <2>3, <2>4 DEF Relies
<1> QED
  BY <1>7, <1>8

\* One super-admin among several, or n of more than n, leave one.
LEMMA SupersCounted ==
  ASSUME Parts, Shaped, NEW r \in Requests, CountSupers(r) \/ CountBatch(r), ~Refuse(r),
         ~req[r].stale, Relies(r)
  PROVE  Relies(r)'
<1> DEFINE q == req[r]
<1>1. q \in Request /\ Shape(q)
  BY DEF Parts, RequestType, Shaped
<1>2. PICK place \in {"batch", "write"} : Goto(r, place)
  BY DEF CountSupers, CountBatch
<1>3. /\ req'[r].at = place /\ req'[r].who = q.who /\ req'[r].n = q.n /\ req'[r].op = q.op
      /\ req'[r].tier = q.tier /\ req'[r].role = q.role /\ req'[r].custom = q.custom
      /\ UNCHANGED row
  BY <1>1, <1>2 DEF Goto, Read, Parts, RequestType, Request
<1>4. q.at \in {"supers", "batch"}
  BY DEF CountSupers, CountBatch, At
<1>5. Supers' = Supers /\ \A p \in q.who : Exists(p)' = Exists(p) /\ row'[p] = row[p]
  BY <1>1, <1>3, SameAccounts DEF Request
<1>6. \A p \in q.who : Exists(p) /\ Rank[row[p].tier] <= Rank[q.tier]
  BY <1>1, <1>4 DEF Relies, Shape
<1>7. q.n = Cardinality({p \in q.who : p \in Supers})
  BY <1>4 DEF Relies
<1>8. ASSUME place = "write" PROVE Supers \ q.who # {}
  <2>1. SUFFICES ASSUME Supers \subseteq q.who PROVE FALSE
    OBVIOUS
  <2>2. Supers \subseteq People /\ IsFiniteSet(Supers) /\ Cardinality(Supers) \in Nat
    BY SomePeople DEF Supers
  <2>3. {p \in q.who : p \in Supers} = Supers
    BY <2>1
  <2>4. CASE CountBatch(r)
    <3>1. q.n = Cardinality(Supers)
      BY <1>7, <2>3
    <3> QED
      BY <2>2, <2>4, <3>1 DEF CountBatch
  <2>5. CASE CountSupers(r)
    <3>1. Cardinality(Supers) > 1 /\ q.op # "bulk" /\ q.at = "supers"
      BY <1>2, <1>8, <1>3, <1>1, <2>2, <2>5
      DEF CountSupers, At, Goto, Parts, RequestType, Request
    <3>2. q.op \in {"update", "delete"}
      BY <1>1, <3>1 DEF Shape, Managing
    <3>3. PICK p \in People : q.who = {p}
      BY <1>1, <3>1, <3>2 DEF Shape
    <3>4. Cardinality(Supers) <= Cardinality({p})
      BY <2>1, <3>3, FS_Subset, FS_Singleton
    <3>5. Cardinality({p}) = 1
      BY FS_Singleton
    <3> QED
      BY <2>2, <3>1, <3>4, <3>5
  <2> QED
    BY <2>4, <2>5
<1>9. {p \in req'[r].who : p \in Supers'} = {p \in q.who : p \in Supers}
  BY <1>3, <1>5
<1>10. place = "batch" => req'[r].n = Cardinality({p \in req'[r].who : p \in Supers'})
  BY <1>3, <1>7, <1>9
<1> QED
  BY <1>2, <1>3, <1>5, <1>6, <1>8, <1>10 DEF Relies

\* There was a seat when the accounts were counted.
LEMMA SeatsCounted ==
  ASSUME Parts, Shaped, NEW r \in Requests, CountSeats(r), ~Refuse(r)
  PROVE  Relies(r)'
<1>1. req[r] \in Request
  BY DEF Parts, RequestType
<1>2. Count \in Nat
  BY SomePeople DEF Count
<1>3. /\ req' = [req EXCEPT ![r].at = "create", ![r].stale = FALSE] /\ UNCHANGED row
      /\ ~(Count >= req[r].n)
  BY DEF CountSeats, Read
<1>4. req'[r].at = "create" /\ req'[r].n = req[r].n
  BY <1>1, <1>3 DEF Parts, RequestType, Request
<1>5. Count < req[r].n
  BY <1>1, <1>2, <1>3 DEF Request
<1> QED
  BY <1>3, <1>4, <1>5, SameAccounts DEF Relies

\* Every step keeps what the requests rely on.
LEMMA CarefulStays == Parts /\ Shaped /\ Careful /\ [Next]_vars => Careful'
<1> SUFFICES ASSUME Parts, Shaped, Careful, [Next]_vars PROVE Careful'
  OBVIOUS
<1>0. RequestType /\ \A r \in Requests : req[r] \in Request
  BY DEF Parts, RequestType
<1>1. ASSUME UNCHANGED <<row, req>> PROVE Careful'
  BY <1>0, <1>1, Unmoved DEF Careful
<1>2. ASSUME NEW r \in Requests, NEW q \in Request, req' = [req EXCEPT ![r] = q], UNCHANGED row,
             ~req'[r].stale => Relies(r)'
      PROVE  Careful'
  BY <1>0, <1>2, Puts, OthersRely
<1>3. ASSUME NEW r \in Requests, Arrive(r) PROVE Careful'
  <2>1. PICK q \in Request : Begin(r, q) /\ Unread(q)
    BY <1>3, Arrival
  <2>2. req' = [req EXCEPT ![r] = q] /\ UNCHANGED row /\ req'[r] = q
    BY <1>0, <2>1, Puts DEF Begin
  <2>3. Relies(r)'
    BY <2>1, <2>2 DEF Unread, Relies
  <2> QED
    BY <1>2, <2>2, <2>3
<1>4. ASSUME NEW r \in Requests, Refuse(r) PROVE Careful'
  <2>1. req' = [req EXCEPT ![r] = Idle] /\ UNCHANGED row /\ req'[r] = Idle
    BY <1>0, <1>4, IdleRequest, Puts DEF Refuse, Read
  <2> QED
    BY <1>2, <2>1, IdleRequest, IdleRelies
<1>5. ASSUME NEW r \in Requests, Answer(r) PROVE Careful'
  BY <1>0, <1>5, Answered, IdleRelies, OthersRely
<1>6. ASSUME NEW r \in Requests, ReadLicense(r) PROVE Careful'
  <2> DEFINE q == [req[r] EXCEPT !.at = "seats", !.n = Capacity]
  <2>1. Capacity \in Nat
    BY DEF Parts, LicenseType, Capacity
  <2>2. q \in Request /\ q.at = "seats"
    BY <1>0, <2>1 DEF Request, Places
  <2>3. req' = [req EXCEPT ![r] = q] /\ UNCHANGED row
    BY <1>6 DEF ReadLicense, Read
  <2>4. req'[r].at = "seats"
    BY <1>0, <2>2, <2>3, Puts
  <2>5. Relies(r)'
    BY <2>4 DEF Relies
  <2> HIDE DEF q
  <2> QED
    BY <1>2, <2>2, <2>3, <2>5
<1>7. ASSUME NEW r \in Requests, CountSeats(r) \/ ReadTargets(r) \/ CountSupers(r) \/ CountBatch(r),
             ~Refuse(r)
      PROVE  Careful'
  <2>1. UNCHANGED row /\ \A s \in Requests \ {r} : req'[s] = req[s]
    BY <1>0, <1>7 DEF CountSeats, ReadTargets, CountSupers, CountBatch, Goto, Read, Parts, RequestType
  <2>2. ASSUME ~req'[r].stale, CountSupers(r) \/ CountBatch(r) PROVE Relies(r)'
    <3>1. ~req[r].stale
      BY <1>0, <1>7, <2>2 DEF CountSupers, CountBatch, Goto, Parts, RequestType, Request
    <3> QED
      BY <1>7, <2>2, <3>1, SupersCounted DEF Careful
  <2> QED
    BY <1>0, <1>7, <2>1, <2>2, TargetsRead, SeatsCounted, OthersRely
<1>8. ASSUME NEW r \in Requests, Revoke(r) PROVE Careful'
  <2>1. [req[r] EXCEPT !.at = "upsert"] \in Request /\ [req[r] EXCEPT !.at = "upsert"].at = "upsert"
    BY <1>0 DEF Request, Places
  <2>2. req' = [req EXCEPT ![r] = [req[r] EXCEPT !.at = "upsert"]] /\ UNCHANGED row
    BY <1>8 DEF Revoke
  <2>3. req'[r].at = "upsert"
    BY <1>0, <2>1, <2>2, Puts
  <2>4. Relies(r)'
    BY <2>3 DEF Relies
  <2> QED
    BY <1>2, <2>1, <2>2, <2>4
<1>9. ASSUME NEW r \in Requests, Proceed(r) PROVE Careful'
  BY <1>4, <1>5, <1>6, <1>7, <1>8, <1>9
  DEF Proceed, Create, Write, CreateRole, WriteRole, Upsert, Fail
<1> QED
  BY <1>1, <1>3, <1>9 DEF Next, vars, KeyExpires

\* At first nobody relies on anything.
LEMMA CarefulStarts == Init => Careful
BY DEF Init, Careful, Relies, Idle

-----------------------------------------------------------------------------
(* Who writes the accounts                                                 *)

\* An account changes in the last step of one request only.
LEMMA OneWriter ==
  ASSUME Parts, Shaped, [Next]_vars, row' # row
  PROVE  \E r \in Requests :
             /\ Create(r) \/ Write(r) \/ WriteRole(r)
             /\ ~Refuse(r) /\ Answer(r) /\ Writes(r)
             /\ \A s \in Requests : Writes(s) => s = r
<1>1. PICK r \in Requests : (Create(r) \/ Write(r) \/ WriteRole(r)) /\ ~Refuse(r)
  BY DEF Next, Proceed, vars, KeyExpires, Arrive, Begin, BeginRegister, ChangeAssignment,
         ToggleCalls, RemoveUser, ApplyBulk, BeginManage, SaveRole, RemoveRole, Activate,
         ReadLicense, CountSeats, ReadTargets, CountSupers, CountBatch, CreateRole, Revoke, Upsert,
         Fail, Refuse, Goto, Read
<1>2. Answer(r)
  BY <1>1 DEF Create, Write, WriteRole
<1>3. Writes(r)
  BY <1>1, <1>2 DEF Writes, Answer, Create, Write, WriteRole, At
<1>4. ASSUME NEW s \in Requests \ {r}, Writes(s) PROVE FALSE
  <2>1. req[s] \in Request /\ req[s].at # "idle" /\ req'[s] = Idle
    BY <1>4 DEF Writes, At, Parts, RequestType
  <2>2. \/ req'[s] = req[s]
        \/ req'[s] = [req[s] EXCEPT !.stale = TRUE]
    BY <1>2, Answered DEF Parts
  <2>3. req'[s].at = req[s].at
    BY <2>1, <2>2 DEF Request
  <2> QED
    BY <2>1, <2>3, IdleRequest
<1> QED
  BY <1>1, <1>2, <1>3, <1>4

\* What a change of accounts makes of one of them.
LEMMA WhatWritesDo ==
  ASSUME Parts, Shaped, NEW r \in Requests, Write(r), ~Refuse(r), NEW p \in People
  PROVE  LET q == req[r] IN
         /\ q.at = "write" /\ q.op \in Managing
         /\ row'[p] = IF p \in q.who /\ Exists(p) THEN Changed(row[p], q) ELSE row[p]
BY DEF Write, At, Managing

\* Who becomes a super admin was given the role, who is one no more was demoted.
LEMMA ChangedTier ==
  ASSUME Parts, Shaped, NEW r \in Requests, NEW p \in People,
         Changed(row[p], req[r]).tier # row[p].tier
  PROVE  LET q == req[r]
             tier == Changed(row[p], q).tier
         IN  /\ tier = "SUPER_ADMIN" => NewRole(q) = "SUPER_ADMIN"
             /\ row[p].tier = "SUPER_ADMIN" => Demotes(q)
<1> DEFINE q == req[r]
<1>1. q \in Request /\ row[p] \in [tier : Tiers \cup {"NONE", "DELETED"}, custom : Roles \cup {NONE}]
  BY DEF Parts, RequestType, RowType
<1>2. CASE q.op = "delete"
  BY <1>2 DEF Changed, Demotes
<1>3. CASE q.op # "delete" /\ q.custom = KEEP
  BY <1>1, <1>3 DEF Changed, Demotes, NewRole, Request
<1>4. CASE q.op # "delete" /\ q.custom = NONE /\ q.custom # KEEP
  BY <1>1, <1>4 DEF Changed
<1>5. CASE q.op # "delete" /\ q.custom \notin {KEEP, NONE}
  <2>1. q.custom \in Roles /\ NewRole(q) = "USER" /\ Changed(row[p], q).tier = "USER"
    BY <1>1, <1>5 DEF Changed, NewRole, Request
  <2> QED
    BY <2>1 DEF Demotes, Tiers
<1> QED
  BY <1>2, <1>3, <1>4, <1>5

\* A role's end and a new account change the tier of no existing account.
LEMMA OthersKeepTiers ==
  ASSUME Parts, Shaped, NEW r \in Requests, Create(r) \/ WriteRole(r), ~Refuse(r),
         NEW p \in People, Exists(p)
  PROVE  row'[p].tier = row[p].tier
<1>1. row[p] \in [tier : Tiers \cup {"NONE", "DELETED"}, custom : Roles \cup {NONE}]
  BY DEF Parts, RowType
<1>2. CASE Create(r)
  BY <1>2 DEF Create, Exists, Tiers
<1>3. CASE WriteRole(r)
  BY <1>1, <1>3 DEF WriteRole
<1> QED
  BY <1>2, <1>3

\* The inductive invariant holds throughout.
LEMMA InvAlways == Spec => [](Parts /\ Shaped /\ Careful)
BY PartsStart, PartsStay, CarefulStarts, CarefulStays, PTL DEF Spec

\* An account changes its tier only by a request of somebody whose tier was not
\* below it, unless on a stale read, and only a super-admin makes another one
\* (users.service.ts:249-251).
THEOREM HierarchyIsKept == Spec => HierarchyHolds
<1>1. ASSUME Parts, Shaped, Careful, [Next]_vars,
             NEW p \in People, Exists(p), row'[p].tier # row[p].tier
      PROVE  \E r \in Requests :
                 /\ Writes(r) /\ p \in req[r].who
                 /\ Rank[row[p].tier] <= Rank[req[r].tier] \/ req[r].stale
                 /\ row'[p].tier = "SUPER_ADMIN" => req[r].tier = "SUPER_ADMIN"
  <2>1. PICK r \in Requests :
            (Create(r) \/ Write(r) \/ WriteRole(r)) /\ ~Refuse(r) /\ Writes(r)
    BY <1>1, OneWriter
  <2>2. Write(r)
    BY <1>1, <2>1, OthersKeepTiers
  <2>3. /\ req[r].at = "write" /\ req[r].op \in Managing /\ p \in req[r].who
        /\ row'[p] = Changed(row[p], req[r])
    BY <1>1, <2>1, <2>2, WhatWritesDo
  <2>4. req[r].stale \/ Rank[row[p].tier] <= Rank[req[r].tier]
    BY <1>1, <2>3 DEF Careful, Relies
  <2>5. row'[p].tier = "SUPER_ADMIN" => NewRole(req[r]) = "SUPER_ADMIN"
    BY <1>1, <2>3, ChangedTier
  <2>6. row'[p].tier = "SUPER_ADMIN" => req[r].tier = "SUPER_ADMIN"
    BY <1>1, <2>3, <2>5 DEF Shaped, Shape
  <2> QED
    BY <2>1, <2>3, <2>4, <2>6
<1>2. Parts /\ Shaped /\ Careful /\ [Next]_vars =>
          [\A p \in People : Exists(p) /\ row'[p].tier # row[p].tier =>
               \E r \in Requests :
                   /\ Writes(r) /\ p \in req[r].who
                   /\ Rank[row[p].tier] <= Rank[req[r].tier] \/ req[r].stale
                   /\ row'[p].tier = "SUPER_ADMIN" => req[r].tier = "SUPER_ADMIN"]_vars
  BY <1>1
<1> QED
  BY <1>2, InvAlways, PTL DEF Spec, HierarchyHolds

\* The last super-admin goes only by a request that acts on what another write
\* has made untrue (users.service.ts:252): a tier is checked and then written.
THEOREM LastOwnerStays == Spec => OwnerRemains
<1>1. ASSUME Parts, Shaped, Careful, [Next]_vars, Supers # {}, Supers' = {}
      PROVE  \E r \in Requests : Writes(r) /\ req[r].stale
  <2>1. PICK p \in Supers : TRUE
    BY <1>1
  <2>2. p \in People /\ row[p].tier = "SUPER_ADMIN" /\ Exists(p)
    BY <2>1 DEF Supers, Exists, Tiers
  <2>3. \A x \in Supers : row'[x].tier # row[x].tier
    BY <1>1 DEF Supers
  <2>4. PICK r \in Requests :
            (Create(r) \/ Write(r) \/ WriteRole(r)) /\ ~Refuse(r) /\ Writes(r)
    BY <1>1, <2>1, <2>3, OneWriter
  <2>5. Write(r)
    BY <1>1, <2>1, <2>2, <2>3, <2>4, OthersKeepTiers
  <2>6. \A x \in Supers : /\ req[r].at = "write" /\ req[r].op \in Managing
                           /\ x \in req[r].who /\ row'[x] = Changed(row[x], req[r])
    <3> SUFFICES ASSUME NEW x \in Supers
                 PROVE  /\ req[r].at = "write" /\ req[r].op \in Managing
                        /\ x \in req[r].who /\ row'[x] = Changed(row[x], req[r])
      OBVIOUS
    <3>1. x \in People
      BY DEF Supers
    <3> QED
      BY <1>1, <2>3, <2>4, <2>5, <3>1, WhatWritesDo
  <2>7. Demotes(req[r])
    BY <1>1, <2>1, <2>2, <2>3, <2>6, ChangedTier
  <2>8. p \in {x \in req[r].who : x \in Supers} /\ Supers \ req[r].who = {}
    BY <2>1, <2>6
  <2>9. req[r].stale
    BY <1>1, <2>1, <2>6, <2>7, <2>8 DEF Careful, Relies
  <2> QED
    BY <2>4, <2>9
<1>2. Parts /\ Shaped /\ Careful /\ [Next]_vars =>
          [Supers # {} /\ Supers' = {} => \E r \in Requests : Writes(r) /\ req[r].stale]_vars
  BY <1>1
<1> QED
  BY <1>2, InvAlways, PTL DEF Spec, OwnerRemains

\* No account beyond the seats, unless others came between the count and the
\* creation (auth.service.ts:55-66, license.service.ts:76-85).
THEOREM SeatsAreKept == Spec => SeatsHold
<1>1. ASSUME Parts, Shaped, Careful, [Next]_vars, NEW r \in Requests,
             Writes(r), Count' > Count, req[r].tier = "USER", ~req[r].stale
      PROVE  Count' <= req[r].n
  <2> DEFINE old == {p \in People : Exists(p)}
             new == {p \in People : Exists(p)'}
  <2>0. /\ Count = Cardinality(old) /\ Count' = Cardinality(new)
        /\ IsFiniteSet(old) /\ Count \in Nat /\ Count' \in Nat
    BY SomePeople DEF Count
  <2>1. row' # row
    BY <1>1, <2>0, SameAccounts
  <2>2. (Create(r) \/ Write(r) \/ WriteRole(r)) /\ ~Refuse(r)
    BY <1>1, <2>1, OneWriter
  <2>3. ASSUME \A p \in People : Exists(p)' => Exists(p) PROVE FALSE
    <3>1. new \subseteq old
      BY <2>3
    <3> QED
      BY <1>1, <2>0, <3>1, FS_Subset
  <2>4. ASSUME WriteRole(r) PROVE FALSE
    <3>1. \A p \in People : row'[p].tier = row[p].tier
      <4> SUFFICES ASSUME NEW p \in People PROVE row'[p].tier = row[p].tier
        OBVIOUS
      <4>1. row[p] \in [tier : Tiers \cup {"NONE", "DELETED"}, custom : Roles \cup {NONE}]
        BY <1>1 DEF Parts, RowType
      <4> QED
        BY <2>2, <2>4, <4>1 DEF WriteRole
    <3> QED
      BY <2>3, <3>1 DEF Exists
  <2>5. ASSUME Write(r) PROVE FALSE
    <3>1. \A p \in People : Exists(p)' => Exists(p)
      BY <1>1, <2>2, <2>5, WhatWritesDo DEF Exists
    <3> QED
      BY <2>3, <3>1
  <2>6. Create(r)
    BY <2>2, <2>4, <2>5
  <2>7. PICK p \in People : req[r].who = {p}
    BY <1>1, <2>6 DEF Create, At, Shaped, Shape
  <2>8. /\ req[r].at = "create" /\ ~Exists(p) /\ row'[p].tier \in Tiers
        /\ \A x \in People \ {p} : row'[x] = row[x]
    BY <1>1, <2>2, <2>6, <2>7 DEF Create, At, Exists, Tiers
  <2>9. new = old \cup {p} /\ p \notin old
    BY <2>8 DEF Exists
  <2>10. Count' = Count + 1
    BY <2>0, <2>9, FS_AddElement
  <2>11. Count < req[r].n /\ req[r].n \in Nat
    BY <1>1, <2>8 DEF Careful, Relies, Parts, RequestType, Request
  <2> QED
    BY <2>0, <2>10, <2>11
<1>2. Parts /\ Shaped /\ Careful /\ [Next]_vars =>
          [\A r \in Requests :
               Writes(r) /\ Count' > Count /\ req[r].tier = "USER" /\ ~req[r].stale =>
                   Count' <= req[r].n]_vars
  BY <1>1
<1> QED
  BY <1>2, InvAlways, PTL DEF Spec, SeatsHold
=============================================================================
