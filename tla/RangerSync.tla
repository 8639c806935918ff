------------------------------ MODULE RangerSync ------------------------------
(***************************************************************************)
(* lakeops sync-ranger-policy (ranger.py, break_glass.py): the role model,    *)
(* with a break-glass lease while it is active, is compiled into policies,   *)
(* and these are reconciled, request after request, with the policies that    *)
(* Ranger Admin has: its own bootstrap policies, which may come late, those   *)
(* of operators, and those of earlier syncs.                                *)
(*                                                                         *)
(* A policy of type 0 grants access to its users; one of another type guards  *)
(* a table, it filters its rows or masks its columns. Names are numbers in    *)
(* the order of the strings. Ranger refuses two policies with one name, and   *)
(* two of one type with one resource. One sync runs at a time.              *)
(***************************************************************************)
EXTENDS Integers

CONSTANTS
  Role, User,
  Resource,
  Models,      \* the role models in their order of editing: grants, guards, users of a role
  AccessName,  \* the name of the access policy of a resource
  GuardName,   \* the names of the guards of a role, by their index
  Lease,       \* the user and the role of the break-glass lease
  BootRes,     \* resources that Ranger has bootstrap policies for
  Foreign,     \* policies that operators may add
  MaxFaults,   \* bound on failed requests and deaths
  MaxDrift     \* bound on changes by others than the sync

ASSUME LeaseAssumption == Lease.user \in User /\ Lease.role \in Role

\* Filters (2) and masks (1) are not access policies, and every policy of a model has a
\* name of its own.
Guard == [type : {1, 2}, res : Resource]
ASSUME ModelAssumption ==
  /\ 1 \in DOMAIN Models /\ DOMAIN Models \subseteq Nat \ {0}
  /\ \A m \in DOMAIN Models :
       /\ Models[m].grants \in [Role -> SUBSET Resource]
       /\ Models[m].users \in [Role -> SUBSET User]
       /\ \A r \in Role : \A i \in DOMAIN Models[m].guards[r] :
            Models[m].guards[r][i] \in Guard /\ i \in DOMAIN GuardName[r]
ASSUME NamesAssumption ==
  /\ AccessName \in [Resource -> Nat \ {0}]
  /\ \A x, y \in Resource : AccessName[x] = AccessName[y] => x = y
  /\ \A r, o \in Role : \A i \in DOMAIN GuardName[r], j \in DOMAIN GuardName[o] :
       /\ GuardName[r][i] \in Nat \ {0}
       /\ GuardName[r][i] = GuardName[o][j] => r = o /\ i = j
  /\ \A r \in Role : \A i \in DOMAIN GuardName[r] : \A x \in Resource :
       GuardName[r][i] # AccessName[x]
ASSUME OthersAssumption ==
  /\ BootRes \subseteq Resource /\ MaxFaults \in Nat /\ MaxDrift \in Nat
  /\ Foreign \subseteq [name : Nat, type : 0..2, res : Resource, owner : {"other"}, users : SUBSET User]

VARIABLES
  edition,     \* the index of the role model in force
  lease,       \* "early", "active" or "over"
  service,     \* the Ranger service exists
  registered,  \* users that Ranger knows
  unborn,      \* bootstrap policies that Ranger has not created yet
  server,      \* the policies of the service
  ids,         \* the last id given
  sync,        \* the sync that is running
  settled,     \* what the last sync left, if nobody has disturbed it since
  faults, drift

world == <<edition, lease, unborn>>
rangerVars == <<world, service, registered, server, ids, sync, settled, faults, drift>>

Policy == [name : Nat, type : 0..2, res : Resource, owner : {"ours", "boot", "other"},
           users : SUBSET User]
StoredPolicy == [id : Nat, name : Nat, type : 0..2, res : Resource,
                 owner : {"ours", "boot", "other"}, users : SUBSET User]

Off == [pc |-> "off", desired |-> {}, existing |-> {}, at |-> 0, consumed |-> {}, todo |-> {}]

RangerInit ==
  /\ edition = 1
  /\ lease = "early"
  /\ service = FALSE
  /\ registered = {}
  /\ unborn = BootRes
  /\ server = {}
  /\ ids = 0
  /\ sync = Off
  /\ settled = {}
  /\ faults = 0
  /\ drift = 0

-----------------------------------------------------------------------------
(* Compile the model.                                                      *)

\* Mutant: a lease is in force from its issue on.
MutLeased == lease # "early"

\* issued_at <= now < expires_at.
Leased == lease = "active"

Bound(r) == Models[edition].users[r] \cup (IF Leased /\ r = Lease.role THEN {Lease.user} ELSE {})

Granting(res) == {r \in Role : Bound(r) # {} /\ res \in Models[edition].grants[r]}

\* Policies with one resource are merged, and named after it.
AccessPolicies ==
  {[name |-> AccessName[res], type |-> 0, res |-> res, owner |-> "ours",
    users |-> UNION {Bound(r) : r \in Granting(res)}] : res \in {x \in Resource : Granting(x) # {}}}

GuardPolicies ==
  UNION {{[name |-> GuardName[r][i], type |-> Models[edition].guards[r][i].type,
           res |-> Models[edition].guards[r][i].res, owner |-> "ours", users |-> Bound(r)] :
             i \in DOMAIN Models[edition].guards[r]} : r \in {x \in Role : Bound(x) # {}}}

Desired == AccessPolicies \cup GuardPolicies

-----------------------------------------------------------------------------
(* What Ranger accepts.                                                    *)

Taken(p, id) == \E q \in server : q.id # id /\ q.type = p.type /\ q.res = p.res
Accepted(p, id) == /\ ~Taken(p, id)
                   /\ \A q \in server : q.id # id => q.name # p.name
                   /\ p.users \subseteq registered

Stored(p, id) == [id |-> id, name |-> p.name, type |-> p.type, res |-> p.res, owner |-> p.owner,
                  users |-> p.users]
Projection(q) == [name |-> q.name, type |-> q.type, res |-> q.res, owner |-> q.owner, users |-> q.users]

-----------------------------------------------------------------------------
(* The sync.                                                               *)

Fails == sync' = Off

\* The model and the lease are read, the model compiled.
SyncBegins ==
  /\ sync.pc = "off"
  /\ sync' = [Off EXCEPT !.pc = "service", !.desired = Desired]
  /\ settled' = IF settled = Desired THEN settled ELSE {}
  /\ UNCHANGED <<world, service, registered, server, ids, faults, drift>>

EnsureService ==
  /\ sync.pc = "service"
  /\ service' = TRUE
  /\ sync' = [sync EXCEPT !.pc = "users"]
  /\ UNCHANGED <<world, registered, server, ids, settled, faults, drift>>

EnsureUsers ==
  /\ sync.pc = "users"
  /\ registered' = registered \cup UNION {p.users : p \in sync.desired}
  /\ sync' = [sync EXCEPT !.pc = "list"]
  /\ UNCHANGED <<world, service, server, ids, settled, faults, drift>>

Bootstraps == {p \in server : p.owner = "boot"}

ListPolicies ==
  /\ sync.pc = "list"
  /\ sync' = [sync EXCEPT !.pc = "purge", !.existing = server \ Bootstraps, !.todo = Bootstraps]
  /\ UNCHANGED <<world, service, registered, server, ids, settled, faults, drift>>

\* The listing once more, after a conflict; without a bootstrap policy it is an error.
ListLate ==
  /\ sync.pc = "conflict"
  /\ IF Bootstraps = {} THEN Fails
     ELSE sync' = [sync EXCEPT !.pc = "again", !.todo = Bootstraps]
  /\ UNCHANGED <<world, service, registered, server, ids, settled, faults, drift>>

\* DELETE of one policy that was listed; one that is gone is an error.
DeletePolicy(p) ==
  IF p \in server
  THEN /\ server' = server \ {p}
       /\ sync' = [sync EXCEPT !.todo = @ \ {p}]
  ELSE /\ Fails
       /\ UNCHANGED server

Purge(p) ==
  /\ sync.pc \in {"purge", "again"}
  /\ p \in sync.todo
  /\ DeletePolicy(p)
  /\ UNCHANGED <<world, service, registered, ids, settled, faults, drift>>

Purged ==
  /\ sync.pc = "purge"
  /\ sync.todo = {}
  /\ sync' = [sync EXCEPT !.pc = "apply"]
  /\ UNCHANGED <<world, service, registered, server, ids, settled, faults, drift>>

\* Mutant: the access policies come first.
MutNextPolicy == {p \in sync.desired : p.name # sync.at /\ (sync.at # 0 => p.name < sync.at)
                    /\ \A q \in sync.desired : (sync.at = 0 \/ q.name < sync.at) => q.name <= p.name}

\* In the order of the names.
NextPolicy == {p \in sync.desired : /\ p.name > sync.at
                                    /\ \A q \in sync.desired : q.name > sync.at => p.name <= q.name}

\* Mutant: a policy may be reused twice.
MutReusable(p) == {q \in sync.existing : q.owner = "ours" /\ q.res = p.res}

Reusable(p) == {q \in sync.existing : /\ q.owner = "ours" /\ q.res = p.res
                                      /\ q.id \notin sync.consumed}

\* The policy as it was listed, by its name or else by its resource.
Current(p) ==
  LET named == {q \in sync.existing : q.name = p.name} IN
  IF named # {} THEN named
  ELSE {q \in Reusable(p) : \A o \in Reusable(p) : q.id <= o.id}

Create(p) ==
  /\ sync.pc = "apply" \/ (sync.pc = "again" /\ sync.todo = {})
  /\ Current(p) = {}
  /\ IF Accepted(p, 0)
     THEN /\ ids' = ids + 1
          /\ server' = server \cup {Stored(p, ids + 1)}
          /\ sync' = [sync EXCEPT !.pc = "apply", !.at = p.name]
     ELSE /\ IF Taken(p, 0) /\ sync.pc = "apply" THEN sync' = [sync EXCEPT !.pc = "conflict"] ELSE Fails
          /\ UNCHANGED <<server, ids>>
  /\ UNCHANGED <<world, service, registered, settled, faults, drift>>

KeepPolicy(p) ==
  /\ sync.pc = "apply"
  /\ \E q \in Current(p) : /\ Projection(q) = p
                           /\ sync' = [sync EXCEPT !.at = p.name, !.consumed = @ \cup {q.id}]
  /\ UNCHANGED <<world, service, registered, server, ids, settled, faults, drift>>

Update(p) ==
  /\ sync.pc = "apply"
  /\ \E q \in Current(p) :
       /\ Projection(q) # p
       /\ IF Accepted(p, q.id) /\ \E s \in server : s.id = q.id
          THEN /\ server' = {s \in server : s.id # q.id} \cup {Stored(p, q.id)}
               /\ sync' = [sync EXCEPT !.at = p.name, !.consumed = @ \cup {q.id}]
          ELSE Fails /\ UNCHANGED server
  /\ UNCHANGED <<world, service, registered, ids, settled, faults, drift>>

Stale == {q \in sync.existing : /\ q.owner = "ours"
                                /\ q.id \notin sync.consumed
                                /\ \A p \in sync.desired : p.name # q.name}

Applied ==
  /\ sync.pc = "apply"
  /\ NextPolicy = {}
  /\ sync' = [sync EXCEPT !.pc = "remove", !.todo = Stale]
  /\ UNCHANGED <<world, service, registered, server, ids, settled, faults, drift>>

Remove(p) ==
  /\ sync.pc = "remove"
  /\ p \in sync.todo
  /\ DeletePolicy(p)
  /\ UNCHANGED <<world, service, registered, ids, settled, faults, drift>>

\* The report says "synchronized".
SyncEnds ==
  /\ sync.pc = "remove"
  /\ sync.todo = {}
  /\ sync' = Off
  /\ settled' = sync.desired
  /\ UNCHANGED <<world, service, registered, server, ids, faults, drift>>

\* A request fails, with or without its effect, or the process dies.
SyncDies ==
  /\ faults < MaxFaults
  /\ sync.pc # "off"
  /\ Fails
  /\ settled' = {}
  /\ faults' = faults + 1
  /\ UNCHANGED <<world, service, registered, server, ids, drift>>

-----------------------------------------------------------------------------
(* Everybody else.                                                         *)

Time ==
  /\ lease' = CASE lease = "early" -> "active" [] OTHER -> "over"
  /\ lease # "over"
  /\ UNCHANGED <<edition, unborn, service, registered, server, ids, sync, settled, faults, drift>>

\* The next edition of the role model.
EditModel ==
  /\ edition + 1 \in DOMAIN Models
  /\ edition' = edition + 1
  /\ UNCHANGED <<lease, unborn, service, registered, server, ids, sync, settled, faults, drift>>

Insert(p) ==
  /\ service
  /\ ~Taken(p, 0)
  /\ ids' = ids + 1
  /\ server' = server \cup {Stored(p, ids + 1)}

\* Ranger creates a bootstrap policy, some time after the service.
Bootstrap(res) ==
  /\ res \in unborn
  /\ unborn' = unborn \ {res}
  /\ Insert([name |-> 1000 + AccessName[res], type |-> 0, res |-> res, owner |-> "boot", users |-> {}])
  /\ settled' = {}
  /\ UNCHANGED <<edition, lease, service, registered, sync, faults, drift>>

AddForeign(p) ==
  /\ drift < MaxDrift
  /\ \A q \in server : q.name # p.name
  /\ Insert(p)
  /\ drift' = drift + 1
  /\ UNCHANGED <<world, service, registered, sync, settled, faults>>

\* A managed policy is deleted by hand, between two syncs.
DropManaged(p) ==
  /\ drift < MaxDrift
  /\ sync.pc = "off"
  /\ p.owner = "ours"
  /\ server' = server \ {p}
  /\ settled' = {}
  /\ drift' = drift + 1
  /\ UNCHANGED <<world, service, registered, ids, sync, faults>>

Step == \/ SyncBegins \/ EnsureService \/ EnsureUsers \/ ListPolicies \/ ListLate \/ Purged
        \/ \E p \in sync.todo : Purge(p) \/ Remove(p)
        \/ \E p \in NextPolicy : Create(p) \/ KeepPolicy(p) \/ Update(p)
        \/ Applied \/ SyncEnds

Others == \/ EditModel
          \/ \E res \in BootRes : Bootstrap(res)
          \/ \E p \in Foreign : AddForeign(p)
          \/ \E p \in server : DropManaged(p)

RangerNext == Step \/ SyncDies \/ Time \/ Others

RangerSpec == RangerInit /\ [][RangerNext]_rangerVars

\* Automation runs the sync again and again, and a running sync goes on.
RangerFairSpec == RangerSpec /\ WF_rangerVars(Step)

-----------------------------------------------------------------------------
(* Properties.                                                             *)

\* Every variable has its type.
RangerTypeOK ==
  /\ edition \in DOMAIN Models
  /\ lease \in {"early", "active", "over"}
  /\ service \in BOOLEAN
  /\ registered \subseteq User
  /\ unborn \subseteq BootRes
  /\ ids \in Nat
  /\ server \subseteq StoredPolicy
  /\ sync \in [pc : {"off", "service", "users", "list", "purge", "apply", "conflict", "again", "remove"},
               desired : SUBSET Policy, existing : SUBSET StoredPolicy, at : Nat,
               consumed : SUBSET Nat, todo : SUBSET StoredPolicy]
  /\ settled \subseteq Policy
  /\ faults \in 0..MaxFaults /\ drift \in 0..MaxDrift

\* A guard of the model is in force for this user.
Guarded(u, policies) ==
  \A p \in sync.desired : p.type # 0 /\ u \in p.users =>
     \E q \in policies : q.type = p.type /\ q.res = p.res /\ u \in q.users

Readers(policies) == UNION {{<<u, p.res>> : u \in p.users} : p \in {q \in policies : q.type = 0}}

\* No request gives a user access before the filters and masks that the model wants for
\* him are in force, also if an earlier sync died half way: guards of the shipped roles
\* sort before the access policies (compile_ranger_policies, RangerAdminClient.sync).
GuardedFirst ==
  [][sync' # sync =>
       \A reader \in Readers(server') \ Readers(server) : Guarded(reader[1], server')]_<<server, sync>>

\* A sync of what the last one left, with nobody between, changes nothing
\* (docs/runbooks/ranger-admin.md: the second run reports no changes).
SecondRunIsQuiet ==
  [][settled # {} /\ settled = sync.desired /\ sync' # sync => server' = server]_<<server, sync>>

-----------------------------------------------------------------------------
(* What the editions of the model have to do with one another, and the       *)
(* inductive invariant.                                                     *)

\* The guards of an edition, by name and resource.
Wanted(m) ==
  UNION {{[name |-> GuardName[r][i], res |-> Models[m].guards[r][i].res] :
             i \in DOMAIN Models[m].guards[r]} : r \in Role}
Granted(m) == UNION {Models[m].grants[r] : r \in Role}

GuardsAhead ==
  \A r \in Role : \A i \in DOMAIN GuardName[r] : \A x \in Resource : GuardName[r][i] < AccessName[x]

\* A guard of a later edition has the name it had, or one that comes after it, unless
\* its old name is out of use.
GuardsMoveUp ==
  \A m, n \in DOMAIN Models : \A p \in Wanted(m), q \in Wanted(n) :
    m <= n /\ p.res = q.res /\ q.name < p.name => \A o \in Wanted(n) : o.name # p.name

\* No guard has the resource of an access policy.
GuardsApart == \A m, n \in DOMAIN Models : \A p \in Wanted(m) : p.res \notin Granted(n)

Orderly == GuardsMoveUp /\ GuardsApart

\* In every edition somebody has access to what Ranger bootstraps policies for.
BootGranted ==
  \A m \in DOMAIN Models : \A x \in BootRes :
    \E r \in Role : x \in Models[m].grants[r] /\ Models[m].users[r] # {}

Ours(policies) == {q \in policies : q.owner = "ours"}

\* A managed policy is one of this edition.
OfEdition(p, m) ==
  \/ p.type = 0 /\ p.res \in Granted(m) /\ p.name = AccessName[p.res]
  \/ p.type # 0 /\ \E w \in Wanted(m) : w.name = p.name /\ w.res = p.res

\* What the sync applies is of one edition, and what it finds is not of a later one.
EditionsKnown ==
  \E m \in DOMAIN Models :
    /\ m <= edition
    /\ \A p \in sync.desired : OfEdition(p, m)
    /\ \A q \in Ours(server \cup sync.existing) : \E n \in DOMAIN Models : n <= m /\ OfEdition(q, n)

\* Ranger has one policy per resource and type, and one per name: its own are not checked.
ServerKnown ==
  /\ \A p, q \in server : p.id = q.id \/ (p.type = q.type /\ p.res = q.res) => p = q
  /\ \A p, q \in server \ Bootstraps : p.name = q.name => p = q
  /\ \A q \in server : q.id \in 1..ids
  /\ \A q \in Bootstraps : q.type = 0 /\ q.res \in BootRes /\ q.users = {}

DesiredKnown ==
  /\ \A p \in sync.desired : p.owner = "ours" /\ p.name > 0
  /\ \A p, q \in sync.desired : p.name = q.name => p = q
  /\ sync.pc \in {"service", "users", "list", "purge"} => sync.at = 0 /\ sync.consumed = {}
  /\ sync.pc # "off" /\ BootGranted =>
       \A x \in BootRes : \E p \in sync.desired : p.type = 0 /\ p.res = x

\* The listing of the start.
ListedKnown ==
  /\ \A q \in sync.existing : q.id \in 1..ids /\ q.owner # "boot"
  /\ \A p, q \in sync.existing : p.id = q.id \/ p.name = q.name => p = q

Behind == {p \in sync.desired : p.name <= sync.at}
InForce(p) == \E q \in server : Projection(q) = p

\* What is behind the sync is in force; what it has not consumed is as it was listed.
ApplyKnown ==
  sync.pc \in {"purge", "apply", "conflict", "again"} =>
    /\ \A p \in Behind : InForce(p)
    /\ \A q \in sync.existing : q.id \notin sync.consumed => q \in server
    /\ \A q \in sync.existing :
         /\ \A p \in Behind : q.name = p.name => q.id \in sync.consumed
         /\ q.id \in sync.consumed =>
              \E p \in Behind : q.name = p.name \/ (q.owner = "ours" /\ q.res = p.res)
    /\ \A q \in Ours(server) : \/ q \in sync.existing /\ q.id \notin sync.consumed
                              \/ Projection(q) \in Behind
    /\ \A q \in sync.todo : q.owner = "boot"

RemoveKnown ==
  sync.pc = "remove" =>
    /\ \A p \in sync.desired : InForce(p)
    /\ \A q \in Ours(server) : q \in sync.todo \/ Projection(q) \in sync.desired
    /\ \A q \in sync.todo : q.owner = "ours" /\ \A p \in sync.desired : p.name # q.name

\* While nobody has disturbed it, the service has what the last sync left.
SettledKnown ==
  settled # {} =>
    /\ \A p \in settled : InForce(p)
    /\ \A q \in Ours(server) : Projection(q) \in settled
    /\ Bootstraps = {}
    /\ sync.pc # "off" => settled = sync.desired

SyncIInv == /\ RangerTypeOK /\ EditionsKnown /\ ServerKnown /\ DesiredKnown /\ ListedKnown
            /\ ApplyKnown /\ RemoveKnown /\ SettledKnown

-----------------------------------------------------------------------------
(* Liveness.                                                               *)

Holders == UNION {p.users : p \in {q \in server : q.owner = "ours"}}

\* An operator's policy has the resource of one that the model wants.
Blocked == \E p \in server, d \in Desired : p.owner = "other" /\ p.type = d.type /\ p.res = d.res

\* Repeated syncs take the access of an expired lease away, whatever failed, unless the
\* policy of an operator makes every sync fail before it (apply_break_glass_lease).
LeaseIsRevoked == lease = "over" ~> (Lease.user \notin Holders \/ Blocked)
=============================================================================
