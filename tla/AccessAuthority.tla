--------------------------- MODULE AccessAuthority ---------------------------
(***************************************************************************)
(* Who may still act: human logins and sessions (ui/router.py, ui/auth.py, *)
(* services/browser_session_repo.py) against the operator's changes of     *)
(* users, memberships and tenants (services/user_repo.py,                  *)
(* tenant_membership_repo.py, tenant_authority.py).                        *)
(*                                                                         *)
(* Everything an actor writes becomes visible with its commit; what keeps  *)
(* the actors apart is the row locks they take on the way, in the order    *)
(* User, Tenant, Membership, BrowserSession.  S stands for FOR SHARE, X    *)
(* for FOR UPDATE, FOR NO KEY UPDATE and UPDATE.  An action is what an     *)
(* actor does between two waits for a lock.                                *)
(*                                                                         *)
(* changes[m] counts the revoking changes that concern membership m; no    *)
(* code keeps it.                                                          *)
(***************************************************************************)
EXTENDS Naturals, FiniteSets

CONSTANTS
    Members,     \* memberships
    UserOf, TenantOf,
    IdOf,        \* ids of users and memberships; rows of a kind are locked in their order
    Sessions,    \* browser sessions
    OldHashes,   \* users whose password hash has old parameters
    Open,        \* sessions that are live at the start -> their memberships
    Clients,     \* HTTP requests
    Operators,   \* CLI commands
    None

Users == {UserOf[m] : m \in Members}
Tenants == {TenantOf[m] : m \in Members}

ASSUME AccessAssumption ==
    /\ \A R \in {Users, Members} : \A x, y \in R : IdOf[x] \in Nat /\ (IdOf[x] = IdOf[y] => x = y)
    /\ OldHashes \subseteq Users
    /\ DOMAIN Open \subseteq Sessions /\ \A k \in DOMAIN Open : Open[k] \in Members
    /\ Clients \cap Operators = {}
    /\ None \notin Members \cup Sessions

VARIABLES
    user,     \* user -> [active, stamp, old]; old: see OldHashes
    member,   \* membership -> [active, stamp]
    tenant,   \* tenant -> is it active
    session,  \* session -> [st, m, born]: born is changes[m] at its password check
    claims,   \* the signed pending-login tokens handed out
    client,   \* request -> its state
    oper,     \* command -> its state
    held,     \* actor -> the row locks of its transaction
    changes

vars == <<user, member, tenant, session, claims, client, oper, held, changes>>
data == <<user, member, tenant, session, claims, changes>>

Actors == Clients \cup Operators
Mine(u) == {m \in Members : UserOf[m] = u}
Within(t) == {m \in Members : TenantOf[m] = t}
LiveOf(M) == {k \in Sessions : session[k].st = "live" /\ session[k].m \in M}

\* A request; claim holds the token it presents, if it presents one.
Started(pc) == [pc |-> pc, user |-> None, m |-> None, k |-> None, claim |-> {},
                rehash |-> FALSE, todo |-> {}, born |-> changes]
NoOp == [op |-> "none", on |-> None, rows |-> {}, sweep |-> FALSE, todo |-> {}]

Init ==
    /\ user = [u \in Users |-> [active |-> TRUE, stamp |-> 0, old |-> u \in OldHashes]]
    /\ member = [m \in Members |-> [active |-> TRUE, stamp |-> 0]]
    /\ tenant = [t \in Tenants |-> TRUE]
    /\ session = [k \in Sessions |-> IF k \in DOMAIN Open
                                     THEN [st |-> "live", m |-> Open[k], born |-> 0]
                                     ELSE [st |-> "none", m |-> None, born |-> 0]]
    /\ claims = {}
    /\ changes = [m \in Members |-> 0]
    /\ client = [c \in Clients |-> Started("idle")]
    /\ oper = [o \in Operators |-> NoOp]
    /\ held = [a \in Actors |-> {}]

----------------------------------------------------------------------------
\* Row locks.

Compatible(row, mode, a) ==
    \A b \in Actors \ {a} : \A l \in held[b] : l[1] = row => mode = "S" /\ l[2] = "S"
Locks(a, row, mode) ==
    Compatible(row, mode, a) /\ held' = [held EXCEPT ![a] = @ \cup {<<row, mode>>}]
Releases(a) == held' = [held EXCEPT ![a] = {}]

URow(c) == <<"user", client[c].user>>
TRow(c) == <<"tenant", TenantOf[client[c].m]>>
MRow(c) == <<"member", client[c].m>>
KRow(c) == <<"session", client[c].k>>
Session(k) == <<"session", k>>

\* Variant: suspension locks the tenant and its memberships before the users.
RankTenantFirst(row) == CASE row[1] = "user" -> 3 [] row[1] = "tenant" -> 1 [] row[1] = "member" -> 2

\* The order in which a command locks its rows, those of a kind by their ids.
Rank(row) == CASE row[1] = "user" -> 1 [] row[1] = "tenant" -> 2 [] row[1] = "member" -> 3
Foremost(rows) ==
    {row \in rows : \A other \in rows \ {row} :
        \/ Rank(row) < Rank(other)
        \/ Rank(row) = Rank(other) /\ IdOf[row[2]] < IdOf[other[2]]}

\* What an actor waits for, by its state; the actions below take these locks.
Wanted(c) ==
    CASE client[c].pc \in {"login", "select"} -> {<<URow(c), "X">>}
      [] client[c].pc = "rehash" -> {<<Session(k), "X">> : k \in client[c].todo}
      [] client[c].pc \in {"tenant", "readTenant", "guard"} -> {<<TRow(c), "S">>}
      [] client[c].pc = "member" -> {<<MRow(c), "X">>}
      [] client[c].pc = "readUser" -> {<<URow(c), "S">>}
      [] client[c].pc = "readSession" -> {<<KRow(c), "S">>}
      [] client[c].pc = "logout" -> {<<KRow(c), "X">>}
      [] OTHER -> {}
OperWanted(o) ==
    {<<row, "X">> : row \in Foremost(oper[o].rows)}
        \cup {<<Session(k), "X">> : k \in oper[o].todo}

Waits(a, b) ==
    \E w \in IF a \in Clients THEN Wanted(a) ELSE OperWanted(a) :
        \E l \in held[b] : a # b /\ l[1] = w[1] /\ ~(w[2] = "S" /\ l[2] = "S")

Waiting == {a \in Actors : \E b \in Actors : Waits(a, b)}
WaitingOnly(A) == A # {} /\ \A a \in A : \E b \in A : Waits(a, b)
Cycle(A) == WaitingOnly(A) /\ \A B \in SUBSET A : WaitingOnly(B) => B = A

----------------------------------------------------------------------------
\* A request.

At(c, pc) == client[c].pc = pc
Goes(c, pc) == client' = [client EXCEPT ![c].pc = pc]

Ends(c) == client' = [client EXCEPT ![c] = Started("done")] /\ Releases(c)
Refused(c) == Ends(c) /\ UNCHANGED <<data, oper>>

\* POST /ui/login: the User row FOR UPDATE, then the password; a hash with old
\* parameters is replaced, which ends the user's other sessions.
StartLogin(c, u) ==
    /\ At(c, "idle")
    /\ client' = [client EXCEPT ![c] = [Started("login") EXCEPT !.user = u]]
    /\ UNCHANGED <<data, oper, held>>

Login(c) ==
    /\ At(c, "login") /\ user[client[c].user].active
    /\ Locks(c, URow(c), "X")
    /\ LET u == client[c].user
           r == user[u].old IN
       client' = [client EXCEPT ![c].pc = IF r THEN "rehash" ELSE "choose",
                                ![c].rehash = r, ![c].born = changes,
                                ![c].todo = IF r THEN LiveOf(Mine(u)) ELSE {}]
    /\ UNCHANGED <<data, oper>>

LoginRefused(c) ==
    /\ At(c, "login") /\ Compatible(URow(c), "X", c) /\ ~user[client[c].user].active
    /\ Refused(c)

Rehash(c) ==
    /\ At(c, "rehash")
    /\ \/ /\ client[c].todo = {} /\ Goes(c, "choose") /\ UNCHANGED held
       \/ \E k \in client[c].todo :
            /\ Locks(c, Session(k), "X")
            /\ client' = [client EXCEPT ![c].todo = @ \ {k}]
    /\ UNCHANGED <<data, oper>>

Choices(u) == {m \in Mine(u) : member[m].active /\ tenant[TenantOf[m]]}

\* What a login with a new hash commits.
Rotated(c) ==
    LET r == client[c].rehash
        u == client[c].user IN
    /\ user' = IF r THEN [user EXCEPT ![u].stamp = @ + 1, ![u].old = FALSE] ELSE user
    /\ changes' = IF r THEN [m \in Members |-> changes[m] + (IF m \in Mine(u) THEN 1 ELSE 0)]
                  ELSE changes

Ended(c, S) ==
    [k \in Sessions |-> IF client[c].rehash /\ S[k].st = "live"
                           /\ S[k].m \in Mine(client[c].user)
                        THEN [S[k] EXCEPT !.st = "revoked"] ELSE S[k]]

Choose(c) ==
    /\ At(c, "choose")
    /\ \E m \in Members :
         /\ Choices(client[c].user) = {m}
         /\ client' = [client EXCEPT ![c].pc = "tenant", ![c].m = m]
    /\ UNCHANGED <<data, oper, held>>

ChooseRefused(c) ==
    At(c, "choose") /\ Choices(client[c].user) = {} /\ Refused(c)

\* More than one membership: commit, and a token that names the stamps.
IssueClaim(c) ==
    /\ At(c, "choose") /\ Cardinality(Choices(client[c].user)) > 1
    /\ Rotated(c)
    /\ session' = Ended(c, session)
    /\ claims' = claims \cup
          {[user |-> client[c].user, stamp |-> user'[client[c].user].stamp,
            stamps |-> [m \in Choices(client[c].user) |-> member[m].stamp],
            born |-> changes']}
    /\ Ends(c)
    /\ UNCHANGED <<member, tenant, oper>>

\* POST /ui/login/select-tenant with a token and any membership.
StartSelect(c, claim, m) ==
    /\ At(c, "idle")
    /\ client' = [client EXCEPT ![c] = [Started("select") EXCEPT
                                          !.user = claim.user, !.m = m, !.claim = {claim},
                                          !.born = claim.born]]
    /\ UNCHANGED <<data, oper, held>>

Select(c) ==
    /\ At(c, "select") /\ Locks(c, URow(c), "X") /\ Goes(c, "tenant")
    /\ UNCHANGED <<data, oper>>

\* A login has checked the tenant in its list, and whoever suspends it waits for
\* the user's row; a pending choice meets a suspended tenant here.
LockTenant(c) ==
    /\ At(c, "tenant")
    /\ Locks(c, TRow(c), "S") /\ Goes(c, "member")
    /\ UNCHANGED <<data, oper>>

Stamps(c) ==
    \A claim \in client[c].claim :
        LET m == client[c].m IN
        /\ user[claim.user].stamp = claim.stamp
        /\ m \in DOMAIN claim.stamps /\ claim.stamps[m] = member[m].stamp

MaySignIn(c) ==
    /\ UserOf[client[c].m] = client[c].user
    /\ user[client[c].user].active /\ member[client[c].m].active
    /\ tenant[TenantOf[client[c].m]] /\ Stamps(c)

\* The Membership FOR UPDATE, then _finalize_human_login: a fresh session.
Mint(c) ==
    /\ At(c, "member") /\ Compatible(MRow(c), "X", c) /\ MaySignIn(c)
    /\ \E k \in Sessions :
         /\ session[k].st = "none"
         /\ Rotated(c)
         /\ session' = [Ended(c, session) EXCEPT ![k] =
                          [st |-> "live", m |-> client[c].m,
                           born |-> client[c].born[client[c].m]
                                    + (IF client[c].rehash THEN 1 ELSE 0)]]
    /\ Ends(c)
    /\ UNCHANGED <<member, tenant, claims, oper>>

MintRefused(c) ==
    At(c, "member") /\ Compatible(MRow(c), "X", c) /\ ~MaySignIn(c) /\ Refused(c)

----------------------------------------------------------------------------
\* resolve_ui_context: the cookie's session, then User, Tenant, and the session
\* again, now locked.
StartRequest(c, k) ==
    /\ At(c, "idle") /\ session[k].st = "live"
    /\ client' = [client EXCEPT ![c] = [Started("readUser") EXCEPT
                                          !.k = k, !.m = session[k].m,
                                          !.user = UserOf[session[k].m]]]
    /\ UNCHANGED <<data, oper, held>>

ReadUser(c) ==
    /\ At(c, "readUser") /\ user[client[c].user].active /\ member[client[c].m].active
    /\ Locks(c, URow(c), "S") /\ Goes(c, "readTenant")
    /\ UNCHANGED <<data, oper>>

ReadUserRefused(c) ==
    /\ At(c, "readUser") /\ Compatible(URow(c), "S", c)
    /\ ~(user[client[c].user].active /\ member[client[c].m].active)
    /\ Refused(c)

ReadTenant(c) ==
    /\ At(c, "readTenant") /\ tenant[TenantOf[client[c].m]]
    /\ Locks(c, TRow(c), "S") /\ Goes(c, "readSession")
    /\ UNCHANGED <<data, oper>>

ReadTenantRefused(c) ==
    /\ At(c, "readTenant") /\ Compatible(TRow(c), "S", c) /\ ~tenant[TenantOf[client[c].m]]
    /\ Refused(c)

\* Variant: the session that the cookie named is not read again.
StillLiveFirstRead(c) == TRUE

StillLive(c) == session[client[c].k].st = "live"

ReadSession(c) ==
    /\ At(c, "readSession") /\ StillLive(c)
    /\ Locks(c, KRow(c), "S") /\ Goes(c, "accepted")
    /\ UNCHANGED <<data, oper>>

ReadSessionRefused(c) ==
    At(c, "readSession") /\ Compatible(KRow(c), "S", c) /\ ~StillLive(c) /\ Refused(c)

Logout(c) ==
    /\ At(c, "accepted") /\ Goes(c, "logout")
    /\ UNCHANGED <<data, oper, held>>

LoggedOut(c) ==
    /\ At(c, "logout") /\ Compatible(KRow(c), "X", c)
    /\ session' = [session EXCEPT ![client[c].k].st = "revoked"]
    /\ Ends(c)
    /\ UNCHANGED <<user, member, tenant, claims, changes, oper>>

\* The work of a request: it commits before a model call; afterwards a new
\* transaction registers the tenant (require_active_tenant) and writes.
Release(c) ==
    /\ At(c, "accepted") /\ Goes(c, "away") /\ Releases(c)
    /\ UNCHANGED <<data, oper>>

Resume(c) ==
    /\ At(c, "away") /\ tenant[TenantOf[client[c].m]]
    /\ Goes(c, "guard")
    /\ UNCHANGED <<data, oper, held>>

\* Variant: the commit trusts the check made when the transaction began.
GuardLocksUnlocked(c) == UNCHANGED held

\* _revalidate_tenant_commit: the tenant FOR SHARE, right before the commit.
GuardLocks(c) == Locks(c, TRow(c), "S")
Guard(c) ==
    /\ At(c, "guard") /\ tenant[TenantOf[client[c].m]]
    /\ GuardLocks(c) /\ Goes(c, "committing")
    /\ UNCHANGED <<data, oper>>

TenantGone(c) ==
    /\ At(c, "away") \/ (At(c, "guard") /\ Compatible(TRow(c), "S", c))
    /\ ~tenant[TenantOf[client[c].m]]
    /\ Refused(c)

CommitWork(c) == At(c, "committing") /\ Ends(c) /\ UNCHANGED <<data, oper>>

----------------------------------------------------------------------------
\* The operator's commands, and the rows each of them locks.
UserOps == {"disableUser", "enableUser", "setPassword"}

Plan(op, on) ==
    CASE op \in UserOps -> {<<"user", on>>}
      [] op = "disableMember" -> {<<"user", UserOf[on]>>, <<"member", on>>}
      [] op = "enableMember" -> {<<"member", on>>}
      [] op = "activate" -> {<<"tenant", on>>} \cup {<<"user", UserOf[m]>> : m \in Within(on)}
      [] op = "suspend" -> {<<"tenant", on>>} \cup {<<"user", UserOf[m]>> : m \in Within(on)}
                             \cup {<<"member", m>> : m \in Within(on)}

Subject(op) == CASE op \in UserOps -> Users
                 [] op \in {"disableMember", "enableMember"} -> Members
                 [] OTHER -> Tenants
Ops == UserOps \cup {"disableMember", "enableMember", "suspend", "activate"}
Concerned(op, on) == CASE op \in {"disableUser", "setPassword"} -> Mine(on)
                       [] op = "disableMember" -> {on}
                       [] op = "suspend" -> Within(on)
                       [] OTHER -> {}

StartOp(o, op, on) ==
    /\ oper[o] = NoOp
    /\ oper' = [oper EXCEPT ![o] = [op |-> op, on |-> on, rows |-> Plan(op, on),
                                    sweep |-> Concerned(op, on) # {}, todo |-> {}]]
    /\ UNCHANGED <<data, client, held>>

Running(o) == oper[o].op \in Ops

LockRow(o) ==
    /\ Running(o)
    /\ \E row \in Foremost(oper[o].rows) :
         /\ Locks(o, row, "X")
         /\ oper' = [oper EXCEPT ![o].rows = @ \ {row}]
    /\ UNCHANGED <<data, client>>

\* The UPDATE of the sessions works on those that are live when it starts, and
\* waits for each of them.
Sweep(o) ==
    /\ Running(o) /\ oper[o].rows = {} /\ oper[o].sweep
    /\ oper' = [oper EXCEPT ![o].sweep = FALSE,
                            ![o].todo = LiveOf(Concerned(oper[o].op, oper[o].on))]
    /\ UNCHANGED <<data, client, held>>

LockSession(o, k) ==
    /\ Running(o) /\ k \in oper[o].todo
    /\ Locks(o, Session(k), "X")
    /\ oper' = [oper EXCEPT ![o].todo = @ \ {k}]
    /\ UNCHANGED <<data, client>>

\* The live sessions whose rows the command has locked end with its commit.
CommitOp(o) ==
    LET op == oper[o].op
        on == oper[o].on
        M0 == Concerned(op, on) IN
    /\ Running(o) /\ oper[o].rows = {} /\ ~oper[o].sweep /\ oper[o].todo = {}
    /\ user' = [u \in Users |->
         [old |-> user[u].old /\ ~(op = "setPassword" /\ u = on),
          active |-> IF op = "disableUser" /\ u = on THEN FALSE
                     ELSE (op = "enableUser" /\ u = on) \/ user[u].active,
          stamp |-> user[u].stamp + (IF op \in {"disableUser", "setPassword", "disableMember"}
                                        /\ M0 \cap Mine(u) # {} THEN 1 ELSE 0)]]
    /\ member' = [m \in Members |->
         [active |-> IF op = "disableMember" /\ m = on THEN FALSE
                     ELSE (op = "enableMember" /\ m = on) \/ member[m].active,
          stamp |-> member[m].stamp + (IF op \in {"disableMember", "suspend"} /\ m \in M0
                                       THEN 1 ELSE 0)]]
    /\ tenant' = [t \in Tenants |-> IF op = "suspend" /\ t = on THEN FALSE
                                    ELSE (op = "activate" /\ t = on) \/ tenant[t]]
    /\ session' = [k \in Sessions |-> IF <<Session(k), "X">> \in held[o]
                                      THEN [session[k] EXCEPT !.st = "revoked"] ELSE session[k]]
    /\ changes' = [m \in Members |-> changes[m] + (IF m \in M0 THEN 1 ELSE 0)]
    /\ oper' = [oper EXCEPT ![o] = [NoOp EXCEPT !.op = "done"]]
    /\ Releases(o)
    /\ UNCHANGED <<claims, client>>

\* PostgreSQL aborts one transaction of a cycle: the request or command fails.
Victim(a) ==
    /\ \E A \in SUBSET Waiting : a \in A /\ Cycle(A)
    /\ IF a \in Clients
       THEN Refused(a)
       ELSE /\ oper' = [oper EXCEPT ![a] = [NoOp EXCEPT !.op = "done"]]
            /\ Releases(a) /\ UNCHANGED <<data, client>>

\* Every request and command has ended.
Finished ==
    /\ \A c \in Clients : At(c, "done")
    /\ \A o \in Operators : oper[o].op = "done"
    /\ UNCHANGED vars

Next ==
    \/ \E c \in Clients :
         \/ \E u \in Users : StartLogin(c, u)
         \/ \E claim \in claims, m \in Members : StartSelect(c, claim, m)
         \/ \E k \in Sessions : StartRequest(c, k)
         \/ Login(c) \/ LoginRefused(c) \/ Rehash(c) \/ Choose(c) \/ ChooseRefused(c)
         \/ IssueClaim(c) \/ Select(c) \/ LockTenant(c) \/ Mint(c)
         \/ MintRefused(c) \/ ReadUser(c) \/ ReadUserRefused(c) \/ ReadTenant(c)
         \/ ReadTenantRefused(c) \/ ReadSession(c) \/ ReadSessionRefused(c) \/ Logout(c)
         \/ LoggedOut(c) \/ Release(c) \/ Resume(c) \/ Guard(c) \/ TenantGone(c)
         \/ CommitWork(c)
    \/ \E o \in Operators :
         \/ \E op \in Ops : \E on \in Subject(op) : StartOp(o, op, on)
         \/ LockRow(o) \/ Sweep(o) \/ CommitOp(o)
         \/ \E k \in Sessions : LockSession(o, k)
    \/ \E a \in Actors : Victim(a)
    \/ Finished

Spec == Init /\ [][Next]_vars

----------------------------------------------------------------------------
\* Types: the rows, the requests and commands, and the locks they hold, which
\* are those of a transaction that runs.
TypeOK ==
    /\ \A u \in Users : user[u].active \in BOOLEAN /\ user[u].old \in BOOLEAN /\ user[u].stamp \in Nat
    /\ \A m \in Members : member[m].active \in BOOLEAN /\ member[m].stamp \in Nat /\ changes[m] \in Nat
    /\ \A t \in Tenants : tenant[t] \in BOOLEAN
    /\ \A k \in Sessions : /\ session[k].st \in {"none", "live", "revoked"}
                           /\ session[k].st # "none" => session[k].m \in Members
    /\ \A c \in Clients : /\ client[c].pc \notin {"idle", "done"} => client[c].user \in Users
                         /\ client[c].todo \subseteq Sessions
    /\ \A o \in Operators : oper[o].op \in Ops \cup {"none", "done"} /\ oper[o].todo \subseteq Sessions
    /\ \A a \in Actors : \A l \in held[a] : l[2] \in {"S", "X"}
                        /\ l[1][1] \in {"user", "tenant", "member", "session"}
    /\ \A c \in Clients : client[c].pc \in {"idle", "away", "done"} => held[c] = {}
    /\ \A o \in Operators : ~Running(o) => held[o] = {}

\* A browser session that is live was opened by a password check after the last
\* change that withdraws it: a password change, a disabled user or membership, a
\* suspended tenant.  Enabling again brings back neither a session nor a pending
\* choice of tenant, however the login and the change interleave.
LiveSessionsCurrent ==
    \A k \in Sessions : session[k].st = "live" => session[k].born = changes[session[k].m]

\* When resolve_ui_context lets a request in, and until its transaction ends, its
\* session, user, membership and tenant are all in force, though the request read
\* the session named by its cookie before it waited for any lock.
AcceptedIsCurrent ==
    \A c \in Clients :
        client[c].pc \in {"accepted", "logout"} =>
            LET m == client[c].m IN
            /\ session[client[c].k].st = "live" /\ session[client[c].k].born = changes[m]
            /\ user[UserOf[m]].active /\ member[m].active /\ tenant[TenantOf[m]]

\* What lets a person in is current: the session as it was opened, and the
\* rows as they are while the request runs.
AuthorityIsCurrent == LiveSessionsCurrent /\ AcceptedIsCurrent

\* Work done for a tenant around a model call commits only while the tenant is
\* active: a suspension waits for the commit or the commit sees the suspension.
CommitOnlyActive ==
    \A c \in Clients : client[c].pc = "committing" => tenant[TenantOf[client[c].m]]

\* The commands of the operator and the requests wait for each other in one
\* order: the only circular wait is that of two logouts of the same session,
\* which both hold its row FOR SHARE when they come to update it.
OnlyLogoutsDeadlock ==
    \A A \in SUBSET Waiting :
        Cycle(A) => \A a \in A : a \in Clients /\ client[a].pc = "logout"
=============================================================================
