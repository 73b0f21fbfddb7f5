------------------------ MODULE AccessAuthority_proofs ------------------------
(***************************************************************************)
(* What lets a person in is current, work commits only for an active       *)
(* tenant, and only logouts wait in a circle, for every number of people,  *)
(* tenants, sessions, requests and commands, and every interleaving of     *)
(* their row locks.                                                        *)
(***************************************************************************)
EXTENDS AccessAuthority, FiniteSetTheorems, WellFoundedInduction, TLAPS

X(a, row) == <<row, "X">> \in held[a]
S(a, row) == <<row, "S">> \in held[a]

\* A request and a command are records of these fields.
ClientFields == {"pc", "user", "m", "k", "claim", "rehash", "todo", "born"}
OperFields == {"op", "on", "rows", "sweep", "todo"}
IsClient(w) == w = [f \in ClientFields |-> w[f]] /\ w.rehash \in BOOLEAN /\ w.born \in [Members -> Nat]
IsOper(w) == w = [f \in OperFields |-> w[f]]

ClientsTyped == client = [c \in Clients |-> client[c]] /\ \A c \in Clients : IsClient(client[c])
OpersTyped == oper = [o \in Operators |-> oper[o]] /\ \A o \in Operators : IsOper(oper[o])
LocksTyped == held = [a \in Actors |-> held[a]]
ActorsTyped == ClientsTyped /\ OpersTyped /\ LocksTyped

RowsTyped ==
    /\ user \in [Users -> [active : BOOLEAN, stamp : Nat, old : BOOLEAN]]
    /\ member \in [Members -> [active : BOOLEAN, stamp : Nat]]
    /\ tenant \in [Tenants -> BOOLEAN]
    /\ session \in [Sessions -> [st : {"none", "live", "revoked"}, m : Members \cup {None}, born : Nat]]
    /\ \A k \in Sessions : session[k].st = "live" => session[k].m \in Members
    /\ changes \in [Members -> Nat]

\* Two actors share a row only to read it.
LocksSound ==
    \A a, b \in Actors : a # b =>
        \A l \in held[a], h \in held[b] : l[1] = h[1] => l[2] = "S" /\ h[2] = "S"

\* A token whose stamps are still those of its rows is as current as they are.
ClaimSound(claim) ==
    /\ claim.user \in Users /\ claim.born \in [Members -> Nat] /\ claim.stamp \in Nat
    /\ claim.stamp <= user[claim.user].stamp
    /\ \A m \in DOMAIN claim.stamps :
          /\ m \in Mine(claim.user)
          /\ claim.stamps[m] \in Nat /\ claim.stamps[m] <= member[m].stamp
          /\ claim.stamp = user[claim.user].stamp /\ claim.stamps[m] = member[m].stamp
                => claim.born[m] = changes[m]

\* A login that has seen a password keeps the user's row until it commits.
LoginSound(c) ==
    /\ client[c].pc \in {"login", "rehash", "choose"} =>
          client[c].claim = {} /\ client[c].user \in Users
    /\ client[c].pc = "select" => client[c].claim # {}
    /\ client[c].pc \in {"select", "tenant", "member"} =>
          client[c].m \in Members /\ client[c].user \in Users
    /\ client[c].pc \in {"rehash", "choose", "tenant", "member"} =>
          /\ X(c, URow(c))
          /\ client[c].claim = {} => \A m \in Mine(client[c].user) : client[c].born[m] = changes[m]
    /\ client[c].pc \in {"select", "tenant", "member"} =>
          \A claim \in client[c].claim :
             /\ claim \in claims /\ ~client[c].rehash
             /\ client[c].user = claim.user /\ client[c].born = claim.born

\* What a request has found in force stays so while it holds the rows.
RequestSound(c) ==
    /\ client[c].pc \in {"readUser", "readTenant", "readSession", "accepted", "logout"} =>
          /\ client[c].k \in Sessions /\ client[c].m \in Members
          /\ session[client[c].k].st # "none" /\ session[client[c].k].m = client[c].m
          /\ client[c].user = UserOf[client[c].m]
    /\ client[c].pc \in {"readTenant", "readSession", "accepted", "logout"} =>
          S(c, URow(c)) /\ user[UserOf[client[c].m]].active /\ member[client[c].m].active
    /\ client[c].pc \in {"readSession", "accepted", "logout"} =>
          S(c, TRow(c)) /\ tenant[TenantOf[client[c].m]]
    /\ client[c].pc \in {"accepted", "logout"} =>
          S(c, KRow(c)) /\ session[client[c].k].st = "live"
    /\ client[c].pc \in {"away", "guard", "committing"} => client[c].m \in Members
    /\ client[c].pc = "committing" => S(c, TRow(c)) /\ tenant[TenantOf[client[c].m]]

\* A command has its rows or still asks for them; once its UPDATE has begun it
\* has every session it ends, or waits for it.
OperSound(o) ==
    Running(o) =>
        /\ oper[o].on \in Subject(oper[o].op)
        /\ \A row \in Plan(oper[o].op, oper[o].on) : row \in oper[o].rows \/ X(o, row)
        /\ oper[o].rows # {} /\ ~oper[o].sweep => Concerned(oper[o].op, oper[o].on) = {}
        /\ oper[o].rows = {} /\ ~oper[o].sweep =>
              \A k \in LiveOf(Concerned(oper[o].op, oper[o].on)) :
                 k \in oper[o].todo \/ X(o, Session(k))

IInv ==
    /\ ActorsTyped /\ RowsTyped /\ LocksSound /\ LiveSessionsCurrent
    /\ \A claim \in claims : ClaimSound(claim)
    /\ \A c \in Clients : LoginSound(c) /\ RequestSound(c)
    /\ \A o \in Operators : OperSound(o)

----------------------------------------------------------------------------
\* A step of actor a leaves the other requests and commands alone.
Apart(a) ==
    /\ \A c \in Clients \ {a} : client'[c] = client[c]
    /\ \A o \in Operators \ {a} : oper'[o] = oper[o]
    /\ \A b \in Actors \ {a} : held'[b] = held[b]

\* What an actor may do to the rows, and under which locks.
UserWrites(a) ==
    \A u \in Users :
        /\ user[u].active /\ ~user'[u].active => X(a, <<"user", u>>)
        /\ user[u].stamp <= user'[u].stamp
MemberWrites(a) ==
    \A m \in Members :
        /\ member[m].active /\ ~member'[m].active => X(a, <<"user", UserOf[m]>>)
        /\ member[m].stamp <= member'[m].stamp
        /\ changes'[m] # changes[m] =>
              /\ X(a, <<"user", UserOf[m]>>)
              /\ \/ user[UserOf[m]].stamp < user'[UserOf[m]].stamp
                 \/ member[m].stamp < member'[m].stamp
TenantWrites(a) == \A t \in Tenants : tenant[t] /\ ~tenant'[t] => X(a, <<"tenant", t>>)
Kept(k) == session'[k] = session[k] /\ (session[k].st = "live" => changes'[session[k].m] = changes[session[k].m])
Opened(a, k) ==
    /\ session[k].st = "none" /\ session'[k].st = "live" /\ session'[k].m \in Members
    /\ X(a, <<"user", UserOf[session'[k].m]>>)
    /\ session'[k].born = changes'[session'[k].m]
Revoked(a, k) ==
    /\ session'[k].st = "revoked" /\ session'[k].m = session[k].m
    /\ \/ session[k].st = "live" /\ X(a, <<"user", UserOf[session[k].m]>>)
       \/ Compatible(Session(k), "X", a)
SessionWrites(a) == \A k \in Sessions : Kept(k) \/ Opened(a, k) \/ Revoked(a, k)
ClaimWrites == claims \subseteq claims' /\ \A claim \in claims' \ claims : ClaimSound(claim)'
Writes(a) == UserWrites(a) /\ MemberWrites(a) /\ TenantWrites(a) /\ SessionWrites(a) /\ ClaimWrites

LEMMA Conflict ==
    ASSUME LocksSound, NEW a \in Actors, NEW b \in Actors, a # b, NEW row, X(a, row)
    PROVE  ~X(b, row) /\ ~S(b, row)
BY DEF LocksSound, X, S

LEMMA Excluded ==
    ASSUME NEW a \in Actors, NEW b \in Actors, a # b, NEW row, Compatible(row, "X", a)
    PROVE  ~S(b, row)
BY DEF Compatible, S

\* The rows that a command locks include the users of whom it concerns.
LEMMA ConcernedUsers ==
    ASSUME NEW op \in Ops, NEW on \in Subject(op), NEW m \in Concerned(op, on)
    PROVE  m \in Members /\ <<"user", UserOf[m]>> \in Plan(op, on)
<1>1. CASE op \in UserOps
  BY <1>1 DEF Concerned, Plan, UserOps, Mine
<1>2. CASE op = "disableMember"
  BY <1>2 DEF Concerned, Plan, UserOps, Subject
<1>3. CASE op = "enableMember"
  BY <1>3 DEF Concerned, UserOps
<1>4. CASE op = "suspend"
  BY <1>4 DEF Concerned, Plan, UserOps, Within
<1>5. CASE op = "activate"
  BY <1>5 DEF Concerned, UserOps
<1> QED BY <1>1, <1>2, <1>3, <1>4, <1>5 DEF Ops

LEMMA LiveKept ==
    ASSUME IInv, RowsTyped', NEW a \in Actors, Writes(a)
    PROVE  LiveSessionsCurrent'
<1> SUFFICES ASSUME NEW k \in Sessions, session'[k].st = "live"
             PROVE  session'[k].born = changes'[session'[k].m]
  BY DEF LiveSessionsCurrent
<1>1. CASE Kept(k)
  BY <1>1 DEF Kept, IInv, LiveSessionsCurrent
<1>2. CASE Opened(a, k)
  BY <1>2 DEF Opened
<1>3. CASE Revoked(a, k)
  BY <1>3 DEF Revoked
<1> QED BY <1>1, <1>2, <1>3 DEF Writes, SessionWrites

LEMMA ClaimsKept ==
    ASSUME IInv, RowsTyped', NEW a \in Actors, Writes(a)
    PROVE  \A claim \in claims' : ClaimSound(claim)'
<1> SUFFICES ASSUME NEW claim \in claims PROVE ClaimSound(claim)'
  BY DEF Writes, ClaimWrites
<1>1. ClaimSound(claim)
  BY DEF IInv
<1>2. claim.user \in Users /\ claim.stamp \in Nat /\ claim.born \in [Members -> Nat]
      /\ claim.stamp <= user[claim.user].stamp
  BY <1>1 DEF ClaimSound
<1>3. user[claim.user].stamp \in Nat /\ user'[claim.user].stamp \in Nat
      /\ user[claim.user].stamp <= user'[claim.user].stamp
  BY <1>2 DEF IInv, RowsTyped, Writes, UserWrites
<1>4. ASSUME NEW m \in DOMAIN claim.stamps
      PROVE  /\ m \in Mine(claim.user)
             /\ claim.stamps[m] \in Nat /\ claim.stamps[m] <= member'[m].stamp
             /\ claim.stamp = user'[claim.user].stamp /\ claim.stamps[m] = member'[m].stamp
                   => claim.born[m] = changes'[m]
  <2>1. /\ m \in Mine(claim.user) /\ claim.stamps[m] \in Nat /\ claim.stamps[m] <= member[m].stamp
        /\ claim.stamp = user[claim.user].stamp /\ claim.stamps[m] = member[m].stamp
              => claim.born[m] = changes[m]
    BY <1>1 DEF ClaimSound
  <2>2. m \in Members /\ UserOf[m] = claim.user
    BY <2>1 DEF Mine
  <2>3. /\ member[m].stamp \in Nat /\ member'[m].stamp \in Nat
        /\ member[m].stamp <= member'[m].stamp
        /\ changes'[m] # changes[m] =>
              user[claim.user].stamp < user'[claim.user].stamp \/ member[m].stamp < member'[m].stamp
    BY <2>2 DEF IInv, RowsTyped, Writes, MemberWrites
  <2>4. claim.stamps[m] <= member'[m].stamp
    BY <2>1, <2>3
  <2>5. ASSUME claim.stamp = user'[claim.user].stamp, claim.stamps[m] = member'[m].stamp
        PROVE  claim.born[m] = changes'[m]
    <3>1. claim.stamp = user[claim.user].stamp /\ claim.stamps[m] = member[m].stamp
      BY <1>2, <1>3, <2>1, <2>3, <2>5
    <3>2. ~(user[claim.user].stamp < user'[claim.user].stamp) /\ ~(member[m].stamp < member'[m].stamp)
      BY <1>3, <2>3, <2>5, <3>1
    <3> QED BY <2>1, <2>3, <3>1, <3>2
  <2> QED BY <2>1, <2>4, <2>5
<1>5. claim.stamp <= user'[claim.user].stamp
  BY <1>2, <1>3
<1> QED BY <1>2, <1>4, <1>5 DEF ClaimSound

LEMMA LoginKept ==
    ASSUME IInv, NEW a \in Actors, Apart(a), Writes(a), NEW c \in Clients \ {a}
    PROVE  LoginSound(c)'
<1>1. client'[c] = client[c] /\ held'[c] = held[c] /\ c \in Actors
  BY DEF Apart, Actors
<1>2. LoginSound(c)
  BY DEF IInv
<1>3. ASSUME client[c].pc \in {"rehash", "choose", "tenant", "member"}, client[c].claim = {},
             NEW m \in Mine(client[c].user)
      PROVE  client[c].born[m] = changes'[m]
  <2>1. m \in Members /\ URow(c) = <<"user", UserOf[m]>>
    BY DEF Mine, URow
  <2>2. X(c, <<"user", UserOf[m]>>)
    BY <1>2, <1>3, <2>1 DEF LoginSound
  <2>3. ~X(a, <<"user", UserOf[m]>>)
    BY <1>1, <2>2, Conflict DEF IInv
  <2>4. changes'[m] = changes[m]
    BY <2>1, <2>3 DEF Writes, MemberWrites
  <2> QED BY <1>2, <1>3, <2>4 DEF LoginSound
<1>4. X(c, URow(c))' <=> X(c, URow(c))
  BY <1>1 DEF X, URow
<1>5. claims \subseteq claims'
  BY DEF Writes, ClaimWrites
<1> QED BY <1>1, <1>2, <1>3, <1>4, <1>5 DEF LoginSound

LEMMA RequestKept ==
    ASSUME IInv, NEW a \in Actors, Apart(a), Writes(a), NEW c \in Clients \ {a}
    PROVE  RequestSound(c)'
<1>1. client'[c] = client[c] /\ held'[c] = held[c] /\ c \in Actors
  BY DEF Apart, Actors
<1>2. RequestSound(c)
  BY DEF IInv
<1>3. /\ S(c, URow(c))' <=> S(c, URow(c))
      /\ S(c, TRow(c))' <=> S(c, TRow(c))
      /\ S(c, KRow(c))' <=> S(c, KRow(c))
  BY <1>1 DEF S, URow, TRow, KRow
<1>4. ASSUME client[c].pc \in {"readUser", "readTenant", "readSession", "accepted", "logout"}
      PROVE  /\ client[c].k \in Sessions /\ client[c].m \in Members
             /\ session'[client[c].k].st # "none" /\ session'[client[c].k].m = client[c].m
             /\ client[c].user = UserOf[client[c].m]
  BY <1>2, <1>4 DEF RequestSound, Writes, SessionWrites, Kept, Opened, Revoked
<1>5. ASSUME client[c].pc \in {"readTenant", "readSession", "accepted", "logout"}
      PROVE  user'[UserOf[client[c].m]].active /\ member'[client[c].m].active
  <2>1. /\ client[c].m \in Members /\ UserOf[client[c].m] \in Users
        /\ S(c, <<"user", UserOf[client[c].m]>>)
        /\ user[UserOf[client[c].m]].active /\ member[client[c].m].active
    BY <1>2, <1>5 DEF RequestSound, URow, Users
  <2>2. ~X(a, <<"user", UserOf[client[c].m]>>)
    BY <1>1, <2>1, Conflict DEF IInv
  <2> QED BY <2>1, <2>2 DEF Writes, UserWrites, MemberWrites
<1>6. ASSUME client[c].m \in Members, S(c, TRow(c)), tenant[TenantOf[client[c].m]]
      PROVE  tenant'[TenantOf[client[c].m]]
  <2>1. ~X(a, <<"tenant", TenantOf[client[c].m]>>) /\ TenantOf[client[c].m] \in Tenants
    BY <1>1, <1>6, Conflict DEF IInv, TRow, Tenants
  <2> QED BY <1>6, <2>1 DEF Writes, TenantWrites
<1>7. ASSUME client[c].pc \in {"accepted", "logout"}
      PROVE  session'[client[c].k].st = "live"
  <2>1. /\ client[c].k \in Sessions /\ session[client[c].k].st = "live"
        /\ S(c, Session(client[c].k)) /\ session[client[c].k].m = client[c].m
        /\ S(c, <<"user", UserOf[client[c].m]>>)
    BY <1>2, <1>7 DEF RequestSound, KRow, Session, URow
  <2>2. ~Opened(a, client[c].k)
    BY <2>1 DEF Opened
  <2>3. ~X(a, <<"user", UserOf[client[c].m]>>)
    BY <1>1, <2>1, Conflict DEF IInv
  <2>4. ~Compatible(Session(client[c].k), "X", a)
    BY <1>1, <2>1, Excluded
  <2>5. ~Revoked(a, client[c].k)
    BY <2>1, <2>3, <2>4 DEF Revoked
  <2> QED BY <2>1, <2>2, <2>5 DEF Writes, SessionWrites, Kept
<1> QED BY <1>1, <1>2, <1>3, <1>4, <1>5, <1>6, <1>7 DEF RequestSound

LEMMA OperKept ==
    ASSUME IInv, NEW a \in Actors, Apart(a), Writes(a), NEW o \in Operators \ {a}
    PROVE  OperSound(o)'
<1>1. oper'[o] = oper[o] /\ held'[o] = held[o] /\ o \in Actors
  BY DEF Apart, Actors
<1>2. OperSound(o)
  BY DEF IInv
<1>3. ASSUME Running(o), oper[o].rows = {}, ~oper[o].sweep,
             NEW k \in Sessions, session'[k].st = "live",
             session'[k].m \in Concerned(oper[o].op, oper[o].on)
      PROVE  k \in oper[o].todo \/ X(o, Session(k))
  <2>1. /\ oper[o].op \in Ops /\ oper[o].on \in Subject(oper[o].op)
        /\ \A row \in Plan(oper[o].op, oper[o].on) : X(o, row)
        /\ \A h \in LiveOf(Concerned(oper[o].op, oper[o].on)) : h \in oper[o].todo \/ X(o, Session(h))
    BY <1>2, <1>3 DEF OperSound, Running
  <2>2. X(o, <<"user", UserOf[session'[k].m]>>)
    BY <1>3, <2>1, ConcernedUsers
  <2>3. ~X(a, <<"user", UserOf[session'[k].m]>>)
    BY <1>1, <2>2, Conflict DEF IInv
  <2>4. session'[k] = session[k]
    BY <1>3, <2>3 DEF Writes, SessionWrites, Kept, Opened, Revoked
  <2> QED BY <1>3, <2>1, <2>4 DEF LiveOf
<1>4. \A row : X(o, row)' <=> X(o, row)
  BY <1>1 DEF X
<1>5. \A k : Session(k)' = Session(k)
  BY DEF Session
<1> QED BY <1>1, <1>2, <1>3, <1>4, <1>5 DEF OperSound, Running, LiveOf

\* A step keeps the invariant when it keeps the types and the locks, writes under
\* the locks it should, and its own actor is sound afterwards.
LEMMA ActorStep ==
    ASSUME IInv, NEW a \in Actors, Apart(a), Writes(a), ActorsTyped', RowsTyped', LocksSound',
           a \in Clients => LoginSound(a)' /\ RequestSound(a)',
           a \in Operators => OperSound(a)'
    PROVE  IInv'
<1>1. LiveSessionsCurrent' /\ \A claim \in claims' : ClaimSound(claim)'
  BY LiveKept, ClaimsKept
<1>2. \A c \in Clients : LoginSound(c)' /\ RequestSound(c)'
  BY LoginKept, RequestKept
<1>3. \A o \in Operators : OperSound(o)'
  BY OperKept
<1> QED BY <1>1, <1>2, <1>3 DEF IInv

----------------------------------------------------------------------------
LEMMA InitIInv == Init => IInv
<1> SUFFICES ASSUME Init PROVE IInv
  OBVIOUS
<1>1. ActorsTyped
  BY DEF Init, ActorsTyped, ClientsTyped, OpersTyped, LocksTyped, IsClient, IsOper, Started, NoOp,
         ClientFields, OperFields
<1>2. RowsTyped
  BY AccessAssumption DEF Init, RowsTyped
<1>3. LocksSound
  BY DEF Init, LocksSound
<1>4. LiveSessionsCurrent
  BY AccessAssumption DEF Init, LiveSessionsCurrent
<1>5. \A c \in Clients : LoginSound(c) /\ RequestSound(c)
  BY DEF Init, Started, LoginSound, RequestSound
<1>6. \A o \in Operators : OperSound(o)
  BY DEF Init, NoOp, OperSound, Running, Ops, UserOps
<1> QED BY <1>1, <1>2, <1>3, <1>4, <1>5, <1>6 DEF Init, IInv

\* What becomes of the locks.
LEMMA TakesLock ==
    ASSUME LocksTyped, LocksSound, NEW a \in Actors, NEW row, NEW mode \in {"S", "X"},
           Locks(a, row, mode)
    PROVE  /\ LocksTyped' /\ LocksSound' /\ \A b \in Actors \ {a} : held'[b] = held[b]
           /\ held'[a] = held[a] \cup {<<row, mode>>}
<1>1. /\ LocksTyped' /\ \A b \in Actors \ {a} : held'[b] = held[b]
      /\ held'[a] = held[a] \cup {<<row, mode>>}
  BY DEF Locks, LocksTyped
<1>2. \A b \in Actors \ {a} : \A l \in held[b] : l[1] = row => mode = "S" /\ l[2] = "S"
  BY DEF Locks, Compatible
<1>3. LocksSound'
  BY <1>1, <1>2 DEF LocksSound
<1> QED BY <1>1, <1>3

LEMMA DropsLocks ==
    ASSUME LocksTyped, LocksSound, NEW a \in Actors, Releases(a)
    PROVE  /\ LocksTyped' /\ LocksSound' /\ \A b \in Actors \ {a} : held'[b] = held[b]
           /\ held'[a] = {}
<1>1. LocksTyped' /\ held'[a] = {} /\ \A b \in Actors \ {a} : held'[b] = held[b]
  BY DEF Releases, LocksTyped
<1>2. LocksSound'
  BY <1>1 DEF LocksSound
<1> QED BY <1>1, <1>2

\* A step that writes no row.
LEMMA QuietWrites ==
    ASSUME IInv, UNCHANGED data, NEW a \in Actors
    PROVE  Writes(a) /\ RowsTyped'
<1>1. RowsTyped'
  BY DEF data, IInv, RowsTyped
<1>2. UserWrites(a) /\ MemberWrites(a)
  BY AccessAssumption DEF data, IInv, RowsTyped, UserWrites, MemberWrites
<1>3. TenantWrites(a) /\ SessionWrites(a) /\ ClaimWrites
  BY DEF data, TenantWrites, SessionWrites, Kept, ClaimWrites
<1> QED BY <1>1, <1>2, <1>3 DEF Writes

\* A step of a request that writes no row.
LEMMA QuietClient ==
    ASSUME IInv, NEW c \in Clients, UNCHANGED <<data, oper>>,
           ClientsTyped', \A d \in Clients \ {c} : client'[d] = client[d],
           LocksTyped', LocksSound', \A b \in Actors \ {c} : held'[b] = held[b],
           LoginSound(c)', RequestSound(c)'
    PROVE  IInv'
<1>1. c \in Actors /\ c \notin Operators /\ Operators \ {c} = Operators
  BY AccessAssumption DEF Actors
<1>2. Apart(c)
  BY DEF Apart
<1>3. Writes(c) /\ RowsTyped'
  BY <1>1, QuietWrites DEF data
<1>4. ActorsTyped'
  BY DEF IInv, ActorsTyped, OpersTyped
<1> QED BY <1>1, <1>2, <1>3, <1>4, ActorStep

\* A request ends.
LEMMA EndsSound ==
    ASSUME IInv, NEW c \in Clients, Ends(c), RowsTyped'
    PROVE  /\ ClientsTyped' /\ LocksTyped' /\ LocksSound'
           /\ \A d \in Clients \ {c} : client'[d] = client[d]
           /\ \A b \in Actors \ {c} : held'[b] = held[b]
           /\ client'[c].pc = "done" /\ LoginSound(c)' /\ RequestSound(c)'
<1>1. changes \in [Members -> Nat]
  BY DEF IInv, RowsTyped
<1>2. IsClient(Started("done")) /\ Started("done").pc = "done"
  BY <1>1 DEF IsClient, Started, ClientFields
<1>3. ClientsTyped' /\ client'[c].pc = "done" /\ \A d \in Clients \ {c} : client'[d] = client[d]
  BY <1>2 DEF Ends, IInv, ActorsTyped, ClientsTyped
<1>4. LocksTyped' /\ LocksSound' /\ \A b \in Actors \ {c} : held'[b] = held[b]
  BY DropsLocks DEF Ends, IInv, ActorsTyped, Actors
<1>5. LoginSound(c)' /\ RequestSound(c)'
  BY <1>3 DEF LoginSound, RequestSound
<1> QED BY <1>3, <1>4, <1>5

LEMMA RefusedIInv == ASSUME IInv, NEW c \in Clients, Refused(c) PROVE IInv'
<1>1. Ends(c) /\ UNCHANGED <<data, oper>>
  BY DEF Refused
<1>2. RowsTyped'
  BY <1>1 DEF data, IInv, RowsTyped
<1> QED BY <1>1, <1>2, EndsSound, QuietClient

LEMMA GoesTo ==
    ASSUME IInv, NEW c \in Clients, NEW pc, Goes(c, pc)
    PROVE  /\ ClientsTyped' /\ \A d \in Clients \ {c} : client'[d] = client[d]
           /\ client'[c].pc = pc
           /\ \A f \in ClientFields \ {"pc"} : client'[c][f] = client[c][f]
BY DEF Goes, IInv, ActorsTyped, ClientsTyped, IsClient, ClientFields

\* Steps of a request that take no lock, and the fields they leave.
LEMMA NoLockStep ==
    ASSUME IInv, NEW c \in Clients, UNCHANGED <<data, oper, held>>,
           ClientsTyped', \A d \in Clients \ {c} : client'[d] = client[d],
           LoginSound(c)', RequestSound(c)'
    PROVE  IInv'
<1>1. LocksTyped' /\ LocksSound'
  BY DEF IInv, ActorsTyped, LocksTyped, LocksSound
<1> QED BY <1>1, QuietClient

\* A step that only moves pc and waits for a lock.
LEMMA LockStep ==
    ASSUME IInv, NEW c \in Clients, UNCHANGED <<data, oper>>,
           NEW row, NEW mode \in {"S", "X"}, Locks(c, row, mode),
           ClientsTyped', \A d \in Clients \ {c} : client'[d] = client[d],
           held'[c] = held[c] \cup {<<row, mode>>} => LoginSound(c)' /\ RequestSound(c)'
    PROVE  IInv'
<1>1. /\ LocksTyped' /\ LocksSound' /\ \A b \in Actors \ {c} : held'[b] = held[b]
      /\ held'[c] = held[c] \cup {<<row, mode>>}
  BY TakesLock DEF IInv, ActorsTyped, Actors
<1> QED BY <1>1, QuietClient

LEMMA StartsIInv ==
    ASSUME IInv, NEW c \in Clients,
           \/ \E u \in Users : StartLogin(c, u)
           \/ \E claim \in claims, m \in Members : StartSelect(c, claim, m)
           \/ \E k \in Sessions : StartRequest(c, k)
    PROVE  IInv'
<1>0. changes \in [Members -> Nat]
  BY DEF IInv, RowsTyped
<1>1. ASSUME NEW u \in Users, StartLogin(c, u) PROVE IInv'
  <2> DEFINE w == [Started("login") EXCEPT !.user = u]
  <2>1. IsClient(w) /\ w.pc = "login" /\ w.user = u /\ w.claim = {}
    BY <1>0 DEF IsClient, Started, ClientFields
  <2>2. client' = [client EXCEPT ![c] = w] /\ UNCHANGED <<data, oper, held>>
    BY <1>1 DEF StartLogin
  <2> HIDE DEF w
  <2>3. ClientsTyped' /\ client'[c] = w /\ \A d \in Clients \ {c} : client'[d] = client[d]
    BY <2>1, <2>2 DEF IInv, ActorsTyped, ClientsTyped
  <2>4. LoginSound(c)' /\ RequestSound(c)'
    BY <2>1, <2>3 DEF LoginSound, RequestSound
  <2> QED BY <2>2, <2>3, <2>4, NoLockStep
<1>2. ASSUME NEW claim \in claims, NEW m \in Members, StartSelect(c, claim, m) PROVE IInv'
  <2> DEFINE w == [Started("select") EXCEPT !.user = claim.user, !.m = m, !.claim = {claim},
                                            !.born = claim.born]
  <2>1. claim.user \in Users /\ claim.born \in [Members -> Nat]
    BY DEF IInv, ClaimSound
  <2>2. /\ IsClient(w) /\ w.pc = "select" /\ w.user = claim.user /\ w.m = m /\ w.claim = {claim}
        /\ w.born = claim.born /\ w.rehash = FALSE
    BY <1>0, <2>1 DEF IsClient, Started, ClientFields
  <2>3. client' = [client EXCEPT ![c] = w] /\ UNCHANGED <<data, oper, held>>
    BY <1>2 DEF StartSelect
  <2> HIDE DEF w
  <2>4. ClientsTyped' /\ client'[c] = w /\ \A d \in Clients \ {c} : client'[d] = client[d]
    BY <2>2, <2>3 DEF IInv, ActorsTyped, ClientsTyped
  <2>5. LoginSound(c)' /\ RequestSound(c)'
    BY <2>1, <2>2, <2>3, <2>4 DEF LoginSound, RequestSound, data
  <2> QED BY <2>3, <2>4, <2>5, NoLockStep
<1>3. ASSUME NEW k \in Sessions, StartRequest(c, k) PROVE IInv'
  <2> DEFINE w == [Started("readUser") EXCEPT !.k = k, !.m = session[k].m,
                                              !.user = UserOf[session[k].m]]
  <2>1. session[k].st = "live" /\ session[k].m \in Members
    BY <1>3 DEF StartRequest, IInv, RowsTyped
  <2>2. /\ IsClient(w) /\ w.pc = "readUser" /\ w.k = k /\ w.m = session[k].m
        /\ w.user = UserOf[session[k].m]
    BY <1>0 DEF IsClient, Started, ClientFields
  <2>3. client' = [client EXCEPT ![c] = w] /\ UNCHANGED <<data, oper, held>>
    BY <1>3 DEF StartRequest
  <2> HIDE DEF w
  <2>4. ClientsTyped' /\ client'[c] = w /\ \A d \in Clients \ {c} : client'[d] = client[d]
    BY <2>2, <2>3 DEF IInv, ActorsTyped, ClientsTyped
  <2>5. LoginSound(c)' /\ RequestSound(c)'
    BY <2>1, <2>2, <2>3, <2>4 DEF LoginSound, RequestSound, data
  <2> QED BY <2>3, <2>4, <2>5, NoLockStep
<1> QED BY <1>1, <1>2, <1>3

LEMMA LoginIInv ==
    ASSUME IInv, NEW c \in Clients, Login(c) \/ Rehash(c) \/ Choose(c) \/ Select(c) \/ LockTenant(c)
    PROVE  IInv'
<1>0. LoginSound(c) /\ RequestSound(c) /\ IsClient(client[c]) /\ changes \in [Members -> Nat]
  BY DEF IInv, ActorsTyped, ClientsTyped, RowsTyped
<1>1. CASE Login(c)
  <2>1. /\ client[c].pc = "login" /\ Locks(c, URow(c), "X") /\ UNCHANGED <<data, oper>>
        /\ client[c].claim = {} /\ client[c].user \in Users
    BY <1>0, <1>1 DEF Login, At, LoginSound
  <2>2. PICK todo : client' = [client EXCEPT
            ![c].pc = IF user[client[c].user].old THEN "rehash" ELSE "choose",
            ![c].rehash = user[client[c].user].old, ![c].born = changes, ![c].todo = todo]
    BY <1>1 DEF Login
  <2>3. user[client[c].user].old \in BOOLEAN
    BY <2>1 DEF IInv, RowsTyped
  <2>4. /\ ClientsTyped' /\ \A d \in Clients \ {c} : client'[d] = client[d]
        /\ client'[c].pc \in {"rehash", "choose"} /\ client'[c].born = changes
        /\ client'[c].claim = {} /\ client'[c].user = client[c].user
    BY <1>0, <2>1, <2>2, <2>3 DEF IInv, ActorsTyped, ClientsTyped, IsClient, ClientFields
  <2>5. ASSUME held'[c] = held[c] \cup {<<URow(c), "X">>}
        PROVE  LoginSound(c)' /\ RequestSound(c)'
    BY <2>1, <2>4, <2>5 DEF LoginSound, RequestSound, X, URow, data
  <2> QED BY <2>1, <2>4, <2>5, LockStep
<1>2. CASE Rehash(c)
  <2>1. client[c].pc = "rehash" /\ UNCHANGED <<data, oper>>
    BY <1>2 DEF Rehash, At
  <2>2. CASE Goes(c, "choose") /\ UNCHANGED held
    <3>1. /\ ClientsTyped' /\ \A d \in Clients \ {c} : client'[d] = client[d]
          /\ client'[c].pc = "choose"
          /\ \A f \in ClientFields \ {"pc"} : client'[c][f] = client[c][f]
      BY <2>2, GoesTo
    <3>2. LoginSound(c)' /\ RequestSound(c)'
      BY <1>0, <2>1, <2>2, <3>1 DEF LoginSound, RequestSound, X, URow, data, ClientFields
    <3> QED BY <2>1, <2>2, <3>1, <3>2, NoLockStep
  <2>3. ASSUME NEW k \in client[c].todo, Locks(c, Session(k), "X"),
               client' = [client EXCEPT ![c].todo = @ \ {k}]
        PROVE  IInv'
    <3>1. /\ ClientsTyped' /\ \A d \in Clients \ {c} : client'[d] = client[d]
          /\ \A f \in ClientFields \ {"todo"} : client'[c][f] = client[c][f]
      BY <1>0, <2>3 DEF IInv, ActorsTyped, ClientsTyped, IsClient, ClientFields
    <3>2. ASSUME held'[c] = held[c] \cup {<<Session(k), "X">>}
          PROVE  LoginSound(c)' /\ RequestSound(c)'
      BY <1>0, <2>1, <3>1, <3>2 DEF LoginSound, RequestSound, X, URow, data, ClientFields
    <3> QED BY <2>1, <2>3, <3>1, <3>2, LockStep
  <2> QED BY <1>2, <2>2, <2>3 DEF Rehash
<1>3. CASE Choose(c)
  <2>1. client[c].pc = "choose" /\ UNCHANGED <<data, oper, held>>
    BY <1>3 DEF Choose, At
  <2>2. PICK m \in Members : client' = [client EXCEPT ![c].pc = "tenant", ![c].m = m]
    BY <1>3 DEF Choose
  <2>3. /\ ClientsTyped' /\ \A d \in Clients \ {c} : client'[d] = client[d]
        /\ client'[c].pc = "tenant" /\ client'[c].m = m
        /\ \A f \in ClientFields \ {"pc", "m"} : client'[c][f] = client[c][f]
    BY <1>0, <2>2 DEF IInv, ActorsTyped, ClientsTyped, IsClient, ClientFields
  <2>4. /\ client'[c].claim = {} /\ client'[c].user = client[c].user /\ client'[c].user \in Users
        /\ client'[c].born = client[c].born /\ URow(c)' = URow(c)
    BY <1>0, <2>1, <2>3 DEF LoginSound, ClientFields, URow
  <2>5. RequestSound(c)'
    BY <2>3 DEF RequestSound
  <2>6. LoginSound(c)'
    BY <1>0, <2>1, <2>3, <2>4 DEF LoginSound, X, data
  <2> QED BY <2>1, <2>3, <2>5, <2>6, NoLockStep
<1>4. CASE Select(c)
  <2>1. client[c].pc = "select" /\ Locks(c, URow(c), "X") /\ Goes(c, "tenant") /\ UNCHANGED <<data, oper>>
    BY <1>4 DEF Select, At
  <2>2. /\ ClientsTyped' /\ \A d \in Clients \ {c} : client'[d] = client[d]
        /\ client'[c].pc = "tenant"
        /\ \A f \in ClientFields \ {"pc"} : client'[c][f] = client[c][f]
    BY <2>1, GoesTo
  <2>3. ASSUME held'[c] = held[c] \cup {<<URow(c), "X">>}
        PROVE  LoginSound(c)' /\ RequestSound(c)'
    BY <1>0, <2>1, <2>2, <2>3 DEF LoginSound, RequestSound, X, URow, data, ClientFields
  <2> QED BY <2>1, <2>2, <2>3, LockStep
<1>5. CASE LockTenant(c)
  <2>1. client[c].pc = "tenant" /\ Locks(c, TRow(c), "S") /\ Goes(c, "member") /\ UNCHANGED <<data, oper>>
    BY <1>5 DEF LockTenant, At
  <2>2. /\ ClientsTyped' /\ \A d \in Clients \ {c} : client'[d] = client[d]
        /\ client'[c].pc = "member"
        /\ \A f \in ClientFields \ {"pc"} : client'[c][f] = client[c][f]
    BY <2>1, GoesTo
  <2>3. ASSUME held'[c] = held[c] \cup {<<TRow(c), "S">>}
        PROVE  LoginSound(c)' /\ RequestSound(c)'
    BY <1>0, <2>1, <2>2, <2>3 DEF LoginSound, RequestSound, X, URow, data, ClientFields
  <2> QED BY <2>1, <2>2, <2>3, LockStep
<1> QED BY <1>1, <1>2, <1>3, <1>4, <1>5

LEMMA RequestIInv ==
    ASSUME IInv, NEW c \in Clients,
           \/ ReadUser(c) \/ ReadTenant(c) \/ ReadSession(c) \/ Logout(c)
           \/ Release(c) \/ Resume(c) \/ Guard(c)
    PROVE  IInv'
<1>0. RequestSound(c)
  BY DEF IInv
<1>1. CASE ReadUser(c)
  <2>1. /\ client[c].pc = "readUser" /\ Locks(c, URow(c), "S") /\ Goes(c, "readTenant")
        /\ user[client[c].user].active /\ member[client[c].m].active /\ UNCHANGED <<data, oper>>
    BY <1>1 DEF ReadUser, At
  <2>2. /\ ClientsTyped' /\ \A d \in Clients \ {c} : client'[d] = client[d]
        /\ client'[c].pc = "readTenant"
        /\ \A f \in ClientFields \ {"pc"} : client'[c][f] = client[c][f]
    BY <2>1, GoesTo
  <2>3. ASSUME held'[c] = held[c] \cup {<<URow(c), "S">>}
        PROVE  LoginSound(c)' /\ RequestSound(c)'
    BY <1>0, <2>1, <2>2, <2>3 DEF LoginSound, RequestSound, S, URow, data, ClientFields
  <2> QED BY <2>1, <2>2, <2>3, LockStep
<1>2. CASE ReadTenant(c)
  <2>1. /\ client[c].pc = "readTenant" /\ Locks(c, TRow(c), "S") /\ Goes(c, "readSession")
        /\ tenant[TenantOf[client[c].m]] /\ UNCHANGED <<data, oper>>
    BY <1>2 DEF ReadTenant, At
  <2>2. /\ ClientsTyped' /\ \A d \in Clients \ {c} : client'[d] = client[d]
        /\ client'[c].pc = "readSession"
        /\ \A f \in ClientFields \ {"pc"} : client'[c][f] = client[c][f]
    BY <2>1, GoesTo
  <2>3. ASSUME held'[c] = held[c] \cup {<<TRow(c), "S">>}
        PROVE  LoginSound(c)' /\ RequestSound(c)'
    BY <1>0, <2>1, <2>2, <2>3 DEF LoginSound, RequestSound, S, URow, TRow, data, ClientFields
  <2> QED BY <2>1, <2>2, <2>3, LockStep
<1>3. CASE ReadSession(c)
  <2>1. /\ client[c].pc = "readSession" /\ Locks(c, KRow(c), "S") /\ Goes(c, "accepted")
        /\ session[client[c].k].st = "live" /\ UNCHANGED <<data, oper>>
    BY <1>3 DEF ReadSession, StillLive, At
  <2>2. /\ ClientsTyped' /\ \A d \in Clients \ {c} : client'[d] = client[d]
        /\ client'[c].pc = "accepted"
        /\ \A f \in ClientFields \ {"pc"} : client'[c][f] = client[c][f]
    BY <2>1, GoesTo
  <2>3. ASSUME held'[c] = held[c] \cup {<<KRow(c), "S">>}
        PROVE  LoginSound(c)' /\ RequestSound(c)'
    BY <1>0, <2>1, <2>2, <2>3 DEF LoginSound, RequestSound, S, URow, TRow, KRow, data, ClientFields
  <2> QED BY <2>1, <2>2, <2>3, LockStep
<1>4. CASE Logout(c)
  <2>1. client[c].pc = "accepted" /\ Goes(c, "logout") /\ UNCHANGED <<data, oper, held>>
    BY <1>4 DEF Logout, At
  <2>2. /\ ClientsTyped' /\ \A d \in Clients \ {c} : client'[d] = client[d]
        /\ client'[c].pc = "logout"
        /\ \A f \in ClientFields \ {"pc"} : client'[c][f] = client[c][f]
    BY <2>1, GoesTo
  <2>3. LoginSound(c)' /\ RequestSound(c)'
    BY <1>0, <2>1, <2>2 DEF LoginSound, RequestSound, S, URow, TRow, KRow, data, ClientFields
  <2> QED BY <2>1, <2>2, <2>3, NoLockStep
<1>5. CASE Release(c)
  <2>1. client[c].pc = "accepted" /\ Goes(c, "away") /\ Releases(c) /\ UNCHANGED <<data, oper>>
    BY <1>5 DEF Release, At
  <2>2. /\ ClientsTyped' /\ \A d \in Clients \ {c} : client'[d] = client[d]
        /\ client'[c].pc = "away"
        /\ \A f \in ClientFields \ {"pc"} : client'[c][f] = client[c][f]
    BY <2>1, GoesTo
  <2>3. LocksTyped' /\ LocksSound' /\ \A b \in Actors \ {c} : held'[b] = held[b]
    BY <2>1, DropsLocks DEF IInv, ActorsTyped, Actors
  <2>4. LoginSound(c)' /\ RequestSound(c)'
    BY <1>0, <2>1, <2>2 DEF LoginSound, RequestSound, ClientFields
  <2> QED BY <2>1, <2>2, <2>3, <2>4, QuietClient
<1>6. CASE Resume(c)
  <2>1. client[c].pc = "away" /\ Goes(c, "guard") /\ UNCHANGED <<data, oper, held>>
    BY <1>6 DEF Resume, At
  <2>2. /\ ClientsTyped' /\ \A d \in Clients \ {c} : client'[d] = client[d]
        /\ client'[c].pc = "guard"
        /\ \A f \in ClientFields \ {"pc"} : client'[c][f] = client[c][f]
    BY <2>1, GoesTo
  <2>3. LoginSound(c)' /\ RequestSound(c)'
    BY <1>0, <2>1, <2>2 DEF LoginSound, RequestSound, ClientFields
  <2> QED BY <2>1, <2>2, <2>3, NoLockStep
<1>7. CASE Guard(c)
  <2>1. /\ client[c].pc = "guard" /\ Locks(c, TRow(c), "S") /\ Goes(c, "committing")
        /\ tenant[TenantOf[client[c].m]] /\ UNCHANGED <<data, oper>>
    BY <1>7 DEF Guard, GuardLocks, At
  <2>2. /\ ClientsTyped' /\ \A d \in Clients \ {c} : client'[d] = client[d]
        /\ client'[c].pc = "committing"
        /\ \A f \in ClientFields \ {"pc"} : client'[c][f] = client[c][f]
    BY <2>1, GoesTo
  <2>3. ASSUME held'[c] = held[c] \cup {<<TRow(c), "S">>}
        PROVE  LoginSound(c)' /\ RequestSound(c)'
    BY <1>0, <2>1, <2>2, <2>3 DEF LoginSound, RequestSound, S, TRow, data, ClientFields
  <2> QED BY <2>1, <2>2, <2>3, LockStep
<1> QED BY <1>1, <1>2, <1>3, <1>4, <1>5, <1>6, <1>7

----------------------------------------------------------------------------
\* A request that commits what it wrote.
LEMMA CommitsIInv ==
    ASSUME IInv, NEW c \in Clients, Ends(c), UNCHANGED oper, RowsTyped', Writes(c)
    PROVE  IInv'
<1>1. c \in Actors /\ c \notin Operators /\ Operators \ {c} = Operators
  BY AccessAssumption DEF Actors
<1>2. /\ ClientsTyped' /\ LocksTyped' /\ LocksSound' /\ LoginSound(c)' /\ RequestSound(c)'
      /\ \A d \in Clients \ {c} : client'[d] = client[d]
      /\ \A b \in Actors \ {c} : held'[b] = held[b]
  BY EndsSound
<1>3. Apart(c) /\ ActorsTyped'
  BY <1>2 DEF Apart, IInv, ActorsTyped, OpersTyped
<1> QED BY <1>1, <1>2, <1>3, ActorStep

\* A login with a new password hash ends the user's sessions and tokens.
LEMMA RotatedWrites ==
    ASSUME IInv, NEW c \in Clients, Rotated(c), X(c, URow(c)), client[c].user \in Users,
           UNCHANGED member
    PROVE  /\ user' \in [Users -> [active : BOOLEAN, stamp : Nat, old : BOOLEAN]]
           /\ changes' \in [Members -> Nat]
           /\ \A m \in Members : changes'[m] = changes[m]
                  + (IF client[c].rehash /\ m \in Mine(client[c].user) THEN 1 ELSE 0)
           /\ UserWrites(c) /\ MemberWrites(c)
<1> DEFINE u == client[c].user
           r == client[c].rehash
<1>1. r \in BOOLEAN
  BY DEF IInv, ActorsTyped, ClientsTyped, IsClient
<1>2. /\ user \in [Users -> [active : BOOLEAN, stamp : Nat, old : BOOLEAN]]
      /\ member \in [Members -> [active : BOOLEAN, stamp : Nat]]
      /\ changes \in [Members -> Nat]
  BY DEF IInv, RowsTyped
<1>3. /\ user' = IF r THEN [user EXCEPT ![u].stamp = @ + 1, ![u].old = FALSE] ELSE user
      /\ changes' = IF r THEN [m \in Members |-> changes[m] + (IF m \in Mine(u) THEN 1 ELSE 0)]
                    ELSE changes
  BY DEF Rotated
<1>4. user' \in [Users -> [active : BOOLEAN, stamp : Nat, old : BOOLEAN]]
  BY <1>2, <1>3
<1>5. changes' \in [Members -> Nat]
  BY <1>2, <1>3
<1>6. \A m \in Members : changes'[m] = changes[m] + (IF r /\ m \in Mine(u) THEN 1 ELSE 0)
  BY <1>1, <1>2, <1>3
<1>7. \A v \in Users : /\ user'[v].active = user[v].active
                       /\ user'[v].stamp = user[v].stamp + (IF r /\ v = u THEN 1 ELSE 0)
  BY <1>1, <1>2, <1>3
<1>8. UserWrites(c)
  BY <1>2, <1>7 DEF UserWrites
<1>9. MemberWrites(c)
  <2> SUFFICES ASSUME NEW m \in Members
               PROVE  /\ member[m].stamp <= member[m].stamp
                      /\ changes'[m] # changes[m] =>
                            /\ X(c, <<"user", UserOf[m]>>)
                            /\ user[UserOf[m]].stamp < user'[UserOf[m]].stamp
    BY DEF MemberWrites
  <2>1. member[m].stamp \in Nat /\ changes[m] \in Nat /\ user[UserOf[m]].stamp \in Nat /\ UserOf[m] \in Users
    BY <1>2 DEF Users
  <2>2. ASSUME changes'[m] # changes[m] PROVE r /\ UserOf[m] = u
    BY <1>6, <2>1, <2>2 DEF Mine
  <2> QED BY <1>7, <2>1, <2>2 DEF URow
<1> QED BY <1>4, <1>5, <1>6, <1>8, <1>9

LEMMA EndedKeeps ==
    ASSUME IInv, NEW c \in Clients, Rotated(c), X(c, URow(c)), client[c].user \in Users,
           UNCHANGED member, NEW k \in Sessions, NEW s, s = Ended(c, session)[k]
    PROVE  /\ s \in [st : {"none", "live", "revoked"}, m : Members \cup {None}, born : Nat]
           /\ s.st = "live" => s.m \in Members
           /\ s.st = "none" <=> session[k].st = "none"
           /\ session'[k] = s => Kept(k) \/ Revoked(c, k)
<1> DEFINE u == client[c].user
           ends == client[c].rehash /\ session[k].st = "live" /\ session[k].m \in Mine(u)
<1>1. /\ session[k] \in [st : {"none", "live", "revoked"}, m : Members \cup {None}, born : Nat]
      /\ session[k].st = "live" => session[k].m \in Members
  BY DEF IInv, RowsTyped
<1>2. s = IF ends THEN [session[k] EXCEPT !.st = "revoked"] ELSE session[k]
  BY DEF Ended
<1>3. CASE ends
  <2>1. s = [session[k] EXCEPT !.st = "revoked"] /\ s.st = "revoked" /\ s.m = session[k].m
    BY <1>1, <1>2, <1>3
  <2>2. X(c, <<"user", UserOf[session[k].m]>>)
    BY <1>3 DEF Mine, URow
  <2> QED BY <1>1, <1>3, <2>1, <2>2 DEF Revoked
<1>4. CASE ~ends
  <2>1. s = session[k]
    BY <1>2, <1>4
  <2>2. ASSUME session[k].st = "live" PROVE changes'[session[k].m] = changes[session[k].m]
    <3>1. /\ session[k].m \in Members /\ changes[session[k].m] \in Nat
          /\ changes'[session[k].m] = changes[session[k].m]
               + (IF client[c].rehash /\ session[k].m \in Mine(client[c].user) THEN 1 ELSE 0)
      BY <1>1, <2>2, RotatedWrites DEF IInv, RowsTyped
    <3> QED BY <1>4, <2>2, <3>1
  <2> QED BY <1>1, <2>1, <2>2 DEF Kept
<1> QED BY <1>3, <1>4

LEMMA IssueClaimIInv == ASSUME IInv, NEW c \in Clients, IssueClaim(c) PROVE IInv'
<1> DEFINE u == client[c].user
           new == [user |-> u, stamp |-> user'[u].stamp,
                   stamps |-> [m \in Choices(u) |-> member[m].stamp], born |-> changes']
<1>1. /\ client[c].pc = "choose" /\ Rotated(c) /\ session' = Ended(c, session)
      /\ claims' = claims \cup {new} /\ Ends(c) /\ UNCHANGED <<member, tenant, oper>>
  BY DEF IssueClaim, At
<1>2. X(c, URow(c)) /\ client[c].user \in Users
  BY <1>1 DEF IInv, LoginSound
<1>3. /\ user' \in [Users -> [active : BOOLEAN, stamp : Nat, old : BOOLEAN]]
      /\ changes' \in [Members -> Nat] /\ UserWrites(c) /\ MemberWrites(c)
  BY <1>1, <1>2, RotatedWrites
<1>4. \A k \in Sessions :
        /\ session'[k] \in [st : {"none", "live", "revoked"}, m : Members \cup {None}, born : Nat]
        /\ session'[k].st = "live" => session'[k].m \in Members
        /\ Kept(k) \/ Revoked(c, k)
  BY <1>1, <1>2, EndedKeeps
<1>5. session' = [k \in Sessions |-> session'[k]]
  BY <1>1 DEF Ended
<1>6. RowsTyped'
  BY <1>1, <1>3, <1>4, <1>5 DEF IInv, RowsTyped
<1>7. ASSUME NEW claim, claim = new PROVE ClaimSound(claim)'
  <2>1. claim.user = u /\ claim.stamp = user'[u].stamp /\ claim.born = changes'
        /\ claim.stamps = [m \in Choices(u) |-> member[m].stamp]
    BY <1>7
  <2>2. u \in Users /\ user'[u].stamp \in Nat
    BY <1>2, <1>3
  <2>3. /\ DOMAIN claim.stamps = Choices(u)
        /\ \A m \in Choices(u) : /\ m \in Members /\ UserOf[m] = u
                                 /\ claim.stamps[m] = member[m].stamp
                                 /\ member[m].stamp \in Nat /\ member'[m].stamp = member[m].stamp
    BY <1>1, <2>1 DEF Choices, Mine, IInv, RowsTyped
  <2>4. claim.stamp \in Nat /\ claim.stamp <= user'[claim.user].stamp
    BY <2>1, <2>2
  <2>5. \A m \in DOMAIN claim.stamps :
          /\ m \in Mine(claim.user)
          /\ claim.stamps[m] \in Nat /\ claim.stamps[m] <= member'[m].stamp
          /\ claim.born[m] = changes'[m]
    BY <2>1, <2>3 DEF Mine
  <2> QED BY <1>3, <2>1, <2>2, <2>4, <2>5 DEF ClaimSound, Mine
<1>8. Writes(c)
  <2>1. TenantWrites(c)
    BY <1>1 DEF TenantWrites
  <2>2. SessionWrites(c)
    BY <1>4 DEF SessionWrites
  <2>3. ClaimWrites
    <3>1. claims \subseteq claims' /\ \A claim \in claims' \ claims : claim = new
      BY <1>1
    <3> QED BY <1>7, <3>1 DEF ClaimWrites
  <2> QED BY <1>3, <2>1, <2>2, <2>3 DEF Writes
<1> QED BY <1>1, <1>6, <1>8, CommitsIInv

\* A new session is as current as the password check or the token it rests on.
LEMMA MintIInv == ASSUME IInv, NEW c \in Clients, Mint(c) PROVE IInv'
<1> DEFINE m == client[c].m
           r == client[c].rehash
<1>1. PICK k \in Sessions :
        /\ session[k].st = "none" /\ Rotated(c)
        /\ session' = [Ended(c, session) EXCEPT ![k] =
             [st |-> "live", m |-> m, born |-> client[c].born[m] + (IF r THEN 1 ELSE 0)]]
  BY DEF Mint
<1>2. /\ client[c].pc = "member" /\ MaySignIn(c) /\ Ends(c)
      /\ UNCHANGED <<member, tenant, claims, oper>>
  BY DEF Mint, At
<1>3. /\ X(c, URow(c)) /\ client[c].user \in Users /\ m \in Members
      /\ client[c].claim = {} => \A n \in Mine(client[c].user) : client[c].born[n] = changes[n]
      /\ \A claim \in client[c].claim : claim \in claims /\ ~r /\ client[c].user = claim.user
                                        /\ client[c].born = claim.born
  BY <1>2 DEF IInv, LoginSound
<1>4. UserOf[m] = client[c].user /\ m \in Mine(client[c].user)
  BY <1>2, <1>3 DEF MaySignIn, Mine
<1>5. /\ user' \in [Users -> [active : BOOLEAN, stamp : Nat, old : BOOLEAN]]
      /\ changes' \in [Members -> Nat] /\ UserWrites(c) /\ MemberWrites(c)
      /\ changes'[m] = changes[m] + (IF r THEN 1 ELSE 0)
  BY <1>1, <1>2, <1>3, <1>4, RotatedWrites
<1>6. client[c].born[m] = changes[m]
  <2>1. CASE client[c].claim = {}
    BY <1>3, <1>4, <2>1
  <2>2. ASSUME NEW claim \in client[c].claim PROVE client[c].born[m] = changes[m]
    <3>1. /\ user[claim.user].stamp = claim.stamp /\ m \in DOMAIN claim.stamps
          /\ claim.stamps[m] = member[m].stamp
      BY <1>2, <2>2 DEF MaySignIn, Stamps
    <3>2. ClaimSound(claim) /\ client[c].born = claim.born
      BY <1>3, <2>2 DEF IInv
    <3> QED BY <3>1, <3>2 DEF ClaimSound
  <2> QED BY <2>1, <2>2
<1> DEFINE w == [st |-> "live", m |-> m, born |-> client[c].born[m] + (IF r THEN 1 ELSE 0)]
<1>7. w.st = "live" /\ w.m = m /\ w.born = changes'[m] /\ m \in Members /\ changes'[m] \in Nat
      /\ w \in [st : {"none", "live", "revoked"}, m : Members \cup {None}, born : Nat]
  BY <1>3, <1>5, <1>6
<1>8. session' = [h \in Sessions |-> IF h = k THEN w ELSE Ended(c, session)[h]]
  BY <1>1 DEF Ended
<1> HIDE DEF w
<1>9. Opened(c, k)
  BY <1>1, <1>3, <1>4, <1>7, <1>8 DEF Opened, URow
<1>10. \A h \in Sessions \ {k} :
        /\ session'[h] \in [st : {"none", "live", "revoked"}, m : Members \cup {None}, born : Nat]
        /\ session'[h].st = "live" => session'[h].m \in Members
        /\ Kept(h) \/ Revoked(c, h)
  BY <1>1, <1>2, <1>3, <1>8, EndedKeeps
<1>11. RowsTyped'
  BY <1>2, <1>5, <1>7, <1>8, <1>10 DEF IInv, RowsTyped
<1>12. Writes(c)
  <2>1. TenantWrites(c)
    BY <1>2 DEF TenantWrites
  <2>2. SessionWrites(c)
    BY <1>9, <1>10 DEF SessionWrites
  <2>3. ClaimWrites
    BY <1>2 DEF ClaimWrites
  <2> QED BY <1>5, <2>1, <2>2, <2>3 DEF Writes
<1> QED BY <1>2, <1>11, <1>12, CommitsIInv

LEMMA LoggedOutIInv == ASSUME IInv, NEW c \in Clients, LoggedOut(c) PROVE IInv'
<1>1. /\ client[c].pc = "logout" /\ Compatible(KRow(c), "X", c) /\ Ends(c)
      /\ session' = [session EXCEPT ![client[c].k].st = "revoked"]
      /\ UNCHANGED <<user, member, tenant, claims, changes, oper>>
  BY DEF LoggedOut, At
<1>2. client[c].k \in Sessions
  BY <1>1 DEF IInv, RequestSound
<1>3. RowsTyped'
  BY <1>1, <1>2 DEF IInv, RowsTyped
<1>4. UserWrites(c) /\ MemberWrites(c)
  <2>1. \A u \in Users : user[u].stamp \in Nat
    BY DEF IInv, RowsTyped
  <2>2. \A m \in Members : member[m].stamp \in Nat
    BY DEF IInv, RowsTyped
  <2> QED BY <1>1, <2>1, <2>2 DEF UserWrites, MemberWrites
<1>5. TenantWrites(c) /\ ClaimWrites
  BY <1>1 DEF TenantWrites, ClaimWrites
<1>6. SessionWrites(c)
  <2> SUFFICES ASSUME NEW k \in Sessions PROVE Kept(k) \/ Revoked(c, k)
    BY DEF SessionWrites
  <2>1. CASE k = client[c].k
    BY <1>1, <1>2, <2>1 DEF IInv, RowsTyped, Revoked, KRow, Session
  <2>2. CASE k # client[c].k
    BY <1>1, <2>2 DEF IInv, RowsTyped, Kept
  <2> QED BY <2>1, <2>2
<1> QED BY <1>1, <1>3, <1>4, <1>5, <1>6, CommitsIInv DEF Writes

----------------------------------------------------------------------------
\* A step of a command.
LEMMA OperStep ==
    ASSUME IInv, NEW o \in Operators, UNCHANGED client, RowsTyped', Writes(o),
           OpersTyped', \A p \in Operators \ {o} : oper'[p] = oper[p],
           LocksTyped', LocksSound', \A b \in Actors \ {o} : held'[b] = held[b],
           OperSound(o)'
    PROVE  IInv'
<1>1. o \in Actors /\ o \notin Clients
  BY AccessAssumption DEF Actors
<1>2. Apart(o)
  BY DEF Apart
<1>3. ActorsTyped'
  BY DEF IInv, ActorsTyped, ClientsTyped
<1> QED BY <1>1, <1>2, <1>3, ActorStep

LEMMA OperQuiet ==
    ASSUME IInv, NEW o \in Operators, UNCHANGED <<data, client>>,
           OpersTyped', \A p \in Operators \ {o} : oper'[p] = oper[p],
           LocksTyped', LocksSound', \A b \in Actors \ {o} : held'[b] = held[b],
           OperSound(o)'
    PROVE  IInv'
<1>1. Writes(o) /\ RowsTyped'
  BY QuietWrites DEF Actors, data
<1> QED BY <1>1, OperStep

LEMMA StartOpIInv ==
    ASSUME IInv, NEW o \in Operators, NEW op \in Ops, NEW on \in Subject(op), StartOp(o, op, on)
    PROVE  IInv'
<1> DEFINE w == [op |-> op, on |-> on, rows |-> Plan(op, on), sweep |-> Concerned(op, on) # {},
                 todo |-> {}]
<1>1. oper' = [oper EXCEPT ![o] = w] /\ UNCHANGED <<data, client, held>>
  BY DEF StartOp
<1>2. /\ IsOper(w) /\ w.op = op /\ w.on = on /\ w.rows = Plan(op, on)
      /\ ~w.sweep => Concerned(op, on) = {}
  BY DEF IsOper, OperFields
<1> HIDE DEF w
<1>3. OpersTyped' /\ oper'[o] = w /\ \A p \in Operators \ {o} : oper'[p] = oper[p]
  BY <1>1, <1>2 DEF IInv, ActorsTyped, OpersTyped
<1>4. LocksTyped' /\ LocksSound'
  BY <1>1 DEF IInv, ActorsTyped, LocksTyped, LocksSound
<1>5. OperSound(o)'
  BY <1>2, <1>3 DEF OperSound, LiveOf
<1> QED BY <1>1, <1>3, <1>4, <1>5, OperQuiet

LEMMA LockRowIInv == ASSUME IInv, NEW o \in Operators, LockRow(o) PROVE IInv'
<1>1. PICK row \in Foremost(oper[o].rows) :
        Locks(o, row, "X") /\ oper' = [oper EXCEPT ![o].rows = @ \ {row}]
  BY DEF LockRow
<1>2. Running(o) /\ UNCHANGED <<data, client>> /\ row \in oper[o].rows
  BY <1>1 DEF LockRow, Foremost
<1>3. /\ OpersTyped' /\ \A p \in Operators \ {o} : oper'[p] = oper[p]
      /\ oper'[o].rows = oper[o].rows \ {row}
      /\ \A f \in OperFields \ {"rows"} : oper'[o][f] = oper[o][f]
  BY <1>1 DEF IInv, ActorsTyped, OpersTyped, IsOper, OperFields
<1>4. /\ LocksTyped' /\ LocksSound' /\ \A b \in Actors \ {o} : held'[b] = held[b]
      /\ held'[o] = held[o] \cup {<<row, "X">>}
  BY <1>1, TakesLock DEF IInv, ActorsTyped, Actors
<1>5. /\ oper'[o].op = oper[o].op /\ oper'[o].on = oper[o].on
      /\ oper'[o].sweep = oper[o].sweep /\ oper'[o].todo = oper[o].todo
  BY <1>3 DEF OperFields
<1>6. /\ oper[o].on \in Subject(oper[o].op)
      /\ \A r \in Plan(oper[o].op, oper[o].on) : r \in oper[o].rows \/ X(o, r)
      /\ oper[o].op \in Ops
  BY <1>2 DEF IInv, OperSound, Running
<1>7. \A r \in Plan(oper[o].op, oper[o].on) : r \in oper'[o].rows \/ X(o, r)'
  BY <1>3, <1>4, <1>6 DEF X
<1>8. ~oper[o].sweep => Concerned(oper[o].op, oper[o].on) = {}
  BY <1>1, <1>2 DEF IInv, OperSound, Foremost
<1> QED BY <1>2, <1>3, <1>4, <1>5, <1>6, <1>7, <1>8, OperQuiet DEF OperSound, LiveOf

LEMMA SweepIInv == ASSUME IInv, NEW o \in Operators, Sweep(o) PROVE IInv'
<1> DEFINE L == LiveOf(Concerned(oper[o].op, oper[o].on))
<1>1. /\ Running(o) /\ oper[o].rows = {} /\ UNCHANGED <<data, client, held>>
      /\ oper' = [oper EXCEPT ![o].sweep = FALSE, ![o].todo = L]
  BY DEF Sweep
<1>2. /\ OpersTyped' /\ \A p \in Operators \ {o} : oper'[p] = oper[p]
      /\ oper'[o].todo = L /\ oper'[o].op = oper[o].op /\ oper'[o].on = oper[o].on
      /\ oper'[o].rows = oper[o].rows
  BY <1>1 DEF IInv, ActorsTyped, OpersTyped, IsOper, OperFields
<1>3. LocksTyped' /\ LocksSound'
  BY <1>1 DEF IInv, ActorsTyped, LocksTyped, LocksSound
<1>4. LiveOf(Concerned(oper[o].op, oper[o].on))' = L
  BY <1>1, <1>2 DEF LiveOf, data
<1>5. OperSound(o)'
  <2>1. OperSound(o)
    BY DEF IInv
  <2>2. \A row : X(o, row)' <=> X(o, row)
    BY <1>1 DEF X
  <2>3. \A k \in LiveOf(Concerned(oper[o].op, oper[o].on))' : k \in oper'[o].todo
    BY <1>2, <1>4
  <2> QED BY <1>1, <1>2, <2>1, <2>2, <2>3 DEF OperSound, Running
<1> QED BY <1>1, <1>2, <1>3, <1>5, OperQuiet

LEMMA LockSessionIInv ==
    ASSUME IInv, NEW o \in Operators, NEW k \in Sessions, LockSession(o, k)
    PROVE  IInv'
<1>1. /\ Running(o) /\ Locks(o, Session(k), "X") /\ UNCHANGED <<data, client>>
      /\ oper' = [oper EXCEPT ![o].todo = @ \ {k}]
  BY DEF LockSession
<1>2. /\ OpersTyped' /\ \A p \in Operators \ {o} : oper'[p] = oper[p]
      /\ oper'[o].todo = oper[o].todo \ {k} /\ oper'[o].op = oper[o].op /\ oper'[o].on = oper[o].on
      /\ oper'[o].rows = oper[o].rows /\ oper'[o].sweep = oper[o].sweep
  BY <1>1 DEF IInv, ActorsTyped, OpersTyped, IsOper, OperFields
<1>3. /\ LocksTyped' /\ LocksSound' /\ \A b \in Actors \ {o} : held'[b] = held[b]
      /\ held'[o] = held[o] \cup {<<Session(k), "X">>}
  BY <1>1, TakesLock DEF IInv, ActorsTyped, Actors
<1>4. \A M : LiveOf(M)' = LiveOf(M)
  BY <1>1 DEF LiveOf, data
<1>5. /\ \A row : X(o, row) => X(o, row)'
      /\ X(o, Session(k))'
  BY <1>3 DEF X, Session
<1>6. OperSound(o)
  BY DEF IInv
<1>7. \A h : Session(h)' = Session(h)
  BY DEF Session
<1>8. OperSound(o)'
  BY <1>1, <1>2, <1>4, <1>5, <1>6, <1>7 DEF OperSound, Running
<1> QED BY <1>1, <1>2, <1>3, <1>8, OperQuiet

\* A command commits: whoever it withdraws rights from it holds the rows of, and
\* it has locked every session it must end.
LEMMA CommitOpIInv == ASSUME IInv, NEW o \in Operators, CommitOp(o) PROVE IInv'
<1> DEFINE op == oper[o].op
           on == oper[o].on
           M0 == Concerned(op, on)
<1>1. /\ Running(o) /\ oper[o].rows = {} /\ ~oper[o].sweep /\ oper[o].todo = {}
      /\ UNCHANGED <<claims, client>> /\ Releases(o)
      /\ oper' = [oper EXCEPT ![o] = [NoOp EXCEPT !.op = "done"]]
  BY DEF CommitOp
<1>2. user' = [u \in Users |->
         [old |-> user[u].old /\ ~(op = "setPassword" /\ u = on),
          active |-> IF op = "disableUser" /\ u = on THEN FALSE
                     ELSE (op = "enableUser" /\ u = on) \/ user[u].active,
          stamp |-> user[u].stamp + (IF op \in {"disableUser", "setPassword", "disableMember"}
                                        /\ M0 \cap Mine(u) # {} THEN 1 ELSE 0)]]
  BY DEF CommitOp
<1>3. member' = [m \in Members |->
         [active |-> IF op = "disableMember" /\ m = on THEN FALSE
                     ELSE (op = "enableMember" /\ m = on) \/ member[m].active,
          stamp |-> member[m].stamp + (IF op \in {"disableMember", "suspend"} /\ m \in M0
                                       THEN 1 ELSE 0)]]
  BY DEF CommitOp
<1>4. tenant' = [t \in Tenants |-> IF op = "suspend" /\ t = on THEN FALSE
                                   ELSE (op = "activate" /\ t = on) \/ tenant[t]]
  BY DEF CommitOp
<1>5. /\ session' = [k \in Sessions |-> IF <<Session(k), "X">> \in held[o]
                                        THEN [session[k] EXCEPT !.st = "revoked"] ELSE session[k]]
      /\ changes' = [m \in Members |-> changes[m] + (IF m \in M0 THEN 1 ELSE 0)]
  BY DEF CommitOp
<1>6. /\ op \in Ops /\ on \in Subject(op)
      /\ \A row \in Plan(op, on) : X(o, row)
      /\ \A k \in LiveOf(M0) : X(o, Session(k))
  BY <1>1 DEF IInv, OperSound, Running
<1>7. \A m \in M0 : m \in Members /\ X(o, <<"user", UserOf[m]>>)
  BY <1>6, ConcernedUsers
<1>8. RowsTyped /\ LocksSound /\ o \in Actors
  BY DEF IInv, Actors
<1>9. ASSUME NEW m \in M0
      PROVE  op \in {"disableUser", "setPassword", "disableMember", "suspend"}
  BY DEF Concerned
<1> HIDE DEF M0
<1>10. UserWrites(o)
  <2> SUFFICES ASSUME NEW u \in Users
               PROVE  /\ user[u].active /\ ~user'[u].active => X(o, <<"user", u>>)
                      /\ user[u].stamp <= user'[u].stamp
    BY DEF UserWrites
  <2>1. user[u].active /\ ~user'[u].active => op = "disableUser" /\ u = on
    BY <1>2
  <2>2. op = "disableUser" => <<"user", on>> \in Plan(op, on)
    BY DEF Plan, UserOps
  <2>3. user[u].stamp \in Nat /\ user[u].stamp <= user'[u].stamp
    BY <1>2, <1>8 DEF RowsTyped
  <2> QED BY <1>6, <2>1, <2>2, <2>3
<1>11. MemberWrites(o)
  <2> SUFFICES ASSUME NEW m \in Members
               PROVE  /\ member[m].active /\ ~member'[m].active => X(o, <<"user", UserOf[m]>>)
                      /\ member[m].stamp <= member'[m].stamp
                      /\ changes'[m] # changes[m] =>
                            /\ X(o, <<"user", UserOf[m]>>)
                            /\ \/ user[UserOf[m]].stamp < user'[UserOf[m]].stamp
                               \/ member[m].stamp < member'[m].stamp
    BY DEF MemberWrites
  <2>1. member[m].active /\ ~member'[m].active => op = "disableMember" /\ m = on
    BY <1>3
  <2>2. op = "disableMember" => <<"user", UserOf[on]>> \in Plan(op, on)
    BY DEF Plan, UserOps
  <2>3. member[m].stamp \in Nat /\ member[m].stamp <= member'[m].stamp /\ changes[m] \in Nat
    BY <1>3, <1>8 DEF RowsTyped
  <2>4. UserOf[m] \in Users /\ user[UserOf[m]].stamp \in Nat /\ m \in Mine(UserOf[m])
    BY <1>8 DEF RowsTyped, Users, Mine
  <2>5. ASSUME changes'[m] # changes[m] PROVE m \in M0
    BY <1>5, <2>3, <2>5
  <2>6. ASSUME m \in M0
        PROVE  \/ user[UserOf[m]].stamp < user'[UserOf[m]].stamp
               \/ member[m].stamp < member'[m].stamp
    <3>1. CASE op = "suspend"
      BY <1>3, <2>3, <2>6, <3>1
    <3>2. CASE op \in {"disableUser", "setPassword", "disableMember"}
      <4>1. M0 \cap Mine(UserOf[m]) # {}
        BY <2>4, <2>6
      <4>2. user'[UserOf[m]].stamp = user[UserOf[m]].stamp + 1
        BY <1>2, <2>4, <3>2, <4>1
      <4> QED BY <2>4, <4>2
    <3> QED BY <1>9, <2>6, <3>1, <3>2
  <2> QED BY <1>6, <1>7, <2>1, <2>2, <2>3, <2>5, <2>6
<1>12. TenantWrites(o)
  <2>1. op = "suspend" => <<"tenant", on>> \in Plan(op, on)
    BY DEF Plan, UserOps
  <2> QED BY <1>4, <1>6, <2>1 DEF TenantWrites
<1>13. SessionWrites(o)
  <2> SUFFICES ASSUME NEW k \in Sessions PROVE Kept(k) \/ Revoked(o, k)
    BY DEF SessionWrites
  <2>1. /\ session[k] \in [st : {"none", "live", "revoked"}, m : Members \cup {None}, born : Nat]
        /\ session[k].st = "live" => session[k].m \in Members
    BY <1>8 DEF RowsTyped
  <2>2. CASE X(o, Session(k))
    <3>1. Compatible(Session(k), "X", o)
      BY <1>8, <2>2 DEF Compatible, LocksSound, X
    <3>2. session'[k] = [session[k] EXCEPT !.st = "revoked"]
      BY <1>5, <2>2 DEF X
    <3> QED BY <2>1, <3>1, <3>2 DEF Revoked
  <2>3. CASE ~X(o, Session(k))
    <3>1. session'[k] = session[k]
      BY <1>5, <2>3 DEF X
    <3>2. ASSUME session[k].st = "live" PROVE changes'[session[k].m] = changes[session[k].m]
      <4>1. session[k].m \notin M0
        BY <1>6, <2>3, <3>2 DEF LiveOf
      <4>2. changes[session[k].m] \in Nat
        BY <1>8, <2>1, <3>2 DEF RowsTyped
      <4> QED BY <1>5, <2>1, <3>2, <4>1, <4>2
    <3> QED BY <3>1, <3>2 DEF Kept
  <2> QED BY <2>2, <2>3
<1>14. RowsTyped'
  <2>1. user' \in [Users -> [active : BOOLEAN, stamp : Nat, old : BOOLEAN]]
    <3>1. ASSUME NEW u \in Users
          PROVE  user'[u] \in [active : BOOLEAN, stamp : Nat, old : BOOLEAN]
      <4> DEFINE old == user[u].old /\ ~(op = "setPassword" /\ u = on)
                 active == IF op = "disableUser" /\ u = on THEN FALSE
                           ELSE (op = "enableUser" /\ u = on) \/ user[u].active
                 stamp == user[u].stamp + (IF op \in {"disableUser", "setPassword", "disableMember"}
                                              /\ M0 \cap Mine(u) # {} THEN 1 ELSE 0)
      <4>1. user'[u] = [old |-> old, active |-> active, stamp |-> stamp]
        BY <1>2
      <4>2. stamp \in Nat
        BY <1>8 DEF RowsTyped
      <4>3. old \in BOOLEAN
        BY Zenon
      <4>4. active \in BOOLEAN
        BY Zenon
      <4> HIDE DEF old, active, stamp
      <4> QED BY <4>1, <4>2, <4>3, <4>4
    <3> QED BY <1>2, <3>1
  <2>2. member' \in [Members -> [active : BOOLEAN, stamp : Nat]]
    <3>1. ASSUME NEW m \in Members PROVE member'[m] \in [active : BOOLEAN, stamp : Nat]
      <4> DEFINE active == IF op = "disableMember" /\ m = on THEN FALSE
                           ELSE (op = "enableMember" /\ m = on) \/ member[m].active
                 stamp == member[m].stamp + (IF op \in {"disableMember", "suspend"} /\ m \in M0
                                             THEN 1 ELSE 0)
      <4>1. member'[m] = [active |-> active, stamp |-> stamp]
        BY <1>3
      <4>2. stamp \in Nat
        BY <1>8 DEF RowsTyped
      <4>3. active \in BOOLEAN
        BY Zenon
      <4> HIDE DEF active, stamp
      <4> QED BY <4>1, <4>2, <4>3
    <3> QED BY <1>3, <3>1
  <2>3. tenant' \in [Tenants -> BOOLEAN]
    BY <1>4, <1>8 DEF RowsTyped
  <2>4. /\ session' \in [Sessions -> [st : {"none", "live", "revoked"}, m : Members \cup {None}, born : Nat]]
        /\ \A k \in Sessions : session'[k].st = "live" => session'[k].m \in Members
    BY <1>5, <1>8 DEF RowsTyped
  <2>5. changes' \in [Members -> Nat]
    BY <1>5, <1>8 DEF RowsTyped
  <2> QED BY <2>1, <2>2, <2>3, <2>4, <2>5 DEF RowsTyped
<1>15. Writes(o)
  BY <1>1, <1>10, <1>11, <1>12, <1>13 DEF Writes, ClaimWrites
<1>16. /\ OpersTyped' /\ \A p \in Operators \ {o} : oper'[p] = oper[p]
       /\ oper'[o].op = "done"
  BY <1>1 DEF IInv, ActorsTyped, OpersTyped, IsOper, OperFields, NoOp
<1>17. /\ LocksTyped' /\ LocksSound' /\ \A b \in Actors \ {o} : held'[b] = held[b]
  BY <1>1, <1>8, DropsLocks DEF IInv, ActorsTyped
<1>18. OperSound(o)'
  BY <1>16 DEF OperSound, Running, Ops, UserOps
<1> QED BY <1>1, <1>14, <1>15, <1>16, <1>17, <1>18, OperStep

LEMMA VictimIInv == ASSUME IInv, NEW a \in Actors, Victim(a) PROVE IInv'
<1>1. CASE a \in Clients
  BY <1>1, RefusedIInv DEF Victim
<1>2. CASE a \notin Clients
  <2>1. /\ a \in Operators /\ oper' = [oper EXCEPT ![a] = [NoOp EXCEPT !.op = "done"]]
        /\ Releases(a) /\ UNCHANGED <<data, client>>
    BY <1>2 DEF Victim, Actors
  <2>2. /\ OpersTyped' /\ \A p \in Operators \ {a} : oper'[p] = oper[p]
        /\ oper'[a].op = "done"
    BY <2>1 DEF IInv, ActorsTyped, OpersTyped, IsOper, OperFields, NoOp
  <2>3. /\ LocksTyped' /\ LocksSound' /\ \A b \in Actors \ {a} : held'[b] = held[b]
    BY <2>1, DropsLocks DEF IInv, ActorsTyped
  <2>4. OperSound(a)'
    BY <2>2 DEF OperSound, Running, Ops, UserOps
  <2> QED BY <2>1, <2>2, <2>3, <2>4, OperQuiet
<1> QED BY <1>1, <1>2

LEMMA StepIInv == ASSUME IInv, [Next]_vars PROVE IInv'
<1>1. CASE UNCHANGED vars
  <2>1. UNCHANGED <<user, member, tenant, session, claims, client, oper, held, changes>>
    BY <1>1 DEF vars
  <2>2. ActorsTyped' /\ RowsTyped' /\ LocksSound' /\ LiveSessionsCurrent'
    BY <2>1 DEF IInv, ActorsTyped, ClientsTyped, OpersTyped, LocksTyped, RowsTyped, LocksSound,
                LiveSessionsCurrent
  <2>3. \A claim \in claims' : ClaimSound(claim)'
    BY <2>1 DEF IInv, ClaimSound
  <2>4. \A c \in Clients : LoginSound(c)' /\ RequestSound(c)'
    BY <2>1 DEF IInv, LoginSound, RequestSound, X, S, URow, TRow, KRow, Session
  <2>5. \A o \in Operators : OperSound(o)'
    BY <2>1 DEF IInv, OperSound, Running, LiveOf, X, Session
  <2> QED BY <2>2, <2>3, <2>4, <2>5 DEF IInv
<1>2. ASSUME NEW c \in Clients,
             \/ \E u \in Users : StartLogin(c, u)
             \/ \E claim \in claims, m \in Members : StartSelect(c, claim, m)
             \/ \E k \in Sessions : StartRequest(c, k)
             \/ Login(c) \/ LoginRefused(c) \/ Rehash(c) \/ Choose(c) \/ ChooseRefused(c)
             \/ IssueClaim(c) \/ Select(c) \/ LockTenant(c) \/ Mint(c)
             \/ MintRefused(c) \/ ReadUser(c) \/ ReadUserRefused(c) \/ ReadTenant(c)
             \/ ReadTenantRefused(c) \/ ReadSession(c) \/ ReadSessionRefused(c) \/ Logout(c)
             \/ LoggedOut(c) \/ Release(c) \/ Resume(c) \/ Guard(c) \/ TenantGone(c)
             \/ CommitWork(c)
      PROVE  IInv'
  <2>1. CASE \/ LoginRefused(c) \/ ChooseRefused(c) \/ MintRefused(c) \/ ReadUserRefused(c)
             \/ ReadTenantRefused(c) \/ ReadSessionRefused(c) \/ TenantGone(c) \/ CommitWork(c)
    <3>1. Refused(c)
      BY <2>1 DEF LoginRefused, ChooseRefused, MintRefused, ReadUserRefused, ReadTenantRefused,
                  ReadSessionRefused, TenantGone, CommitWork, Refused
    <3> QED BY <3>1, RefusedIInv
  <2>2. CASE Login(c) \/ Rehash(c) \/ Choose(c) \/ Select(c) \/ LockTenant(c)
    BY <2>2, LoginIInv
  <2>3. CASE \/ ReadUser(c) \/ ReadTenant(c) \/ ReadSession(c) \/ Logout(c)
             \/ Release(c) \/ Resume(c) \/ Guard(c)
    BY <2>3, RequestIInv
  <2>4. CASE IssueClaim(c) \/ Mint(c) \/ LoggedOut(c)
    BY <2>4, IssueClaimIInv, MintIInv, LoggedOutIInv
  <2>5. CASE \/ \E u \in Users : StartLogin(c, u)
             \/ \E claim \in claims, m \in Members : StartSelect(c, claim, m)
             \/ \E k \in Sessions : StartRequest(c, k)
    BY <2>5, StartsIInv
  <2> QED BY <1>2, <2>1, <2>2, <2>3, <2>4, <2>5
<1>3. ASSUME NEW o \in Operators,
             \/ \E op \in Ops : \E on \in Subject(op) : StartOp(o, op, on)
             \/ LockRow(o) \/ Sweep(o) \/ CommitOp(o)
             \/ \E k \in Sessions : LockSession(o, k)
      PROVE  IInv'
  BY <1>3, StartOpIInv, LockRowIInv, SweepIInv, CommitOpIInv, LockSessionIInv
<1>4. ASSUME NEW a \in Actors, Victim(a) PROVE IInv'
  BY <1>4, VictimIInv
<1>5. CASE Finished
  BY <1>1, <1>5 DEF Finished
<1> QED BY <1>1, <1>2, <1>3, <1>4, <1>5 DEF Next

\* The locks, the rows and the state of every request and command fit together:
\* the invariant the two promises below follow from.
THEOREM AccessInvariant == Spec => []IInv
<1>1. Init => IInv
  BY InitIInv
<1>2. IInv /\ [Next]_vars => IInv'
  BY StepIInv
<1> QED BY <1>1, <1>2, PTL DEF Spec

\* A live browser session was opened by a password check after the last change
\* that withdraws it, and a request that resolve_ui_context lets in keeps its
\* session, user, membership and tenant in force until its transaction ends.
THEOREM AccessAuthorityIsCurrent == Spec => []AuthorityIsCurrent
<1>1. IInv => AuthorityIsCurrent
  <2>1. IInv => AcceptedIsCurrent
    BY DEF IInv, RequestSound, AcceptedIsCurrent, LiveSessionsCurrent
  <2> QED BY <2>1 DEF IInv, AuthorityIsCurrent
<1> QED BY <1>1, AccessInvariant, PTL

\* Work done around a model call commits only while its tenant is active
\* (_revalidate_tenant_commit).
THEOREM AccessCommitOnlyActive == Spec => []CommitOnlyActive
<1>1. IInv => CommitOnlyActive
  BY DEF IInv, RequestSound, CommitOnlyActive
<1> QED BY <1>1, AccessInvariant, PTL
----------------------------------------------------------------------------
\* Which rows an actor holds while it waits.  A command has locked rows that come
\* before those it still asks for, and a login and a request lock the user's row
\* before the tenant's, and that before the rest.
RowId(row) == IF row[1] = "tenant" THEN 0 ELSE IdOf[row[2]]
Before(row, other) ==
    \/ Rank(row) < Rank(other)
    \/ Rank(row) = Rank(other) /\ RowId(row) < RowId(other)

\* Sessions that were ever opened for one of these memberships.
Of(M) == {k \in Sessions : session[k].st # "none" /\ session[k].m \in M}
SessionsStay ==
    \A k \in Sessions : session[k].st # "none" => session'[k].st # "none" /\ session'[k].m = session[k].m

Deciding == {"rehash", "choose", "tenant", "member"}
ClientHolds(c) ==
    LET pc == client[c].pc IN
    /\ pc = "rehash" => client[c].todo \subseteq Of(Mine(client[c].user))
    /\ \A l \in held[c] :
         \/ l = <<URow(c), "X">> /\ pc \in Deciding
         \/ l \in {<<Session(k), "X">> : k \in Of(Mine(client[c].user))} /\ pc \in Deciding
         \/ l = <<URow(c), "S">> /\ pc \in {"readTenant", "readSession", "accepted", "logout"}
         \/ l = <<TRow(c), "S">> /\ pc \in {"member", "readSession", "accepted", "logout", "committing"}
         \/ l = <<KRow(c), "S">> /\ pc \in {"accepted", "logout"}

Planned(o) == Plan(oper[o].op, oper[o].on)
Ending(o) == Of(Concerned(oper[o].op, oper[o].on))
OperHolds(o) ==
    /\ ~Running(o) => held[o] = {} /\ oper[o].rows = {} /\ oper[o].todo = {}
    /\ Running(o) =>
         /\ oper[o].rows \subseteq Planned(o) /\ oper[o].todo \subseteq Ending(o)
         /\ oper[o].rows # {} => oper[o].todo = {}
         /\ \A l \in held[o] :
              \/ l[2] = "X" /\ l[1] \in Planned(o) \ oper[o].rows
              \/ l \in {<<Session(k), "X">> : k \in Ending(o)} /\ oper[o].rows = {}
         /\ \A row \in Planned(o) \ oper[o].rows, other \in oper[o].rows : Before(row, other)

Holds == (\A c \in Clients : ClientHolds(c)) /\ \A o \in Operators : OperHolds(o)

LEMMA ClientHoldsKept ==
    ASSUME SessionsStay, NEW c \in Clients, ClientHolds(c), client'[c] = client[c], held'[c] = held[c]
    PROVE  ClientHolds(c)'
<1>1. \A k \in Of(Mine(client[c].user)) : k \in Of(Mine(client[c].user))'
  BY DEF Of, SessionsStay
<1>2. URow(c)' = URow(c) /\ TRow(c)' = TRow(c) /\ KRow(c)' = KRow(c) /\ \A k : Session(k)' = Session(k)
  BY DEF URow, TRow, KRow, Session
<1> QED BY <1>1, <1>2 DEF ClientHolds

LEMMA OperHoldsKept ==
    ASSUME SessionsStay, NEW o \in Operators, OperHolds(o), oper'[o] = oper[o], held'[o] = held[o]
    PROVE  OperHolds(o)'
<1>1. \A k \in Ending(o) : k \in Ending(o)'
  BY DEF Of, Ending, SessionsStay
<1>2. Planned(o)' = Planned(o) /\ (Running(o)' <=> Running(o)) /\ \A k : Session(k)' = Session(k)
  BY DEF Planned, Running, Session
<1> QED BY <1>1, <1>2 DEF OperHolds

LEMMA ActorHolds ==
    ASSUME Holds, SessionsStay, NEW a \in Actors, Apart(a),
           a \in Clients => ClientHolds(a)', a \in Operators => OperHolds(a)'
    PROVE  Holds'
<1>1. \A c \in Clients \ {a} : ClientHolds(c)'
  BY ClientHoldsKept DEF Apart, Actors, Holds
<1>2. \A o \in Operators \ {a} : OperHolds(o)'
  BY OperHoldsKept DEF Apart, Actors, Holds
<1> QED BY <1>1, <1>2 DEF Holds

\* A step of a request.
LEMMA ClientStepHolds ==
    ASSUME Holds, SessionsStay, NEW c \in Clients, UNCHANGED oper,
           \A d \in Clients \ {c} : client'[d] = client[d],
           \A b \in Actors \ {c} : held'[b] = held[b],
           ClientHolds(c)'
    PROVE  Holds'
<1>1. c \in Actors /\ c \notin Operators /\ Apart(c)
  BY AccessAssumption DEF Actors, Apart
<1> QED BY <1>1, ActorHolds

LEMMA OperStepHolds ==
    ASSUME Holds, SessionsStay, NEW o \in Operators, UNCHANGED client,
           \A p \in Operators \ {o} : oper'[p] = oper[p],
           \A b \in Actors \ {o} : held'[b] = held[b],
           OperHolds(o)'
    PROVE  Holds'
<1>1. o \in Actors /\ o \notin Clients /\ Apart(o)
  BY AccessAssumption DEF Actors, Apart
<1> QED BY <1>1, ActorHolds

LEMMA QuietStay == ASSUME UNCHANGED data PROVE SessionsStay
BY DEF data, SessionsStay

\* A request that ends holds nothing.
LEMMA EndsHolds ==
    ASSUME IInv, Holds, NEW c \in Clients, Ends(c), UNCHANGED oper, SessionsStay
    PROVE  Holds'
<1>1. changes \in [Members -> Nat] /\ c \in Actors
  BY DEF IInv, RowsTyped, Actors
<1>2. Started("done").pc = "done"
  BY DEF Started
<1>3. client'[c].pc = "done" /\ \A d \in Clients \ {c} : client'[d] = client[d]
  BY <1>2 DEF Ends, IInv, ActorsTyped, ClientsTyped
<1>4. held'[c] = {} /\ \A b \in Actors \ {c} : held'[b] = held[b]
  BY <1>1, DropsLocks DEF Ends, IInv, ActorsTyped
<1>5. ClientHolds(c)'
  BY <1>3, <1>4 DEF ClientHolds
<1> QED BY <1>3, <1>4, <1>5, ClientStepHolds

LEMMA RefusedHolds == ASSUME IInv, Holds, NEW c \in Clients, Refused(c) PROVE Holds'
BY EndsHolds, QuietStay DEF Refused

\* Sessions that a commit ends keep their membership.
LEMMA EndedStay ==
    ASSUME IInv, NEW c \in Clients, NEW k \in Sessions, session[k].st # "none",
           NEW s, s = Ended(c, session)[k]
    PROVE  s.st # "none" /\ s.m = session[k].m
<1>1. session[k] \in [st : {"none", "live", "revoked"}, m : Members \cup {None}, born : Nat]
  BY DEF IInv, RowsTyped
<1> QED BY <1>1 DEF Ended

LEMMA CommitsHolds ==
    ASSUME IInv, Holds, NEW c \in Clients, IssueClaim(c) \/ Mint(c) \/ LoggedOut(c)
    PROVE  Holds'
<1>1. CASE IssueClaim(c)
  <2>1. Ends(c) /\ session' = Ended(c, session) /\ UNCHANGED oper
    BY <1>1 DEF IssueClaim
  <2>2. SessionsStay
    BY <2>1, EndedStay DEF SessionsStay
  <2> QED BY <2>1, <2>2, EndsHolds
<1>2. CASE Mint(c)
  <2>1. PICK k \in Sessions :
          session[k].st = "none" /\ \E w : session' = [Ended(c, session) EXCEPT ![k] = w]
    BY <1>2 DEF Mint
  <2>2. \A h \in Sessions \ {k} : session'[h] = Ended(c, session)[h]
    BY <2>1 DEF Ended
  <2>3. SessionsStay
    BY <2>1, <2>2, EndedStay DEF SessionsStay
  <2> QED BY <1>2, <2>3, EndsHolds DEF Mint
<1>3. CASE LoggedOut(c)
  <2>1. Ends(c) /\ session' = [session EXCEPT ![client[c].k].st = "revoked"] /\ UNCHANGED oper
    BY <1>3 DEF LoggedOut
  <2>2. SessionsStay
    BY <2>1 DEF SessionsStay, IInv, RowsTyped
  <2> QED BY <2>1, <2>2, EndsHolds
<1> QED BY <1>1, <1>2, <1>3

LEMMA InitHolds == Init => Holds
<1> SUFFICES ASSUME Init PROVE Holds
  OBVIOUS
<1>1. \A c \in Clients : client[c].pc = "idle" /\ held[c] = {}
  BY DEF Init, Started, Actors
<1>2. \A o \in Operators : oper[o] = NoOp /\ held[o] = {}
  BY DEF Init, Actors
<1>3. \A c \in Clients : ClientHolds(c)
  BY <1>1 DEF ClientHolds
<1>4. \A o \in Operators : OperHolds(o)
  BY <1>2 DEF OperHolds, NoOp, Running, Ops, UserOps
<1> QED BY <1>3, <1>4 DEF Holds

LEMMA StartsHolds ==
    ASSUME IInv, Holds, NEW c \in Clients,
           \/ \E u \in Users : StartLogin(c, u)
           \/ \E claim \in claims, m \in Members : StartSelect(c, claim, m)
           \/ \E k \in Sessions : StartRequest(c, k)
    PROVE  Holds'
<1>1. client[c].pc = "idle" /\ UNCHANGED <<data, oper, held>>
  BY DEF StartLogin, StartSelect, StartRequest, At
<1>2. PICK w : client' = [client EXCEPT ![c] = w] /\ w.pc \in {"login", "select", "readUser"}
  <2>1. ASSUME NEW u \in Users, StartLogin(c, u)
        PROVE  \E w : client' = [client EXCEPT ![c] = w] /\ w.pc \in {"login", "select", "readUser"}
    <3>1. PICK w : w = [Started("login") EXCEPT !.user = u]
      OBVIOUS
    <3>2. w.pc = "login"
      BY <3>1 DEF Started
    <3> QED BY <2>1, <3>1, <3>2 DEF StartLogin
  <2>2. ASSUME NEW claim \in claims, NEW m \in Members, StartSelect(c, claim, m)
        PROVE  \E w : client' = [client EXCEPT ![c] = w] /\ w.pc \in {"login", "select", "readUser"}
    <3>1. PICK w : w = [Started("select") EXCEPT !.user = claim.user, !.m = m, !.claim = {claim},
                                                 !.born = claim.born]
      OBVIOUS
    <3>2. w.pc = "select"
      BY <3>1 DEF Started
    <3> QED BY <2>2, <3>1, <3>2 DEF StartSelect
  <2>3. ASSUME NEW k \in Sessions, StartRequest(c, k)
        PROVE  \E w : client' = [client EXCEPT ![c] = w] /\ w.pc \in {"login", "select", "readUser"}
    <3>1. PICK w : w = [Started("readUser") EXCEPT !.k = k, !.m = session[k].m,
                                                   !.user = UserOf[session[k].m]]
      OBVIOUS
    <3>2. w.pc = "readUser"
      BY <3>1 DEF Started
    <3> QED BY <2>3, <3>1, <3>2 DEF StartRequest
  <2> QED BY <2>1, <2>2, <2>3
<1>3. client'[c] = w /\ \A d \in Clients \ {c} : client'[d] = client[d]
  BY <1>2 DEF IInv, ActorsTyped, ClientsTyped
<1>4. held[c] = {}
  BY <1>1 DEF Holds, ClientHolds, Deciding
<1>5. ClientHolds(c)'
  BY <1>1, <1>2, <1>3, <1>4 DEF ClientHolds
<1> QED BY <1>1, <1>3, <1>5, ClientStepHolds, QuietStay

\* A step that takes one lock and leaves the rows alone.
LEMMA LockHolds ==
    ASSUME IInv, Holds, NEW c \in Clients, UNCHANGED <<data, oper>>,
           NEW row, NEW mode \in {"S", "X"}, Locks(c, row, mode),
           \A d \in Clients \ {c} : client'[d] = client[d],
           held'[c] = held[c] \cup {<<row, mode>>} => ClientHolds(c)'
    PROVE  Holds'
<1>1. /\ \A b \in Actors \ {c} : held'[b] = held[b]
      /\ held'[c] = held[c] \cup {<<row, mode>>}
  BY TakesLock DEF IInv, ActorsTyped, Actors
<1> QED BY <1>1, ClientStepHolds, QuietStay

LEMMA LoginHolds ==
    ASSUME IInv, Holds, NEW c \in Clients,
           Login(c) \/ Rehash(c) \/ Choose(c) \/ Select(c) \/ LockTenant(c)
    PROVE  Holds'
<1>0. ClientHolds(c) /\ IsClient(client[c]) /\ UNCHANGED <<data, oper>>
  BY DEF Holds, IInv, ActorsTyped, ClientsTyped, Login, Rehash, Choose, Select, LockTenant
<1>1. \A M : Of(M)' = Of(M) /\ \A k : Session(k)' = Session(k)
  BY <1>0 DEF Of, data, Session
<1>2. CASE Login(c)
  <2>1. client[c].pc = "login" /\ Locks(c, URow(c), "X")
    BY <1>2 DEF Login, At
  <2>2. PICK old, todo :
          /\ old => todo = LiveOf(Mine(client[c].user))
          /\ client' = [client EXCEPT ![c].pc = IF old THEN "rehash" ELSE "choose",
                                      ![c].rehash = old, ![c].born = changes, ![c].todo = todo]
    BY <1>2 DEF Login
  <2>3. /\ \A d \in Clients \ {c} : client'[d] = client[d]
        /\ client'[c].pc = (IF old THEN "rehash" ELSE "choose") /\ client'[c].todo = todo
        /\ client'[c].user = client[c].user
    BY <1>0, <2>2 DEF IInv, ActorsTyped, ClientsTyped, IsClient, ClientFields
  <2>4. held[c] = {}
    BY <1>0, <2>1 DEF ClientHolds, Deciding
  <2>5. LiveOf(Mine(client[c].user)) \subseteq Of(Mine(client[c].user))
    BY DEF LiveOf, Of
  <2>6. ASSUME held'[c] = held[c] \cup {<<URow(c), "X">>} PROVE ClientHolds(c)'
    <3>1. URow(c)' = URow(c)
      BY <2>3 DEF URow
    <3>2. client'[c].pc \in Deciding
      BY <2>3 DEF Deciding
    <3>3. \A l \in held'[c] : l = <<URow(c), "X">>
      BY <2>4, <2>6
    <3>4. client'[c].pc = "rehash" => client'[c].todo \subseteq Of(Mine(client[c].user))'
      BY <1>1, <2>2, <2>3, <2>5
    <3> QED BY <3>1, <3>2, <3>3, <3>4 DEF ClientHolds
  <2> QED BY <1>0, <2>1, <2>3, <2>6, LockHolds
<1>3. CASE Rehash(c)
  <2>1. client[c].pc = "rehash"
    BY <1>3 DEF Rehash, At
  <2>2. CASE Goes(c, "choose") /\ UNCHANGED held
    <3>1. /\ \A d \in Clients \ {c} : client'[d] = client[d]
          /\ client'[c].pc = "choose" /\ client'[c].user = client[c].user
      BY <2>2, GoesTo DEF ClientFields
    <3>2. ClientHolds(c)'
      BY <1>0, <1>1, <2>1, <2>2, <3>1 DEF ClientHolds, URow, Deciding
    <3> QED BY <1>0, <2>2, <3>1, <3>2, ClientStepHolds, QuietStay
  <2>3. ASSUME NEW k \in client[c].todo, Locks(c, Session(k), "X"),
               client' = [client EXCEPT ![c].todo = @ \ {k}]
        PROVE  Holds'
    <3>1. /\ \A d \in Clients \ {c} : client'[d] = client[d]
          /\ client'[c].pc = "rehash" /\ client'[c].user = client[c].user
          /\ client'[c].todo = client[c].todo \ {k}
      BY <1>0, <2>1, <2>3 DEF IInv, ActorsTyped, ClientsTyped, IsClient, ClientFields
    <3>2. k \in Of(Mine(client[c].user))
      BY <1>0, <2>1 DEF ClientHolds
    <3>3. ASSUME held'[c] = held[c] \cup {<<Session(k), "X">>} PROVE ClientHolds(c)'
      BY <1>0, <1>1, <2>1, <3>1, <3>2, <3>3 DEF ClientHolds, URow, Deciding
    <3> QED BY <1>0, <2>3, <3>1, <3>3, LockHolds
  <2> QED BY <1>3, <2>2, <2>3 DEF Rehash
<1>4. CASE Choose(c)
  <2>1. client[c].pc = "choose" /\ UNCHANGED held
    BY <1>4 DEF Choose, At
  <2>2. PICK m \in Members : client' = [client EXCEPT ![c].pc = "tenant", ![c].m = m]
    BY <1>4 DEF Choose
  <2>3. /\ \A d \in Clients \ {c} : client'[d] = client[d]
        /\ client'[c].pc = "tenant" /\ client'[c].user = client[c].user
    BY <1>0, <2>2 DEF IInv, ActorsTyped, ClientsTyped, IsClient, ClientFields
  <2>4. ClientHolds(c)'
    BY <1>0, <1>1, <2>1, <2>3 DEF ClientHolds, URow, Deciding
  <2> QED BY <1>0, <2>1, <2>3, <2>4, ClientStepHolds, QuietStay
<1>5. CASE Select(c)
  <2>1. client[c].pc = "select" /\ Locks(c, URow(c), "X") /\ Goes(c, "tenant")
    BY <1>5 DEF Select, At
  <2>2. /\ \A d \in Clients \ {c} : client'[d] = client[d]
        /\ client'[c].pc = "tenant" /\ client'[c].user = client[c].user
    BY <2>1, GoesTo DEF ClientFields
  <2>3. ASSUME held'[c] = held[c] \cup {<<URow(c), "X">>} PROVE ClientHolds(c)'
    BY <1>0, <2>1, <2>2, <2>3 DEF ClientHolds, URow, Deciding
  <2> QED BY <1>0, <2>1, <2>2, <2>3, LockHolds
<1>6. CASE LockTenant(c)
  <2>1. client[c].pc = "tenant" /\ Locks(c, TRow(c), "S") /\ Goes(c, "member")
    BY <1>6 DEF LockTenant, At
  <2>2. /\ \A d \in Clients \ {c} : client'[d] = client[d]
        /\ client'[c].pc = "member" /\ client'[c].user = client[c].user /\ client'[c].m = client[c].m
    BY <2>1, GoesTo DEF ClientFields
  <2>3. ASSUME held'[c] = held[c] \cup {<<TRow(c), "S">>} PROVE ClientHolds(c)'
    BY <1>0, <1>1, <2>1, <2>2, <2>3 DEF ClientHolds, URow, TRow, Deciding
  <2> QED BY <1>0, <2>1, <2>2, <2>3, LockHolds
<1> QED BY <1>2, <1>3, <1>4, <1>5, <1>6

LEMMA RequestHolds ==
    ASSUME IInv, Holds, NEW c \in Clients,
           \/ ReadUser(c) \/ ReadTenant(c) \/ ReadSession(c) \/ Logout(c)
           \/ Release(c) \/ Resume(c) \/ Guard(c)
    PROVE  Holds'
<1>0. ClientHolds(c) /\ UNCHANGED <<data, oper>>
  BY DEF Holds, ReadUser, ReadTenant, ReadSession, Logout, Release, Resume, Guard
<1>1. ASSUME NEW pc, Goes(c, pc)
      PROVE  /\ \A d \in Clients \ {c} : client'[d] = client[d]
             /\ client'[c].pc = pc /\ URow(c)' = URow(c) /\ TRow(c)' = TRow(c) /\ KRow(c)' = KRow(c)
  BY <1>1, GoesTo DEF ClientFields, URow, TRow, KRow
<1>2. CASE ReadUser(c)
  <2>1. client[c].pc = "readUser" /\ Locks(c, URow(c), "S") /\ Goes(c, "readTenant")
    BY <1>2 DEF ReadUser, At
  <2>2. ASSUME held'[c] = held[c] \cup {<<URow(c), "S">>} PROVE ClientHolds(c)'
    BY <1>0, <1>1, <2>1, <2>2 DEF ClientHolds, Deciding
  <2> QED BY <1>0, <1>1, <2>1, <2>2, LockHolds
<1>3. CASE ReadTenant(c)
  <2>1. client[c].pc = "readTenant" /\ Locks(c, TRow(c), "S") /\ Goes(c, "readSession")
    BY <1>3 DEF ReadTenant, At
  <2>2. ASSUME held'[c] = held[c] \cup {<<TRow(c), "S">>} PROVE ClientHolds(c)'
    BY <1>0, <1>1, <2>1, <2>2 DEF ClientHolds, Deciding
  <2> QED BY <1>0, <1>1, <2>1, <2>2, LockHolds
<1>4. CASE ReadSession(c)
  <2>1. client[c].pc = "readSession" /\ Locks(c, KRow(c), "S") /\ Goes(c, "accepted")
    BY <1>4 DEF ReadSession, At
  <2>2. ASSUME held'[c] = held[c] \cup {<<KRow(c), "S">>} PROVE ClientHolds(c)'
    BY <1>0, <1>1, <2>1, <2>2 DEF ClientHolds, Deciding
  <2> QED BY <1>0, <1>1, <2>1, <2>2, LockHolds
<1>5. CASE Logout(c)
  <2>1. client[c].pc = "accepted" /\ Goes(c, "logout") /\ UNCHANGED held
    BY <1>5 DEF Logout, At
  <2>2. ClientHolds(c)'
    BY <1>0, <1>1, <2>1 DEF ClientHolds, Deciding
  <2> QED BY <1>0, <1>1, <2>1, <2>2, ClientStepHolds, QuietStay
<1>6. CASE Release(c)
  <2>1. Goes(c, "away") /\ Releases(c)
    BY <1>6 DEF Release
  <2>2. held'[c] = {} /\ \A b \in Actors \ {c} : held'[b] = held[b]
    BY <2>1, DropsLocks DEF IInv, ActorsTyped, Actors
  <2>3. ClientHolds(c)'
    BY <1>1, <2>1, <2>2 DEF ClientHolds
  <2> QED BY <1>0, <1>1, <2>1, <2>2, <2>3, ClientStepHolds, QuietStay
<1>7. CASE Resume(c)
  <2>1. client[c].pc = "away" /\ Goes(c, "guard") /\ UNCHANGED held
    BY <1>7 DEF Resume, At
  <2>2. ClientHolds(c)'
    BY <1>0, <1>1, <2>1 DEF ClientHolds, Deciding
  <2> QED BY <1>0, <1>1, <2>1, <2>2, ClientStepHolds, QuietStay
<1>8. CASE Guard(c)
  <2>1. client[c].pc = "guard" /\ Locks(c, TRow(c), "S") /\ Goes(c, "committing")
    BY <1>8 DEF Guard, GuardLocks, At
  <2>2. ASSUME held'[c] = held[c] \cup {<<TRow(c), "S">>} PROVE ClientHolds(c)'
    BY <1>0, <1>1, <2>1, <2>2 DEF ClientHolds, Deciding
  <2> QED BY <1>0, <1>1, <2>1, <2>2, LockHolds
<1> QED BY <1>2, <1>3, <1>4, <1>5, <1>6, <1>7, <1>8

\* The rows of users, tenants and memberships, as the commands order them.
Ordered ==
    {<<"user", u>> : u \in Users} \cup {<<"tenant", t>> : t \in Tenants}
        \cup {<<"member", m>> : m \in Members}

LEMMA OrderedRows ==
    ASSUME NEW row \in Ordered
    PROVE  /\ Rank(row) \in Nat /\ RowId(row) \in Nat
           /\ row[1] \in {"user", "tenant", "member"}
           /\ \A k : row # Session(k)
<1>1. CASE row \in {<<"user", u>> : u \in Users}
  BY <1>1, AccessAssumption DEF Rank, RowId, Session
<1>2. CASE row \in {<<"tenant", t>> : t \in Tenants}
  BY <1>2 DEF Rank, RowId, Session
<1>3. CASE row \in {<<"member", m>> : m \in Members}
  BY <1>3, AccessAssumption DEF Rank, RowId, Session
<1> QED BY <1>1, <1>2, <1>3 DEF Ordered

LEMMA PlanRows ==
    ASSUME NEW op \in Ops, NEW on \in Subject(op)
    PROVE  /\ Plan(op, on) \subseteq Ordered
           /\ \A row, other \in Plan(op, on) : row[1] = "tenant" /\ other[1] = "tenant" => row = other
<1>1. CASE op \in UserOps
  BY <1>1 DEF Plan, UserOps, Subject, Ordered
<1>2. CASE op = "disableMember"
  <2>1. Plan(op, on) = {<<"user", UserOf[on]>>, <<"member", on>>} /\ on \in Members
    BY <1>2 DEF Plan, UserOps, Subject
  <2>2. UserOf[on] \in Users
    BY <2>1 DEF Users
  <2> QED BY <2>1, <2>2 DEF Ordered
<1>3. CASE op = "enableMember"
  BY <1>3 DEF Plan, UserOps, Subject, Ordered
<1>4. CASE op \in {"suspend", "activate"}
  <2>1. /\ on \in Tenants
        /\ \A row \in Plan(op, on) :
             \/ row = <<"tenant", on>>
             \/ \E m \in Within(on) : row = <<"user", UserOf[m]>> \/ row = <<"member", m>>
    BY <1>4 DEF Plan, UserOps, Subject
  <2>2. \A m \in Within(on) : m \in Members /\ UserOf[m] \in Users
    BY DEF Within, Users
  <2>3. ASSUME NEW row \in Plan(op, on)
        PROVE  row \in Ordered /\ (row[1] = "tenant" => row = <<"tenant", on>>)
    BY <2>1, <2>2 DEF Ordered
  <2> QED BY <2>3
<1> QED BY <1>1, <1>2, <1>3, <1>4 DEF Ops

\* A command takes next a row that comes before the others it still asks for.
LEMMA ForemostBefore ==
    ASSUME NEW op \in Ops, NEW on \in Subject(op), NEW rows \in SUBSET Plan(op, on),
           NEW row \in Foremost(rows), NEW other \in rows \ {row}
    PROVE  Before(row, other)
<1>1. /\ row \in Plan(op, on) /\ other \in Plan(op, on)
      /\ \/ Rank(row) < Rank(other)
         \/ Rank(row) = Rank(other) /\ IdOf[row[2]] < IdOf[other[2]]
  BY DEF Foremost
<1>2. ASSUME Rank(row) = Rank(other) PROVE row[1] # "tenant" /\ other[1] # "tenant"
  <2>1. row[1] \in {"user", "tenant", "member"} /\ other[1] \in {"user", "tenant", "member"}
    BY <1>1, PlanRows, OrderedRows
  <2>2. row[1] = other[1]
    BY <1>2, <2>1 DEF Rank
  <2> QED BY <1>1, <2>2, PlanRows
<1> QED BY <1>1, <1>2 DEF Before, RowId

LEMMA OperatorHolds ==
    ASSUME IInv, Holds, NEW o \in Operators,
           \/ \E op \in Ops : \E on \in Subject(op) : StartOp(o, op, on)
           \/ LockRow(o) \/ Sweep(o) \/ CommitOp(o)
           \/ \E k \in Sessions : LockSession(o, k)
    PROVE  Holds'
<1>0. OperHolds(o) /\ IsOper(oper[o]) /\ o \in Actors
  BY DEF Holds, IInv, ActorsTyped, OpersTyped, Actors
<1>1. ASSUME NEW op \in Ops, NEW on \in Subject(op), StartOp(o, op, on) PROVE Holds'
  <2>1. oper[o] = NoOp /\ UNCHANGED <<data, client, held>>
    BY <1>1 DEF StartOp
  <2>2. PICK w : w = [op |-> op, on |-> on, rows |-> Plan(op, on),
                      sweep |-> Concerned(op, on) # {}, todo |-> {}]
    OBVIOUS
  <2>3. w.op = op /\ w.on = on /\ w.rows = Plan(op, on) /\ w.todo = {}
    BY <2>2
  <2>4. oper'[o] = w /\ \A p \in Operators \ {o} : oper'[p] = oper[p]
    BY <1>1, <2>2 DEF StartOp, IInv, ActorsTyped, OpersTyped
  <2>5. held'[o] = {}
    BY <1>0, <2>1 DEF OperHolds, Running, NoOp, Ops, UserOps
  <2>6. Running(o)' /\ Planned(o)' = oper'[o].rows
    BY <2>3, <2>4 DEF Running, Planned
  <2>7. OperHolds(o)'
    BY <2>3, <2>4, <2>5, <2>6 DEF OperHolds
  <2> QED BY <2>1, <2>4, <2>7, OperStepHolds, QuietStay
<1>2. CASE LockRow(o)
  <2>1. PICK row \in Foremost(oper[o].rows) :
          Locks(o, row, "X") /\ oper' = [oper EXCEPT ![o].rows = @ \ {row}]
    BY <1>2 DEF LockRow
  <2>2. Running(o) /\ UNCHANGED <<data, client>> /\ row \in oper[o].rows
    BY <1>2, <2>1 DEF LockRow, Foremost
  <2>3. /\ \A p \in Operators \ {o} : oper'[p] = oper[p]
        /\ oper'[o].rows = oper[o].rows \ {row} /\ oper'[o].todo = oper[o].todo
        /\ oper'[o].op = oper[o].op /\ oper'[o].on = oper[o].on
    BY <1>0, <2>1 DEF IInv, ActorsTyped, OpersTyped, IsOper, OperFields
  <2>4. /\ \A b \in Actors \ {o} : held'[b] = held[b]
        /\ held'[o] = held[o] \cup {<<row, "X">>}
    BY <1>0, <2>1, TakesLock DEF IInv, ActorsTyped
  <2>5. /\ oper[o].rows \subseteq Planned(o) /\ oper[o].todo = {}
        /\ \A l \in held[o] : l[2] = "X" /\ l[1] \in Planned(o) \ oper[o].rows
        /\ \A r \in Planned(o) \ oper[o].rows, other \in oper[o].rows : Before(r, other)
    BY <1>0, <2>2 DEF OperHolds
  <2>6. \A other \in oper[o].rows \ {row} : Before(row, other)
    <3>1. oper[o].op \in Ops /\ oper[o].on \in Subject(oper[o].op)
      BY <2>2 DEF Running, IInv, OperSound
    <3> QED BY <2>1, <2>5, <3>1, ForemostBefore DEF Planned
  <2>7. Planned(o)' = Planned(o) /\ Running(o)'
    BY <2>2, <2>3 DEF Planned, Running
  <2>8. \A r, other : Before(r, other)' <=> Before(r, other)
    BY DEF Before, RowId, Rank
  <2>9. OperHolds(o)'
    BY <2>2, <2>3, <2>4, <2>5, <2>6, <2>7, <2>8 DEF OperHolds
  <2> QED BY <2>2, <2>3, <2>4, <2>9, OperStepHolds, QuietStay
<1>3. CASE Sweep(o)
  <2>1. PICK todo : /\ todo = LiveOf(Concerned(oper[o].op, oper[o].on))
                    /\ oper' = [oper EXCEPT ![o].sweep = FALSE, ![o].todo = todo]
    BY <1>3 DEF Sweep
  <2>2. Running(o) /\ oper[o].rows = {} /\ UNCHANGED <<data, client, held>>
    BY <1>3 DEF Sweep
  <2>3. /\ \A p \in Operators \ {o} : oper'[p] = oper[p]
        /\ oper'[o].rows = {} /\ oper'[o].todo = todo
        /\ oper'[o].op = oper[o].op /\ oper'[o].on = oper[o].on
    BY <1>0, <2>1, <2>2 DEF IInv, ActorsTyped, OpersTyped, IsOper, OperFields
  <2>4. todo \subseteq Ending(o)
    BY <2>1 DEF LiveOf, Ending, Of
  <2>5. Planned(o)' = Planned(o) /\ Ending(o)' = Ending(o) /\ Running(o)' /\ \A k : Session(k)' = Session(k)
    BY <2>2, <2>3 DEF Planned, Ending, Of, Running, data, Session
  <2>6. OperHolds(o)'
    BY <1>0, <2>2, <2>3, <2>4, <2>5 DEF OperHolds
  <2> QED BY <2>2, <2>3, <2>6, OperStepHolds, QuietStay
<1>4. CASE CommitOp(o)
  <2>1. /\ Releases(o) /\ UNCHANGED client /\ oper' = [oper EXCEPT ![o] = [NoOp EXCEPT !.op = "done"]]
        /\ session' = [k \in Sessions |-> IF <<Session(k), "X">> \in held[o]
                                          THEN [session[k] EXCEPT !.st = "revoked"] ELSE session[k]]
    BY <1>4 DEF CommitOp
  <2>2. SessionsStay
    BY <2>1 DEF SessionsStay, IInv, RowsTyped
  <2>3. /\ \A p \in Operators \ {o} : oper'[p] = oper[p]
        /\ oper'[o].op = "done" /\ oper'[o].rows = {} /\ oper'[o].todo = {}
    BY <2>1 DEF IInv, ActorsTyped, OpersTyped, NoOp
  <2>4. held'[o] = {} /\ \A b \in Actors \ {o} : held'[b] = held[b]
    BY <1>0, <2>1, DropsLocks DEF IInv, ActorsTyped
  <2>5. OperHolds(o)'
    BY <2>3, <2>4 DEF OperHolds, Running, Ops, UserOps
  <2> QED BY <2>1, <2>2, <2>3, <2>4, <2>5, OperStepHolds
<1>5. ASSUME NEW k \in Sessions, LockSession(o, k) PROVE Holds'
  <2>1. /\ Running(o) /\ k \in oper[o].todo /\ Locks(o, Session(k), "X") /\ UNCHANGED <<data, client>>
        /\ oper' = [oper EXCEPT ![o].todo = @ \ {k}]
    BY <1>5 DEF LockSession
  <2>2. /\ \A p \in Operators \ {o} : oper'[p] = oper[p]
        /\ oper'[o].rows = oper[o].rows /\ oper'[o].todo = oper[o].todo \ {k}
        /\ oper'[o].op = oper[o].op /\ oper'[o].on = oper[o].on
    BY <1>0, <2>1 DEF IInv, ActorsTyped, OpersTyped, IsOper, OperFields
  <2>3. /\ \A b \in Actors \ {o} : held'[b] = held[b]
        /\ held'[o] = held[o] \cup {<<Session(k), "X">>}
    BY <1>0, <2>1, TakesLock DEF IInv, ActorsTyped
  <2>4. /\ oper[o].rows = {} /\ k \in Ending(o) /\ oper[o].todo \subseteq Ending(o)
        /\ \A l \in held[o] :
             \/ l[2] = "X" /\ l[1] \in Planned(o) \ oper[o].rows
             \/ l \in {<<Session(h), "X">> : h \in Ending(o)}
    BY <1>0, <2>1 DEF OperHolds
  <2>5. Planned(o)' = Planned(o) /\ Ending(o)' = Ending(o) /\ Running(o)' /\ \A h : Session(h)' = Session(h)
    BY <2>1, <2>2 DEF Planned, Ending, Of, Running, data, Session
  <2>6. OperHolds(o)'
    BY <2>2, <2>3, <2>4, <2>5 DEF OperHolds
  <2> QED BY <2>1, <2>2, <2>3, <2>6, OperStepHolds, QuietStay
<1> QED BY <1>1, <1>2, <1>3, <1>4, <1>5

LEMMA VictimHolds == ASSUME IInv, Holds, NEW a \in Actors, Victim(a) PROVE Holds'
<1>1. CASE a \in Clients
  BY <1>1, RefusedHolds DEF Victim
<1>2. CASE a \notin Clients
  <2>1. /\ a \in Operators /\ oper' = [oper EXCEPT ![a] = [NoOp EXCEPT !.op = "done"]]
        /\ Releases(a) /\ UNCHANGED <<data, client>>
    BY <1>2 DEF Victim, Actors
  <2>2. /\ \A p \in Operators \ {a} : oper'[p] = oper[p]
        /\ oper'[a].op = "done" /\ oper'[a].rows = {} /\ oper'[a].todo = {}
    BY <2>1 DEF IInv, ActorsTyped, OpersTyped, NoOp
  <2>3. held'[a] = {} /\ \A b \in Actors \ {a} : held'[b] = held[b]
    BY <2>1, DropsLocks DEF IInv, ActorsTyped
  <2>4. OperHolds(a)'
    BY <2>2, <2>3 DEF OperHolds, Running, Ops, UserOps
  <2> QED BY <2>1, <2>2, <2>3, <2>4, OperStepHolds, QuietStay
<1> QED BY <1>1, <1>2

LEMMA StepHolds == ASSUME IInv, Holds, [Next]_vars PROVE Holds'
<1>1. CASE UNCHANGED vars
  <2>1. SessionsStay /\ UNCHANGED <<client, oper, held>>
    BY <1>1 DEF vars, SessionsStay
  <2> QED BY <2>1, ClientHoldsKept, OperHoldsKept DEF Holds
<1>2. ASSUME NEW c \in Clients,
             \/ \E u \in Users : StartLogin(c, u)
             \/ \E claim \in claims, m \in Members : StartSelect(c, claim, m)
             \/ \E k \in Sessions : StartRequest(c, k)
             \/ Login(c) \/ LoginRefused(c) \/ Rehash(c) \/ Choose(c) \/ ChooseRefused(c)
             \/ IssueClaim(c) \/ Select(c) \/ LockTenant(c) \/ Mint(c)
             \/ MintRefused(c) \/ ReadUser(c) \/ ReadUserRefused(c) \/ ReadTenant(c)
             \/ ReadTenantRefused(c) \/ ReadSession(c) \/ ReadSessionRefused(c) \/ Logout(c)
             \/ LoggedOut(c) \/ Release(c) \/ Resume(c) \/ Guard(c) \/ TenantGone(c)
             \/ CommitWork(c)
      PROVE  Holds'
  <2>1. CASE \/ LoginRefused(c) \/ ChooseRefused(c) \/ MintRefused(c) \/ ReadUserRefused(c)
             \/ ReadTenantRefused(c) \/ ReadSessionRefused(c) \/ TenantGone(c) \/ CommitWork(c)
    <3>1. Refused(c)
      BY <2>1 DEF LoginRefused, ChooseRefused, MintRefused, ReadUserRefused, ReadTenantRefused,
                  ReadSessionRefused, TenantGone, CommitWork, Refused
    <3> QED BY <3>1, RefusedHolds
  <2>2. CASE Login(c) \/ Rehash(c) \/ Choose(c) \/ Select(c) \/ LockTenant(c)
    BY <2>2, LoginHolds
  <2>3. CASE \/ ReadUser(c) \/ ReadTenant(c) \/ ReadSession(c) \/ Logout(c)
             \/ Release(c) \/ Resume(c) \/ Guard(c)
    BY <2>3, RequestHolds
  <2>4. CASE IssueClaim(c) \/ Mint(c) \/ LoggedOut(c)
    BY <2>4, CommitsHolds
  <2>5. CASE \/ \E u \in Users : StartLogin(c, u)
             \/ \E claim \in claims, m \in Members : StartSelect(c, claim, m)
             \/ \E k \in Sessions : StartRequest(c, k)
    BY <2>5, StartsHolds
  <2> QED BY <1>2, <2>1, <2>2, <2>3, <2>4, <2>5
<1>3. ASSUME NEW o \in Operators,
             \/ \E op \in Ops : \E on \in Subject(op) : StartOp(o, op, on)
             \/ LockRow(o) \/ Sweep(o) \/ CommitOp(o)
             \/ \E k \in Sessions : LockSession(o, k)
      PROVE  Holds'
  BY <1>3, OperatorHolds
<1>4. ASSUME NEW a \in Actors, Victim(a) PROVE Holds'
  BY <1>4, VictimHolds
<1>5. CASE Finished
  BY <1>1, <1>5 DEF Finished
<1> QED BY <1>1, <1>2, <1>3, <1>4, <1>5 DEF Next

----------------------------------------------------------------------------
\* Who waits for whom.
Wants(a) == IF a \in Clients THEN Wanted(a) ELSE OperWanted(a)
BlockedOn(a, b, row) ==
    \E w \in Wants(a) : \E l \in held[b] :
        a # b /\ w[1] = row /\ l[1] = row /\ ~(w[2] = "S" /\ l[2] = "S")
LogsOut(a) == a \in Clients /\ client[a].pc = "logout"

LEMMA WaitsOverRow ==
    ASSUME NEW a, NEW b
    PROVE  Waits(a, b) <=> \E row : BlockedOn(a, b, row)
BY DEF Waits, BlockedOn, Wants

\* Whoever holds a session's row holds the row of the session's user too.
LEMMA SessionHolder ==
    ASSUME IInv, Holds, NEW b \in Actors, NEW k, NEW l \in held[b], l[1] = Session(k)
    PROVE  LET row == <<"user", UserOf[session[k].m]>> IN
           \/ X(b, row) /\ l[2] = "X"
           \/ /\ S(b, row) /\ l[2] = "S"
              /\ b \in Clients /\ client[b].pc \in {"accepted", "logout"}
<1>1. CASE b \in Clients
  <2>1. ClientHolds(b) /\ LoginSound(b) /\ RequestSound(b)
    BY <1>1 DEF Holds, IInv
  <2>2. l[1] # URow(b) /\ l[1] # TRow(b)
    BY DEF Session, URow, TRow
  <2>3. CASE l \in {<<Session(h), "X">> : h \in Of(Mine(client[b].user))} /\ client[b].pc \in Deciding
    <3>1. k \in Of(Mine(client[b].user)) /\ l[2] = "X"
      BY <2>3 DEF Session
    <3>2. UserOf[session[k].m] = client[b].user
      BY <3>1 DEF Of, Mine
    <3> QED BY <2>1, <2>3, <3>1, <3>2 DEF LoginSound, URow, Deciding
  <2>4. CASE l = <<KRow(b), "S">> /\ client[b].pc \in {"accepted", "logout"}
    <3>1. k = client[b].k
      BY <2>4 DEF Session, KRow
    <3> QED BY <1>1, <2>1, <2>4, <3>1 DEF RequestSound, URow
  <2> QED BY <2>1, <2>2, <2>3, <2>4 DEF ClientHolds
<1>2. CASE b \in Operators
  <2>1. OperHolds(b) /\ OperSound(b)
    BY <1>2 DEF Holds, IInv
  <2>2. Running(b)
    BY <2>1 DEF OperHolds
  <2>3. oper[b].op \in Ops /\ oper[b].on \in Subject(oper[b].op)
    BY <2>1, <2>2 DEF OperSound, Running
  <2>4. l[1] \notin Planned(b)
    BY <2>3, PlanRows, OrderedRows DEF Planned
  <2>5. l \in {<<Session(h), "X">> : h \in Ending(b)} /\ oper[b].rows = {}
    BY <2>1, <2>2, <2>4 DEF OperHolds
  <2>6. k \in Ending(b) /\ l[2] = "X"
    BY <2>5 DEF Session
  <2>7. session[k].m \in Concerned(oper[b].op, oper[b].on)
    BY <2>6 DEF Ending, Of
  <2>8. <<"user", UserOf[session[k].m]>> \in Planned(b)
    BY <2>3, <2>7, ConcernedUsers DEF Planned
  <2>9. X(b, <<"user", UserOf[session[k].m]>>)
    BY <2>1, <2>2, <2>5, <2>8 DEF OperSound, Planned
  <2> QED BY <2>6, <2>9
<1> QED BY <1>1, <1>2 DEF Actors

\* What an actor asks for is a row of the order, or a session whose user's row it
\* holds, unless it logs out.
LEMMA Wishes ==
    ASSUME IInv, Holds, NEW a \in Actors, ~LogsOut(a), NEW w \in Wants(a)
    PROVE  \/ w[1] \in Ordered
           \/ \E k : /\ w[1] = Session(k)
                     /\ LET row == <<"user", UserOf[session[k].m]>> IN
                        X(a, row) \/ (S(a, row) /\ w[2] = "S")
<1>1. CASE a \in Clients
  <2>1. ClientHolds(a) /\ LoginSound(a) /\ RequestSound(a) /\ w \in Wanted(a)
    BY <1>1 DEF Holds, IInv, Wants
  <2>2. \A m \in Members : UserOf[m] \in Users /\ TenantOf[m] \in Tenants
    BY DEF Users, Tenants
  <2>3. CASE client[a].pc \in {"login", "select"}
    <3>1. w[1] = URow(a) /\ client[a].user \in Users
      BY <2>1, <2>3 DEF Wanted, LoginSound
    <3> QED BY <3>1 DEF URow, Ordered
  <2>4. CASE client[a].pc = "rehash"
    <3>1. PICK k \in client[a].todo : w[1] = Session(k)
      BY <2>1, <2>4 DEF Wanted
    <3>2. UserOf[session[k].m] = client[a].user
      BY <2>1, <2>4, <3>1 DEF ClientHolds, Of, Mine
    <3> QED BY <2>1, <2>4, <3>1, <3>2 DEF LoginSound, URow
  <2>5. CASE client[a].pc \in {"tenant", "readTenant", "guard"}
    <3>1. w[1] = TRow(a) /\ client[a].m \in Members
      BY <2>1, <2>5 DEF Wanted, LoginSound, RequestSound
    <3> QED BY <2>2, <3>1 DEF TRow, Ordered
  <2>6. CASE client[a].pc = "member"
    <3>1. w[1] = MRow(a) /\ client[a].m \in Members
      BY <2>1, <2>6 DEF Wanted, LoginSound
    <3> QED BY <3>1 DEF MRow, Ordered
  <2>7. CASE client[a].pc = "readUser"
    <3>1. w[1] = URow(a) /\ client[a].user \in Users
      BY <2>1, <2>2, <2>7 DEF Wanted, RequestSound
    <3> QED BY <3>1 DEF URow, Ordered
  <2>8. CASE client[a].pc = "readSession"
    <3>1. w[1] = Session(client[a].k) /\ w[2] = "S"
      BY <2>1, <2>8 DEF Wanted, KRow, Session
    <3>2. S(a, <<"user", UserOf[session[client[a].k].m]>>)
      BY <2>1, <2>8 DEF RequestSound, URow
    <3> QED BY <3>1, <3>2
  <2>9. client[a].pc \notin {"login", "select", "rehash", "tenant", "readTenant", "guard", "member",
                             "readUser", "readSession", "logout"} => Wanted(a) = {}
    BY DEF Wanted
  <2> QED BY <1>1, <2>1, <2>3, <2>4, <2>5, <2>6, <2>7, <2>8, <2>9 DEF LogsOut
<1>2. CASE a \in Operators
  <2>1. OperHolds(a) /\ OperSound(a) /\ w \in OperWanted(a)
    BY <1>2, AccessAssumption DEF Holds, IInv, Wants
  <2>2. PICK row : row = w[1] /\ (row \in oper[a].rows \/ \E k \in oper[a].todo : row = Session(k))
    BY <2>1 DEF OperWanted, Foremost
  <2>3. Running(a)
    BY <2>1, <2>2 DEF OperHolds
  <2>4. oper[a].op \in Ops /\ oper[a].on \in Subject(oper[a].op)
    BY <2>1, <2>3 DEF OperSound, Running
  <2>5. CASE row \in oper[a].rows
    BY <2>1, <2>2, <2>3, <2>4, <2>5, PlanRows DEF OperHolds, Planned
  <2>6. ASSUME NEW k \in oper[a].todo, row = Session(k)
        PROVE  X(a, <<"user", UserOf[session[k].m]>>)
    <3>1. oper[a].rows = {} /\ k \in Ending(a)
      BY <2>1, <2>3 DEF OperHolds
    <3>2. session[k].m \in Concerned(oper[a].op, oper[a].on)
      BY <3>1 DEF Ending, Of
    <3>3. <<"user", UserOf[session[k].m]>> \in Plan(oper[a].op, oper[a].on)
      BY <2>4, <3>2, ConcernedUsers
    <3> QED BY <2>1, <2>3, <3>1, <3>3 DEF OperSound
  <2> QED BY <2>2, <2>5, <2>6
<1> QED BY <1>1, <1>2 DEF Actors

\* Only a logout waits for a session: whoever else asks for one holds its user's
\* row against all who hold it.
LEMMA OthersWaitInOrder ==
    ASSUME IInv, Holds, NEW a \in Actors, NEW b \in Actors, ~LogsOut(a),
           NEW row, BlockedOn(a, b, row)
    PROVE  row \in Ordered
<1>1. PICK w \in Wants(a), l \in held[b] :
        a # b /\ w[1] = row /\ l[1] = row /\ ~(w[2] = "S" /\ l[2] = "S")
  BY DEF BlockedOn
<1>2. ASSUME NEW k, row = Session(k),
             LET r == <<"user", UserOf[session[k].m]>> IN X(a, r) \/ (S(a, r) /\ w[2] = "S")
      PROVE  FALSE
  <2> DEFINE r == <<"user", UserOf[session[k].m]>>
  <2>1. X(a, r) \/ (S(a, r) /\ w[2] = "S")
    BY <1>2
  <2>2. (X(b, r) /\ l[2] = "X") \/ (S(b, r) /\ l[2] = "S")
    BY <1>1, <1>2, SessionHolder
  <2> HIDE DEF r
  <2>3. LocksSound
    BY DEF IInv
  <2>4. X(a, r) => ~X(b, r) /\ ~S(b, r)
    BY <1>1, <2>3, Conflict
  <2>5. X(b, r) => ~X(a, r) /\ ~S(a, r)
    BY <1>1, <2>3, Conflict
  <2> QED BY <1>1, <2>1, <2>2, <2>4, <2>5
<1> QED BY <1>1, <1>2, Wishes

\* A logout waits only for a request that reads the same session.
LEMMA LogoutWaits ==
    ASSUME IInv, Holds, NEW a \in Actors, NEW b \in Actors, LogsOut(a),
           NEW row, BlockedOn(a, b, row)
    PROVE  b \in Clients /\ client[b].pc \in {"accepted", "logout"}
<1>1. PICK w \in Wants(a), l \in held[b] : a # b /\ w[1] = row /\ l[1] = row
  BY DEF BlockedOn
<1>2. row = Session(client[a].k)
  BY <1>1 DEF LogsOut, Wants, Wanted, KRow, Session
<1>3. S(a, row)
  BY <1>2 DEF LogsOut, IInv, RequestSound, KRow, Session
<1>4. l[2] = "S"
  BY <1>1, <1>3 DEF IInv, LocksSound, S
<1> QED BY <1>1, <1>2, <1>4, SessionHolder

LEMMA AcceptedWaitsForNone ==
    ASSUME NEW b \in Clients, client[b].pc = "accepted", NEW d PROVE ~Waits(b, d)
BY DEF Waits, Wanted

\* An actor holds only rows that come before the one it waits for.
LEMMA HeldComeBefore ==
    ASSUME IInv, Holds, NEW a \in Actors, NEW b \in Actors, NEW d \in Actors,
           ~LogsOut(a), ~LogsOut(b), NEW r, NEW s, BlockedOn(a, b, r), BlockedOn(b, d, s)
    PROVE  Before(r, s)
<1>1. r \in Ordered /\ s \in Ordered
  BY OthersWaitInOrder
<1>2. r[1] \in {"user", "tenant", "member"} /\ \A k : r # Session(k) /\ s # Session(k)
  BY <1>1, OrderedRows
<1>3. PICK l \in held[b] : l[1] = r
  BY DEF BlockedOn
<1>4. PICK w \in Wants(b) : w[1] = s
  BY DEF BlockedOn
<1>5. CASE b \in Clients
  <2>1. ClientHolds(b) /\ w \in Wanted(b)
    BY <1>4, <1>5 DEF Holds, Wants
  <2>2. \/ r = URow(b) /\ client[b].pc \in Deciding \cup {"readTenant", "readSession", "accepted", "logout"}
        \/ r = TRow(b) /\ client[b].pc \in {"member", "readSession", "accepted", "logout", "committing"}
    <3>1. \A k : l # <<Session(k), "X">> /\ r # KRow(b)
      BY <1>2, <1>3 DEF KRow, Session
    <3> QED BY <1>3, <2>1, <3>1 DEF ClientHolds
  <2>3. client[b].pc \in {"tenant", "readTenant", "member"}
    <3>1. client[b].pc = "rehash" => \E k : s = Session(k)
      BY <1>4, <2>1 DEF Wanted
    <3>2. client[b].pc = "readSession" => s = Session(client[b].k)
      BY <1>4, <2>1 DEF Wanted, KRow, Session
    <3>3. client[b].pc \notin {"choose", "accepted", "committing"}
      BY <2>1 DEF Wanted
    <3> QED BY <1>2, <1>5, <2>2, <3>1, <3>2, <3>3 DEF LogsOut, Deciding
  <2>4. CASE client[b].pc \in {"tenant", "readTenant"}
    <3>1. r = URow(b) /\ s = TRow(b)
      BY <1>4, <2>1, <2>2, <2>4 DEF Wanted, Deciding
    <3>2. Rank(r) = 1 /\ Rank(s) = 2
      BY <3>1 DEF URow, TRow, Rank
    <3> QED BY <3>2 DEF Before
  <2>5. CASE client[b].pc = "member"
    <3>1. r \in {URow(b), TRow(b)} /\ s = MRow(b)
      BY <1>4, <2>1, <2>2, <2>5 DEF Wanted
    <3>2. Rank(r) \in {1, 2} /\ Rank(s) = 3
      BY <3>1 DEF URow, TRow, MRow, Rank
    <3> QED BY <3>2 DEF Before
  <2> QED BY <2>3, <2>4, <2>5
<1>6. CASE b \in Operators
  <2>1. OperHolds(b) /\ w \in OperWanted(b)
    BY <1>4, <1>6, AccessAssumption DEF Holds, Wants
  <2>2. s \in oper[b].rows
    BY <1>2, <1>4, <2>1 DEF OperWanted, Foremost
  <2>3. Running(b)
    BY <2>1, <2>2 DEF OperHolds
  <2>4. r \in Planned(b) \ oper[b].rows
    BY <1>3, <2>1, <2>2, <2>3 DEF OperHolds
  <2> QED BY <2>1, <2>2, <2>3, <2>4 DEF OperHolds
<1> QED BY <1>5, <1>6 DEF Actors

LEMMA LeastNumber ==
    ASSUME NEW T \in SUBSET Nat, T # {}
    PROVE  \E n \in T : \A m \in T : n <= m
<1>1. PICK top \in T : TRUE
  OBVIOUS
<1> DEFINE U == 0..top
           Below(n) == {i \in U : i < n}
           V == {Below(n) : n \in T}
<1>2. V # {}
  OBVIOUS
<1>3. IsFiniteSet(U)
  <2>1. 0 \in Int /\ top \in Int
    OBVIOUS
  <2> QED BY <2>1, FS_Interval
<1>4. V \subseteq SUBSET U
  OBVIOUS
<1>5. IsWellFoundedOn(StrictSubsetOrdering(U), SUBSET U)
  BY <1>3, FS_FiniteSubsetsOfFinite, FS_StrictSubsetOrderingWellFounded
<1>6. PICK W \in V : \A Z \in V : <<Z, W>> \notin StrictSubsetOrdering(U)
  <2> HIDE DEF V, U
  <2> QED BY <1>2, <1>4, <1>5, WFMin
<1>7. PICK n \in T : W = Below(n)
  OBVIOUS
<1>8. CASE n <= top
  <2> SUFFICES ASSUME NEW m \in T, m < n PROVE FALSE
    BY <1>8
  <2>1. m \in Nat /\ n \in Nat /\ top \in Nat
    OBVIOUS
  <2>2. Below(m) \subseteq Below(n) /\ m \in Below(n) /\ m \notin Below(m)
    BY <1>8, <2>1
  <2>3. <<Below(m), W>> \in StrictSubsetOrdering(U)
    <3> HIDE DEF U
    <3> QED BY <1>7, <2>2 DEF StrictSubsetOrdering
  <2> QED BY <1>6, <2>3
<1>9. CASE ~(n <= top)
  <2>1. n \in Nat /\ top \in Nat
    OBVIOUS
  <2>2. Below(top) \subseteq Below(n) /\ top \in Below(n) /\ top \notin Below(top)
    BY <1>9, <2>1
  <2>3. <<Below(top), W>> \in StrictSubsetOrdering(U)
    <3> HIDE DEF U
    <3> QED BY <1>7, <2>2 DEF StrictSubsetOrdering
  <2> QED BY <1>6, <2>3
<1> QED BY <1>8, <1>9

LEMMA FirstRow ==
    ASSUME NEW T \in SUBSET Ordered, T # {}
    PROVE  \E r \in T : \A s \in T : ~Before(s, r)
<1>1. \A r \in T : Rank(r) \in Nat /\ RowId(r) \in Nat
  BY OrderedRows
<1>2. PICK p \in Nat : (\E r \in T : Rank(r) = p) /\ \A r \in T : p <= Rank(r)
  <2>1. {Rank(r) : r \in T} \in SUBSET Nat /\ {Rank(r) : r \in T} # {}
    BY <1>1
  <2>2. PICK n \in {Rank(r) : r \in T} : \A m \in {Rank(r) : r \in T} : n <= m
    BY <2>1, LeastNumber
  <2> QED BY <1>1, <2>2
<1>3. PICK i \in Nat : /\ \E r \in T : Rank(r) = p /\ RowId(r) = i
                       /\ \A r \in T : Rank(r) = p => i <= RowId(r)
  <2> DEFINE I == {RowId(r) : r \in {s \in T : Rank(s) = p}}
  <2>1. I \in SUBSET Nat /\ I # {}
    BY <1>1, <1>2
  <2>2. PICK n \in I : \A m \in I : n <= m
    <3> HIDE DEF I
    <3> QED BY <2>1, LeastNumber
  <2> QED BY <1>1, <2>2
<1>4. PICK r \in T : Rank(r) = p /\ RowId(r) = i
  BY <1>3
<1>5. ASSUME NEW s \in T, Before(s, r) PROVE FALSE
  <2>1. /\ p \in Nat /\ i \in Nat /\ Rank(s) \in Nat /\ RowId(s) \in Nat
        /\ p <= Rank(s) /\ (Rank(s) = p => i <= RowId(s))
    BY <1>1, <1>2, <1>3
  <2>2. Rank(s) < p \/ (Rank(s) = p /\ RowId(s) < i)
    BY <1>4, <1>5 DEF Before
  <2> QED BY <2>1, <2>2
<1> QED BY <1>5

\* A cycle without a logout would have a row that comes first among those its
\* members wait for; the rest of the cycle never waits for the one who waits there.
LEMMA OnlyLogoutsCycle == ASSUME IInv, Holds PROVE OnlyLogoutsDeadlock
<1> SUFFICES ASSUME NEW A \in SUBSET Waiting, Cycle(A)
             PROVE  \A a \in A : LogsOut(a)
  BY DEF OnlyLogoutsDeadlock, LogsOut
<1>1. /\ A # {} /\ \A a \in A : \E b \in A : Waits(a, b)
      /\ \A B \in SUBSET A : WaitingOnly(B) => B = A
      /\ A \subseteq Actors
  BY DEF Cycle, WaitingOnly, Waiting
<1>2. CASE \E a \in A : LogsOut(a)
  <2> DEFINE L == {a \in A : LogsOut(a)}
  <2>1. ASSUME NEW a \in L PROVE \E b \in L : Waits(a, b)
    <3>1. PICK b \in A : Waits(a, b)
      BY <1>1
    <3>2. PICK row : BlockedOn(a, b, row)
      BY <3>1, WaitsOverRow
    <3>3. b \in Clients /\ client[b].pc \in {"accepted", "logout"}
      BY <1>1, <3>2, LogoutWaits
    <3>4. LogsOut(b)
      BY <1>1, <3>3, AcceptedWaitsForNone DEF LogsOut
    <3> QED BY <3>1, <3>4
  <2>2. WaitingOnly(L) /\ L \in SUBSET A
    <3>1. L # {}
      BY <1>2
    <3> QED BY <2>1, <3>1 DEF WaitingOnly
  <2>3. L = A
    <3> HIDE DEF L
    <3> QED BY <1>1, <2>2
  <2> QED BY <2>3
<1>3. CASE \A a \in A : ~LogsOut(a)
  <2> DEFINE T == {row \in Ordered : \E a, b \in A : BlockedOn(a, b, row)}
  <2>1. \A a, b \in A : \A row : BlockedOn(a, b, row) => row \in T
    BY <1>1, <1>3, OthersWaitInOrder
  <2>2. T # {}
    <3>1. PICK a \in A, b \in A : Waits(a, b)
      BY <1>1
    <3>2. PICK row : BlockedOn(a, b, row)
      BY <3>1, WaitsOverRow
    <3> QED BY <2>1, <3>2
  <2>3. PICK r \in T : \A s \in T : ~Before(s, r)
    <3>1. T \in SUBSET Ordered
      OBVIOUS
    <3> HIDE DEF T
    <3> QED BY <2>2, <3>1, FirstRow
  <2>4. PICK first \in A, other \in A : BlockedOn(first, other, r)
    OBVIOUS
  <2> DEFINE B == A \ {first}
  <2>5. other \in B
    BY <2>4 DEF BlockedOn
  <2>6. ASSUME NEW a \in B PROVE \E b \in B : Waits(a, b)
    <3>1. PICK b \in A : Waits(a, b)
      BY <1>1
    <3>2. PICK s : BlockedOn(a, b, s)
      BY <3>1, WaitsOverRow
    <3>3. s \in T
      BY <2>1, <3>2
    <3>4. b = first => Before(s, r)
      BY <1>1, <1>3, <2>4, <3>2, HeldComeBefore
    <3> QED BY <2>3, <3>1, <3>3, <3>4
  <2>7. WaitingOnly(B) /\ B \in SUBSET A /\ B # A
    BY <2>5, <2>6 DEF WaitingOnly
  <2> QED BY <1>1, <2>7
<1> QED BY <1>2, <1>3

\* The commands of the operator and the requests wait for each other in one
\* order of rows (user_repo, tenant_membership_repo, tenant_authority and
\* resolve_ui_context lock users, tenants and memberships in it), so the only
\* circular wait is that of logouts of one session.
THEOREM AccessOnlyLogoutsDeadlock == Spec => []OnlyLogoutsDeadlock
<1>1. Init => IInv /\ Holds
  BY InitIInv, InitHolds
<1>2. (IInv /\ Holds) /\ [Next]_vars => (IInv /\ Holds)'
  BY StepIInv, StepHolds
<1>3. IInv /\ Holds => OnlyLogoutsDeadlock
  BY OnlyLogoutsCycle
<1> QED BY <1>1, <1>2, <1>3, PTL DEF Spec
===============================================================================
