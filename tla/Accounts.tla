------------------------------ MODULE Accounts ------------------------------
(***************************************************************************)
(* Accounts: POST /api/user/register and /api/user/login, the table users, *)
(* and the tokens, up to the order that a token's bearer loads.            *)
(*                                                                         *)
(* A token is a signed claim of a user_id and a name.  It is checked       *)
(* against the key only, never against the table, so it may outlive the    *)
(* row it was issued for: a start drops every table, and the sequence of   *)
(* user_id begins anew.                                                    *)
(***************************************************************************)
EXTENDS Integers

CONSTANTS
    Logins,     \* names
    Passwords,
    Long,       \* passwords whose hash does not fit the column
    Blank,      \* the empty name and the empty password
    Handlers,   \* requests served at the same time
    OrderIds,   \* order numbers
    NoRow,      \* an absent row, and a request or an answer that is not there
    MaxId,      \* bound: the values taken from the sequence of user_id
    MaxStarts,  \* bound: starts of the process
    MaxFaults   \* bound: failing statements

\* HashPass: the password, followed by what the key of the hashes gives.
HashPass(p) == <<p, "signature">>

\* The rows, the tokens, and the requests and answers on their way.
Account == [id : Nat, password : {HashPass(p) : p \in Passwords}]
Token   == [sub : Nat, name : Logins, key : Nat, secret : Passwords]
Ops     == {"register", "login"}
Entry   == [op : Ops, login : Logins, password : Passwords, id : Nat]
Reply   == [op : Ops, login : Logins \union {Blank},
            password : Passwords \union {Blank}, code : {200, 400, 401, 409, 500}]
Loads   == [user : Nat, loader : Logins]

ASSUME AccountsAssumption ==
    /\ NoRow \notin Account \union Entry \union Reply \union Loads
    /\ Long \subseteq Passwords
    /\ MaxId \in Nat /\ MaxStarts \in Nat \ {0} /\ MaxFaults \in Nat

VARIABLES
    users,      \* table users: name -> [id, password]
    lastId,     \* the sequence behind user_id
    configured, \* KEY is configured
    start,      \* which start of the process this is
    tokens,     \* the tokens that were issued
    at,         \* at[h]: the account request h is about to answer with a token
    reply,      \* the last answer to a register or login
    orders,     \* table orders: order_id -> [user, loader]
    faults      \* how many statements have failed

vars == <<users, lastId, configured, start, tokens, at, reply, orders, faults>>

NoUsers  == [l \in Logins |-> NoRow]
NoOrders == [o \in OrderIds |-> NoRow]

\* GetConfig: the key of the tokens is configured or made up at every start.
ConstantKey == 0
\* Mutant: a key that is not configured is empty.
KeyEmpty(n) == ConstantKey
Key(n) == IF configured THEN ConstantKey ELSE n

Init ==
    /\ users  = NoUsers
    /\ lastId = 0
    /\ configured \in BOOLEAN
    /\ start  = 1
    /\ tokens = {}
    /\ at     = [h \in Handlers |-> NoRow]
    /\ reply  = NoRow
    /\ orders = NoOrders
    /\ faults = 0

Answer(op, l, p, code) ==
    reply' = [op |-> op, login |-> l, password |-> p, code |-> code]

Idle(h) == at[h] = NoRow
Fault   == faults < MaxFaults /\ faults' = faults + 1

-----------------------------------------------------------------------------
(***************************************************************************)
(* Register and login.  Both end with a token for the row they have in     *)
(* hand, Enter.                                                            *)
(***************************************************************************)

\* An empty name or password.
Rejected(h, op, l, p) ==
    /\ Idle(h)
    /\ Blank \in {l, p}
    /\ Answer(op, l, p, 400)
    /\ UNCHANGED <<users, lastId, configured, start, tokens, at, orders, faults>>

Enter(h, op, l, p, id) ==
    at' = [at EXCEPT ![h] = [op |-> op, login |-> l, password |-> p, id |-> id]]

\* Mutant: ON CONFLICT (name) DO UPDATE SET password.
AddUserOver(h, l, p) ==
    /\ Idle(h)
    /\ Blank \notin {l, p} /\ p \notin Long
    /\ lastId < MaxId
    /\ lastId' = lastId + 1
    /\ users'  = [users EXCEPT ![l] =
          [id       |-> IF users[l] = NoRow THEN lastId' ELSE users[l].id,
           password |-> HashPass(p)]]
    /\ Enter(h, "register", l, p, users'[l].id)
    /\ UNCHANGED <<configured, start, tokens, reply, orders, faults>>

AddUser(h, l, p) ==
    /\ Idle(h)
    /\ Blank \notin {l, p} /\ p \notin Long
    /\ lastId < MaxId
    /\ users[l] = NoRow
    /\ lastId' = lastId + 1
    /\ users'  = [users EXCEPT ![l] = [id       |-> lastId',
                                       password |-> HashPass(p)]]
    /\ Enter(h, "register", l, p, lastId')
    /\ UNCHANGED <<configured, start, tokens, reply, orders, faults>>

\* The primary key name: 23505, 409.  The INSERT has taken a value of the
\* sequence all the same.
AddUserExists(h, l, p) ==
    /\ Idle(h)
    /\ Blank \notin {l, p} /\ p \notin Long
    /\ lastId < MaxId
    /\ users[l] # NoRow
    /\ lastId' = lastId + 1
    /\ Answer("register", l, p, 409)
    /\ UNCHANGED <<users, configured, start, tokens, at, orders, faults>>

\* The INSERT returns another error: the hash is too long for its column, the
\* statement was not executed, or it was and its answer was lost.
AddUserFails(h, l, p) ==
    /\ Idle(h)
    /\ Blank \notin {l, p}
    /\ \/ p \in Long /\ UNCHANGED <<users, lastId, faults>>
       \/ Fault /\ UNCHANGED <<users, lastId>>
       \/ /\ Fault
          /\ p \notin Long /\ lastId < MaxId /\ users[l] = NoRow
          /\ lastId' = lastId + 1
          /\ users'  = [users EXCEPT ![l] = [id       |-> lastId',
                                             password |-> HashPass(p)]]
    /\ Answer("register", l, p, 500)
    /\ UNCHANGED <<configured, start, tokens, at, orders>>

\* Mutant: the row is enough, the password is not compared.
LoginUserUnchecked(h, l, p) ==
    /\ Idle(h)
    /\ Blank \notin {l, p}
    /\ users[l] # NoRow
    /\ Enter(h, "login", l, p, users[l].id)
    /\ UNCHANGED <<users, lastId, configured, start, tokens, reply, orders, faults>>

LoginUser(h, l, p) ==
    /\ Idle(h)
    /\ Blank \notin {l, p}
    /\ users[l] # NoRow /\ users[l].password = HashPass(p)
    /\ Enter(h, "login", l, p, users[l].id)
    /\ UNCHANGED <<users, lastId, configured, start, tokens, reply, orders, faults>>

\* Another password: 401.  No row, as any failing SELECT: 500, because GetUser
\* returns pgx.ErrNoRows and LoginUser looks for another error.
LoginFails(h, l, p) ==
    /\ Idle(h)
    /\ Blank \notin {l, p}
    /\ \/ /\ users[l] # NoRow /\ users[l].password # HashPass(p)
          /\ Answer("login", l, p, 401)
          /\ UNCHANGED faults
       \/ /\ \/ users[l] = NoRow /\ UNCHANGED faults
             \/ Fault
          /\ Answer("login", l, p, 500)
    /\ UNCHANGED <<users, lastId, configured, start, tokens, at, orders>>

\* Mutant: sub is the user_id the sequence gave last.
CreateTokenOfLast(h) ==
    /\ ~Idle(h)
    /\ tokens' = tokens \union {[sub    |-> lastId,
                                 name   |-> at[h].login,
                                 key    |-> Key(start),
                                 secret |-> at[h].password]}
    /\ Answer(at[h].op, at[h].login, at[h].password, 200)
    /\ at' = [at EXCEPT ![h] = NoRow]
    /\ UNCHANGED <<users, lastId, configured, start, orders, faults>>

\* Mutant: createToken(name, userid), both are strings.
CreateTokenSwapped(h) ==
    /\ ~Idle(h)
    /\ tokens' = tokens \union {[sub    |-> at[h].login,
                                 name   |-> at[h].id,
                                 key    |-> Key(start),
                                 secret |-> at[h].password]}
    /\ Answer(at[h].op, at[h].login, at[h].password, 200)
    /\ at' = [at EXCEPT ![h] = NoRow]
    /\ UNCHANGED <<users, lastId, configured, start, orders, faults>>

\* createToken, the cookie and 200.  `secret` is no claim of the token: it is
\* the password of who has got it.
CreateToken(h) ==
    /\ ~Idle(h)
    /\ tokens' = tokens \union {[sub    |-> at[h].id,
                                 name   |-> at[h].login,
                                 key    |-> Key(start),
                                 secret |-> at[h].password]}
    /\ Answer(at[h].op, at[h].login, at[h].password, 200)
    /\ at' = [at EXCEPT ![h] = NoRow]
    /\ UNCHANGED <<users, lastId, configured, start, orders, faults>>

-----------------------------------------------------------------------------
(***************************************************************************)
(* What a token is used for, until the process ends.  It expires after an  *)
(* hour; here it never does, so that more tokens are accepted, not fewer.  *)
(***************************************************************************)

\* The Verifier accepts the signature; testToken takes sub from the claims.
Verified(t) == t \in tokens /\ t.key = Key(start)

\* RegisterOrder for the user_id of the token.  `loader` is no column: it is
\* the name the token was issued to.  The other answers leave the tables as
\* they are.
RegisterOrder(t, o) ==
    /\ Verified(t)
    /\ orders[o] = NoRow
    /\ orders' = [orders EXCEPT ![o] = [user |-> t.sub, loader |-> t.name]]
    /\ UNCHANGED <<users, lastId, configured, start, tokens, at, reply, faults>>

\* The process dies and is started again: DownTo 0 and Up.
Restart ==
    /\ start < MaxStarts
    /\ start'  = start + 1
    /\ users'  = NoUsers
    /\ lastId' = 0
    /\ orders' = NoOrders
    /\ at'     = [h \in Handlers |-> NoRow]
    /\ reply'  = NoRow
    /\ UNCHANGED <<configured, tokens, faults>>

Next ==
    \/ \E h \in Handlers :
          \/ \E op \in Ops, l \in Logins \union {Blank},
                p \in Passwords \union {Blank} : Rejected(h, op, l, p)
          \/ \E l \in Logins, p \in Passwords :
                \/ AddUser(h, l, p)
                \/ AddUserExists(h, l, p)
                \/ AddUserFails(h, l, p)
                \/ LoginUser(h, l, p)
                \/ LoginFails(h, l, p)
          \/ CreateToken(h)
    \/ \E t \in tokens, o \in OrderIds : RegisterOrder(t, o)
    \/ Restart

Spec == Init /\ [][Next]_vars

-----------------------------------------------------------------------------
(***************************************************************************)
(* Properties.                                                             *)
(***************************************************************************)

\* The types of the accounts.
AccountsTypeOK ==
    /\ users  \in [Logins -> Account \union {NoRow}]
    /\ lastId \in Nat /\ start \in Nat \ {0} /\ faults \in Nat
    /\ configured \in BOOLEAN
    /\ tokens \subseteq Token
    /\ at     \in [Handlers -> Entry \union {NoRow}]
    /\ reply  \in Reply \union {NoRow}
    /\ orders \in [OrderIds -> Loads \union {NoRow}]

\* The process has been started once, or its key has not survived.
Fresh == start = 1 \/ ~configured

\* A token that is accepted names the user it was issued to: the row is there
\* and no other row has its user_id.  Nothing looks the user up again.
TokenNamesItsUser ==
    Fresh => \A t \in tokens : Verified(t) =>
        \A l \in Logins : l = t.name <=> users[l] # NoRow /\ users[l].id = t.sub

\* SPECIFICATION.md: every login is unique.  Of all who register a name at
\* the same time, or again after an answer was lost, one password enters.
OnePasswordEnters ==
    Fresh => \A t \in tokens : Verified(t) =>
        users[t.name] # NoRow /\ users[t.name].password = HashPass(t.secret)

\* The orders stored for a user_id were loaded by the login that has it now.
OrdersBelongToLogin ==
    Fresh => \A o \in OrderIds, l \in Logins :
        orders[o] # NoRow /\ users[l] # NoRow =>
            (orders[o].user = users[l].id <=> orders[o].loader = l)

\* The codes agree with the table whatever the other requests do: 200 for the
\* password of the row, 409 for a name that is taken, 400 for what is empty
\* and for nothing else.
CodesAreTrue ==
    reply # NoRow =>
        LET row == users[reply.login]
        IN  /\ reply.code \in {200, 409} => row # NoRow
            /\ reply.code = 200 => row.password = HashPass(reply.password)
            /\ reply.code = 400 <=> Blank \in {reply.login, reply.password}

\* A request is being answered.
Answering == reply' # reply /\ reply' # NoRow

\* Whoever has been let in with a name and a password is not refused when
\* logging in with them later, whatever is registered in between.
KnownNeverRefused ==
    [][Answering /\ reply'.code = 401 /\ Fresh =>
          \A t \in tokens : Verified(t) /\ t.name = reply'.login =>
                               t.secret # reply'.password]_vars
=============================================================================
