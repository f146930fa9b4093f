--------------------------- MODULE AccountsProofs ---------------------------
(***************************************************************************)
(* Whose a token is, for any number of logins, requests, orders and starts *)
(* of the process.                                                         *)
(***************************************************************************)
EXTENDS Accounts, TLAPS

Row(l) == users[l] # NoRow

\* The sequence gives every row a value of its own.
IdsDiffer ==
    /\ \A l \in Logins : Row(l) => users[l].id \in 1..lastId
    /\ \A k, l \in Logins : Row(k) /\ Row(l) /\ users[k].id = users[l].id => k = l

\* A request that is about to give a token has the row in hand.
AtHoldsRow ==
    \A h \in Handlers : at[h] # NoRow =>
        /\ Blank \notin {at[h].login, at[h].password}
        /\ Row(at[h].login)
        /\ users[at[h].login] = [id       |-> at[h].id,
                                 password |-> HashPass(at[h].password)]

\* Keys of this start and of earlier ones, unless KEY is configured.
KeysOfStarts ==
    \A t \in tokens :
        IF configured THEN t.key = ConstantKey ELSE t.key \in 1..start

\* While tokens are of this process only: what is accepted has its row.
TokensHaveRows ==
    Fresh => \A t \in tokens : Verified(t) =>
        /\ Row(t.name)
        /\ users[t.name] = [id |-> t.sub, password |-> HashPass(t.secret)]

OrdersHaveRows ==
    Fresh => \A o \in OrderIds : orders[o] # NoRow =>
        Row(orders[o].loader) /\ users[orders[o].loader].id = orders[o].user

AccountsInv == /\ AccountsTypeOK
               /\ IdsDiffer
               /\ AtHoldsRow
               /\ KeysOfStarts
               /\ TokensHaveRows
               /\ OrdersHaveRows
               /\ CodesAreTrue

LEMMA AccountsInit == Init => AccountsInv
  BY AccountsAssumption
     DEF Init, AccountsInv, AccountsTypeOK, IdsDiffer, AtHoldsRow, KeysOfStarts,
         TokensHaveRows, OrdersHaveRows, CodesAreTrue, Row, NoUsers, NoOrders

\* Every action keeps the types.
LEMMA TypeStep ==
    ASSUME AccountsTypeOK, [Next]_vars
    PROVE  AccountsTypeOK'
<1> USE AccountsAssumption
    DEF AccountsTypeOK, Account, Token, Entry, Ops, Reply, Loads, Answer, Enter,
        Fault
<1>1. ASSUME NEW h \in Handlers, NEW op \in Ops,
             NEW l \in Logins \union {Blank}, NEW p \in Passwords \union {Blank},
             Rejected(h, op, l, p)
      PROVE  AccountsTypeOK'
  BY <1>1 DEF Rejected
<1>2. ASSUME NEW h \in Handlers, NEW l \in Logins, NEW p \in Passwords,
             AddUser(h, l, p)
      PROVE  AccountsTypeOK'
  BY <1>2 DEF AddUser
<1>3. ASSUME NEW h \in Handlers, NEW l \in Logins, NEW p \in Passwords,
             AddUserExists(h, l, p)
      PROVE  AccountsTypeOK'
  BY <1>3 DEF AddUserExists
<1>4. ASSUME NEW h \in Handlers, NEW l \in Logins, NEW p \in Passwords,
             AddUserFails(h, l, p)
      PROVE  AccountsTypeOK'
  BY <1>4 DEF AddUserFails
<1>5. ASSUME NEW h \in Handlers, NEW l \in Logins, NEW p \in Passwords,
             LoginUser(h, l, p)
      PROVE  AccountsTypeOK'
  BY <1>5 DEF LoginUser
<1>6. ASSUME NEW h \in Handlers, NEW l \in Logins, NEW p \in Passwords,
             LoginFails(h, l, p)
      PROVE  AccountsTypeOK'
  BY <1>6 DEF LoginFails
<1>7. ASSUME NEW h \in Handlers, CreateToken(h)
      PROVE  AccountsTypeOK'
  BY <1>7 DEF CreateToken, Idle, Key, ConstantKey
<1>8. ASSUME NEW t \in tokens, NEW o \in OrderIds, RegisterOrder(t, o)
      PROVE  AccountsTypeOK'
  BY <1>8 DEF RegisterOrder
<1>9. CASE Restart
  <2>1. start' \in Nat \ {0} /\ lastId' \in Nat
    BY <1>9 DEF Restart
  <2>2. /\ users'  \in [Logins -> Account \union {NoRow}]
        /\ orders' \in [OrderIds -> Loads \union {NoRow}]
        /\ at'     \in [Handlers -> Entry \union {NoRow}]
    BY <1>9 DEF Restart, NoUsers, NoOrders
  <2> QED
    BY <1>9, <2>1, <2>2 DEF Restart
<1>10. CASE UNCHANGED vars
  BY <1>10 DEF vars
<1> HIDE DEF AccountsTypeOK, Account, Token, Entry, Reply, Loads, Answer, Enter,
             Fault
<1> QED
  BY <1>1, <1>2, <1>3, <1>4, <1>5, <1>6, <1>7, <1>8, <1>9, <1>10 DEF Next

\* A new row is told apart from the others by its user_id.
LEMMA AddUserKeeps ==
    ASSUME AccountsInv, AccountsTypeOK', NEW l \in Logins, NEW p \in Passwords,
           users[l] = NoRow, lastId' = lastId + 1,
           users' = [users EXCEPT ![l] = [id       |-> lastId',
                                          password |-> HashPass(p)]],
           UNCHANGED <<configured, start, tokens, orders>>
    PROVE  /\ IdsDiffer' /\ KeysOfStarts' /\ TokensHaveRows' /\ OrdersHaveRows'
           /\ \A k \in Logins : Row(k) => users'[k] = users[k] /\ Row(k)'
           /\ users'[l] = [id |-> lastId', password |-> HashPass(p)]
           /\ Row(l)'
<1> USE AccountsAssumption DEF AccountsInv, AccountsTypeOK
<1>1. /\ users'[l] = [id |-> lastId', password |-> HashPass(p)]
      /\ \A k \in Logins \ {l} : users'[k] = users[k]
  OBVIOUS
<1>2. Row(l)'
  <2>1. users'[l] \in Account
    BY <1>1 DEF Account
  <2> QED
    BY <2>1 DEF Row
<1>3. \A k \in Logins : Row(k) => users'[k] = users[k] /\ Row(k)'
  BY <1>1 DEF Row
<1>4. IdsDiffer'
  <2>1. users'[l].id = lastId + 1
    BY <1>1
  <2>2. \A k \in Logins \ {l} : Row(k)' => users'[k].id \in 1..lastId
    BY <1>1 DEF Row, IdsDiffer
  <2> QED
    BY <1>1, <2>1, <2>2 DEF IdsDiffer, Row
<1>5. KeysOfStarts'
  BY DEF KeysOfStarts
<1>6. TokensHaveRows'
  BY <1>3 DEF TokensHaveRows, Fresh, Verified, Key, Token
<1>7. OrdersHaveRows'
  BY <1>3 DEF OrdersHaveRows, Fresh, Loads
<1> QED
  BY <1>1, <1>2, <1>3, <1>4, <1>5, <1>6, <1>7

\* What depends on the tables holds after a step that leaves them alone.
LEMMA TablesKept ==
    ASSUME AccountsInv, AccountsTypeOK', lastId' \in Nat, lastId' >= lastId,
           UNCHANGED <<users, configured, start, tokens, orders>>
    PROVE  IdsDiffer' /\ KeysOfStarts' /\ TokensHaveRows' /\ OrdersHaveRows'
<1> USE DEF AccountsInv, AccountsTypeOK, Row
<1>1. IdsDiffer'
  BY DEF IdsDiffer
<1>2. KeysOfStarts'
  BY DEF KeysOfStarts
<1>3. TokensHaveRows' /\ OrdersHaveRows'
  BY DEF TokensHaveRows, OrdersHaveRows, Fresh, Verified, Key
<1> QED
  BY <1>1, <1>2, <1>3

LEMMA AccountsStep == ASSUME AccountsInv, [Next]_vars PROVE AccountsInv'
<1> USE AccountsAssumption DEF AccountsInv
<1>1. AccountsTypeOK'
  BY TypeStep
<1>2. ASSUME NEW h \in Handlers, NEW op \in Ops,
             NEW l \in Logins \union {Blank}, NEW p \in Passwords \union {Blank},
             Rejected(h, op, l, p)
      PROVE  AccountsInv'
  <2>1. AtHoldsRow'
    BY <1>2 DEF Rejected, AtHoldsRow, Row
  <2>2. CodesAreTrue'
    BY <1>2 DEF Rejected, CodesAreTrue, Answer
  <2> QED
    BY <1>1, <1>2, <2>1, <2>2, TablesKept DEF Rejected, AccountsTypeOK
<1>3. ASSUME NEW h \in Handlers, NEW l \in Logins, NEW p \in Passwords,
             AddUser(h, l, p)
      PROVE  AccountsInv'
  <2>1. /\ IdsDiffer' /\ KeysOfStarts' /\ TokensHaveRows' /\ OrdersHaveRows'
        /\ \A k \in Logins : Row(k) => users'[k] = users[k] /\ Row(k)'
        /\ users'[l] = [id |-> lastId', password |-> HashPass(p)]
        /\ Row(l)'
    BY <1>1, <1>3, AddUserKeeps DEF AddUser
  <2>2. AtHoldsRow'
    BY <1>3, <2>1 DEF AddUser, AtHoldsRow, Enter, AccountsTypeOK, Entry
  <2>3. CodesAreTrue'
    BY <1>3, <2>1 DEF AddUser, CodesAreTrue, AccountsTypeOK, Reply, Row
  <2> QED
    BY <1>1, <2>1, <2>2, <2>3
<1>4. ASSUME NEW h \in Handlers, NEW l \in Logins, NEW p \in Passwords,
             AddUserExists(h, l, p)
      PROVE  AccountsInv'
  <2>1. AtHoldsRow'
    BY <1>4 DEF AddUserExists, AtHoldsRow, Row
  <2>2. CodesAreTrue'
    BY <1>4 DEF AddUserExists, CodesAreTrue, Answer
  <2> QED
    BY <1>1, <1>4, <2>1, <2>2, TablesKept DEF AddUserExists, AccountsTypeOK
<1>5. ASSUME NEW h \in Handlers, NEW l \in Logins, NEW p \in Passwords,
             AddUserFails(h, l, p)
      PROVE  AccountsInv'
  <2>1. CodesAreTrue'
    BY <1>5 DEF AddUserFails, CodesAreTrue, Answer
  <2>2. CASE UNCHANGED <<users, lastId>>
    <3>1. AtHoldsRow'
      BY <1>5, <2>2 DEF AddUserFails, AtHoldsRow, Row
    <3> QED
      BY <1>1, <1>5, <2>1, <2>2, <3>1, TablesKept
         DEF AddUserFails, AccountsTypeOK
  <2>3. CASE /\ users[l] = NoRow /\ lastId' = lastId + 1
             /\ users' = [users EXCEPT ![l] = [id       |-> lastId',
                                               password |-> HashPass(p)]]
    <3>1. /\ IdsDiffer' /\ KeysOfStarts' /\ TokensHaveRows' /\ OrdersHaveRows'
          /\ \A k \in Logins : Row(k) => users'[k] = users[k] /\ Row(k)'
      BY <1>1, <1>5, <2>3, AddUserKeeps DEF AddUserFails
    <3>2. AtHoldsRow'
      BY <1>5, <3>1 DEF AddUserFails, AtHoldsRow, AccountsTypeOK, Entry
    <3> QED
      BY <1>1, <2>1, <3>1, <3>2
  <2> QED
    BY <1>5, <2>2, <2>3 DEF AddUserFails
<1>6. ASSUME NEW h \in Handlers, NEW l \in Logins, NEW p \in Passwords,
             LoginUser(h, l, p)
      PROVE  AccountsInv'
  <2>1. users[l] \in Account
    BY <1>6 DEF LoginUser, AccountsTypeOK
  <2>2. AtHoldsRow'
    BY <1>6, <2>1 DEF LoginUser, AtHoldsRow, Enter, Row, AccountsTypeOK, Account
  <2>3. CodesAreTrue'
    BY <1>6 DEF LoginUser, CodesAreTrue
  <2> QED
    BY <1>1, <1>6, <2>2, <2>3, TablesKept DEF LoginUser, AccountsTypeOK
<1>7. ASSUME NEW h \in Handlers, NEW l \in Logins, NEW p \in Passwords,
             LoginFails(h, l, p)
      PROVE  AccountsInv'
  <2>1. AtHoldsRow'
    BY <1>7 DEF LoginFails, AtHoldsRow, Row
  <2>2. CodesAreTrue'
    BY <1>7 DEF LoginFails, CodesAreTrue, Answer
  <2> QED
    BY <1>1, <1>7, <2>1, <2>2, TablesKept DEF LoginFails, AccountsTypeOK
<1>8. ASSUME NEW h \in Handlers, CreateToken(h)
      PROVE  AccountsInv'
  <2>1. /\ at[h] \in Entry
        /\ Blank \notin {at[h].login, at[h].password}
        /\ Row(at[h].login)
        /\ users[at[h].login] = [id       |-> at[h].id,
                                 password |-> HashPass(at[h].password)]
    BY <1>8 DEF CreateToken, Idle, AccountsTypeOK, AtHoldsRow
  <2>2. AtHoldsRow'
    BY <1>8 DEF CreateToken, AtHoldsRow, Row, AccountsTypeOK
  <2>3. IdsDiffer' /\ OrdersHaveRows'
    BY <1>8 DEF CreateToken, IdsDiffer, OrdersHaveRows, Fresh, Row
  <2>4. KeysOfStarts'
    BY <1>8 DEF CreateToken, KeysOfStarts, Key, ConstantKey, AccountsTypeOK
  <2>5. TokensHaveRows'
    BY <1>8, <2>1 DEF CreateToken, TokensHaveRows, Fresh, Verified, Key, Row
  <2>6. CodesAreTrue'
    BY <1>8, <2>1 DEF CreateToken, CodesAreTrue, Answer, Idle, Row
  <2> QED
    BY <1>1, <2>2, <2>3, <2>4, <2>5, <2>6
<1>9. ASSUME NEW t \in tokens, NEW o \in OrderIds, RegisterOrder(t, o)
      PROVE  AccountsInv'
  <2>1. IdsDiffer' /\ KeysOfStarts' /\ AtHoldsRow' /\ CodesAreTrue'
    BY <1>9 DEF RegisterOrder, IdsDiffer, KeysOfStarts, AtHoldsRow,
                CodesAreTrue, Row
  <2>2. TokensHaveRows'
    BY <1>9 DEF RegisterOrder, TokensHaveRows, Fresh, Verified, Key, Row
  <2>3. Fresh => Row(t.name) /\ users[t.name].id = t.sub
    <3>1. Verified(t)
      BY <1>9 DEF RegisterOrder
    <3>2. Fresh => users[t.name] = [id       |-> t.sub,
                                    password |-> HashPass(t.secret)]
      BY <3>1 DEF TokensHaveRows
    <3>3. Fresh => Row(t.name)
      BY <3>1 DEF TokensHaveRows
    <3> QED
      BY <3>2, <3>3
  <2>4. OrdersHaveRows'
    BY <1>9, <2>3 DEF RegisterOrder, OrdersHaveRows, Fresh, Row, AccountsTypeOK
  <2> QED
    BY <1>1, <2>1, <2>2, <2>4
<1>10. CASE Restart
  <2>1. IdsDiffer' /\ AtHoldsRow' /\ OrdersHaveRows' /\ CodesAreTrue'
    BY <1>10 DEF Restart, IdsDiffer, AtHoldsRow, OrdersHaveRows, CodesAreTrue,
                 Row, NoUsers, NoOrders
  <2>2. KeysOfStarts'
    BY <1>10 DEF Restart, KeysOfStarts, AccountsTypeOK
  <2>3. TokensHaveRows'
    BY <1>10 DEF Restart, TokensHaveRows, KeysOfStarts, Fresh, Verified, Key,
                 AccountsTypeOK
  <2> QED
    BY <1>1, <2>1, <2>2, <2>3
<1>11. CASE UNCHANGED vars
  <2>1. AtHoldsRow' /\ CodesAreTrue'
    BY <1>11 DEF vars, AtHoldsRow, CodesAreTrue, Row
  <2> QED
    BY <1>1, <1>11, <2>1, TablesKept DEF vars, AccountsTypeOK
<1> QED
  BY <1>2, <1>3, <1>4, <1>5, <1>6, <1>7, <1>8, <1>9, <1>10, <1>11 DEF Next

\* The types, and how rows, tokens, requests and orders belong together.
THEOREM AccountsCorrect == Spec => []AccountsInv
<1>1. Init => AccountsInv
  BY AccountsInit
<1>2. AccountsInv /\ [Next]_vars => AccountsInv'
  BY AccountsStep
<1> QED
  BY <1>1, <1>2, PTL DEF Spec

\* The user_id of a token is a number of the sequence, its name a login.
THEOREM AccountsTyped == Spec => []AccountsTypeOK
<1>1. AccountsInv => AccountsTypeOK
  BY DEF AccountsInv
<1> QED
  BY <1>1, AccountsCorrect, PTL

\* As long as the key dies with the process, a token that is accepted names
\* the user it was issued to, although no handler looks the user up again.
THEOREM TokensNameUsers == Spec => []TokenNamesItsUser
<1>1. AccountsInv => TokenNamesItsUser
  <2> SUFFICES ASSUME AccountsInv, Fresh, NEW t \in tokens, Verified(t),
                      NEW l \in Logins
               PROVE  l = t.name <=> users[l] # NoRow /\ users[l].id = t.sub
    BY DEF TokenNamesItsUser
  <2>1. /\ Row(t.name)
        /\ users[t.name] = [id |-> t.sub, password |-> HashPass(t.secret)]
    BY DEF AccountsInv, TokensHaveRows
  <2>2. t.name \in Logins
    BY DEF AccountsInv, AccountsTypeOK, Token
  <2>3. users[t.name].id = t.sub
    BY <2>1
  <2> QED
    BY <2>1, <2>2, <2>3 DEF AccountsInv, IdsDiffer, Row
<1> QED
  BY <1>1, AccountsCorrect, PTL

\* Of all who register the same name, one password enters.
THEOREM OnePassword == Spec => []OnePasswordEnters
<1>1. AccountsInv => OnePasswordEnters
  <2> SUFFICES ASSUME AccountsInv, Fresh, NEW t \in tokens, Verified(t)
               PROVE  /\ users[t.name] # NoRow
                      /\ users[t.name].password = HashPass(t.secret)
    BY DEF OnePasswordEnters
  <2>1. /\ Row(t.name)
        /\ users[t.name] = [id |-> t.sub, password |-> HashPass(t.secret)]
    BY DEF AccountsInv, TokensHaveRows
  <2> QED
    BY <2>1 DEF Row
<1> QED
  BY <1>1, AccountsCorrect, PTL

\* The orders of a user_id were loaded by the login that has it.
THEOREM OrdersOfLogin == Spec => []OrdersBelongToLogin
<1>1. AccountsInv => OrdersBelongToLogin
  BY DEF AccountsInv, AccountsTypeOK, OrdersBelongToLogin, OrdersHaveRows, Loads,
         IdsDiffer, Row
<1> QED
  BY <1>1, AccountsCorrect, PTL

\* The codes of register and login are true when they are given, and stay so.
THEOREM TrueCodes == Spec => []CodesAreTrue
<1>1. AccountsInv => CodesAreTrue
  BY DEF AccountsInv
<1> QED
  BY <1>1, AccountsCorrect, PTL

\* Who has been let in is not refused later, as long as the token is accepted
\* and no configured KEY has outlived the tables.
THEOREM NeverRefused == Spec => KnownNeverRefused
<1>1. AccountsInv /\ [Next]_vars =>
        [Answering /\ reply'.code = 401 /\ Fresh =>
            \A t \in tokens : Verified(t) /\ t.name = reply'.login =>
                                 t.secret # reply'.password]_vars
  <2> SUFFICES ASSUME AccountsInv, Next, Answering, reply'.code = 401, Fresh,
                      NEW t \in tokens, Verified(t), t.name = reply'.login
               PROVE  t.secret # reply'.password
    BY DEF vars
  <2>1. PICK h \in Handlers, l \in Logins, p \in Passwords : LoginFails(h, l, p)
    <3>1. \A h \in Handlers, op \in Ops, l \in Logins \union {Blank},
            p \in Passwords \union {Blank} : ~Rejected(h, op, l, p)
      BY DEF Rejected, Answer
    <3>2. \A h \in Handlers, l \in Logins, p \in Passwords :
            /\ ~AddUser(h, l, p)
            /\ ~AddUserExists(h, l, p)
            /\ ~AddUserFails(h, l, p)
            /\ ~LoginUser(h, l, p)
      BY DEF AddUser, AddUserExists, AddUserFails, LoginUser, Answer, Answering
    <3>3. \A h \in Handlers : ~CreateToken(h)
      BY DEF CreateToken, Answer
    <3>4. ~Restart /\ \A s \in tokens, o \in OrderIds : ~RegisterOrder(s, o)
      BY DEF Restart, RegisterOrder, Answering
    <3> QED
      BY <3>1, <3>2, <3>3, <3>4 DEF Next
  <2>2. users[l].password # HashPass(p) /\ reply'.login = l /\ reply'.password = p
    BY <2>1 DEF LoginFails, Answer
  <2>3. users[t.name] = [id |-> t.sub, password |-> HashPass(t.secret)]
    BY DEF AccountsInv, TokensHaveRows
  <2>4. users[t.name].password = HashPass(t.secret)
    BY <2>3
  <2> QED
    BY <2>2, <2>4
<1> QED
  BY <1>1, AccountsCorrect, PTL DEF Spec, KnownNeverRefused
=============================================================================
