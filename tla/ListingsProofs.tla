--------------------------- MODULE ListingsProofs ---------------------------
(***************************************************************************)
(* What is proved about Listings for all values of its constants.  The     *)
(* sums are those of LedgerProofs.                                         *)
(***************************************************************************)
EXTENDS Listings, LedgerProofs

-----------------------------------------------------------------------------
(***************************************************************************)
(* The store under the readers.                                            *)
(***************************************************************************)

StoreKept == TypeOK /\ FundsInv /\ BooksInv

\* The invariants of the store say nothing of the faults.
LEMMA StoreSame ==
    ASSUME StoreKept, faults' \in 0..MaxFaults,
           UNCHANGED <<tables, written, pc, arg, batch, credited, overlap>>
    PROVE  StoreKept'
<1> USE DEF StoreKept, tables, written
<1>1. \A u \in Users : Held(u)' = Held(u)
  BY DEF Held
<1>2. TypeOK'
  BY DEF TypeOK
<1>3. FundsInv'
  <2>1. WithdrawalMoves'
    BY DEF FundsInv, WithdrawalMoves, Decreased
  <2> QED
    BY <1>1, <2>1 DEF FundsInv, PcShape, LockExclusion, CreditsAdd,
                      InsertBranchGivesNothing, Covered, Withdrawing
<1>4. RowsWritten'
  BY DEF BooksInv, RowsWritten, OnlyBatches, OwnersKept, BatchOwned,
         WrittenOnce, AskedRecorded, BatchWritten, InBatch
<1>5. ASSUME NEW t \in Txns, NEW u \in Users
      PROVE  Pays(t, u)'
  <2>1. Pays(t, u)
    BY BatchPaysEach DEF BooksInv
  <2> QED
    BY <1>1, <2>1, PaysSame
<1>6. ASSUME NEW u \in Users
      PROVE  Recorded(u)' /\ InBalance(u)'
  <2>1. Recorded(u) /\ InBalance(u)
    BY SumsEach DEF BooksInv
  <2>2. UNCHANGED <<orders, balances, withdrawals>>
    OBVIOUS
  <2> QED
    BY <2>1, <2>2, Zenon DEF Recorded, InBalance, NoNegativeSum, Held, SpentBy,
                             AccrualsOf, Owned, Present
<1>7. CoveredUnlessRaced'
  BY <1>1 DEF BooksInv, CoveredUnlessRaced, NoNegativeSum, Owned, Present
<1> QED
  BY <1>2, <1>3, <1>4, <1>5, <1>6, <1>7
     DEF BooksInv, BatchPays, Pays, Pay, WithdrawnIsRecorded, AccrualsHeld,
         Recorded, InBalance, SpentBy, AccrualsOf

\* A reader changes nothing in the store.
LEMMA ReaderStep ==
    ASSUME [Next]_vars
    PROVE  \/ PgNext /\ seen' = IF Restart THEN NoRow ELSE seen
           \/ \E u \in Users : \/ GetOrders(u)
                               \/ GetWithdrawals(u)
                               \/ GetBalance(u)
           \/ GetFails
           \/ UNCHANGED <<pgVars, seen>>
  BY DEF Next, StoreStep, vars

LEMMA StoreKeptStep ==
    ASSUME StoreKept, [Next]_vars
    PROVE  StoreKept'
<1>1. CASE [PgNext]_pgVars
  BY <1>1, TypeStep, FundsStep, BooksStep DEF StoreKept, FundsInv
<1>2. CASE GetFails
  BY <1>2, FaultType, StoreSame DEF GetFails, StoreKept
<1> QED
  BY <1>1, <1>2, ReaderStep DEF GetOrders, GetWithdrawals, GetBalance, Listed

-----------------------------------------------------------------------------
(***************************************************************************)
(* What a client has seen.                                                 *)
(***************************************************************************)

\* What a list adds up to is what the rows of its user add up to.
LEMMA ListedSums ==
    ASSUME TypeOK, NEW u \in Users
    PROVE  /\ SumOf(OfUser(withdrawals, u)) = SpentBy(u)
           /\ AccrualOf(OfUser(orders, u)) = AccrualsOf(u)
<1> DEFINE w == OfUser(withdrawals, u)
           r == OfUser(orders, u)
<1>1. /\ Present(w) = Owned(withdrawals, u)
      /\ Present(r) = Owned(orders, u)
  BY DEF OfUser, Present, Owned, TypeOK
<1>2. /\ \A o \in Owned(withdrawals, u) : w[o] = withdrawals[o]
      /\ \A o \in Owned(orders, u) : r[o] = orders[o]
  BY DEF OfUser, Present, Owned, TypeOK
<1> HIDE DEF w, r
<1>3. /\ [o \in Present(w) |-> w[o].sum] =
           [o \in Owned(withdrawals, u) |-> withdrawals[o].sum]
      /\ [o \in Present(r) |-> r[o].accrual] =
           [o \in Owned(orders, u) |-> orders[o].accrual]
  BY <1>1, <1>2
<1>4. SumOf(w) = SpentBy(u) /\ AccrualOf(r) = AccrualsOf(u)
  BY <1>3, Zenon DEF SumOf, AccrualOf, SpentBy, AccrualsOf
<1> QED
  BY <1>4 DEF w, r

\* What an answer shows, and what of it stays.
Seen ==
    seen # NoRow =>
        /\ seen.user \in Users
        /\ seen.list = "balance" =>
              /\ seen.rows.withdrawn \in Int
              /\ NoNegativeSum(seen.user) =>
                   seen.rows.withdrawn <= Held(seen.user).withdrawn
        /\ seen.list = "withdrawals" =>
              /\ SumOf(seen.rows) \in Int
              /\ NoNegativeSum(seen.user) =>
                   SumOf(seen.rows) <= Held(seen.user).withdrawn
              /\ \A o \in Present(seen.rows) :
                    /\ o \in OrderIds /\ withdrawals[o] # NoRow
                    /\ withdrawals[o] = seen.rows[o]
                    /\ withdrawals[o].user = seen.user
        /\ seen.list = "orders" =>
              /\ AccrualOf(seen.rows) \in Nat
              /\ NoNegativeSum(seen.user) =>
                   AccrualOf(seen.rows)
                     <= Held(seen.user).current + Held(seen.user).withdrawn
              /\ \A o \in Present(seen.rows) :
                    /\ o \in OrderIds /\ orders[o] # NoRow
                    /\ orders[o].user = seen.user

LEMMA SeenStore ==
    ASSUME StoreKept, StoreKept', Seen, [PgNext]_pgVars, ~Restart, seen' = seen
    PROVE  Seen'
<1> SUFFICES ASSUME seen # NoRow PROVE Seen'
  BY DEF Seen
<1> USE DEF StoreKept
<1>1. PICK u \in Users : u = seen.user
  BY DEF Seen
<1>2. NoNegativeSum(u)' =>
         /\ NoNegativeSum(u)
         /\ Held(u)'.withdrawn >= Held(u).withdrawn
         /\ Held(u)'.current + Held(u)'.withdrawn
               >= Held(u).current + Held(u).withdrawn
  <2>1. NoNegativeSum(u)' => ~RecordsNegative(u)
    BY DEF TypeOK, NoNegativeSum, RecordsNegative, Owned, Present, Withdrawal
  <2>2. NoNegativeSum(u)' => NoNegativeSum(u)
    BY SignsStay DEF BooksInv
  <2> QED
    BY <2>1, <2>2, EarnedStep DEF BooksInv
<1>3. Held(u) \in Balance /\ Held(u)' \in Balance
  BY HeldType DEF TypeOK, Held, Balance
<1>4. /\ Held(u).withdrawn \in Int /\ Held(u)'.withdrawn \in Int
      /\ Held(u).current + Held(u).withdrawn \in Int
      /\ Held(u)'.current + Held(u)'.withdrawn \in Int
  BY <1>3 DEF Balance
<1>5. \A o \in OrderIds :
         /\ orders[o] # NoRow =>
              orders'[o] # NoRow /\ orders'[o].user = orders[o].user
         /\ withdrawals[o] # NoRow => withdrawals'[o] = withdrawals[o]
  BY RowsKept DEF BooksInv
<1>6. seen.list = "balance" =>
         /\ seen.rows.withdrawn \in Int
         /\ NoNegativeSum(u)' => seen.rows.withdrawn <= Held(u)'.withdrawn
  BY <1>1, <1>2, <1>4 DEF Seen
<1>7. seen.list = "withdrawals" =>
         /\ SumOf(seen.rows) \in Int
         /\ NoNegativeSum(u)' => SumOf(seen.rows) <= Held(u)'.withdrawn
  BY <1>1, <1>2, <1>4 DEF Seen
<1>8. seen.list = "orders" =>
         /\ AccrualOf(seen.rows) \in Nat
         /\ NoNegativeSum(u)' =>
              AccrualOf(seen.rows) <= Held(u)'.current + Held(u)'.withdrawn
  BY <1>1, <1>2, <1>4 DEF Seen
<1>9. seen.list = "withdrawals" =>
         \A o \in Present(seen.rows) :
            /\ o \in OrderIds /\ withdrawals'[o] # NoRow
            /\ withdrawals'[o] = seen.rows[o]
            /\ withdrawals'[o].user = seen.user
  BY <1>5 DEF Seen
<1>10. seen.list = "orders" =>
         \A o \in Present(seen.rows) : /\ o \in OrderIds /\ orders'[o] # NoRow
                                       /\ orders'[o].user = seen.user
  BY <1>5 DEF Seen
<1>11. /\ SumOf(seen.rows)' = SumOf(seen.rows)
       /\ AccrualOf(seen.rows)' = AccrualOf(seen.rows)
       /\ Present(seen.rows)' = Present(seen.rows)
  BY Zenon DEF SumOf, AccrualOf, Present
<1> QED
  BY <1>1, <1>6, <1>7, <1>8, <1>9, <1>10, <1>11, Zenon DEF Seen

\* An answer shows what is committed.
LEMMA SeenListed ==
    ASSUME StoreKept, NEW u \in Users,
           GetOrders(u) \/ GetWithdrawals(u) \/ GetBalance(u)
    PROVE  Seen'
<1> USE DEF StoreKept
<1>1. UNCHANGED <<orders, balances, withdrawals>> /\ TypeOK
  BY DEF GetOrders, GetWithdrawals, GetBalance, Listed, pgVars
<1>2. Held(u) \in Balance /\ Held(u)' = Held(u)
  BY <1>1, HeldType DEF Held
<1>3. SpentBy(u) \in Int /\ AccrualsOf(u) \in Nat
  BY SumsType
<1>4. /\ Held(u).withdrawn = SpentBy(u)
      /\ NoNegativeSum(u) =>
           AccrualsOf(u) <= Held(u).current + Held(u).withdrawn
  BY SumsEach DEF BooksInv, Recorded, InBalance
<1>5. CASE GetBalance(u)
  <2>1. seen' = [list |-> "balance", user |-> u, rows |-> Held(u)]
    BY <1>5 DEF GetBalance, Listed
  <2>2. Held(u).withdrawn \in Int
    BY <1>2 DEF Balance
  <2> QED
    BY <1>2, <2>1, <2>2 DEF Seen
<1>6. CASE GetWithdrawals(u)
  <2> DEFINE w == OfUser(withdrawals, u)
  <2>1. seen' = [list |-> "withdrawals", user |-> u, rows |-> w]
    BY <1>6 DEF GetWithdrawals, Listed
  <2>2. \A o \in Present(w) : /\ o \in OrderIds /\ withdrawals[o] # NoRow
                              /\ withdrawals[o] = w[o]
                              /\ withdrawals[o].user = u
    BY DEF OfUser, Present
  <2>3. SumOf(w) = SpentBy(u)
    BY ListedSums
  <2>4. SumOf(w) \in Int /\ SumOf(w) <= Held(u)'.withdrawn
    BY <1>2, <1>3, <1>4, <2>3
  <2> HIDE DEF w
  <2>5. seen'.list = "withdrawals" /\ seen'.user = u /\ seen'.rows = w
    BY <2>1
  <2>6. SumOf(seen.rows)' = SumOf(w) /\ Present(seen.rows)' = Present(w)
    BY <2>5, Zenon DEF SumOf, Present
  <2> QED
    BY <1>1, <2>2, <2>4, <2>5, <2>6 DEF Seen
<1>7. CASE GetOrders(u)
  <2> DEFINE w == OfUser(orders, u)
  <2>1. seen' = [list |-> "orders", user |-> u, rows |-> w]
    BY <1>7 DEF GetOrders, Listed
  <2>2. \A o \in Present(w) : /\ o \in OrderIds /\ orders[o] # NoRow
                              /\ orders[o].user = u
    BY DEF OfUser, Present
  <2>3. AccrualOf(w) = AccrualsOf(u)
    BY ListedSums
  <2>4. /\ AccrualOf(w) \in Nat
        /\ NoNegativeSum(u)' =>
             AccrualOf(w) <= Held(u)'.current + Held(u)'.withdrawn
    <3>1. NoNegativeSum(u)' <=> NoNegativeSum(u)
      BY <1>1, Zenon DEF NoNegativeSum, Owned, Present
    <3> QED
      BY <1>2, <1>3, <1>4, <2>3, <3>1
  <2> HIDE DEF w
  <2>5. seen'.list = "orders" /\ seen'.user = u /\ seen'.rows = w
    BY <2>1
  <2>6. AccrualOf(seen.rows)' = AccrualOf(w) /\ Present(seen.rows)' = Present(w)
    BY <2>5, Zenon DEF AccrualOf, Present
  <2> QED
    BY <1>1, <2>2, <2>4, <2>5, <2>6 DEF Seen
<1> QED
  BY <1>5, <1>6, <1>7

LEMMA SeenStep ==
    ASSUME StoreKept, Seen, [Next]_vars
    PROVE  Seen'
<1>1. StoreKept'
  BY StoreKeptStep
<1>2. CASE [PgNext]_pgVars /\ ~Restart /\ seen' = seen
  BY <1>1, <1>2, SeenStore
<1>3. CASE seen' = NoRow
  BY <1>3 DEF Seen
<1>4. CASE GetFails \/ UNCHANGED <<pgVars, seen>>
  <2>1. UNCHANGED <<orders, balances, withdrawals, seen>>
    BY <1>4 DEF GetFails, pgVars, tables
  <2> QED
    BY <2>1, Zenon DEF Seen, NoNegativeSum, Owned, Held, SumOf, AccrualOf,
                       Present
<1> QED
  BY <1>2, <1>3, <1>4, ReaderStep, SeenListed

LEMMA SeenInit == Init => StoreKept /\ Seen
  BY TypeInit, FundsInit, BooksInit DEF Init, StoreKept, Seen

LEMMA SeenKept == Spec => [](StoreKept /\ Seen)
<1>1. StoreKept /\ Seen /\ [Next]_vars => (StoreKept /\ Seen)'
  BY StoreKeptStep, SeenStep
<1> QED
  BY <1>1, SeenInit, PTL DEF Spec

-----------------------------------------------------------------------------
(***************************************************************************)
(* The properties.                                                         *)
(***************************************************************************)

\* A client that compares a balance with the withdrawals listed before or
\* after it never finds points withdrawn that no listing explains, unless a
\* sum below zero was withdrawn.
THEOREM SpentListed == Spec => []SpentIsListed
<1>1. ASSUME StoreKept, Seen
      PROVE  SpentIsListed
  <2>1. ASSUME Saw("balance"), NoNegativeSum(seen.user)
        PROVE  seen.rows.withdrawn <= SumOf(OfUser(withdrawals, seen.user))
    <3>1. seen.user \in Users
          /\ seen.rows.withdrawn <= Held(seen.user).withdrawn
      BY <1>1, <2>1 DEF Saw, Seen
    <3>2. SumOf(OfUser(withdrawals, seen.user)) = SpentBy(seen.user)
      BY <1>1, <3>1, ListedSums DEF StoreKept
    <3>3. Held(seen.user).withdrawn = SpentBy(seen.user)
      BY <1>1, <3>1, SumsEach DEF StoreKept, BooksInv, Recorded
    <3> QED
      BY <3>1, <3>2, <3>3
  <2>2. Saw("withdrawals") /\ NoNegativeSum(seen.user) =>
           SumOf(seen.rows) <= Held(seen.user).withdrawn
    BY <1>1 DEF Saw, Seen
  <2> QED
    BY <2>1, <2>2 DEF SpentIsListed
<1> QED
  BY <1>1, SeenKept, PTL

\* Accruals a client has seen with its orders are in every later balance,
\* unless the client has withdrawn a sum below zero.
THEOREM PaidHeld == Spec => []PaidIsHeld
<1>1. Seen => PaidIsHeld
  BY DEF Seen, Saw, PaidIsHeld
<1> QED
  BY <1>1, SeenKept, PTL

\* No later list leaves out what an earlier one has shown.
THEOREM StaysInList == Spec => StaysListed
<1> DEFINE Stays ==
        \A list \in {"orders", "withdrawals"} :
           Saw(list) /\ Saw(list)' /\ seen'.user = seen.user =>
              \A o \in Present(seen.rows) :
                 /\ seen'.rows[o] # NoRow
                 /\ list = "withdrawals" => seen'.rows[o] = seen.rows[o]
<1>1. ASSUME StoreKept, Seen, [Next]_vars
      PROVE  Stays \/ UNCHANGED vars
  <2>1. CASE seen' = seen
    <3>1. \A o \in Present(seen.rows) : seen.rows[o] # NoRow
      BY DEF Present
    <3> QED
      BY <2>1, <3>1
  <2>2. CASE seen' = NoRow
    BY <2>2 DEF Saw
  <2>3. ASSUME NEW u \in Users, GetOrders(u)
        PROVE  Stays
    <3>1. seen' = [list |-> "orders", user |-> u, rows |-> OfUser(orders, u)]
      BY <2>3 DEF GetOrders, Listed
    <3>2. Saw("orders") /\ u = seen.user =>
            \A o \in Present(seen.rows) : /\ o \in OrderIds /\ orders[o] # NoRow
                                          /\ orders[o].user = u
      BY <1>1 DEF Seen, Saw
    <3>3. Saw("orders") /\ u = seen.user =>
            \A o \in Present(seen.rows) : OfUser(orders, u)[o] # NoRow
      BY <3>2 DEF OfUser
    <3>4. ~Saw("withdrawals")'
      BY <3>1 DEF Saw
    <3> QED
      BY <3>1, <3>3, <3>4
  <2>4. ASSUME NEW u \in Users, GetWithdrawals(u)
        PROVE  Stays
    <3>1. seen' = [list |-> "withdrawals", user |-> u,
                   rows |-> OfUser(withdrawals, u)]
      BY <2>4 DEF GetWithdrawals, Listed
    <3>2. Saw("withdrawals") /\ u = seen.user =>
            \A o \in Present(seen.rows) :
               /\ o \in OrderIds /\ withdrawals[o] # NoRow
               /\ withdrawals[o] = seen.rows[o] /\ withdrawals[o].user = u
      BY <1>1 DEF Seen, Saw
    <3>3. Saw("withdrawals") /\ u = seen.user =>
            \A o \in Present(seen.rows) :
               /\ OfUser(withdrawals, u)[o] # NoRow
               /\ OfUser(withdrawals, u)[o] = seen.rows[o]
      BY <3>2 DEF OfUser
    <3>4. ~Saw("orders")'
      BY <3>1 DEF Saw
    <3> QED
      BY <3>1, <3>3, <3>4
  <2>5. ASSUME NEW u \in Users, GetBalance(u)
        PROVE  Stays
    <3>1. seen' = [list |-> "balance", user |-> u, rows |-> Held(u)]
      BY <2>5 DEF GetBalance, Listed
    <3>2. ~Saw("orders")' /\ ~Saw("withdrawals")'
      BY <3>1 DEF Saw
    <3> QED
      BY <3>2
  <2> QED
    BY <1>1, <2>1, <2>2, <2>3, <2>4, <2>5, ReaderStep DEF GetFails
<1>2. StoreKept /\ Seen /\ [Next]_vars => [Stays]_vars
  BY <1>1
<1> QED
  BY <1>2, SeenKept, PTL DEF Spec, StaysListed

\* The ledger of Ledger.tla is also what the listings are read from: reading
\* is no step of it.
THEOREM ReadersSeeLedger == Spec => ImplementsLedger
<1>1. Init => AtomicLedger!Init
  BY LedgerInit DEF Init
<1>2. ASSUME StoreKept, [Next]_vars
      PROVE  [AtomicLedger!Next]_(AtomicLedger!vars)
  <2>1. CASE [PgNext]_pgVars
    BY <1>2, <2>1, LedgerStep DEF StoreKept
  <2>2. CASE GetFails
    BY <2>2 DEF GetFails, tables, AtomicLedger!vars
  <2> QED
    BY <1>2, <2>1, <2>2, ReaderStep DEF GetOrders, GetWithdrawals, GetBalance, Listed
<1> QED
  BY <1>1, <1>2, SeenKept, PTL DEF Spec, ImplementsLedger, AtomicLedger!Spec
=============================================================================
