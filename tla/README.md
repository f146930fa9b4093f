# Gophermart in TLA+

A verification project for the loyalty service *Gophermart*: what its code does,
written as TLA+ modules that TLC checks on small instances, and theorems about
them that TLAPS proves for every instance. The reference is the code; where a
document, a comment or the specification says something else, a run shows the
difference (section 5).

## 1. The system

Gophermart is one Go process in front of PostgreSQL. Users load order numbers,
an external *accrual system* calculates points for them, and users spend the
points. Paths below are relative to `src/internal/`.

| Part | State it keeps | Operations | Talks to |
| --- | --- | --- | --- |
| PostgreSQL store, `common/store/pg/pg.go`, tables in `gophermart/app/migrations/` | tables `users`, `orders`, `balances`, `withdrawals`; a pool of connections | `InsertOrder`, `GetOneOrder`, `InsertWithdraw`, `UpdateOrdersBalancesBatch`, `GetOrdersForProcessing`, `GetBalance`, `GetOrders`, `GetWithdrawals`, `AddUser`, `GetUser` | PostgreSQL, at READ COMMITTED |
| Service and handlers, `gophermart/service/service.go`, `gophermart/handlers/handlers.go` | none of their own; one goroutine per request | `RegisterOrder`, `PostWithdraw`, `RegisterUser`, `LoginUser`, three listings; errors become HTTP codes | the store |
| Accrual loop, `gophermart/accrual/accrual.go` | the rows it read, the answers it got, the wait that was asked for | one cycle: read the unfinished orders, ask about each, write the news in one batch | the store, the client pool |
| HTTP client pool, `common/httpclientpool/` and `SendOrdersToAccrual`, `sendRun` of the service | two buffered channels per cycle, one goroutine per worker | send jobs, ask, send results, close, collect | the accrual system |
| Migrations, `gophermart/app/migrations.go` | the schema | at every start: `DownTo 0`, then `Up` | PostgreSQL |
| Life cycle, `gophermart/app/app.go`, `cmd/gophermart/main.go` | start and stop hooks of fx, their timeouts | migrate, start store, loop, server; stop in reverse | all of the above |
| Accounts and tokens, `gophermart/service`, `gophermart/handlers` | table `users` and its sequence, key of the tokens | register, login, verify a token | the store |
| Listings, same files | none | orders, balance, withdrawals of a user | the store |
| Order numbers, `common/utils/common.go` | none | `ParseUint`, `ValidLuhn` | the column `bigint` |
| Retry helper, `common/utils/common.go` | the waits that are left | `RetryAction`, around the two calls that open the pool | the store's start |
| Middleware, logging, configuration | none that requests share | - | - |
| Accrual system (external; `cmd/faccrual` stands in for it in tests) | a status and an accrual per order | answers `GET /api/orders/{number}` | - |

What is hard in it:

* *Statements of different connections interleave.* Withdrawals and the loop
  change the same rows of `balances`; the withdrawal reads before it locks.
* *Answers get lost.* A COMMIT may be executed although its caller sees an error;
  the loop then repeats what may already be done.
* *Old data is written.* The rows of a cycle are read, the accrual system is
  asked for as long as it takes, and the answers are then written without a
  look at what the rows have become.
* *Some of several writes fail.* A withdrawal has two, a batch two per order.
* *Goroutines wait for each other* through channels that fill up and close,
  while the context may be cancelled anywhere.
* *The process dies* and its start drops the tables, while the tokens it issued
  are still in the clients' hands.
* *Answers are put side by side* by a client, although each was read at another moment.
* *The process stops* while requests and the loop hold connections, and each stop hook
  waits for somebody, up to a timeout.
* *Amounts are rounded* on their way into `decimal(19,2)`, and the sign of a sum is
  checked by nobody.

What makes each part correct:

* store: the tables agree with each other, no update is lost, a balance covers
  what is spent, every transaction is atomic and ends;
* service: the code a client gets agrees with what is stored;
* loop: an order only moves forward, is paid once and what was calculated for
  it, and is settled in the end;
* client pool: one result per order, the channels are closed in order, nothing stays
  behind, the loop returns;
* accounts: a login has one owner, a token names its user;
* listings: what a client was told agrees with what it is told next;
* order numbers: the accepted numbers are those of the Luhn algorithm;
* life cycle: nobody uses a pool that is not there, a stop in good order cuts no
  transaction off, start and stop end.

## 2. The modules

| Module | What it is |
| --- | --- |
| `Ledger` | abstract: accept, withdraw, settle and reset as single atomic steps on the three tables |
| `PgStore` | the store, one action per SQL statement; implements `Ledger` |
| `PgStoreProofs`, `LedgerProofs` | theorems about `PgStore`: types and row locks; the sums of its tables, the funds and the refinement of `Ledger` |
| `Gophermart` | handlers, service, accrual loop and accrual system on top of `PgStore` (extends it) |
| `GophermartProofs` | theorems about `Gophermart`: the use of the store, the codes, what becomes of an order and of its points |
| `Listings`, `ListingsProofs` | what clients are told while the tables of `PgStore` change (extends it); theorems |
| `Accounts`, `AccountsProofs` | registration, login, tokens and what is done with them; theorems |
| `OrderNumber`, `OrderNumberProofs` | an order number from the text of the request to the column, as functions of digits; theorems |
| `Cycle` | abstract: what one cycle promises the loop and the accrual system |
| `WorkerPool`, `WorkerPoolProofs` | the goroutines and channels of one cycle; implements `Cycle`; theorems |
| `Lifecycle`, `LifecycleProofs` | start and stop of the process, with `RetryAction`; theorems |
| `MC...` | model values and symmetry for TLC |

`Gophermart` and `Listings` compose with the store by extending it. `Gophermart` takes
the cycle of `WorkerPool` as `Cycle` states it, one answer per order in any order and
then the end, which `ImplementsCycle` and `CycleReturns` justify. `Lifecycle` takes from
`PgStore` that transactions do not wait for each other for ever (`NeverDeadlocked`), from `WorkerPool` that the loop returns once it is
cancelled (`StopReturns`). `Accounts` and the store share no table: `user_id` is all
that goes from one to the other.

### PgStore

`orders`, `balances` and `withdrawals` are the committed rows, functions from the
primary key to a record, or to `NoRow`. What a transaction `t` has written and
locked is in `uOrders[t]`, `uBalances[t]`, `uWithdrawals[t]`; `COMMIT` lays it over the
tables, a rollback forgets it. That is READ COMMITTED, which the code gets by not
asking for another level: a statement sees what is committed when it runs, and
waits for a row that another transaction has written (`BalanceFree` and the like are
the conditions to go on).

`pc[t]` says which statement comes next. A withdrawal goes
`select -> dec -> insert -> commit`, each step an action named for the statement
(`SelectEnough`, `DecBalance`, `InsertWithdrawal`, `Commit`). The batch of the loop is
`batch` until every order is updated (`UpdateOrder`) and then every order is credited
(`CreditBalance`). The batch is one pipeline whose statements come in the order of the
slice; the model takes any order within the two halves, which includes the code's.
`InsertOrder` is a statement that commits by itself.

Faults: `Fail` stands for everything that makes a method return an error before its
COMMIT is executed; `LoseCommit` for a COMMIT whose answer is lost. The server still
has that transaction, the model moves it to `Zombie`, and `LateCommit` or `LateAbort`
decide it later. There is one `Zombie`: a bound, the code could lose several at a time. `SelectFails` is the SELECT whose error pg.go:168 drops. `Restart` is
a crash and a new start. `MaxFaults` bounds them together.

Amounts in the tables are hundredths. A requested sum or a calculated accrual counts in
`Parts` of a hundredth and is rounded when it is stored (`Round`, halves away from zero),
but compared unrounded, as in the code: with `Parts = 2` half a hundredth is requested
and a whole one is taken. `Sums` may be of either sign, as nothing between the JSON and
pg.go:172 checks it. `Decreased` is the row after `queryBalanceDecDefault`, by its UPDATE
branch or, for a user without a row, by its INSERT branch, which stores the sum as it is
in both columns.

`overlap` is a history variable: the users who have had two withdrawals in progress
at once. `credited` and `faults` are bookkeeping; the rest is state of the program or
of the database. `MaxAccrual` bounds the accruals that `PgSpec` may be given; a value that
is no number bounds nothing.

### Gophermart

Extends `PgStore`. A handler `h` is one request being served. Its steps are the store's
actions, and the last one gives `reply[h]`, the HTTP code that the error of the store
becomes on its way through `service.go` and `handlers.go`. `OrderExists` and `GetOneOrder`
are the two queries of `RegisterOrder`, with anything in between. The loop is `polling`
from `GetOrdersForProcess` to `UpdateOrdersAndBalances` or `NothingNew`; `snap` are the rows it
read, `asked` the orders whose request is over, `answers` what came with code 200. `accrual`
is the accrual system as a black box whose answer about an order only moves forward;
`NoAnswer` covers 204, 429, 500 and failing requests. For a `Garbled` order the body cannot
be decoded: the worker keeps what was read so far (httpclientpool.go:180-183).

Parameters that choose a situation: `InTime` (a lost COMMIT is decided before the next
cycle reads), `Restarts` (the process may die), `Malformed`, `Garbled`.

`StoreUsedAsSpecified` is the composition: every step of `Gophermart` is a step of `PgSpec` or
leaves the store alone, so what is proved about the store holds in the service.

### Listings

Extends `PgStore`. Each of the three GET handlers is one SELECT of committed rows. `seen` is
an answer that a client keeps; the tables are what any later answer will be made of, so
a property of `seen` and the tables is one of two answers and all that happens between
them. `GetFails` is a query that fails, or a connection that is lost between two rows: the
code looks at `rows.Err` and answers 500 (the mutant does not and answers a part of the list).
The tables move by every step of `PgNext`.

### Accounts

`users` maps a name to its row, `lastId` is the sequence behind `user_id`. An INSERT that
meets an existing name takes a number of the sequence as a successful one does. `at[h]` is the moment between
the statement that gave a request its `user_id` and the token that is signed with it. A
token is `[sub, name, key, secret]`: what it claims, the key it is signed with, and (for
the properties only) the password with which it was got. `Key` is `GetConfig`: KEY if it
is configured (`configured`), else one made up at each start. `RegisterOrder` is any
handler behind the token check: it trusts `sub` and never looks the user up. `Restart`
drops the tables and begins the sequence anew, and the tokens stay where they are.

### OrderNumber

`Parses`, `Value` and `FormatUint` are strconv on sequences of digits, `checksumLuhn` and
`ValidLuhn` the functions of utils/common.go as recursive functions on numbers, `Insert` the
column `bigint`, which is half as wide as `uint64`. `LuhnRule` is the reference: the published
rule on the digits of the text. The state only walks a text through the handler. A text of
digits that is no `uint64` does not parse and is refused with 422, whatever the rule says of it
(`SPECIFICATION.md:127` has numbers of any length).

### WorkerPool

`TakeOrder`, `SendJob`, `CloseJobs` are `sendRun`; `ReceiveJob`, `Ask`, `Returns`, `SendResult`,
`WorkerEnds` are `workerPlain`; `CloseResults` is the goroutine behind `wg.Wait`; `Collect` and
`Return` are the loop over `results`; `Cancel` is `Stop`. The context is looked at exactly
where the code does: before an order is sent but not while the channel is full, before
a request, and after a result is received. The orders are numbered as `sendRun` takes
them, so the channel `jobs` is the set of numbers in it, least first.

### Lifecycle

`phase` is the hook that runs. `Attempt` is one turn of `RetryAction` in `PgStore.Start`, for
`pgxpool.New` and then for `Ping`, with the waits it has left in `timers`; `Wake` ends its
sleep. The branch of `RetryAction` that ends with its context is left out: four attempts of
three seconds and nine seconds of waits do not use up its minute. `at[c]` says whether a request or the loop is away, at work, waiting for a connection or
using one. The stop hooks run in reverse: `Shutdown`, then `ShutdownDone` or `ShutdownGivesUp`
(ten seconds), `Cancel` and `LoopJoined` (`wg.Wait`), `pool.Close` with `Closed`. Times have no
measure: what may time out may do so at any moment.

## 3. The runs

Every bound is a CONSTANT in the `.cfg`.

| Run | Question | Instance |
| --- | --- | --- |
| `PgStoreSafety` | `TypeOK`, `BooksInv` (with `WithdrawnIsRecorded` and `CoveredUnlessRaced` in it), `NeverDeadlocked` | 2 users, 2 orders, 2 requests and the loop on 3 connections, 1 fault, sums of half a hundredth, accruals up to 3 in all |
| `GophermartSafety` | `SvcTypeOK`, `Conserved`, `SettledAsCalculated`, `OnlyForward` | 2 users, 2 orders (one garbled), 1 request, 2 stages of the calculation, 1 fault or restart |
| `GophermartRaces` | `RepliesAreTrue`, `StoreUsedAsSpecified` | 2 users, 2 orders (one malformed), 2 requests, 1 stage, 1 fault, `InTime = FALSE` |
| `GophermartLive` | `OnlyForward` where a lost COMMIT may be decided after the next cycle has read, `EverySettled` | 1 user, 1 order, 2 requests and the loop on 2 connections, 2 stages, 1 fault, `InTime = FALSE`, fair |
| `Listings` | `SpentIsListed`, `PaidIsHeld`, `StaysListed`, `ImplementsLedger`; `WithdrawnIsRecorded`, `CoveredUnlessRaced`, `FundsInv`, `EarnedNeverLost` for sums of either sign | 1 user, 2 orders, 2 requests, sums of minus half and of one and a half hundredths, accruals of half a hundredth and a rejected batch, 1 fault, accruals up to 2 |
| `Accounts` | `AccountsTypeOK`, `TokenNamesItsUser`, `OnePasswordEnters`, `OrdersBelongToLogin`, `CodesAreTrue`, `KnownNeverRefused` | 2 names, 3 passwords (one too long), 2 requests, 2 numbers of the sequence per start, 2 starts, 1 fault, KEY configured or not |
| `OrderNumber` | `CheckIsLuhn`, `TypoRefused`, `KeptAsLoaded` | every text of up to 4 characters (digits and one that is none), integer types that end at 1999 and 999 |
| `WorkerPool` | `TypeOK`, `NothingLeftBehind`, `Complete`, `PoolInv`, `ImplementsCycle`, `StopReturns`, `CycleReturns` | 2 workers, 6 orders, cancellation anywhere, fair |
| `Lifecycle` | `LifeTypeOK`, `PoolOutlivesItsUsers`, `NothingCutOff`, `StartEnds`, `StopEnds` | 2 requests and the loop on 1 connection, 3 waits as in the code, fair |

Why these bounds: a race on a balance needs two withdrawals or one and the loop; a
batch is interesting with two orders, of one user or of two; a repeated credit and a
stale snapshot need one fault; a late commit that meets a withdrawal needs a
transaction of each kind, hence the zombie beside two requests and the loop. A sum below
zero does different things to a user with and without a row, and one user comes to be both;
sums of two signs for two users are too many for one run, hence the properties of the store in
`Listings` beside those in `PgStoreSafety`. The runs of `Gophermart` ask for sums above zero only:
the service passes sums on, and what it relies on is proved for all of them (section 6). For
transactions to wait for each other in a circle all of them must hold rows at once: three
connections (`PoolSize` 3) let two withdrawals and a batch of the orders of both users do so
in `PgStoreSafety`, beside a lost COMMIT. In `GophermartLive` `PoolSize` is 2, so that the
loop waits for a connection that a request has. Six orders fill the
channel `jobs` (capacity 4), both workers, and leave one to wait; the results fill theirs.
Three points of accrual are enough to be withdrawn, rounded and withdrawn again. `Gophermart`
pays each order once and needs no `MaxAccrual` (`Unbounded` in its configurations). For the
accounts, two names and two numbers of the sequence are what it takes to give the `user_id` of
one name to the other, once within a start (a refused INSERT in between) and once after a
restart. In `OrderNumber` both ends of both types lie inside the texts, with every position
of a digit odd and even; the limits keep the proportion of `uint64` and `bigint`. One
connection in `Lifecycle` makes every other user wait while the pool closes.

Deadlock is checked in every run but `WorkerPool`, where a cycle ends, and `Lifecycle`, where
the process does. With new requests always possible that check says little of the store;
that none of its transactions wait for each other's rows is `NeverDeadlocked`.

What the properties say, beyond types:

* `WithdrawnIsRecorded`: `balances.withdrawn` is the sum of the rows of `withdrawals`.
* `CoveredUnlessRaced`: no negative balance for who never withdraws twice at once and has
  recorded no sum below zero. This is as much of "402" as the code keeps (see `Overdraft`
  and section 5).
* `BooksInv`: the three tables agree, and so does what is not committed yet: a withdrawal
  records what it took, a batch pays each user what it wrote for the orders of that user.
* `EarnedNeverLost`: no lost update on `balances`. A step that takes points a user has earned
  is a restart, or records a sum below zero as the first row of the user; a step that lowers
  what was withdrawn is a restart or records such a sum.
* `NeverDeadlocked`: while transactions are under way, one of them finds the row of its next
  statement free, whichever statement of a batch is next. Rows are taken in different
  tables and kept to the end; what comes out is that a circle of waiting cannot close, and that a
  failed statement leaves no row or connection behind.
* `ImplementsLedger`: to an observer of committed rows each operation is atomic.
* `Conserved`: what a user without a withdrawal below zero holds and has withdrawn is what
  the user's orders were paid.
  It relates the two halves of every batch, across cycles and faults.
* `SettledAsCalculated`, `OnlyForward`: answers are not mixed up, old answers do no harm. In
  `GophermartLive` the snapshot may be older than the row it is written over.
* `RepliesAreTrue`: HTTP codes agree with the tables while others change them.
* `SpentIsListed`, `PaidIsHeld`, `StaysListed`: two listings, read at different moments, can
  be put side by side: no withdrawal in the balance that the list after it lacks, no
  accrual in the list that the balance after it lacks, no entry that goes away. The first
  two, as long as the user has recorded no sum below zero.
* `TokenNamesItsUser`, `OnePasswordEnters`, `OrdersBelongToLogin`: a token that passes the check
  means the account it was issued for. They hold for the first start and, if KEY is not
  configured, for every start (`Fresh`); section 5 says what happens otherwise.
* `CodesAreTrue`: the codes 200, 400 and 409 of register and login agree with the table;
  `KnownNeverRefused`: whoever got a token with a name and a password is not answered 401
  for them later. Of an unknown name they say nothing (see section 5).
* `CheckIsLuhn`: the recursion on the parsed number is the published rule on the text, for
  the texts that fit into a `uint64`;
  `TypoRefused`: the errors the rule is for are refused; `KeptAsLoaded`: the number that is
  stored is the one that came.
* `ImplementsCycle`: no order is asked about twice in a cycle, never more requests are under
  way than RateLimit allows, and the loop is given its answers after the last of them.
* `PoolOutlivesItsUsers`, `NothingCutOff`: the order of the hooks is right, including the
  requests that `Shutdown` gave up.
* `EverySettled`, `StopReturns`, `CycleReturns`, `StartEnds`, `StopEnds`: what
  must happen does.

Each property has a mutant of the code that violates it (`mutants` in PROJECT.json; the
mutated definitions stand before the real ones and are marked `Mutant`).

## 4. Fairness

* `Gophermart!Fairness`: the steps of a request (`RequestStep`) and of the goroutine of the
  loop (`LoopStep`, a `for` without end in `mainAccrual`) are strongly fair. What they wait
  for, a row or a connection, is given in the order of arrival (PostgreSQL queues those
  who wait for a row, pgxpool those who wait for a connection), so a row that gets free
  again and again is eventually given to each. A lost COMMIT is decided. Outside the
  process: the accrual system finishes its calculation, and of the requests about one
  order that are made again and again some get an answer. New requests are not fair: nobody
  has to send any. Failures are bounded by `MaxFaults`, so the properties are about what
  happens when they stop.
* `WorkerPool!Fairness`: the Go scheduler runs every goroutine that can go on. A request
  is *not* fair: it may take for ever, as the client has no timeout; `StopReturns` holds
  without it, `CycleReturns` assumes it.
* `Lifecycle!Fairness`: the hooks go on, a transaction that has a connection gives it back
  (no circle of waiting closes, `NeverDeadlocked`, and PostgreSQL gives a row to those who wait
  in turn), the loop ends once it is cancelled. Requests are not fair and neither
  are the timeouts: `StopEnds` does not rely on the minute of fx, it follows from the ten
  seconds of `Shutdown` (`ShutdownGivesUp`) and from transactions that end.

## 5. Where code and specification differ

Each of these runs ends with a violation on purpose.

| Run | What it shows |
| --- | --- |
| `Overdraft` | Two withdrawals of one user pass the comparison with the same balance (SELECT without a lock, pg.go:165) and both are taken: the balance is negative, though `SPECIFICATION.md:265` has 402 for this. |
| `LateCommit` | The answer to the COMMIT of a batch is lost, the next cycle reads before the server has finished it, and the accrual is credited twice. With `InTime = TRUE` it cannot happen (`Conserved` in `GophermartSafety`). |
| `GarbledBatch` | One answer that cannot be decoded puts a status `""` into the batch; the type of the column rejects it and the transaction fails in every cycle: another order is never paid (`SPECIFICATION.md:16`). |

Seen while modelling, in the models as the code does it, and without a run of their own:

* A start drops the tables, so an order that was accepted is accepted again from anybody
  (`SPECIFICATION.md:66`, `Restart`).
* If KEY is configured, a token from before a restart is accepted after it, for a `user_id`
  that nobody has or that somebody else was given. `Fresh` excludes just this.
* A sum below zero is not refused by anything, since zero is not less (pg.go:172). For a user
  without a row of `balances` the INSERT branch (pg.go:134) stores it as the balance: one
  request leaves a negative balance without any race, though `SPECIFICATION.md:259` calls `sum`
  the points to be taken and `:265` has 402 for what the account does not hold. A user with
  a row is given points, and `withdrawn` shrinks (pg.go:136). Both are `Decreased`, and
  the reason for `NoNegativeSum` in `CoveredUnlessRaced` and other properties.
* A SELECT of the balance that fails is compared as a balance of zero (pg.go:168, `SelectFails`)
  and answered with 402 although the points are there; `SPECIFICATION.md:267` has 500 for this.
* An unknown login gets 500 instead of 401 (`SPECIFICATION.md:120`, `handlers_test.go:243`):
  `GetUser` never returns the error that `LoginUser` looks for (service.go:103).
* A withdrawal that repeats a number gets 500; after a lost COMMIT so does the client who
  repeats the request.
* `GET /api/user/withdrawals` is not sorted (`SPECIFICATION.md:273`); the models leave the
  order of lists out.
* A number above `uint64` is refused with 422 (`Parse` of `OrderNumber`), though
  `SPECIFICATION.md:127` has numbers of any length.
* A number between `bigint` and `uint64` passes the check and is answered with 500 (`Insert`
  of `OrderNumber`).
* If the address is in use the server does not start, which is only logged
  (handlers.go:74, `ListenAndServe`): the process stays without a server.
* `Ping` is tried again after errors of class 08 that the server sends; a refused connection
  and 57P03 (the server is starting) end the start at once (`Probed`).
* The start allows itself a minute, fx gives all start hooks fifteen seconds (`StartTimeout`).

## 6. What is proved

Every safety invariant, action property and refinement that a passing run checks, for all
values of the constants (two of them if `InTime`, see below); liveness is left to TLC. `PgAssumption`: the sets are arbitrary,
sums are integers of any sign, accruals are natural numbers, `MaxFaults` is one and `Parts` one
above zero, and transactions and absent rows are told apart. `OrderIdsFinite`: there are finitely many order numbers (the
column is a `bigint`), so that amounts can be added up over them.

* `TypeCorrect`: `PgSpec => [](TypeOK /\ PcShape)`. By one lemma per part, `TypeStep` and
  `ShapeStep`, with a case for each action; `HeldType`, `RoundNat`, `ReleaseType`,
  `PublishType` and so on say once what the helpers return.
* `FundsKept`: `PgSpec => []FundsInv`. That a balance stays covered between the comparison and
  the COMMIT depends on who else writes the row: one writer per row (`LockExclusion`); who is
  not a withdrawal only adds (`CreditsAdd`); a withdrawal has moved exactly its rounded sum,
  of either sign, from the row as it still is (`WithdrawalMoves`); no sum above zero reaches the
  INSERT branch (`InsertBranchGivesNothing`); and a sum that was compared is covered until it
  is taken, for users outside `overlap` (`Covered`). Rounding needs one fact of arithmetic,
  `RoundCovered`: a sum that does not exceed a number of whole hundredths does not exceed it
  when rounded, below zero as above.
* `FundsCovered`: `PgSpec => []CoveredUnlessRaced`. The COMMIT of a withdrawal takes what is
  covered; that a sum above zero was taken from a row and not inserted is
  `InsertBranchGivesNothing`, that the sign of a sum is known from the row it leaves in
  `withdrawals` is `BooksInv` (`CommitRecords`, `CommitSign`), and such a row stays (`SignsStay`).
* `EarnedKept`: `PgSpec => EarnedNeverLost`, from the same invariants.
* `BooksKept` and `WithdrawalsRecorded`: `PgSpec => []BooksInv` and `[]WithdrawnIsRecorded`. That
  `withdrawn` is the sum of the withdrawals is not inductive: between the two writes of a
  transaction it is false of what the transaction holds. `BooksInv` says what a transaction has
  written and not committed: whose rows (`RowsWritten`), and of a batch how much it has paid
  for which orders (`BatchPays`). `CommitBooks` then is the one step at which sums change.
  Sums are the folds of the community modules. That a fold over a finite set exists and
  takes its elements in any order is proved by a smallest counterexample (`Smallest`,
  `SmallestSubset`); `SumEmpty`, `SumInsert`, `SumReplace`, `SumSplit`, `SumLeq` are the laws that
  the rest uses.
* `FreeOfDeadlock`: `PgSpec => []NeverDeadlocked` (`SomeoneGoesOn`). Of the transactions under way the
  furthest can go on: an INSERT into `withdrawals` waits only for one that is at its
  COMMIT (`AskedRecorded`), a batch for one that has taken its points or for a lost COMMIT, a change
  of a balance for either of these.
* `StoreIsLedger`: `PgSpec => ImplementsLedger`. A statement changes no committed row and is a
  stutter of the ledger; the COMMIT of a withdrawal is its `Withdraw` (`CommitWithdraws`), that
  of a batch its `Settle` (`CommitSettles`), whichever transaction a lost COMMIT has left it to.

`GophermartAssumption` adds: what the accrual system calculates, and what is kept of a broken
body, is among the `Updates` of the store.

* `UsesStore`: `Spec => PgSpec`, the composition. It needs to know that a handler that looks up
  a row calls nothing else, and that a batch has stored orders and their users, hence the
  invariant of `ServiceCorrect`. `ServiceFunds` carries the store's theorems over.
* `ServiceCorrect`: rows keep their owners and malformed numbers have none (`RowsInv`), a
  lookup finds its row (`LookupsHaveRows`), snapshot and answers stay with their orders
  (`CycleOwned`), replies stay true (`TrueReplies`). The steps are first sorted by what they do
  to the rows (`Effects`), so that each conjunct is proved for nine effects, not for forty
  actions; `RowsStay` is what the service may rely on while the process lives.
* `TrueAnswers`, `ServiceTyped`: `Spec => []RepliesAreTrue` and `[]SvcTypeOK`.
* `ServiceIsLedger`: the whole service implements `Ledger`, by `UsesStore` and `StoreIsLedger`.
* `SettlesInTime`, `AlwaysSettledAsCalculated`, `OrdersOnlyForward`: if `InTime`, then
  `Spec => []SettledAsCalculated` and `OnlyForward`. The batch writes rows without a look at
  their status, so the argument is about who may write: `OneWriter` (while a cycle polls, and
  while its batch is written, no other transaction holds a row of orders) makes the
  snapshot as good at the COMMIT as it was when it was read (`SnapFresh`); rows, uncommitted
  rows, answers and the batch all say what the accrual system has come to.
* `PointsConserved`: if `InTime`, then `Spec => []Conserved`, for users who have recorded no sum
  below zero. To `BooksInv` and `SnapFresh` it adds
  `UnpaidInv`: an order that is not final, in the table or in the snapshot, has no accrual.
  Then what a batch writes for an order is what it adds to its accrual, and what
  it adds to the balance (`BatchPays`) is the difference the tables need.

For `Listings`, from `BooksInv` and what the client has seen (`Seen`: it is still in the tables,
and the balance has not fallen behind it):

* `SpentListed`, `PaidHeld`, `StaysInList`, `ReadersSeeLedger`: one for each property of the run.

From `NumberAssumption` (the limits of the integer types are natural numbers, the length of a
text is bounded by one):

* `CheckIsTheRule`: `Spec => []CheckIsLuhn`. The recursion of the code goes down a number, the
  rule goes up a text. `HornerExists` and `LuhnExists` show that the two functions
  exist, by a smallest number for which one would not; `LuhnAlong` that after each digit
  both have added up the same.
* `TyposAreRefused`: `RetypedFails` and `SwappedFails` compare two such sums, equal before the
  place of the error and shifted by the same amount after it.
* `NumbersAreKept`: `ParseFormat` and `FormatParse`, strconv there and back.

`AccountsAssumption` and `LifeAssumption` say no more than that the bounds are numbers and that
names, requests and absent rows are told apart.

* `AccountsCorrect`: `user_id`s are unique and not above the sequence, every accepted token and
  every stored order goes back to a row of this start, unless a configured KEY has
  outlived the tables. From it `AccountsTyped`, `TokensNameUsers`, `OnePassword`, `OrdersOfLogin`,
  `TrueCodes` and `NeverRefused`, one for each property of the run.
* `HooksInOrder`: which hook has run when pool, server and loop are in which state. From it
  `LifeTyped`, `PoolThereForAll` and `CutsNothingOff`.

From `PoolAssumption` (at least one worker and one order):

* `PoolCorrect`: `Spec => [](TypeOK /\ PoolInv)`. `PoolInv` says that an order is in one place
  (`Apart`), that none disappears unless the context is cancelled (`Somewhere`) and that
  the stages end one after the other (`EndsInOrder`).
* `PoolTyped`, `LeavesNothingBehind`, `NoResultLost`: its consequences.
* `PoolIsCycle`: `Spec => ImplementsCycle`. The orders being asked about are the jobs of the
  workers in a request (`Asking`), those asked are in workers that have an answer, in `results`
  or collected (`Asked`); `RoomToAsk` counts the former by a surjection from the workers.

Only model-checked: the liveness properties (`EverySettled`, `StopReturns`,
`CycleReturns`, `StartEnds`, `StopEnds`). They need fairness and ENABLED, for which the proof
system has no rules here. So is `OnlyForward` without `InTime` (`GophermartLive`): the
theorems assume it.

## 7. Assumptions and what is left out

* One process with one loop uses the database, as docker-compose.yaml deploys it.
* One lost COMMIT is in flight at a time (`LoseCommit`).
* The accrual system moves forward: a final status is final, and an accrual comes with
  `PROCESSED`. Its accruals are not negative.
* RateLimit is at least 1: with 0 no worker would take a job.
* No row is deleted while the process lives; the code has no DELETE.
* Retry-After, PollInterval and all timeouts have no measure in the models.
* Tokens do not expire in the model; a token that has expired is a token nobody uses.
* Requests of another content type are refused before anything is read, and left out; so
  are bodies that are not JSON.
* Times of rows, the order of lists, formatting, compression, signatures, logging are left
  out: no property is about them.

### Not modelled

* The middleware (compression, request logs, signatures): transformations of bytes without
  state that one request shares with another.
* Configuration and logging, but for the key of the tokens: read once, or output only.
* What a migration that fails half way leaves behind: the process ends, no other code
  runs on it.

## 8. Plan

Done: the modules of section 2 with their runs, and the theorems of section 6.
