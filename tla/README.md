# StarKillerBench in TLA+

This directory specifies StarKillerBench, a hotel-booking system of small Go
services that talk gRPC, with the pipeline that builds it. It contains the TLA+
modules, the TLC configurations that check them on small instances, and the
theorems that TLAPS proves for every instance. Paths below are relative to `src/`.

1. [The system](#the-system): components, state, interactions, what is hard
2. [The modules](#the-modules): how state and actions correspond to the code
3. [The runs](#the-runs): what each shows, bounds, fairness
4. [The proofs](#the-proofs)
5. [Where the code and its documents disagree](#where-the-code-and-its-documents-disagree)
6. [Not modelled](#not-modelled)
7. [What to do next](#what-to-do-next)

## The system

Every service is one Go process (`services/<name>/cmd/<name>/main.go`) whose
handlers run concurrently, one goroutine per RPC. State is a few maps under one
mutex; `booking` and `inventory` keep it in Postgres instead when `PG_DSN` is
set, and then several processes may share it.

| component | state | operations that change it | correct when |
|---|---|---|---|
| `inventory` | `stock[(hotel, room_type, date)] = {total, sold, held}`; `holds[hold_id] = {key, quantity, status}` | SetStock, Hold, Commit, Release, ReturnStock | counters equal the holds; no oversell; a hold is consumed once; int32 never wraps |
| `payment` | `auths[auth_id] = {amount, refunded, status, chaosMode}` | Authorize, Capture, Void, Refund | refunds never exceed the capture; statuses only move forward; chaos tokens fail what they name |
| `booking` | bookings by id and by idempotency key; one mutex per key and process | CreateBooking (saga) | one booking per key; a booking is backed by a sold room and a captured payment; a failed saga leaves nothing; nobody waits for ever |
| `cancellation` | none | Cancel (Refund, then ReturnStock) | a room is returned at most once per booking and never while its booking is paid for |
| `ads` | campaigns with a remaining budget | SetCampaign, SelectSponsored (second-price auction) | budgets never negative; nobody pays more than the bid |
| `user` | per user: preferences and loyalty points, int64 | CreateUser, UpdatePreferences, AccrueOnBooking | no accrual is lost; the balance is that of some order of the accruals |
| `auth` | accounts, the counter of ids, refresh sessions; access tokens are signed and not stored | Register, Login, Refresh, Logout | access ends within a token's lifetime of its session; a token names the account that logged in |
| `review` | reviews per hotel | PostReview | pages partition the list; the mean is of the list |
| `geo`, `profile`, `pricing` | coordinates; metadata; rate plans, each a table under one mutex | UpsertHotel, UpsertProfile, SetRatePlan | Quote follows its formula, for the nights of the stay |
| `search` | none | Search (geo, then profile and pricing per hotel) | right about every hotel nobody touched meanwhile; cheapest first |
| `admin` | none | UpsertHotel (geo, then profile), SetInventory, SetRatePlan, SetCampaign | who has a profile has a place |
| `notification` | none | renders and logs | - |
| the 14 mains | two servers, the RPCs in flight, an error channel in two of them | Serve, signal.Notify, signal, stop of both servers, exit | a SIGTERM that main has asked for cuts no RPC off, and every one ends the process |
| `framework/pipeline.py` | `state.yaml`: step -> passed/failed | runs steps with up to MAX_ATTEMPTS attempts | what the file calls passed has passed; a passed step is not run again; a run ends |

```
admin --SetStock--> inventory <--Hold, Commit, Release-- booking --Authorize,
                        ^                                 ^  |     Capture, Void,
                        |                                 |  |     Refund
                   ReturnStock                     GetBooking|
                        |                                 |  v
                        +---------- cancellation ---------+ payment
                                         |                    ^
                                         +------ Refund ------+

admin --UpsertHotel--> geo <--Nearby-------+
   |---UpsertProfile-> profile <-GetProfile-+- search
   +---SetRatePlan---> pricing <---Quote----+
```

`admin` also forwards SetCampaign to `ads`. `user`, `auth`, `review` and
`notification` are called by no other service and call none.

What is hard here: two calls of one idempotency key, in one process (where a
mutex made on demand serializes them) or in two (where only the UNIQUE
constraint of Postgres does); an RPC that was carried out and whose answer is
lost; a caller whose context ends in the middle of a saga whose compensations
use that context; a process that dies between two RPCs; an in-memory upstream
that restarts and forgets ids it gave out; Postgres transactions of several
statements that interleave; `ReturnStock`, which names a room type and not a
hold, so that one wrong call gives away somebody else's room; a search that reads three
services one after the other while an administrator writes them; access tokens
that outlive sessions and processes; a state file that is truncated before it is
filled; 14 mains that start two servers, ask for signals and
stop the servers, each in its own order; 32-bit and
64-bit arithmetic.
`PROJECT.json` lists these hazards one by one, each at its line.

## The modules

| module | models | extends or instantiates |
|---|---|---|
| `Inventory` | `inventory/internal/{server,store}`, in-memory backend | |
| `InventoryPG` | `inventory/internal/store/pg.go` and its schema | implements `Inventory` |
| `Payment` | `payment/internal/server` | |
| `IdempotentCreate` | what `booking` promises about one key (abstract) | |
| `Booking` | `booking/internal/{server,store}`, both stores | composes `Inventory`, `Payment`; implements `IdempotentCreate` |
| `Cancellation` | `cancellation/internal/server` and `booking.GetBooking` | composes `Booking` |
| `Ads` | `ads/internal/server` | |
| `User` | `user/internal/server` | |
| `Auth` | `auth/internal/server` | |
| `Review` | `review/internal/server` | |
| `Geo`, `Profile`, `Pricing` | the three `internal/server` packages, a table each | |
| `Catalog` | `admin/internal/server` and `search/internal/server` | composes `Geo`, `Profile`, `Pricing` |
| `ServiceMain` | `cmd/*/main.go` of the 14 services | |
| `Pipeline` | `framework/pipeline.py` | |
| `InventoryProofs`, `InventoryPGProofs`, `BookingProofs`, `CancellationProofs`, `CatalogProofs`, `ServiceMainProofs`, `PipelineProofs` | theorems | extend their component; those of a composition instantiate those of its parts |
| `ServicesProofs` | theorems about the services that stand alone | extends `MCServices`, and `CatalogProofs` for its lemmas on induction and folds |
| `MCInventory`, `MCInventoryPG`, `MCBooking`, `MCCancellation`, `MCServiceMain`, `MCPipeline` | small instances for TLC | extend their component |
| `MCServices` | one instance of each of the other services | `Payment`, `User`, `Auth`, `Catalog`, `Ads`, `Review` |

The record sets named after messages (`HoldRequest`, `NearbyRequest`, ...) stand
for the generated types of `api/v1`: the fields the handlers read, an unset field
being `""` or `0`. The disjuncts of each `Next` are the methods the generated
dispatch offers, and `Rpc` in `Booking`, `Cancellation` and `Catalog` is a call
through a generated client stub.

**Inventory.** `stock[k]` is the `stockRecord` of a key and `listed` says whether
the map has one; `holds[h]` is the `holdRecord` of an id, `"absent"` until
`newHoldID` returns it. One action per RPC; the server's argument checks and
the store's checks together are its guard (`CanHold`, `CanCommit`, ...), which
Booking also uses to know when an RPC is refused. A refused RPC changes nothing.
Quantities range over all of int32, negatives too, and `Wrap` is int32
arithmetic at width `MaxInt`. `Restart` is a process that dies: the maps start
empty, the ids it gave out are `"lost"`.

**InventoryPG.** A transaction `tx[t]` is at a statement. `SELECT ... FOR UPDATE`
and `UPDATE` take a row lock and wait for it; the writes become visible in
`CommitTx`, and because its rows are locked until then they can be computed
there (that a transaction's two UPDATEs take effect together is Postgres' promise and not
a result of the model). A transaction may be rolled back before each statement (`Rollback`:
cancelled context, broken connection, crash). A check that fails ends it.
`RowAllowed` is the schema: INTEGER range and CHECK constraints.

**Payment.** `Authorize` always mints a new authorization. `Capture` and `Void`
answer success again when repeated and change nothing then. `tok_slow_<ms>`
only delays, before the lock is taken, so it is an ordinary token.

**Booking.** A member of `Call` is one call of `CreateBooking`; `pc` is its place
in the handler: `lockFor` and `lock` (the mutex of the key, made on demand),
`lookup`, `hold`, `authorize`, `capture`, `commit`, `persist`, and the
compensations `void`, `release`, `refund`. Every way out runs the deferred
unlock (`Return`). `Rpc` is one RPC: served and answered; served with the answer
lost; or not served, because the server refuses it, the context has ended or the
call is lost. Ids are random in the code and named by the call here.
`Faults` says what else may go wrong in an instance. `Store` and `StoreOf` say
which process uses which store; `Postgres` whether it is durable and can fail.
Each process has its own `keyLock`. `Restock` is the administrator who lists a
room type again; it happens only after the inventory forgot the stock.

**Cancellation.** A member of `Cancel` is one call; it has no state and no
compensation. A Cancel whose process or context ends is one whose next RPC is
lost. The bookings, the sagas still running, the stock and the payments are
those of `Booking`.

**Ads.** `campaigns[n]` is the campaign whose id is `camp-n`: the code breaks ties
between bids by comparing ids as strings, which up to nine campaigns is the order
of n. `Auction` is the loop over the ranked bidders as a fold, with the price
of the code: the next bid of the ranking, whether or not that bidder
can afford anything. `Ranked` is what `sort.Slice` leaves: the order is total, so
there is one such sequence. `SecondPrice` says what comes out of it without a loop.

**User.** `AccrueOnBooking` reads, adds and writes back under the mutex; a call
is a sequence of steps (`LockMu`, `ReadPoints`, `WritePoints`) so that the mutex
has something to protect. `AddPoints` is int64 addition at width `MaxPoints`, and
`amount \div 100` is the division of Go, because a non-positive amount is refused
before.

**Auth.** One mutex makes each RPC one step. A minted token is kept in `minted`
with the session and account it was minted for, which the code does not
store: `VerifyToken` reads only `sub` and `exp` (`Verified`,
`VerifyTokenResponse`). The signing key comes from the environment, so
`AuthRestart` empties the tables, begins the ids again at 1 and leaves the tokens
valid. Hashes, signatures and random strings are taken to be perfect.

**Review.** `Start` and `End` are the int32 expressions of `ListReviews`,
`SlicePanics` the slice bounds Go refuses; `PageOf` says without the
arithmetic what a page is. `GetAggregate` keeps count and sum apart: the code
divides them in floating point.

**Catalog.** `admin[a]` and `search` are calls, one RPC a step. An RPC is served;
refused; lost before it is carried out; or carried out with its answer lost
(`Rpc`). Any of the three services may restart. `touched` records the hotels
that were written to, or about which an RPC was lost, since the search began:
what a search owes is about the others. `Insert` is one round of the insertion
sort: a result is swapped forward past whatever costs more. Places are points
of a line. `Nights` in `Pricing` is what `Quote` counts: `checkOut.Sub(checkIn)` is a
`time.Duration` and stops at the longest one, `MaxNights` days. `Fits` says of a hotel
that pricing can count the nights and an int64 hold the prices.

**ServiceMain.** The 14 mains are one machine with five parameters (`MainOf`):
whether main asks for signals before or after it starts its servers, what an error of `Serve` does, what main does when the error reaches it, which
server is stopped first, and whether `Stop` follows a `GracefulStop` that takes
10 s. The model begins when the goroutines of the servers have been started; in all
services but payment main has yet to call `signal.Notify` then (`Notify`), and a
SIGTERM that comes before it kills the process, with the RPCs that have begun
(`Signal`). Failures before the servers start end the process at once and are left
out.

**Pipeline.** `Truncate` and `Fill` are the two halves of `Path.write_text`;
`Kill` may come between them as anywhere else. `DeleteLine` is the user's way to
have a step redone, and may come while a run goes on. `work` and
`recorded` remember what has been executed and written; the runner does not read
them.

Operators whose comment begins with *Mutant:* are slips of the kind a change of
the code could bring (a check dropped, a compensation forgotten, a lock kept).
No specification uses them; put in place of the definition that follows they
show that the properties notice.

## The runs

| run | instance | shows |
|---|---|---|
| `inventory` | 2 keys, 3 holds, 3-bit int32, restarts | counters equal holds, no wraparound, oversell only after the total is lowered, holds consumed once |
| `inventory_pg` | 1 key, 3 holds, 2 concurrent transactions | refinement of `Inventory`, schema never rejects, no transactions wait for each other, every transaction ends |
| `booking_abort` | 3 calls, 2 keys, 1 process, in-memory store, upstream restarts | a saga that is refused anywhere leaves nothing; one charge per key; sold rooms are booked rooms |
| `booking_faults` | 2 calls of one key, 2 processes, one Postgres, all seven faults | bookings are backed; `IdempotentCreate`; the calls of a key exclude each other within a process; no lock leaked; every call ends |
| `cancel_faults` | 2 bookings, 2 Cancels, lost calls and replies, crashes | paid rooms stay sold; cancelled once; a successful Cancel returns its room |
| `services`, payment | 2 authorizations, amounts in -4..3, restarts | refunds covered, statuses only move forward |
| `services`, user | 1 user, 3 accruals of 0, 99 and 250 cents, points up to 3, restarts | no accrual lost, each answer the balance of its moment in one order |
| `services`, auth | 2 accounts, 2 passwords, 2 sessions, 3 tokens of 2 ticks, restarts | access ends after its session; a token names who logged in |
| `services`, catalog | 3 hotels, 2 room types, 4 catalogs to start from, 2 administrator's calls, 1 search of one of three requests, 1 lost RPC or restart | a search is right about every hotel nobody touched, ranked and without repetition; profiles have places |
| `services`, ads | 4 campaigns, bids and budgets below, at and above each other, up to 3 slots | the loop is a second-price auction among those who can pay; budgets never negative |
| `services`, review | 3 hotels, 4 reviews, all pages and sizes of a 4-bit int32 | pages partition the list and stay what they are while others post |
| `service_main` | all 14 services, 2 RPCs in flight | a SIGTERM that main has asked for drains the RPCs, in payment any SIGTERM before the deadline; each ends the process |
| `pipeline` | 3 steps, the middle one an agent's, 3 attempts, 4 runs, 2 edits | the file is truthful; passed steps are not repeated; runs end |
| `booking_client_gone`, `booking_crash_retry`, `cancel_twice`, `review_pages` | smallest instances | violated on purpose, see below |

The services of the run `services` share no state and do not call each other, so
their product would show nothing more: the first state chooses the one that runs
(`service` in `MCServices`), and each is explored completely by itself.

**Why these bounds are enough.** Two stock keys show that a call touches only its
own; three holds of sizes 1 to 3 on counters that end at 3 make sums that fill
the range, different holds on one key, and every order of consuming them. With
two transactions each pair of statements meets on one stock row or one hold row;
the proofs of `Inventory` cover any number of keys and holds. Two
authorizations and amounts to 3 give partial refunds in up to three parts and
one that is too large. A saga interferes with another only through its key's
lock, its key's record and the room type: two calls per key give the race and
the retry, and the third call in `booking_abort` a second key or a second retry.
The amount is 1, or 0 for an invalid request: sagas move the whole amount.
`booking_abort` starts with one or with two rooms, so that calls also run out of
stock.
Four campaigns with three bids and two budgets give ties, a bidder in the middle
of the ranking who cannot pay, and campaigns that run dry.
Three accruals give two that race and one before or after, and a sum that wraps.
A token that lives two ticks of three can outlive its session and the process. A
lost RPC or restart hits every position of an upsert and of a search, whose four
catalogs hold an empty one, a room without a price, a hotel out of range and
whose price wraps at 4095, and three hotels priced in another order than their
names. The stays searched for are of 2 nights and, with a `MaxNights` of 3, of 5. With int32 ending at 7 and at most four reviews (memory ends long before
2^30 of them) products `(page-1)*page_size` wrap to negative starts, to starts
inside the list and to starts past it. Two RPCs in
flight leave one running when the other ends. Four runs let a pipeline be killed,
torn, edited and still completed.
`Permutations` is used where no liveness is checked.

**Bounds that are not in the code.** `HoldId`, `AuthId` and `Call` are finite
while the ids of the code do not run out: `IdsLeft` in `InventoryPG` keeps one id
for every Hold under way. `MaxInt` and `MaxInt32` stand for
2^31-1, `MaxAmount`, `MaxPoints` and `MaxInt64` for 2^63-1,
`MaxNights` for the 106751 days of the longest `time.Duration`. `MaxCampaigns`,
`MaxReviews` and `MaxTokens` bound what is created, `MaxTime` the clock,
`MaxLost` the RPCs and restarts that go wrong, `MaxRPCs` the RPCs in flight,
`MaxRuns` and `MaxEdits` the runs of the pipeline and the lines deleted.

**Deadlock** is checked for the reservation path (`inventory`, `inventory_pg`,
`booking_*`, `cancel_*`); in `Booking`, `AllDone` lets the finished system stutter.
The other instances really stop: the process of `ServiceMain` has ended, the
runs of `Pipeline` and the campaigns, reviews, tokens and accruals of
`MCServices` are used up.

**Fairness.** `Booking!Fairness` is weak fairness of each handler once its call
was made: a goroutine that can run does run, and gRPC ends each call, if need be
with an error. Nobody has to make a call, hang up, crash or restart. Go's mutexes
are starvation-free, but with finitely many calls weak fairness suffices.
`InventoryPG!FairSpec` is strong fairness of each transaction's next statement:
Postgres queues the waiters of a row lock, so a waiter is not passed by for ever.
`ServiceMain` assumes that main is scheduled, that time passes, and that handlers
return, except in `payment`, whose deadline makes that unnecessary. `Pipeline`
assumes that the commands of a step end and the runner goes on; nobody has to
start a run.

## The proofs

`InventoryProofs` proves for any set of keys, any finite set of hold ids and any
width of the integers (`InventoryAssumption`) that `Inventory!Spec` keeps
`TypeOK`, `HeldIsOpenHolds`, `SoldWasCommitted`, `NoWraparound`, and satisfies
`OversellOnlyByLowering` and `ConsumedOnce`.

* None of the safety properties is inductive alone. `IInv` adds `QtyOK` (a hold
  that is not absent and not lost has a positive quantity) and `CountersOK`
  (total, sold and sold+held lie in `0..MaxInt`, so `Wrap` is the identity
  where the handlers compute).
* The sum over holds is the cardinality of a set of units (`Units`), so that the
  proofs use facts about finite sets instead of induction. `UnitsFinite`,
  `UnitsOfHold` and `UnitsUpdate` say how it changes when one hold
  changes; `AvailableExact` says that `Available` is the subtraction over the
  integers.
* One lemma per action preserves `IInv` (`HoldInv`, `CommitInv`, ...); `NextInv`
  combines them, and each theorem ends in one temporal step.

The other modules instantiate these theorems: `InventoryPGProofs` with `Durable`
true, `BookingProofs` with rooms for keys and calls for holds.

### `InventoryPGProofs`

proves `TypeOK`, `SchemaNeverRejects`, `WaitsAreShort` and `ImplementsInventory` for any keys, holds,
open transactions and width of the integers (`InventoryPGAssumption`). What
makes a transaction of several statements look like one step is that its reads are
stable: `LockInv` says that a transaction between `SELECT ... FOR UPDATE` and its
commit has the row's lock and that what it read is still in the table
(`ReadIsStable`): the check it passed would pass again, and its hold is open with the
key and quantity it read. So at `CommitTx` the guard of the RPC of `Inventory`
holds in the state in which the writes become visible (`NextImplements`); every other
statement, and every rollback, is a stutter. `TypeOK` and the range of the
counters come through the refinement from `Inventory`'s own `IInv`, and with
them `UpdateAllowed`, so that the CHECK constraints are never what stops an RPC.

`WaitsAreShort` has an invariant of its own, `OwnerInv`: a transaction that owns a row
is at its `UPDATE` or its commit, and the stock row it owns is its key's. So whoever
waits while it is waited for is a consumer at its `UPDATE`, and the owner of the stock
row it waits for waits for nobody: with any number of transactions open, a chain of
waits has at most two links and no cycle.

### `BookingProofs`

is about any calls, processes, keys, stores and requests, and every set of faults
(`BookingAssumption`).

* *Locks* (`NoLockLeaked`, `OneSagaPerKeyAndProc`). Neither is inductive:
  `NoLockLeaked` says that a taken lock belongs to a running call, but not that a
  running call has its lock, without which its deferred unlock could free the lock
  of somebody else. `LockInv` adds that converse (`OwnsLock`) and the types of the
  variables the locks depend on. Most steps look alike to the locks: a call
  that has its lock goes on under it (`GoOn`) or answers and frees it (`Unlock`);
  `RpcGoesOn`, `StoreGoesOn` and `CallLock` assign each step of the handler to one of
  them.
* *Sagas* (`SagaInv`). `ProgressOK` says what each place of the handler can rely on:
  a call at `capture` has a hold that is open and an authorization that is not
  captured yet, a call at `persist` has its room and its money, unless the upstream
  has restarted and forgotten. `RecordsOK` ties hold and authorization to the request,
  `SlotOK` a stored booking to the call, key and store it came from. With `LockInv`,
  the types and `Inventory`'s `IInv` these are inductive together. `AuthorizeServed`,
  `HoldServed`, ... say what an RPC does to an upstream; `RpcEnds` is the
  three ways in which an RPC ends.
* `BookingBacked` needs one more fact, `Unrefunded`: the authorization of a
  stored booking has not been refunded. A call refunds only before it answers and a
  booking is stored by a call that answers in that step; no other call touches the
  authorization (`CallAlone`).
* `KeepsPromise`: the steps of the saga up to `persist` are stutters of
  `IdempotentCreate`, `persist` and `lookup` are its Create and its answer, a crash is
  the answer that is dropped. The theorem is about one Postgres behind any number of
  processes; with a store per process the promise is that of each process.

The second half of the module is about rooms and money. `SoldIsCommitted` holds under every fault: inventory's counter of sold rooms is the
number of its committed holds. The rest is about sagas nobody abandons (`Quiet`):
upstreams refuse and restart, but no call, answer or caller is lost. `Compensated`
says what is left to give back at each place of the handler, and that a call that is
done and has no booking has neither room nor money. From it follow
`NoPartialBooking`, `SoldIsBooked` (with `SoldIsCommitted`) and, for one process,
`OneChargePerKey`. Each hypothesis is needed, and each is a fact about the code:

| without it | what happens |
|---|---|
| no call, answer or caller is lost | a compensation is not sent, or is not answered for (run `booking_client_gone`) |
| no crash | Capture, crash, retry: charged twice (run `booking_crash_retry`) |
| no error of the store | it comes after Commit and compensates nothing |
| no request with `tok_refund_fail` | the refund is refused and the error ignored (`server.go:124`) |
| a store for each process | the process that loses the race of the INSERT keeps its room and its charge |
| one process (`OneChargePerKey` only) | two processes do not share a key lock, and charge for one key twice |

The run `booking_abort` is such an instance.

### `CancellationProofs`

instantiates `BookingProofs`, because a Cancel runs beside sagas that are not
finished. Its first lemmas say that a Cancel disturbs no saga's invariant: it
refunds only bookings that were given out (`LateRefund`, `LateReturn`).

* `CancelledOnce` holds under every fault. `RefundedOnce` is the strengthening: not
  the answer but the refund separates two Cancels of one booking, so it is about every
  Cancel past its refund.
* `PaidRoomsStaySold` and `CancelReturnsRoom` relate a counter to sets of bookings and
  Cancels. `SoldCovers` counts for each room type the committed holds that are paid for
  (not only the bookings: a saga at `persist` too, or a crash there that leaves a
  room nobody can cancel) and the Cancels between refund and return. A Cancel moves
  its booking from the first set to the second and out of it. They assume that
  inventory does not restart: an in-memory inventory that did sells the paid rooms
  again, for it has forgotten them.

### `CatalogProofs`

begins with what the other proofs need of data. The library's induction theorems take a
predicate as a parameter and cannot be used; `Induction` is the same fact about a
*set* of numbers, proved from the well-foundedness of `<`, and a proof applies it to
`{k \in Nat : ...}`. `FoldOverDefined` uses it to show that the recursion by which the
community modules define every fold has a solution over any finite set. After
that the `CHOOSE` in a fold can be unfolded one element at a time, and a second
induction says what it computes. `SumTakesAny` is the freedom of order in a sum,
`SortedExists` that a finite set with a total order can be listed in it.

* `ProfiledIsPlaced`, for any hotels, calls and faults. `AdminOK` is the
  strengthening: a call that is about to write a profile has placed its hotel, or geo
  has restarted since.
* `ResultsRanked`: one round of the insertion sort (`InsertDef`) puts a result
  where everything before costs no more and everything behind costs more, and
  `RankedList` carries this through the fold.
* `SearchSeesTheStable`. `SearchOK` says, at every place of a search, of every hotel
  nobody touched: it is still to come, or it is the one being looked at and `best` is the
  cheapest of the room types seen so far, or it has been dealt with and is among the
  results exactly if it can be booked, at its cheapest rate. The two sides of the
  property are two parts of the invariant, because a search can be wrong by leaving a
  hotel out and by listing it.
* `CatalogTypeOK` comes with the invariants of the two calls. Which hotels are listed,
  once and with the rate of one of their rooms, is proved of every stay and rate; that
  they are listed at their lowest price only where a Duration holds the stay and an
  int64 the totals (`Fits`); a longer stay is priced for `MaxNights` nights.

### `ServicesProofs`

*Payment*: `RefundsCovered`, `ChaosHonoured` and `MoneyMovesForward` for any set of
authorizations and any `MaxAmount`.

*User*: `UserTypeOK`, and that an accrual is alone from lock to unlock and what
it has read is still the balance when it writes (`AccrualsExclusive`, `ReadIsFresh`),
for any users and calls. `BalancesOK` says that each user has a `Ledger`: an order of the
accruals written so far in which every answer is the balance after it. A write
appends to the ledger of its user, a restart empties it; that its last balance is the
fold of `PointsLinearizable` is `FoldedBalance`.

*Auth*: `AuthTypeOK`, `AccessEnds` and `TokenNamesItsUser` for any accounts, tokens,
lifetimes and restarts. `TimeOK` adds that a token expires one lifetime after it was
minted and a session ended no earlier than its last token; `LiveOK` that a live
session's account is still there; `IdsOK` that no id was given out twice since the
last restart.

*Review*: `PagesStay` and `PagesPartition` for any width of int32. `PagesListed` is the
arithmetic: if the first index of a page fits, then its last one does too, or the page
is empty (`MaxReviews` is at most half of the range), so `ListReviews` returns `Shown`,
which has no int32 in it. `SumOfCuts` then adds up the pages. The sums of
`PagesPartition` are over a *set* of pages, so it has to be shown that no two pages
that show anything are equal; that is so because ids rise along a list (`PostsOK`).

*Ads*: `SecondPriceAuction`: the loop of `SelectSponsored` gives the slots, in order, the prices
and budgets of a definition without a loop, for any bids and budgets.
`RankedSorted` is the sorted slice, `FoldedAuction` the sequence of the answers after each
bidder, `FilledOK` the invariant of the loop: the winners so far are those who could pay
and before whom fewer than `slot_count` could. `DueIsPrice` says that the next bid of the
ranking is the highest below a bidder, `WinnersWin` that positions and the cardinalities of
`Winners` count the same bidders. That a winner pays once is what keeps a budget
at zero or above.

`ServicesTypeOK` combines the types of all six.

### `ServiceMainProofs`, `PipelineProofs`

`RPCsAreDrained` for each of the 14 mains and any number of RPCs. The invariant says
how far each server is stopped at each place of main (`StopsOK`), that the RPCs are
over once GracefulStop has returned (`DrainOK`), that an error in the channel of a
main that still waits came from a listener that failed (`ErrorOK`), and that a SIGTERM
nobody heard has killed the process, which cannot happen to a main that asks for
signals first (`SignalOK`). The window before `signal.Notify` is an exception the
property names (`MayCutOff`), because the code has it.

`FileTruthful`, `PassedNotRepeated` and `BuildsOnPassed` for any pipeline. `MemoryOK`
says that what the runner has in memory is truthful too, and `RecordedOK` that
recorded steps are in memory and file unless a write was torn.

### Not proved, only checked by TLC

* Liveness: `EveryCallEnds`, `EveryTxnEnds`, `TermEndsProcess`, `RunEnds`. TLAPS does
  not reason about fairness here.

Every invariant and every action property of a passing run is stated by a theorem; the
four above are the only properties that are not. What the proofs take for granted are the
named assumptions on the constants (`...Assumption`), which TLC evaluates on the
instances.

## Where the code and its documents disagree

| run | what the code does | what is written |
|---|---|---|
| `booking_client_gone` | compensations are sent on the caller's context: it ends during Authorize, which fails, and the Release is not sent; the room stays held | `services/booking/SPEC.yaml:3-4`: "On any failure along the chain it runs compensating actions"; `ARCHITECTURE.md:314`: "No partial booking under saga abort" |
| `booking_crash_retry` | nothing is stored before the end of the saga; a crash after Capture and a retry charge twice | `ARCHITECTURE.md:311`: "No double-charge under retried Authorize" |
| `cancel_twice` | a second Cancel is refused by `Refund` and fails | `FEATURES.md:213`: "Idempotent on `booking_id`" |
| `review_pages` | `(page-1)*page_size` wraps in int32: a page far past the end is another page's reviews, or a slice panic | `services/review/SPEC.yaml:46-48`: ListReviews "Returns one page of a hotel's reviews (page is 1-based)" |

Seen in the models, without a run of their own:

* Each booking process has its own key locks, so two processes both run the saga of
  one key and both charge; UNIQUE stops only the second insert
  (`services/booking/SPEC.yaml:8-9`: concurrent calls with one key "never both run
  the saga"). `OneSagaPerKeyAndProc` is what does hold.
* An error of the store after Commit compensates nothing
  (`services/booking/SPEC.yaml:2-4`: "On any failure along the chain it runs
  compensating actions").
* A Hold whose answer is lost stays held: CreateBooking returns without a `hold_id` to
  release (`booking/internal/server/server.go:101-103`), and inventory has no expiry of
  holds, which `FEATURES.md:172-175` plans. `BookingBacked` holds all the same.
* 13 of the 14 mains start their servers before they call `signal.Notify` (user
  `main.go:43` and `:58`, inventory `:56` and `:69`, booking `:78` and `:92`): a SIGTERM in
  between kills the process with the RPCs that have begun (`Signal`), against
  `FEATURES.md:249` ("**Graceful shutdown** on SIGTERM — drains in-flight RPCs, closes DB
  pools.") and `ARCHITECTURE.md:215`. `MayCutOff` names the exception; payment, which asks
  first, does not have it.
* `checkOut.Sub(checkIn)` stops at the longest Duration, about 292 years
  (`pricing/internal/server/server.go:101`): a longer stay is priced for 106751 nights,
  while `services/pricing/SPEC.yaml:18` says that "nights is the number of nights between
  check_in and check_out". `Nights` models it and `Fits` names the exception.
* An AccrueOnBooking that is repeated accrues twice, its request having nothing to
  recognise it by (`ARCHITECTURE.md:312`). `PointsLinearizable` counts it as one
  more accrual.
* Only `payment` gives a GracefulStop 10 s; `ARCHITECTURE.md:215` gives them to every
  service. `TermEndsProcess` assumes of the others that their handlers return.
* A runner killed while it writes leaves an empty state file, and the next run
  repeats every step (`framework/SPEC.md:3`). `PassedNotRepeated` excepts this.
* After a restart of auth the ids begin again, so an old token can name a new
  account until it expires; `AccessEnds` bounds how long.

That a Cancel whose second step fails leaves the room sold is stated in
`cancellation/SPEC.yaml` and in the code; `PaidRoomsStaySold` says the error is
always on that side. `inventory/internal/store/store.go:36-38` says that the
available count "never goes negative"; `SetStock` preserves
sold and held and may lower the total below them, so `OversellOnlyByLowering` states what does
hold: nothing else takes the count below zero.

## Not modelled

* `notification`: its one RPC renders a template and writes a log line; only its
  process is modelled (`ServiceMain`).
* The wire format, registration and descriptors of the generated gRPC code. Its
  messages, dispatch and stubs are in the models as described above.
* `frontend`: named in the documents, without code.
* Reads no property is about: `ListBookings`, `GetUser`, `LogImpression` and
  `LogClick` of ads. `SetCampaign` of admin forwards one call to ads, which
  makes the same checks.
* Floating point: haversine distances (the model's places are on a line) and the
  mean of the ratings (count and sum instead).
* Text: descriptions, amenities, currency codes, prompts and sandbox arguments of
  `framework/pipeline.py`. `memKey` of inventory joins hotel, room and date with
  `|` and `rateKey` of pricing hotel and room; both are taken to be injective, which they
  are as long as no id contains a `|`. The dates of `Quote` are day numbers.
* `newHoldID`, `newAuthID` and refresh tokens colliding (random bytes); the strength
  of hashes and signatures.
* What a main does before its servers start.

## What to do next

1. The rest of the safety side of `EveryTxnEnds` and `EveryCallEnds`, for any number of
   transactions and calls: a measure that every statement and every step of a call lowers.
2. `KeepsPromise` for a store per process: the promise then is that of each process.
3. `User` and `Auth` as implementations of services whose RPCs are single steps and that
   forget at a restart.
