# GastroPOS: TLA+ models, checks and proofs

GastroPOS is a multi-tenant point of sale for restaurants: a NestJS API over
PostgreSQL (through Prisma) with Redis as a cache, and an Electron/React desktop
client. This directory holds TLA+ models of the parts of the API where requests
meet and of the screens that work on them, the TLC runs that check them on small
instances, and proofs, checked by TLAPS, that hold for instances of any size.

Paths below are relative to the repository (`src/` here); `modules/` stands for
`apps/api/src/modules/`.

## 1. Inventory

| Component | State | Operations | Meets | Hard part | What makes it correct |
|---|---|---|---|---|---|
| Cash register (`modules/cash`) | `cash_sessions`, `cash_movements` | open, register movement, close, active session, Z report | charges write payments into its open session | check and write are separate statements; close sums, then writes | one open session, books of a closed session are its movements and stay so, Z reports account for every payment once |
| Table accounts (`modules/sales`) | `sales`, `sale_items`, `payments`, `invoices` | open, add, update and remove an item, charge, receipt, command | register, stock, dining room, fiscal profile | status read outside the transaction, totals aggregated under concurrency | totals are the sum of lines, paid once, closed accounts do not change |
| Dining room (`modules/operations`) | `dining_zones`, `dining_tables` | create, rename, move, set status, soft delete | accounts set OCCUPIED and FREE | status by hand against status by account; zone deleted in two statements | a table shows whether it has an account, and belongs to a zone; names and numbers are apart |
| Inventory (`modules/inventory`) | `inventory_balances`, `stock_movements`, `inventory_ingredients` | create, update, adjust, consume for a sale | charges consume, receipts add | absolute stock computed from an unlocked read; several rows locked in data order | the kardex explains the stock, no negative stock where it is not allowed |
| Purchases (`modules/purchases`) | `purchases`, `purchase_items` | create, receive, cancel | creates and fills inventory items | long transaction over many rows, status not read again | all lines or none, once, final status |
| Sessions (`modules/auth`) | `sessions`, `refresh_tokens` | login, staff login by PIN, refresh, logout, hourly cleanup | every guard, the client's API layer | rotation and reuse detection under retries | a revoked session stays so, one live token per family |
| Tenant access (`common/access`, guards) | Redis entries for status and features | read through, write on change | platform administration | stale refill after a change, cache down | a suspended tenant is refused within the time to live |
| Platform (`modules/platform`) | `tenants`, plans, overrides | create tenant and branch, status, plan, features | tenant access | several writes and a cache | effective features follow plan and overrides |
| Fiscal profile (`modules/fiscal`) | `fiscal_profiles`, provider config | upsert, readiness | invoices drafted by a charge | readiness carried over, provider left out of an update | what a test found belongs to the provider that is stored |
| Employees (`modules/employees`, `users`) | `users` | create, update, PIN, remove | staff login | PIN compared, then stored | one employee per PIN in a branch |
| Catalog (`modules/catalog`) | products, recipes, categories | create, update, remove | charges read recipes | recipe replaced while a charge reads it | a recipe is seen whole |
| Customers, suppliers | single rows | create, update, remove | charges upsert customers | unique indexes | - |
| Reports | none | read | - | - | - |
| Tenant isolation (`common/tenant-context`) | async context | scope every query | all repositories | an operation the extension does not cover | no row of another tenant |
| Audit (`modules/audit`) | `audit_logs` | append, errors swallowed | all services, after commit | a crash loses the entry | at most one entry per commit |
| Units, money, dates | none | pure functions | inventory, reports | rounding, zero, day boundary | agree with their definition |
| Desktop API client (`api/index.ts`, `auth.store.ts`) | tokens, shared refresh | call, refresh on 401, login, logout, reload | sessions | a refresh shared by calls, lost or late answers | no call of its own looks like a theft |
| Desktop floor (`useDiningRoom.ts`, `FloorWorkspace.tsx`) | query cache of the zones | fetch, patch by hand after every answer | dining room API, accounts | an answer crosses a fetch | settles on what is stored |
| Desktop account editing (`useTableAccount.ts`, `PosWorkspace.tsx`) | query cache of the account, dialogs | optimistic edit, rollback, refetch, open, charge | accounts API, requests overlap | rollback to a stale snapshot, a fetch between two edits | settles on the server's account, with what was asked for |
| Desktop back office (`pages`, `*Workspace.tsx`, `*FormDialog.tsx`) | lists, one dialog and its form | open, fill, submit, cancel, delete, toggle | the API of each kind of record | forms reset by fetches, units, late answers | what is stored is what was on the form |
| Other desktop code, contracts, scripts, infrastructure | UI state, types | - | - | - | - |

`PROJECT.json` lists the same components with their sources, and under
`hazards` what is hard to test in them, each at its line.

How a charge ties four of them together: `chargeAccount` reads the sale, then in
one transaction reads it again, finds an open cash session of the branch,
consumes the stock of every item, inserts the payment, a cash movement if it was
paid in cash and an invoice if one was asked for, closes the sale if it is still
a draft and frees the table. Each module below contains the part of this handler
that touches its own state; the refusals that come from another part are a
nondeterministic choice (`ChargeRefused`).

## 2. How requests are modelled

No transaction of the API asks for an isolation level and none locks rows with a
SELECT, so PostgreSQL runs all of them at READ COMMITTED. From this follow the
rules that all modules share:

- A request handler is a *worker*; `req[w]` holds the operation it serves, its
  step and its local variables. A client retry or a second cashier is another
  worker.
- Each read whose result the handler uses later is a step of its own and sees
  what is committed by then. Several reads with nothing in between that could
  change their meaning are one step.
- The writes of a transaction appear together when it commits. A row that was
  updated stays locked until then, so another update of it waits. Where a
  handler locks one row (`TableAccounts`) the wait is a guard; where it locks
  several (`StockLedger`) every write is a step, and a circle of waiting
  transactions is broken by failing one of them, as PostgreSQL does.
- A transaction that fails leaves no trace but the answer.
- A refused request that changes nothing is an action that leaves all variables
  unchanged (`OpenRejected`, `AccountRejected`, ...).
- *History variables* (`raced`, `contended`, `openRaced`, `saleRaced`,
  `handSet`, `everAllowed`) record which rows two requests worked on at the same
  time. No action reads them. They let a property say exactly what the code
  guarantees: unconditionally where the code is safe, and "unless two requests
  overlapped" where it relies on requests not meeting. Where a document or a
  message of the code promises more than that, a run shows the counterexample.

- On the desktop a *fetch* is asked for, reads on the server and arrives later;
  `invalidateQueries` asks anew and drops what is under way. A *mutation* is
  sent, served and answered in three steps, and its answer may be lost. A page
  that is left forgets its dialogs and which requests it waited for; the cache
  and the requests go on.

Data is abstract: ids, products and tables are model values, amounts are small
integers, names, notes, customers and times are left out.

## 3. Modules

**`CashRegister`** - one branch's register. `status`, `booked`, `closing` are the
session row and the signed sum of its movements; `saleCash` and `paid` say how
much of a sale was booked as cash movements and paid per method; `sale` is the
part of the sale row that the register reads. Actions: `OpenCheck`/`OpenCommit`
(the check and the insert are two transactions), `RegisterCheck`/
`RegisterCommit`, `CloseCheck`/`CloseList`/`CloseCommit`, and the charge as
`ChargeCheck`/`ChargeFind`/`ChargeCommit` with its refusals.

**`CashDrawer`** - what a register promises, in a page: a session is opened, moved
and closed in single steps, closing records the total and is final. A session
may drop out of the promise. `CashRegister` implements it under the mapping
`Drawer`, where exactly the sessions whose close overlapped another request
drop out.

**`TableAccounts`** - tables, sales, lines, payments and invoices of a branch.
Opening is check and commit; an item request is a check outside the transaction
(`AddCheck`, `EditCheck`), a look for the line (`AddFindExisting`,
`AddFindNone`), `LineWrite` (which locks the line and adds up the committed
lines) and `LineCommit`, or `LineGone` when the line was deleted meanwhile.
`updateItem` with quantity 0 and `removeItem` are the same edit. Charging is
`ChargeCheck` (fixes the amount), `ChargeBegin` (reads the sale again) and
`ChargeCommit`. `SetTableStatus` and `DeleteTable` come from the dining room.

**`StockLedger`** - balances, the kardex and purchases. A consumption reads every
balance it needs (`ConsumeRead`; an inactive ingredient of a recipe is skipped,
an inactive linked item refuses the charge), checks them all and writes them one
by one (`Write`). An adjustment reads and checks in one step. A receipt takes
for each line the locks of the generic category (only to create an item) and of
the product, reads the balance and writes it. `Commit` makes the moves visible.

**`TenantAccess`**, **`Sessions`**, **`ApiClient`** - each extends the one before.
`TenantAccess` is one tenant: its row (`status`, `deleted`, `override`), the
entries of Redis (`cached`) and the gate each request is at. A guard reads the
cache, then the database, then fills the cache; the platform commits and then
writes or drops the entry; every Redis command may fail, and entries expire.
`Sessions` adds sessions and their refresh tokens: login in the scopes TENANT,
POS and PLATFORM, a refresh as the look at the token and the rotation that
locks the token's row and then the session's, the revocation for reuse, logout,
the hourly job and the end of all sessions of a deleted tenant - which lock the
session first, so two of them may wait for each other. `ApiClient` is one
desktop window against it: a call that is answered 401 starts a refresh or joins
the one under way (`flight`), answers are lost, the window is reloaded.

**`Records`**, **`EntryForms`**, **`BackOffice`** - the records a manager edits:
categories, products with recipes, customers, suppliers, employees, inventory
items, purchases and the fiscal profile. `Records` has what the API does with a
request of each kind: what it reads and refuses first, and what it writes after
others may have come between; the unique indexes decide at the write. One field
stands for all that are handled alike. `EntryForms` has the dialogs: the values
a form starts with, what an edit makes of it (and of what the dialog derives: the
verification digit of a NIT, the units of an ingredient), when it is valid, and the
payload. The provider of a fiscal profile is optional in the API: without it an
update leaves the provider and its status as they were, a new profile has none, and
there is nothing to test. `BackOffice` is the page: the list as last fetched, one dialog on a copy
of a row, requests under way, fetches that reset open forms, and other managers.

**`DiningRoom`**, **`FloorEditor`**, **`PosScreen`** - `DiningRoom` has the zones and
tables in the API. Here every statement commits by itself, so a request is a
list of statements (`todo`) - find, look for the zone, look for the name, write,
read again, remove the tables - and others come between any two. `FloorEditor`
is the list of zones in the query cache (`shown`), its fetch and whether an error is
shown in its place (`fetch.failed`, until a fetch or a patch succeeds), the editor of the
floor and the answers that patch the list by hand (`WithTable`, `ReplaceTable`,
`Without`). `PosScreen` adds the account of one table: what is stored, what is on
the screen (`account`), its fetch (`pull`) and the calls under way, each with the
snapshot it would put back. An item that is added or changed is on the screen at
once; a refusal puts the snapshot back; every answer fetches again; opening and
charging wait for these fetches. The table is fetched through the floor's list, so
the three belong together: charging an account changes what the floor shows.
The API serves the calls of `PosScreen` in one step each, because their overlap
inside the server is the subject of `TableAccounts`.

The `MC*` modules extend these with model values, small sets and symmetry.

## 4. Runs

| Run | Instance | States | Question |
|---|---|---|---|
| `cash` | 2 workers, 2 sessions, 2 sales, cash and card | 2.9 M | do the books balance, do the Z reports add up, is a closed session final, is `CashDrawer` implemented |
| `cash_two_open` | same | stops at the violation | "This branch already has an open cash session." |
| `accounts` | 2 workers, 1 table, 2 sales, 2 products, 2 lines | 2.3 M | totals, payments, table status, one draft, one line per product, closed accounts |
| `accounts_answered` | 3 workers, 1 line, 2 products, fairness | 93 k | is every request answered |
| `accounts_closed_edited` | 2 workers | violation | "Closed sales are immutable except via cancellation." |
| `accounts_charged_twice` | 2 workers | violation | "This table account is already closed." |
| `stock` | 2 workers, 2 items, 1 purchase of 3 lines | 1.5 M | does the kardex explain the stock, never negative, receipts atomic, once and final |
| `stock_answered` | 3 workers, 2 items, opposite orders, fairness | 119 k | does every request end although transactions that write the same balances deadlock |
| `stock_received_twice` | 2 workers, 1 item | violation | "does not receive a purchase that is no longer in draft" |
| `access` | 2 workers, 2 calls, 2 sessions, 3 tokens, 3 statuses | 2.1 M | does the cache follow the tenant, do ended sessions issue tokens, one live token, is the client ever taken for a thief |
| `editing` | 2 workers, 3 ids, each kind of record in turn | 2.3 M | are PINs unique, is what the fiscal profile says of its provider true, is what is stored what was entered |
| `floor` | 2 workers and 2 calls, 2 zones, 2 tables, 2 sales, 2 products | 0.9 M | does the room stay in order, do the screens settle on what is stored |

Why these bounds. Every hazard listed is an overlap of two requests, so two
workers reach it; three are used where somebody must wait behind a pair. Two
sessions or two sales are enough for a request to act on the wrong one, two
lines for an aggregate to miss one, two items for opposite lock orders, and a
purchase with two lines on one item and one on another for a partial receipt and
for a transaction that reads its own write. The counters that would grow without
end are cut in guards: `MaxBooked` (money in a drawer, by manual movements,
which must stay within 0 .. MaxBooked; the code has no such check),
`MaxQuantity` (quantities that adds sum up to in `TableAccounts`, and that a waiter
types in `PosScreen`), `MaxMovements` (kardex length
when a request starts), `Edited` and `HandStatuses` (what is changed by hand),
and the finite sets of ids. A request starts only if the ids its rows will need
are left, so no run ends in a deadlock of the bound and deadlock is checked in
all of them.

In `access`, `editing` and `floor` the full product of all that may happen is out
of reach, so `MCInit` spends the bounds on one thing at a time: it starts with
some of the counters (`arrivals`, `opens`, `used`, ...) used up. In `access` that is
the tenant with its guards, a client that logs in twice, one that outlives its
tokens, one whose tenant is deleted; in `editing` one dialog among other
managers, or two dialogs one after the other; in `floor` a manager with a failure
of the database or the network, a manager and one request of another, others by
themselves, a waiter who changes page once, one with a failure, and one with
another waiter or manager. The waiter finds a free table or an open account.
These three runs end when the counters are used up, so deadlock is not checked.
An entry of the cache may expire between any two steps; the clock of the tokens
ticks up to `MaxNow`, and a refresh token lives two ticks.

Each property has a mutant: an operator beside the one it mutates, marked
`Mutant:`, with a plausible mistake in that handler, which makes the property
fail.

**Fairness.** Safety runs assume none. `FairSpec` adds, for each worker, weak
fairness of `Serve(w)` - an accepted request is carried on by the Node process;
the *arrival* of requests is never fair - and strong fairness of the steps that
wait for a row lock, because PostgreSQL queues the transactions that wait for a
row and grants it in that order, so a waiter is not overtaken for ever. A crash
of the API process is not modelled: PostgreSQL then rolls back the open
transactions, which is the same as the refusals that are modelled, and nothing
is recovered later.

### What the runs found

1. Two open sessions (`cash.service.ts:60`): check and insert are two
   transactions without a unique index.
2. A second charge of an account (`table-accounts.repository.ts:457`): the count
   of the guarded update is not used, so payment, cash movement, consumption and
   invoice are written twice.
3. Lines of a closed sale change (`table-accounts.service.ts:99`, 135, 166).
4. A purchase is booked twice (`purchase.repository.ts:179`).

The passing runs fix how far each of these reaches: `PaymentsCloseAccounts`,
`ZReportsComplete`, `KardexClosed`, `NeverNegative` and `ReceivingAtomic` hold
whatever overlaps. So do the last three runs, for what they found no document to
disagree with:

- `CacheFollowsTenant`: a stale entry needs a failed Redis command, or a guard
  that refills while the platform changes the tenant; it dies with its time to
  live.
- `ReuseIsAReplay` and `OneLiveToken`: the client never loses its session by its
  own concurrency, only by the loss of a refresh's answer; a refresh that was
  under way when its session ended leaves a token behind that nothing accepts
  (`EndedSessionsIssueNothing`).
- `PinsUnique`: a PIN may be shared after all, when two requests overlap, or when
  one of the two employees was suspended or in another branch as the other
  chose it and came back. The comment at `employee.service.ts:174` speaks of the
  moment a PIN is set and does not promise more.
- `ReadyAsTested`: a provider is shown as tested, or in error, for what it is now,
  because the status is written with it (`fiscal.repository.ts:93`); only a test that
  overlaps an update may store a verdict on the provider before it. Readiness is
  weaker: an update carries it over (`fiscal.service.ts:124`), so a profile may lose
  its resolution, or get another provider, and stay ready until the next test. No
  document promises the contrary, and the property only says that a profile is not
  ready with a provider in error or without one.
- `StoredAsEntered`: an optional text that is cleared on a form stays as it was,
  because a blank is sent as undefined (`ProductsPage.tsx:33`,
  `CustomerWorkspace.tsx:37`).
- `RoomInOrder`: tables without a zone need a failure between the two statements
  of a removal, or a table that is put into the zone at that moment; two zones of
  one name, or tables of one number, need two overlapping requests for it.
- `ScreenSettles`: the list of zones is wrong until the next fetch when two answers
  cross, or an answer crosses a fetch, because answers are patched in by hand and
  nothing is fetched after them. The account is right whenever all is quiet, because
  every answer fetches again; the quantities are those asked for unless calls on
  one line were served in another order or refused.

## 5. Proofs

`CashRegister_proofs` proves, for any number of workers, sessions, sales,
methods and amounts, from the named assumptions of `CashRegister` alone:

- `TypeCorrect` - the type invariant, with the shape of a request at each step;
- `CloseBalancesHolds` and `ClosedSessionFrozenHolds` - the books of a session
  closed without an overlap are the sum of its movements and never change, and
  no closed session is reopened;
- `OneOpenSessionHolds` - one open session, as long as no two opens overlapped;
- `CashDrawerImplemented` - the refinement of `CashDrawer`.

`CloseBalances` is not inductive: a close that has added up the movements and
not written yet must still have the right sum. The inductive invariant `IInv`
adds that requests only work on sessions that exist (`SessionsExist`), that a
close in flight is the only request on its session unless the session is marked
raced (`CloseAlone`), that the sum it read is therefore still current
(`CloseCurrent`), and that nobody is left working on a session that was closed
without an overlap (`ClosedQuiet`), which is also what keeps it frozen.
`OneOpenSession` needs its own strengthening `OpenAlone`: without an overlap at
most one open is in flight, and while it is there is no open session. The refinement
splits each step into those that mark a session raced (it drops out), those that
book money (`BooksMoney`) and the rest, which are stutters, opens and closes.

`TableAccounts_proofs` proves every safety property that the run `accounts`
checks, for any number of workers, tables, sales, products, lines and prices:
`TypeCorrect`, `TotalsAreExact`, `AccountsArePaidOnce`, `PaymentsClose`,
`OneDraft`, `TablesShowAccounts`, `ProductsOnOneLine` and `ClosedStaysFrozen`. It
assumes of the constants what `TableAccounts` names; `LinesAssumption` (the ids
of rows form a finite set) is what makes a sum of lines a number. The invariant
has five parts, each proved inductive with the help of the ones before it:

- `Types` - the types, the fields that a request has at each of its steps
  (`RequestShape`), and that requests only work on sales that exist
  (`SalesExist`).
- `Overlaps` - two requests on one sale have marked it contended (`SaleAlone`);
  the line a request is about to write is deleted or holds its product on its
  sale (`LineOwned`), and two requests that write one line mean the same sale
  and product (`LinesApart`). Hence a commit moves no line from one sale to
  another and disturbs the total of its own sale only. `TotalsExact` is not
  inductive without `TotalCurrent`: the total that an uncontended edit has
  computed and not yet written is the one its line makes.
- `Charges` - what a charge has read (`ChargeCurrent`: nothing was paid and,
  uncontended, the account is open and the amount is its total), and that nobody
  is left on an account that was closed without an overlap (`ClosedQuiet`). From
  these follow `PaymentsCloseAccounts`, `PaidOnce` and, with `LineOwned`,
  `ClosedAccountFrozen`.
- `Places` - while an uncontended open is in flight its table has no account
  (`OpenAlone`), which gives `OneDraftPerTable`; with `ChargeCurrent` the account
  that an uncontended charge closes is then the only one of the table it frees,
  which gives `TableShowsAccount`.
- `SingleLines` - the line that an uncontended edit writes is the only one of
  its product (`ProductApart`), which gives `OneLinePerProduct`.

`SumTheorems` has the facts about sums these proofs rest on. `SumFunction` of the
community modules is recursive over a finite set; that it has a value at all, and
a natural number for naturals, is proved by building the table of the sums over
all subsets up to a size (`TableExists`), and each induction is a smallest
counterexample in the well-founded order of the subsets of a finite set. What
lines a total depends on (`TotalLocal`) follows from its definition alone.

`SumTheorems` also takes a sum apart: over two disjoint sets (`SumUnion`) and over
the groups a set is divided into (`SumOfGroups`). With these `CashRegister_proofs`
proves the last two properties of the register. `SalePaidOnce` needs `SalesUntouched`
(a draft sale has neither payment nor cash in a drawer), `CashBooked` (the cash paid
for a sale is the sum of its movements in all drawers) and `ChargeAlone`
(unless marked raced, a charge is the only one of an open sale).
`ZReportsComplete` holds whatever overlaps, and follows from `CashBooked` and
`SalesUntouched` alone: the sales are divided by the session they were linked to, and
the cash of a sale by the drawers.

`StockLedger_proofs` proves the seven properties of the run `stock`, for any number
of workers, items, purchases, lines and orders, in three invariants over `Types`
(`TypeOK` and what a request carries at each step):

- *Stock.* `KardexClosed` is inductive as it stands; `NeverNegative` needs
  `MovesChecked`: a move is allowed a negative stock only for an item that was, and
  what has passed the check of its operation leaves none below zero.
- *Kardex.* `KardexUnbroken` needs that the moves of a transaction start from the
  stock and continue each other (`MovesChained`), that an item two transactions have
  read is marked contended (`ReadAlone`), and that a consumption has one move for
  each item (`OneMoveEach`), as the deductions of a charge are added up by item
  before they are written (`inventory-consumption.service.ts:38`).
- *Purchases.* `ReceivingAtomic`, `ReceivedOnce` and `PurchaseFinal` rest on
  `LinesRead` (what a receive has read and has left is the lines of its purchase),
  `PurchaseAlone` and `LinesBooked`: the lines of a purchase are booked one and
  the same number of times, 0 for a draft, 1 if it was received and never raced. That
  number and the requests that may still book stay within the number of workers;
  that is why `WorkersAssumption` says the workers are finite.

What a transaction wrote on an item is the last of its moves there. `StockAfter`
filters the moves, so `MovesOrder` relates `SelectSeq` to the places in the
sequence: the selected moves are in order and none is left out.

`ApiClient_proofs` proves what the run `access` checks, for any number of workers,
calls, sessions and tokens:

- `CacheFollowsTenant`: a guard that will fill an entry holds what the tenant has,
  unless the entry is marked (`FillsCurrent`); one request at a time tells the cache
  a status (`TellsAlone`); a deletion that is at the cache cannot fail any more.
- `EndedSessionsIssueNothing`: an ended session is never active again, and a
  rotation that is under way on one was accepted before it ended (`RotatedInTime`).
- `OneLiveToken`: two rotations of one token do not write at a time, since
  the first has locked and revoked the row the second waits for (`RotationsApart`).
- `ReuseIsAReplay` needs the client too. A token in an answer under way exists, is
  not revoked unless its session is excused, and nobody presents it yet
  (`IssuedSafe`, `HandsApart`); the token of the store may be presented, unless the
  client waits for the answer to its rotation (`StoreSafe`); a rotation the
  client does not wait for had its answer lost (`RotationsAwaited`); hence a
  revocation for reuse has a reason (`ReuseExcused`).

`BackOffice_proofs` proves the four properties of the run `editing`, for any number of
ids, requests and managers. `PinsUnique` and `ReadyAsTested` are about a check
in one step and a write in a later one. Unless something is marked doubtful, a request
that found a PIN free is alone at work (`PinAlone`), and no update of the profile is
under way while it is tested (`TestApart`); so the PIN is still free (`PinCurrent`), the
verdict is still that on the stored provider (`TestCurrent`), and the readiness an
update carries is still the profile's (`CarriedCurrent`), however many updates overlap.
An update that leaves the provider out keeps all that the verdict was on
(`ProviderStays`). The
theorems start from any stored rows that satisfy both properties
(`StartsAssumption`), as rows outlive the processes that wrote them; of profiles
there is at most one, as its tenant is unique (`schema.prisma:630`).

`TypeCorrect` and `StoredAsEnteredHolds` are proved together, because what a write
stores depends on what kind of form was sent and on what kind of row it meets. The
inductive invariant `EntryInv`, beside the first two proofs' `RecordInv` and
`DialogShape`, has the types of rows, requests, lists and the dialog (`StoreOK`,
`RequestsOK`, `ListOK`, `DialogOK`) and, of each request that a dialog has sent
(`EntriesOK`), that until it reads its payload is the one of the form on the
dialog, and once it has read it writes what keeps a `Promise`: merged into *any* row
of the kind it stores what was entered. The row it read will not do, as another
manager may change it before the write. A profile that was once listed is still
there, as nobody deletes one (`StillLive`).

The first half of the module is about the forms alone, by kind of record: an edit
keeps a form well formed, also where it changes what the dialog derives, and what
`Payload` makes of a valid form is a row of that kind which holds what was entered,
when it is created (`CreatedAsEntered`) and when it is merged into a row
(`UpdatedAsEntered`, by which an optional text that was cleared keeps its value).
How many pieces or grams a form asks for is not bounded.

`PosScreen_proofs` proves `RoomInOrder` for any number of zones, tables, requests
and screens, from any room in order (`RoomInit`). A request is a list of statements
still to do, so its invariants are by what is left: once the zone was found it is
there (`ZoneChecked`), once the name was looked for nobody else has it
(`NameChecked`), unless two requests that concern each other are under way,
which `Overlaps` says are remembered.

It also proves the `TypeOK` of the three modules, which says more than types: every
table that is listed is in a zone that is, a product waits for an account only in the
dialog that opens one, a dialog is open only on the page of the account, the table
has at most one open account. It takes what a request may ask for and what its answer
brings (`DataTyped`, `ResultTyped`), and that one handler at a time has the screen
rest, with the dialog it came from or none (`ActsAlone`). That `nextZoneName` finds a
name is a pigeonhole argument over the zones that are shown. The attempt to prove it
showed the model to be wrong: a handler that outlives its page set the dialog of the
next visit, which React does not do to a component that is gone (`Shows`). The
bounds of the run `floor` are one visit too small to tell; with a second visit TLC
finds the wrong model out, and nothing wrong in this one (4.7 million states, which
is why the run keeps to one).

`ScreenSettles_proofs` builds on these types. `ScreenSettles` compares the screen with
the API once everything has come. Until then they may differ, and the invariant says
that what is still to come makes up the difference. It has two halves.

- `AccountInv`: the calls the API has yet to serve make of each stored quantity the
  one the waiter wants (`WantedComes`). Additions count, unless a change is to come, then
  the last change counts and the additions behind it (`Makes`, `LastChange`), and of
  two calls one is behind the other (`Queue`). What is shown is what is wanted,
  unless a refusal or a crossing fetch is remembered (`Displayed`); what a fetch has
  read is what is stored, unless an item call is to be answered, which will fetch
  again (`Read`).
- `FloorInv`: where the list of zones and the room differ, or an answer and the room,
  another answer that is still to come tells of it (`Explained`: `Explains` for a
  list, `Answers` and `Overwritten` for an answer), unless answers crossed or somebody else
  changed the room (`Clean`). A fetch that fails does no harm: the list stays, with what
  explains it; one that has read and is then dropped counts as crossed, because what
  others changed before is forgotten with it (`Invalidates`). An answer that puts back a table that was removed is
  followed by the answer of the removal. That needs that what was removed stays so
  (`RemovedStay`), and that the application asks only for rows that are or were there
  (`Heard`), so that the answer of a creation is the first it hears of the row
  (`Unheard`).

The attempt found the model wrong once more: the history variable that says what the
waiter wants took over, on opening an account, what was left in the cache of a page
that had been left, and that had no longer been kept true. It now starts from the page
that is open (`OpenSettled`). TLC confirmed the counterexample with four visits, more
than the run has.

**What the theorems assume.** Only the `ASSUME`s beside the constants, which TLC
evaluates on the instances it checks: special values differ from ids, bounds and
amounts are numbers, sets that are summed or counted are finite, a purchase and an
order have a line, the starting rows are in order. The proofs keep the bounds of
section 4 as parameters: they hold for every value of them.

**Only model-checked.** `RequestsAnswered` in both runs: liveness under fairness,
which the prover does not reach, as it has no ENABLED. Every other property of a passing
run is a theorem. The counterexample runs are what they are: one instance is enough.

## 6. Not modelled

- `averageCost` and its rounding, the sku sequence, purchase lines without a
  product (each creates an item of its own) and relinking an item to another
  product: the stock of an item does not depend on them.
- Discounts and taxes: no code writes them, so `grandTotal` is the sum of lines.
  `ComandaPanel.tsx` adds 8 % for display and lets prices be overridden on the
  screen ("Visual-only overrides"); neither is sent, so neither is modelled.
- The search, category tabs, comanda sheet and layout of the POS; waiter, guests
  and customer of an account; the list of employees a waiter is chosen from.
- Whether a cash session is open is a choice on the screen (`OpenCharge` leads to
  either dialog); `CashRegister` has the sessions.
- A call of the POS is sent in the step that changes the screen: cancelling a fetch
  takes no time.
- Email delivery, hashing and password rules; the plans and features the platform
  edits; the pages of the platform, of cash, reports, login and onboarding.
- The content of invoices, receipts, commands and customers.
- Tenants and branches: a model is one branch; that queries stay inside it is
  the tenant isolation component.
- The components with status `not_modelled` in `PROJECT.json`.

## 7. Plan

Done: the modules above, and the proofs of section 5. Next, in this order:

1. *Charge* - a composition of `TableAccounts`, `CashRegister` and `StockLedger`
   over one charge, with the audit log after the commit; property: payment,
   movement, consumption and invoice of a charge are all there or none is.
2. *Costs* - `weightedAverageCost` and the operational date as operators, checked
   against reference definitions over bounded inputs.

Abstract specifications worth stating besides `CashDrawer`: an account (open,
edit, paid once, final) for `TableAccounts`, and a counter per item that moves
are added to for `StockLedger`, each implemented by what did not overlap.
