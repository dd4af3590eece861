# Verification of orders-ms

TLA+ models of `orders-ms`, the RabbitMQ microservice that keeps the orders,
tables, cash sessions and bookable kitchen slots of restaurants, with TLC runs
and TLAPS proofs. Paths are relative to the repository root; `O:n` stands for
`src/orders/orders.service.ts` line `n`, `C:n` for
`src/cash-sessions/cash-sessions.service.ts`, `T:n` for
`src/tables/tables.service.ts`, `S:n` for `src/sectors/sectors.service.ts`, `A:n`
for `src/analytics/analytics.service.ts`.

## The system

| Part | State (PostgreSQL) | Operations that change it |
| --- | --- | --- |
| Orders | `orders`: status, payment status, table, cash session, number, totals, `scheduledFor` | `create`, `createPosOrder`, `update`, `updatePaymentStatus`, `anonymizeCustomerOrders` |
| Order items | `order_items` (with extras and removed ingredients): quantity, kitchen status, total | `create`, `addItem`, `removeItem`, `updateOrderItem`, `sendToKitchen`, `markItemPrepared`; every save of an order cascades to its items |
| Slots | `order_slots`: one counter `dishesBooked` per organization and instant | reserve and release inside `create`, `update`, `addItem`, `removeItem`, `updateOrderItem` |
| Cash sessions | `cash_sessions`: status, counted cash | `open`, `close` |
| Tables | `tables`: status, `currentOrderId`, sector, position, `isDeleted` | `createPosOrder` and `update` of orders; `create`, `update`, `softDelete`, `restore`, `updatePositions`, `onModuleInit` of tables |
| Sectors | `sectors`: name, order, `isDeleted` | `create`, `update`, `softDelete`, `restore`, `findOrCreateDefault` |
| Analytics | none | none: aggregates over orders and items |

Outside: client-gateway calls the handlers by RPC; `organization-ms` answers
`getOrgSchedulingConfig` (interval, limit, opening hours, time zone);
`payments-ms` sends `payment.status` events and receives `order.cancelled`;
`auth-ms` sends `customer.anonymized`.

The parts share one database and meet in transactions: creating an order stamps
the open cash session, takes the next order number and, for a dine-in order,
occupies a table; updating one may release the table and moves its slot
booking; closing a session counts orders. Nothing else is shared: a handler
keeps no state between calls.

### What is hard

Every handler is asynchronous, so any number run at once and interleave at each
`await`. Most read the order *before* they open a transaction, decide from that
copy, and save the whole copy later. PostgreSQL runs at READ COMMITTED, so
transactions do not see one consistent state. Only four places lock explicitly
(`pessimistic_write`): slot rows, the table of a new dine-in order, the cash
session being closed, and the orders that `generateOrderNumber` reads. Any
statement may fail, deadlocks are resolved by aborting a transaction, a process
may crash between two statements, and an RPC may be repeated by its caller.

What makes each part correct:

- **slots**: a slot is never booked past the limit; its counter is what the
  orders on it hold; two orders that swap slots never deadlock;
- **slot grid**: what a customer is offered is what is accepted;
- **items**: the stored total is the sum of the items; an item goes NEW,
  SENT_TO_KITCHEN, PREPARED and never back;
- **numbers**: one sequence per organization, without gaps, and a number shared
  only by orders created at the same time;
- **cash register**: the cash counted at the end of a session starts exactly one
  other, there is always a session open after the first, and no unfinished order
  is in a closed one;
- **tables**: guests who are seated keep their table; a table is occupied by
  exactly the order it names;
- **payments**: money that was charged for a cancelled order is marked to be
  paid back, a cancellation that was announced sticks, every one is announced;
- **floor plan**: a live table stands in a live sector, sectors have different
  names, an instance that starts comes up;
- **reports**: a chart adds up to the total above it; the Z report counts the
  orders of its session;
- **connections**: none is lost, and handlers that wait for connections and for
  row locks never all wait for each other.

`PROJECT.json` lists each hazard at its line, with the properties that watch it.

## The modules

| Module | Models | Role |
| --- | --- | --- |
| `DishLoad` | `countDishes`, what an order puts on a slot | data shared by the next two |
| `KitchenCapacity` | the promise of slot booking | abstract specification |
| `SlotBooking` | scheduled orders and `order_slots` | refines `KitchenCapacity` |
| `SlotGrid` | `getAvailableSlots`, `generateSlotTimes`, `validateScheduledFor` | pure algorithm |
| `OrderItems` | the items of one order, kitchen status, total | |
| `OrderNumbers` | `generateOrderNumber` in its transaction | |
| `CashRegister` | cash sessions, the status life cycle of orders | |
| `TableSeating` | tables under the order flow and under staff edits | |
| `Payments` | payment status, its events, refunds, `order.cancelled` | |
| `FloorPlan` | sectors, the sector of a table, `onModuleInit` | |
| `Reports` | the overview of analytics, the order counts of the Z report | pure algorithm under concurrent writers |
| `ConnectionPool` | what each order handler takes from the pool, and in which order | |
| `MC...` | TLC instances: symmetry, and constants too long for a cfg | |
| `SlotBookingProofs`, `OrderItemsProofs`, `OrderNumbersProofs`, `CashRegisterProofs`, `TableSeatingProofs`, `PaymentsProofs`, `FloorPlanProofs`, `ConnectionPoolProofs` | theorems about the module of that name; about `SlotGrid` too in the first, about `Reports` in `CashRegisterProofs` | proofs |

`SlotBooking` and `KitchenCapacity` share `DishLoad`; `SlotBooking` instantiates
`KitchenCapacity` with a mapping (`commitments <- orders`, `ceiling <- peak`); the
run `SlotBookingSerial` checks the abstract specification as a property, and
`KitchenServed` proves it. The other modules stand beside each other: each takes the columns its handlers
read and write and abstracts from the rest of the row, which `save` never
mixes with them (it writes columns one by one).

Everything is about one organization: every query filters by
`organizationId`. A process (`Procs`) is one call in flight; `pc` says at which
`await` it is, and the variables indexed by processes are its local variables.
A step ends at an `await` whose timing other handlers can notice. Each
action's comment or its entry under `map` in `PROJECT.json` says which lines it
stands for.

### PostgreSQL and TypeORM as the code uses them

The models contain the behaviour of the two libraries that the handlers depend on:

- `SELECT ... FOR UPDATE` waits for a row's holder and then sees the committed
  row; rows inserted after the statement started stay invisible.
- `INSERT ... ON CONFLICT DO NOTHING` waits for a transaction that has inserted
  the same key. A rolled-back insert leaves no row.
- A transaction's writes are visible to others from its commit on; whatever
  fails leaves nothing (`Rollback`, enabled in every state of a handler).
- `save(entity)` reads the row again and writes the columns that differ from
  the object in memory, however old that object is (`Merge`). For an order this
  includes its eagerly loaded, cascaded items. An item in the object that the
  table has lost is inserted again; an item of the table that the object never
  had would lose its `orderId`, which is NOT NULL, so the save fails
  (`Orphans`, `SaveRejected`): TypeORM looks for `orphanedRowAction` on the
  many-to-one side, and the entities set it on the other.

### SlotBooking

`orders` maps an order to its instant and its items (an item is the number of
dishes it counts for, 0 if its category does not count). `dishesBooked`,
`slotRows`, `lockedBy` and `pending` are the `order_slots` rows: committed
count, existence, lock, and the holder's uncommitted count. A handler starts
with what it read before its transaction (`Create`, `Update`, `AddItem`, ...),
which fixes the slot steps it will take (`steps`); asks `organization-ms` when
the code does (`GetOrgSchedulingConfig`); reserves and releases slot by slot in
ascending order; reloads the order if it is one of the item handlers; and
commits. Save and commit are one step here: what matters between them, the
mixture of old and new columns, is in `OrderItems`. `assertOrderEditable`
(O:1101-1111) checks nothing, and so does no action. The status of an order is
left out: `update` may set any schedule, and cancelling is the target "for now".
`peak`, a history variable, is the largest limit ever configured; a manager may
lower the limit below what is booked.

### SlotGrid

Time is a minute of one day in the organization's zone. The offer steps by the
interval from each opening time, the validation takes the minute of the hour
modulo the interval; the module compares the two sets of instants.
`EditOrganization` and `Tick` change what both depend on. A day with a clock change
is not modelled.

### OrderItems

One order. `items` are the committed rows, `entity` the object a handler will
save, `loaded` the rows its `save()` found, `itemLock` the row locks that
writing an item takes. Extras and removed ingredients are part of an item's
`total`. `markItemPrepared` saves the item alone, all other handlers the order
(`SavesOrder`). The history variable `overlapped` records that two handlers of the
order were in flight together, so that one run tells apart what holds always
and what holds only one handler at a time. A sum of totals is the number of
units of money in them (`Sum`), which is a definition a proof can work with.

### OrderNumbers

`getOne()` on a query builder sets no LIMIT, so `generateOrderNumber` locks every
order of the organization that its statement saw when it started (`ReadOrders`,
`LockOrders`), takes the largest number of those and adds one.

### CashRegister

`sessions`, `openingCash` and `lockedBy` are the session rows and their locks.
Opening is a look, an INSERT and its commit; closing a lock, a count, an UPDATE, an
INSERT and a commit, each a step that may fail. `UniqueIndexAllows` is the partial unique
index as it meets transactions: a row counts as OPEN until its UPDATE is committed,
except for the transaction that made the UPDATE, and an INSERT waits for another one that is
not committed. `openingCash` names the session whose counted cash the column repeats.
Order handlers carry the status and the session they will save in `call`, from
the moment they read (or, for a new order, resolved the open session) to their
commit. `changedSince` records which orders were saved after a close counted.

### TableSeating

An order is live or terminal; the full status life cycle is in `CashRegister`.
`createPosOrder` locks its table, then all orders (for the number), and commits
both; `update` writes the order, then frees the table that names it. Handlers of
`tables.service` read a row, edit it and save it without a lock, in two steps.
`byHand` records that one of them ran or that a table was created OCCUPIED.

### Payments

`orders` holds the two columns that payments and cancellations share, with all six
statuses and the transition table of O:1145. A handler
reads the order, edits its copy and saves it; `save` reads the row again
(`LoadRow`) and writes the columns in which copy and row differ
(`WriteAndCommit`), so that a column the handler never meant to touch may be
written back from an old copy. `UpdatePaymentStatus` takes an event off the
broker before it has done anything (`noAck`), so a crash or a refused save loses
it (`LoseEvent`, `Fail`); events of one order may be handled out of order.
`Emit` publishes `order.cancelled` after the commit. Histories say what
happened to an order: `misled` (an event was lost or came too late), `revived`
(reopened after a cancellation, or saved from a copy that was not current),
`charged`, `announced`, `unannounced`.

### FloorPlan

Handlers of tables (`TableHandlers`) and of sectors (`SectorHandlers`) check, then
save, without a transaction around the two: `validateSector` before an insert or a move, the count of live tables
before the deletion of a sector. `Boot` is `onModuleInit` of an instance:
tables without a sector are found, a sector is found or `General` is inserted, and
one UPDATE places the tables; every instance does it by itself, may crash
between the insert and the UPDATE, and may serve calls before it is done
(`startAllMicroservices`, main.ts:72, comes before `listen`): no handler waits for a boot. `LegacyCreate` is an instance of the version
before sectors that still serves calls. `unguarded` names the tables that were
restored, or written by somebody who was in flight between the count and the
commit of a deletion. Names of tables are left out: whatever refuses a name, the
call fails and writes nothing (`Fail`). The unique index on sector names is
`UniqueNames`, deleted sectors included.

### Reports

Time is counted in ticks of a small calendar with half hours, hours, days, months
of different lengths, and years. `buildSeries` is the query and the loop of A:168-202: `Cursors`,
a recursive function, are the values its cursor takes, `Bucket` the orders of one row of the
query. `Revenue` adds up totals by counting units of money. `Truncated` is PostgreSQL's `date_trunc` and dayjs's `startOf`
(the latter in UTC; the database session is taken to be in UTC too), `Plus` is
dayjs's `add`. The total and the chart are two statements, and so are the
two counts of the Z report; orders appear, are cancelled and reopened in between.
`sales` are the committed orders, with the two columns that the reports read.

### ConnectionPool

Each handler is a script of the awaits that take, keep or return something
others wait for: a connection, the answer of `organization-ms`, row locks. `Grant`
serves the queue of the pool in order; there is no timeout, because
`app.module.ts` configures none. `createPosOrder` is the one handler that awaits a
second connection while it holds its first (O:312, before the release in
`finally`). `Fail` ends a call at any point at which it is not queued. Scripts are
sequences and the queue is one of handlers, `Rest` being the queue without one of them.

## What is checked

Twelve runs: eleven must pass, one must find a violation.

| Run | Instance | Shows |
| --- | --- | --- |
| `SlotBookingSerial` | 2 orders, 2 items, 2 slots, 2 handlers, limits {1, 2}, up to 2 dishes; one handler per order at a time | `CapacityNeverExceeded`, `NoWaitCycle`, `BookingsMatchOrders` (each counter equals the dishes of the orders on the slot), `KitchenSpec` (refinement of `KitchenCapacity`) |
| `SlotBookingOverlap` | 1 order, 1 item, 2 slots, 2 handlers that overlap; with fairness | `TypeOK` (no counter below zero), `CallsFinish` (every call is answered) |
| `SlotBookingBacked` | 2 orders, 2 handlers that overlap | violation of `ScheduledOrdersBacked`, see below |
| `SlotGrid` | all 1440 minutes, 9 intervals, 7 weekdays, 4 times of the clock | `OfferMatchesValidation`, `SlotsDoNotOverlap`, `WholeRangeOrNothing` |
| `OrderItems` | 2 items, totals {1, 2}, 2 handlers | `TypeOK`, `PreparedWasSent`, `SerialTotal`, `SerialKitchen` |
| `OrderNumbers` | 5 orders, 3 handlers | `TypeOK`, `NoGaps`, `LaterIsLarger`, `SharedOnlyByConcurrent` |
| `CashRegister` | 3 sessions, 2 orders, 3 handlers | `TypeOK`, `CashHandedOver`, `NeverWithoutSession`, `ClosingIsExclusive`, `SettledAtCount` |
| `TableSeating` | 1 table, 3 orders, 2 handlers | `TypeOK`, `SeatingIsAtomic`, `GuestsKeepTheirTable`, `OccupiedByItsOrder`, `NoWaitCycle` |
| `Payments` | 1 order, 2 handlers, 2 events | `TypeOK`, `MoneyAccounted`, `CancellationSticks`, `CancellationsAnnounced` |
| `FloorPlan` | 1 table, 2 sectors, 2 names, 1 handler of each kind, 2 instances; with fairness | `TypeOK`, `LiveTableInLiveSector`, `EveryInstanceBoots` (liveness) |
| `Reports` | 2 orders, all periods, 8 instants, 10 explicit windows | `ChartMatchesTotal`, `OnePointPerSlot`, `OrdersReported` (a step property) |
| `ConnectionPool` | 3 handlers, 2 connections, 5 scripts; with fairness | `TypeOK` (no connection is lost), `StuckOnlyOnReload`, `CallsAnswered` (liveness) |

Why the bounds are enough: the mechanisms are pairwise. A stale copy, a lost
update, a lock cycle or a double booking takes two handlers; two slots are
needed to move or swap, two orders to share a slot, three sessions to close one
and open and close the next; a third handler opens, closes or
saves an order beside two that race. Numbers need three handlers, so that one can be
two behind. A table needs a first order, a second seated after it, and a third
to be seated while the first is finished late. In `OrderItems` items of
different totals are explored as long as handlers do not overlap and equal ones
afterwards (`OnePriceOverlapped`): what overlapping does to the total is not
claimed by any property. Orders do not meet in `Payments`, so one is enough; two
events make a PAID and a FAILED that cross. In `FloorPlan` one table meets two
sectors, one of them deleted, a name in each, a write of the
table meets a change of a sector, and two instances boot beside each other. Two handlers of
tables at once are left to the proof. The windows of `Reports` are whole, cut off at either end, empty
and reversed; the instants lie on and beside every boundary. In `ConnectionPool` a
third handler queues behind two that hold the pool; only the number of handlers
compared with the pool matters. Ids are symmetric except in runs with liveness.

Deadlock checking is on except in `ConnectionPool`: a pool whose connections all
went to calls that wait for another one really is stuck, and
`StuckOnlyOnReload` says that nothing else gets stuck.

**Fairness.** The event loop runs every continuation that is ready, and
`organization-ms` is assumed to answer: weak fairness of `Continue` in
`SlotBooking` and `ConnectionPool`. A row that keeps becoming free is
granted, because PostgreSQL queues lock requests in order: strong fairness of
`SlotStep` and of `Lock`. An instance that is down is started again by whatever
runs it: weak fairness of `Boot`. Nothing makes a client call, a handler fail, an
event be lost or an instance crash; so `EveryInstanceBoots` is stated under the
condition that crashes end and that the staff have stopped editing sectors, and
`CallsAnswered` under the condition that fewer `createPosOrder` calls are in flight
than there are connections.

### Disagreements between the code and what it says

One has a run. `SlotBookingBacked`: `src/orders/entities/order.entity.ts:140-142`
says that a scheduled order has its dishes booked on its slot. Handlers of one
order that overlap book from stale copies; an order then holds dishes no
counter knows of (`ScheduledOrdersBacked` is violated).

The others are stated by a property that holds, with the exact condition:

- O:1235-1236 says that what is offered is accepted. With an opening time off
  the interval (09:10, 30 minutes) every slot offered is refused:
  `OfferMatchesValidation` says when the two agree,
  `WholeRangeOrNothing` that they do so at all slots of a range or at none.
- O:1115-1117 calls the recomputed total authoritative. Two item handlers miss each
  other's item and the total is wrong until the next change: `SerialTotal`.
- O:929 says SEQUENTIAL, with a lock. Creations whose SELECTs start before either
  commits share a number: `SharedOnlyByConcurrent` says that nothing else does, and that at most
  as many orders share one as there are handlers.
- C:15-16 lists the statuses that block closing. An order committed between
  count and commit stays active in the closed session: `SettledAtCount`.
- O:1126 lists the legal kitchen transitions, and overlapping handlers (O:869,
  O:847) can take an item back: `SerialKitchen`.
- T:148 says OCCUPIED is managed by the order flow alone, but a stale save of
  `tables.service` (T:168, T:217) can write it back to a table that was freed
  meanwhile, and `create` (T:81) takes any status: the properties of
  `TableSeating` are conditional on `byHand`.
- O:1161-1163 says a reopened order must not go straight to COMPLETED, and the list
  on O:1164 allows it; `AllowedTransitions` follows the list.
- S:98 refuses to delete a sector with active tables. A table that is inserted,
  moved, edited, restored or placed between the count and the commit, or restored
  later, ends in a deleted sector: `LiveTableInLiveSector`.

And three behaviours a reader of the code may not expect:

- A cancelled order that is reopened and cancelled again has REFUNDED
  overwritten by CANCELLED (O:512): `MoneyAccounted` excludes it (`revived`).
- An explicit `from` that is not the start of a bucket matches no bucket at all:
  the chart is flat at zero below a non-zero total (A:168-202), `ChartMatchesTotal`.
- An organization whose only sector named General is deleted, which has no live sector
  but a table without one, keeps every instance from starting: the insert of
  T:35-39 hits the unique index at each start (`GeneralIsDeleted` in
  `EveryInstanceBoots`).

## What is proved

TLAPS proves the theorems below for any number of handlers, instances, orders,
items, slots, sessions, tables, sectors and connections. They rest on the named
assumptions of the modules only: the null value is no id and no status, sets that
are counted are finite, limits, prices, totals, intervals and times are natural
numbers, the instants of `SlotGrid` minutes of one day, the pool has a connection. Each safety theorem has an inductive invariant; what it adds to the
property is what the code relies on without saying so.

- **`SlotBookingProofs`**
  - `Typing`: `TypeOK`. Not inductive by itself: a handler about to save must
    name an order and an item that exist (`CallOK`).
  - `CapacitySafe`: `CapacityNeverExceeded`. Inductive with `LimitsKnown`: the
    limit each handler was told, and each uncommitted counter, is at most `peak`.
  - `DeadlockFree`: `NoWaitCycle`. Inductive is `LocksBehind`: the rows a handler
    holds lie before every slot it still wants. A set of handlers that wait for
    each other would have one whose next slot is latest, and the one it waits for
    would want a later one.
  - `BookingsExact`: `BookingsMatchOrders`. Inductive is `SerialInv`: handlers in
    flight are for different orders (`Apart`); the change a handler's order will
    make of a slot is what it has written there or what its remaining steps say
    (`OnTrack`); committed counters are the sums of the committed orders
    (`Counted`). The lemmas at the head of the module say how the dishes of an
    item map and the load of a slot change with one item and one order.
  - `KitchenServed`: with one handler per order, `Spec => KitchenSpec`, the
    refinement of `KitchenCapacity`. The commit of a handler is the abstract
    change of its order: a slot whose load grows was reserved under the limit, and
    its counter is that load by `SerialInv`. A limit above all before it raises
    the ceiling; every other step stutters.
  - `OfferIsAccepted` (`OfferMatchesValidation`), `SlotsAreApart`
    (`SlotsDoNotOverlap`), `RangeOfferedWhole` (`WholeRangeOrNothing`), about `SlotGrid`, for any
    intervals, opening hours, minutes of the day and times of the clock. An interval that
    divides the hour is one of twelve (`DivisorsOfTheHour`); for each, steps of the
    interval from a boundary and the minute of the hour modulo the interval find the
    same minutes (`SameGrid`), and none less than an interval apart
    (`GapBetweenSlots`); steps from anywhere else never meet a boundary (`OffGrid`,
    `StepsOffGrid`).
- **`OrderItemsProofs`**
  - `TypeCorrect`: `TypeOK`, from what a handler in flight names and holds.
  - `KitchenHadIt`: `PreparedWasSent`. Rows travel in the handlers' memory and come
    back from there, so what is said of the table has to hold of every copy
    (`SentInv`).
  - `TotalIsSum`: `SerialTotal`, and `ForwardInKitchen`: `SerialKitchen`, an action
    property. As long as no two handlers overlapped, one is in flight at most, and
    what it holds is the table with its own edit (`AloneInv`).
- **`OrderNumbersProofs`**
  - `Typing`, `NumbersWithoutGaps` (`NoGaps`), `NumbersIncrease`
    (`LaterIsLarger`). The strengthening is `Bounded`: no number exceeds the number
    of orders, which is what makes "the first of ORDER BY orderNumber DESC" exist
    for every set of orders.
  - `SharedNumbersAreRare`: `SharedOnlyByConcurrent`. That no sharer had been seen by
    another follows from `LaterIsLarger`; for the bound `Room` is inductive: the orders
    that carry a number together with the handlers that are going to commit it are
    never more than there are handlers.
- **`CashRegisterProofs`**
  - `Typing`, `CashIsHandedOver` (`CashHandedOver`), `ClosesExclude`, `AlwaysReplaced`,
    `CountedAtClose`: the type invariant and the four properties of the run. The
    keys are `ClosingLocked`, a close that has found its session holds its row
    lock, and only that holder closes it; and `InsertOK`, whoever has inserted is the only
    one, and an open has inserted only if no session is open. So there is never a second open
    session (`OneOpen`), and only the first was opened from nothing (`OpenedOnce`).
  - `TotalIsShown` (`ChartMatchesTotal`) and `EverySlotHasItsPoint`
    (`OnePointPerSlot`), about `Reports`, for any orders, totals, times and windows,
    on the calendar of the module. `TruncatedIsLastStart` and `PlusIsNextStart` say
    what the calendar functions do: `Truncated` goes back to the last start of a
    unit, `Plus` leads from a start to the next one, and from anything else never to
    one. From these the cursors of the loop grow (`CursorsGrow`,
    `CursorsIncrease`), from an aligned start miss no start before the end of the window
    (`CursorsMissNothing`), and stop there (`PointsOfLoop`). Then each order counted in
    the total is in one bucket exactly, and `DisjointSum` adds the buckets up
    (`ChartOfSeries`). The inductive invariant adds that a total is right until an
    order changes (`TotalKnown`).
  - `ReportMissesNewOrders` (`OrdersReported`, an action property): the count already
    taken is the number of orders less those created since (`CountKnown`).
- **`TableSeatingProofs`**
  - `TypeCorrect`, `AtomicSeating` (`SeatingIsAtomic`), `TablesAreKept`
    (`GuestsKeepTheirTable`), `OccupiedTablesNameTheirOrder` (`OccupiedByItsOrder`),
    `NoDeadlock` (`NoWaitCycle`): everything the run checks, from one invariant.
    Between its check and its commit a seating handler holds the row of its table
    (`TableLocks`); a table it found FREE names no order, so that no update frees
    it; the id of its order is known to nobody else (`SeatCall`); who frees a table
    saves its order as terminal (`SaveCall`). Whoever holds order locks waits for
    nothing a waiting handler has, which breaks every cycle (`OrderLocks`).
- **`PaymentsProofs`**
  - `Typing`, `Announced` (`CancellationSticks`), `ChargeShows` (`MoneyAccounted`, of
    every charged order that nobody is handling and that has no event under way, with
    the exceptions `misled` and `revived`). Inductive is what handlers in flight hold. `FreshCopies`: as long as nobody has committed
    the order since a handler read it, the handler's copy is the current row
    with its edit; who saves an older copy puts the order into `revived`.
    `Accounted`: a charge is still an event, or in a copy about to be saved, or
    applied, or the order is `misled` or `revived`.
  - `NobodyCancelsSilently`: `CancellationsAnnounced`. Old copies may cancel an order
    again, so what is said of the rows has to hold of every copy (`CopiesTold`).
- **`FloorPlanProofs`**
  - `Typing`, `Housed` (`LiveTableInLiveSector`). `WritesLive` and `PlacesLive` say of
    handlers and boots that will write a table what the property says of
    tables. `Races`: while a deletion lies between its count and its commit, whoever
    may still write a table knows it. `Emptied`: what stands in the sector by
    then was written beside the deletion. Without the last the commit of the
    deletion would not keep the property.
- **`ConnectionPoolProofs`**
  - `TypeCorrect`: `TypeOK`, whose core is that connections idle and held add up to
    the pool. What a handler holds is a function of its place in its script (`Held`,
    `OnScript`), and whoever is queued is queued once, at a `connect` (`InLine`).
  - `OnlyReloadsBlock`: `StuckOnlyOnReload`. The holder of the row locks commits next
    and can (`LockInv`), so if nobody can move nobody has them, all wait in the
    queue of an empty pool, and whoever waits with a connection in its hand, one each,
    is a `createPosOrder`.

Only model-checked:

- Liveness: `CallsFinish`, `EveryInstanceBoots`, `CallsAnswered`. Fairness needs ENABLED, which is out of the prover's reach.
- The finding: a violation is a behaviour TLC shows, not a theorem.

Every invariant and every action property of the passing runs is a theorem, and so is
the refinement. Where a proof needs an induction over numbers (the values of a cursor,
the sums of disjoint sets, item maps), it takes the least counterexample
(`AllNaturals`, from `WFMin` of the library) or a bijection instead of the library's induction
rules, whose operator parameters the provers cannot instantiate. The calendar of
`Reports` is part of the model, so its theorems hold for that calendar; what the
argument about the chart uses of it are the two lemmas about `Truncated` and `Plus`.

## What is not modelled

- The other queries of analytics (best sellers, payment methods, growth in percent
  over the previous period): one statement each, or arithmetic on two of them.
- The totals per payment method of the Z report: one statement.
- Names of tables: refused before the save or by the index, the outcome is the same.
- `anonymizeCustomerOrders`: one UPDATE of a name, idempotent.
- Reads, response mapping, Stripe line items, DTO validation, exception mapping,
  bootstrap, configuration, Redis (a client nothing uses): no state changes. The
  delivery of events is in `Payments`.
- Days on which the clock changes; a database session that is not in UTC.
- The implicit row locks of ordinary writes in `SlotBooking` and `CashRegister`
  (they only delay a commit; the insert of a session under its unique index is
  modelled), statement timeouts.
- The status of an order in `SlotBooking`: to its slot, cancelling an order is
  scheduling it "for now", which `Update` may do with any order.

## Plan

Done: the twelve modules above, and proofs of every safety property their passing runs
check, of the action properties and of the refinement of `KitchenCapacity`. Left are
two hazards without a property: completing a reopened order uncorrected (O:1164,
a table and nothing to explore), and tables that are FREE and still name an order
(T:81), seated by two orders that then lock each other's rows.
