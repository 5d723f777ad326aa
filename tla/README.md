# TLA+ models of the Tharaa Market backend

Tharaa Market is a single-store grocery backend: a NestJS service over
PostgreSQL (through Prisma), with Redis for caches and counters, files on a
local disk and Firebase for push messages. This directory holds TLA+ modules
that model its core, the TLC configurations that check them and the proofs that
TLAPS checks. Paths below are relative to the repository root.

- [The system](#the-system): inventory of the parts, their state and hazards
- [Modules](#modules): what each module models and how it corresponds to the code
- [Runs](#runs): what each TLC run checks, its bounds, the fairness assumed
- [Disagreements](#disagreements): what the code says of itself and does not do
- [Proofs](#proofs): what is proved for every value of the constants
- [Limits](#limits): what is only model-checked, what is abstracted
- [Not modelled](#not-modelled): what is left out, and why

## The system

Requests are handled by NestJS services in any number of processes; what they
share is the database, Redis and the disk. Every `await` is a point where
another request may run. Prisma's transactions run at PostgreSQL's default
isolation, READ COMMITTED: a statement sees what was committed when it began, a
written or `FOR UPDATE` row stays locked to the end of the transaction, and one
transaction of a cycle of waiters is rolled back.

| Component (src/src/...) | State | Operations that change it | Hard behaviour | What makes it correct |
|---|---|---|---|---|
| `inventory` | `Inventory` rows (quantity, reservedQuantity), `InventoryMovement` ledger | reserve, confirm, release, restore (called by orders), adjust, set quantity | row locks in arbitrary order, several lines in one transaction, relative correction of a quantity read earlier | reserved never passes quantity; the ledger accounts for the quantity; nothing is reserved or missing without a reason |
| `orders` | `Order`, `OrderItem`, `OrderStatusHistory` | place, customer cancel, staff status update, staff cancel | the order is read before the transaction that writes it, which does not look again | an order moves forward only, its stock follows its status, its history is one path |
| `cart` | `Cart`, `CartItem` (soft-deleted lines) | add, update, remove, clear, sync, coupon, fulfilment type | find-then-write with a key that does not bind; placing an order empties the cart in another transaction than it read it in | every unit put in is in the cart, ordered or removed |
| `coupons` | `Coupon`, `CouponUsage` | create or revive, update, remove; usage rows by orders | limits counted outside the transaction that uses them | usage stays within the limits |
| `pricing`, `offers` | `Offer` rows | offer create/update/remove/images | overlapping offers, rounding | the best offer, never above the regular price nor below zero |
| `delivery`, `bootstrap`, `admin-settings` | settings rows; two Redis caches with a TTL | updates, cache fill and invalidation | a stale fill after an invalidation; read-modify-write of JSON | a cached value is stale for at most the TTL |
| `categories` | `Category` tree of one level; a Redis cache | create, update, delete, image | checks before the write; counts cached across product changes | no chain, no cycle |
| `products`, `admin-product-images`, `uploads` | products, variants, images, files | create/update/delete, primary image, reassign | promote-next after delete, files beside rows | one primary image while there are any |
| `reviews` | `ProductReview`, reports, `Product.rating*` | create, moderate, hide, restore, report | aggregate-then-write of the rating | the rating is that of the visible approved reviews |
| `auth`, `users` | users, refresh and reset tokens, device tokens | login, refresh, logout, reset, suspend | check-then-rotate of a token | one live successor of a token; none survives a revocation |
| `addresses` | addresses with one default | create, update, remove, set default | two transactions that clear and set | at most one default |
| `notifications`, `admin-realtime` | notification rows, sockets | create and push, broadcast, mark read, emit | not awaited: out of order, lost in a crash | what staff and customers see converges to the order's state |
| `campaigns` | campaigns, events, counters | CRUD, track, track in bulk | counters beside events | counters count the events |
| `wishlist`, `search`, `admin-audit` | one-row writes, log rows | add/remove, record | little | unique rows |
| `admin-analytics`, `admin-customers`, `health`, `redis`, `prisma`, `firebase`, `common`, `config`, scripts | none of their own, or reporting | queries, wiring | - | - |

How they interact: `orders.placeOrder` reads the cart view (which prices every
line, validates the coupon and works out the fee), then in one transaction
writes the order, records the coupon usage, reserves stock through `inventory`
and empties the cart. Status handlers call `inventory` inside their transaction
and afterwards, without waiting, `notifications` and `admin-realtime`. The
admin services of settings, categories and products delete cache keys after
they write. `PROJECT.json` lists every component with its status and every
hazard at the line where it bites.

## Modules

| Module | Models (`src/src/...` unless named) | Composes |
|---|---|---|
| `Store` | what the shop's services share: stock rows, orders, lines | - |
| `Inventory` | `inventory/inventory.service.ts`: stock rows, movements, manual corrections, the four order operations as operators | extends `Store` |
| `Orders` | `orders/orders.service.ts`: an order's life, each handler as a read and a transaction | extends `Inventory` |
| `OrderTransactions` | the same transactions row by row, with row locks, waits, deadlocks, refusals and failures | extends `Orders`, and refines an instance of it |
| `Coupons` | `coupons/coupons.service.ts`: validation, limits, usage rows, codes that come and go | extends `Store` |
| `Carts` | `cart/cart.service.ts`: every cart operation, read by read and write by write | extends `Inventory`, `Coupons` |
| `Checkout` | `placeOrder` over the cart, the coupons and the stock | extends `Carts` |
| `Requests` | what a request in flight is, for the services below | - |
| `Sessions` | `auth/auth.service.ts` (login, refresh, logout, reset), the account status of `admin-customers` | extends `Requests` |
| `Accounts` | registration and Google sign-in of `auth`; `users/users.service.ts`: profile, avatar, devices | extends `Requests` |
| `Pushes` | `notifications/notifications.service.ts`: rows, pushes, devices switched off | extends `Accounts` |
| `Addresses` | `addresses/addresses.service.ts`, statement by statement | extends `Requests` |
| `Lists` | `wishlist/wishlist.service.ts`, `search/search.service.ts` | extends `Requests` |
| `Categories` | `categories/categories.service.ts`: the tree and its checks | extends `Requests` |
| `Products` | `products/products.service.ts`: products, variants, their stock rows, moves | extends `Categories` |
| `Images` | the images of products (`products`, `admin-product-images`) and of categories, offers and campaigns alike; `uploads/local-disk-storage.service.ts` | extends `Requests` |
| `Feeds` | public tree, figures of staff, filters, orders, pages and similar products, as operators on the rows | extends `Products` |
| `Offers` | `offers/offers.service.ts`, `pricing/pricing.service.ts`, flash deals, the price of a cart line | extends `Requests` |
| `Campaigns` | `campaigns/campaigns.service.ts`: terms, tracking row by row, targeting, rotation | extends `Requests` |
| `Reviews` | `reviews/reviews.service.ts`: writing, moderation, the rating of a product | extends `Requests` |
| `PublicCaches` | the three cached answers, `delivery/delivery.service.ts`, `bootstrap`, `admin-settings` | extends `Requests` |
| `OrderEvents` | order numbers in Redis, notifications and realtime events after a commit | extends `Requests` |
| `Totals` | the amounts of an order between the cart and the commit | extends `Requests` |
| `Reports` | figures of `admin-customers` and `admin-analytics`, as operators on the orders | extends `Requests` |
| `Scripts` | `src/prisma/importers/products-excel.importer.ts`, `src/prisma/scripts/organize-subcategories.ts` | extends `Requests` |
| `Promotions` | offers and campaigns side by side, as staff edit them | extends `Offers`, `Campaigns` |
| `MCOrders`, `MCOrderTransactions`, `MCCheckout`, `MCCustomers`, `MCCatalogue`, `MCServices` | instances for TLC | |
| `Sums` | facts about sums and counts over finite sets, for the proofs | - |
| `OrdersProofs`, `OrderTransactionsProofs`, `CheckoutProofs`, `CustomersProofs`, `CatalogueProofs`, `PublicCachesProofs`, `ServicesProofs` | theorems | extend what they are about |

A definition commented "Faulty" is no part of the system: it is a form a
definition could have had by mistake. `PROJECT.json` ("mutants") pairs each
checked property with one that the property must tell from the real form.

### Inventory

A stock row belongs to a product without variants or to a variant; `Items` are
the rows. `quantity[i]`, `reserved[i]` and `ledger[i]` are its columns and its
movements in order. `reserveForOrder`, `confirmReservation`,
`releaseReservation` and `restoreOnCancelAfterConfirm` are operators of the same
names: their guards are the code's checks (a failed check throws, which rolls
back the transaction, so nothing of the step happens), their updates are the
code's. The lines of an order are a function from rows to units; the code goes
line by line, and two lines on one row add up to the same result and the same
checks as their sum. `AdjustManual` is `adjustManual`; `setQuantity` is the
exception to everything being under the lock, so it is two actions, the read
that works out the delta and the transaction that applies it. Two history
variables, `reservations` and `deductions`, count what has been done for each
order; no guard reads them.

### Orders

| Action | Code |
|---|---|
| `PlaceOrder` | the transaction of `placeOrder` (orders.service.ts:252-320), any basket |
| `BeginCancelMine`, `CommitCancelMine` | `cancelMine`: read and check (:395-405), transaction (:408-429) |
| `BeginUpdateStatus`, `CommitConfirm`, `CommitAdvance` | `adminUpdateStatus`: read, `assertForwardTransition` (:664-689), transaction (:693-731) with and without a confirmation |
| `BeginAdminCancel`, `CommitAdminCancel` | `adminCancel`: checks (:756-775), transaction (:785-812) |
| `AbortRequest` | a refused line, a rollback or a lost process |

`request[h]` is what the handler `h` read and means to do. The transaction
works on `request[h].seen`, as the code works on the `order` object it read, and
writes the order whatever it holds by then. `contested` is a history variable:
the orders on which two handlers were in flight at once. An order outside it is
*uncontested*: its own requests came one after the other, whatever happened to
other orders and to the rows they share. The properties that hold are about
uncontested orders or about the stock rows; the same properties for every order
fail (see [Disagreements](#disagreements)).

Customer requests name their own orders and staff any; which customer owns an
order makes no difference to the state, so users are not modelled.

### OrderTransactions

The atomic transactions of `Orders` are what the code's locks are supposed to
provide. Here a transaction takes its rows one by one: it waits while another
holds the row, checks the line against what the row holds, and keeps the
absolute values it writes (`tx[h].rows`) and the lock to its end. `WaitForRow`
and `DeadlockVictim` are PostgreSQL's waiting and deadlock detection; a line
that is refused, a victim and a failure all roll back. The rows a transaction
will write are private until `CommitPlace` or `CommitWrite` publishes them.
Rows are taken in any order because nothing in the code fixes one.
`ImplementsAtomic` is the refinement: with the transactions and locks hidden,
every behaviour is one of `Orders`.

### Coupons, Carts and Checkout

The requests of a cart are in `request[h]`, as the requests on an order are in
`Orders`: an operation is begun by its first read, goes on with its writes, and
ends by reading the cart back (`getCart`), which drops a coupon that no longer
validates. Amounts are not modelled, so a coupon may fail to validate at any
time (a minimum not reached, a discount of zero) and a request may be refused at
any time.

| Action | Code |
|---|---|
| `BeginAdd`, `FindLine`, `WriteLine` | `addItem` (cart.service.ts:198-233) for one line and `syncCart` (:331-412) for several: all lines are checked against the stock, then each is looked up, summed and written |
| `BeginUpdate`, `WriteUpdate`; `BeginRemove`, `WriteRemove` | `updateItem`, `removeItem`: find a line that is in the cart, then write it by id |
| `ClearCart`, `RemoveCoupon`, `SetFulfilmentType` | one write and the view |
| `BeginApplyCoupon`, `WriteCoupon` | `applyCoupon`: view and validation, then the write |
| `BeginView`, `ViewCart` | `getCart`, alone or at the end of the others |
| `AbortRequest` | a refusal on the way, or a lost process: what is written stays |
| `BeginPlace` | `placeOrder` sets the cart's fulfilment type (orders.service.ts:100) |
| `ReadCartView` | and reads the cart view (:101): lines, coupon, fee |
| `CheckCart` | lines compared with the rows (:168-228), coupon validated again (:230-244) |
| `CommitOrder` | the transaction (:252-320): order, coupon usage, reservation, every line of the cart removed |
| `Deactivate`, `Activate` | staff remove, switch off, switch on or create again a code, or its dates pass |

A line (`CartItem`) is never deleted, only marked; adding the product again
revives it. `rows[u][i]` is therefore a list: the unique key over cart, product
and variant keeps one row for a variant (`Variants`), but does not compare a
null variant. `overlapped` is the history of customers two of whose requests
have been in flight at once, and `asked` what each customer has put in and not
taken out until then. A customer outside `overlapped` is still raced with by
other customers (for stock, for the last usages of a code) and by staff.

The view is read in one step although it is several statements (the lines, then
the coupon): for a customer whose requests do not overlap nothing can come in
between but the coupon's usage and stock, which are checked again later.

### Requests, and the services built on it

A request that takes more than one statement is a record in `request[h]`: what
it has read, and in `op` where it is. `Begin` takes it up with its first read,
`GoOn` goes on, `End` answers it, and `Abandon` ends it anywhere: a refusal, an
error or a lost process, after which what was written stays. `on` names what a
request works on (rows, tokens, users), and `overlapped` is history: what two
requests have been in flight on at once. No guard reads it. The code guards
little against such requests, so most properties are about what no two requests
overlapped on, while anything else may happen to everything else; a property that
needs no such condition does without.

A statement is one step. So is a transaction whose first statement takes the only
row it needs. A transaction of several statements at READ COMMITTED is several
steps where it sees between them what others commit (`Addresses`, `Images`), or
waits for rows (`Campaigns`, `OrderTransactions`); its writes appear with its
last step.

| Module | Steps of the code that are steps here |
|---|---|
| `Sessions` | `BeginRefresh`, then `Rotate`, or `RevokeAll` when the token is revoked (auth.service.ts:195-252); `BeginLogin`, `IssueLogin`; `BeginLogout`, `Logout`; `ForgotPassword`; `BeginReset`, `ResetPassword` (:297-333); `UpdateStatus` of an account with the revocation of its tokens |
| `Accounts` | lookups before `Register`, `GoogleNew`, `GoogleLink` and `UpdateMe`, which the unique keys may refuse; the avatar's file, the row read, the old file deleted, the row written; `RegisterDevice`, which hands a device over |
| `Pushes` | per customer: the row and the tokens read, then one push at a time, then the unknown devices switched off by the ids that were read |
| `Addresses` | `create`: defaults cleared, row inserted; `update`: defaults cleared, row written; `remove`: next default chosen, row and next written |
| `Categories` | the parent resolved, the children counted, the row written |
| `Products` | `update` and the stock row it makes afterwards; variants that look at their product first; `BulkReassign` |
| `Images` | file saved, images counted or cleared, row inserted; `deleteImage`: row marked, file deleted, next found, next promoted; a banner's file and row |
| `PublicCaches` | `Load` and `StoreView` of a reader, the write and the `Invalidate` of a writer, `Expire`; the settings row found or made; `ReadSection` and `Upsert` of each section of a patch |
| `Campaigns` | a bulk request counts the campaigns one by one, each row locked to the commit, and passes over one that is deleted; `Deadlocked` is the database's detector |
| `Reviews` | the review read; row, aggregate and rating in one transaction, which does not see what another has not committed |
| `OrderEvents` | number drawn, order written; jobs started after a commit that nobody awaits: `NotifyOrderStatus`, `LoadAdminListRow` and `EmitAdminOrder`, in any order; `JobFails`; `Crash` loses them all; `RedisLosesCounter` |
| `Totals` | lines priced, coupon read, fee read, minimum checked, coupon validated again (cart lines and subtotal as they were), order written; staff edit prices, code and settings in between |
| `Scripts` | of each row of the importer, every statement that is committed by itself: `CreateMain`, then `CreateProduct`, or `UpdateProduct` and after it `UpdateStock` (products-excel.importer.ts:240, :268, :286); the organizer's subcategories and moves one by one, its dry run; cut short between any two writes and run again, beside customers and staff, who may also put products in subcategories that no plan knows (`Own`) |

`Feeds`, `Offers`, `Campaigns` (rotation) and `Reports` also hold pure
algorithms: each is an operator on the rows of a moment, translated from its
own query or loop, and the properties relate operators that are written apart in
the code (the count a tree shows with the list it leads to, the price a deal
shows with the price a cart charges, the figures of one dashboard with those of
another).

Every page of a list is a query of its own, ordered by one column: the time made,
the price or a name. `Sorted` is therefore a set, the orders in which a query may
return what it found, and each page of `PagesInOrder` is cut from a member of its
own. What ties may be on two pages or on none; what the property says is that
nothing else may, and that pages stay in order.

`Reports` keeps instants. An order is on one day for the ranges of a dashboard,
which go from midnight to midnight of the server's clock (`LocalDay`), and maybe
on another for its charts, which name days by UTC (`UtcDay`); `Offset` is how far
the two clocks are apart. `usage` are the `CouponUsage` rows, which an order gets
only if its code takes something off (orders.service.ts:297), while its snapshot
names the code in any case. `Top` is the cut of a list to its greatest, ten in
the code (`TopSize`).

## Runs

All runs allow deadlock (`CHECK_DEADLOCK FALSE`): once every order has been
placed and finished, or the bounds are used up, there is nothing left to do.

| Run | Instance | Shows |
|---|---|---|
| `races` | 2 orders, 1 row of 2 units, 2 handlers, both flows, history up to 6 rows | `UncontestedSettled`, `UncontestedHistory`, `UncontestedForward`: an order whose own requests never overlap takes only allowed steps, has a history that is one path, and holds the stock its status says |
| `stock` | 2 delivery orders, 2 rows (3 and 1 units), 2 baskets, 2 handlers, one correction by -1 or +1 and set-quantity to 2 for each row, history up to 4 | `StockAttributed`, `StockBounds`, `LedgerAccounts`, `StockConserved`: no row promises more than it holds, its ledger accounts for it, and no unit is reserved or missing without a reason |
| `transactions` | 2 transactions at a time on 2 rows (2 and 1 units), corrections by -1, set-quantity to 1, history up to 3, fairness, no symmetry | `ImplementsAtomic` (the refinement), `RequestsEnd` (liveness, opposite lock orders included) |
| `carts` | 1 customer, 2 requests at a time, a product (2 units) and a variant (1 unit), lists of one and two lines, quantities 1 and 2, 2 orders | `UnitsKept`, `OneLinePerItem` |
| `coupons` | 1 customer, 2 requests at a time, a pickup-only code with one usage, 3 orders | `ViewCurrent`, `OverrunBounded`, `UserLimitKept` |
| `customers` | 2 requests at a time on one of six services: 1 user with 3 tokens and 1 reset; 2 accounts, e-mails and Google accounts, 1 device, 3 files; 1 customer with up to 3 addresses; 2 shoppers | `OneLivePerSession`, `ResetsEndSessions`, `ProfileServed`, `DevicesServed`, `OneDefault`, `SearchesCounted` |
| `catalogue` | 2 requests at a time on 3 categories, on 3 products with 2 variants, or on the images of a product and a category (3 files); every small catalogue for the counts and lists, every order and length of a page | `OneLevel`, `StockRows`, `OnePrimary`, `UploadsServed`, `FeedsAgree` |
| `services` | 2 requests at a time on sections, offers, campaign terms, reviews, order events, totals; every pair of offers and prices at the boundaries, every pool of 3 campaigns; a script on 2 products, one of a plan's two rules and one place that no plan knows | `TermsWhole`, `FlashExact`, `RotationFair`, `RatingExact`, `OnlyVetted`, `ToldAsCommitted`, `NumbersFresh`, `DiscountRecorded`, `ScriptsRerun`, `MergeKeepsOthers` |
| `liveness` | 2 requests at a time on the caches, the settings row, or 2 campaigns tracked in both orders; every pair of orders at the edges of a period, with codes that take something off or not, in years that begin on any day of a week, lists cut to one; fairness, no symmetry | `StaleExplained`, `SettingsRead`, `EventsCounted`, `FiguresAdd`, `TrackEnds` |
| `cancel_confirmed`, `cart_offers`, `bulk_reassign` | see [Disagreements](#disagreements) | a violation |

`MCCustomers`, `MCCatalogue` and `MCServices` put services that share no rows
into one instance: a behaviour is of one of them, its `focus`, so that the states
add up instead of multiplying. The others stay as they began.

Two handlers are enough for every race the code has, since each is between a
read and one write or transaction that comes after it; a third only repeats one
of the two. Two orders on one row are needed for a race on one to reach the stock
of the other. `MaxHistory` bounds the requests on an order: 6 rows let a delivery
order run its whole flow and a pickup order be raced on its way; `MaxMovements`
bounds the manual movements of a row, `MaxPasswords` the resets of an account,
`MaxAddresses`, `MaxImages`, `MaxWishes` and `MaxSearches` the rows of a kind,
`MaxVersions` the writes of an order, `MaxNumber` the numbers of a day. A row of
one unit makes refusals happen. Three tokens are a login and two rotations, or
two sessions of which one rotates; three addresses leave two to choose from when
the default goes; three categories make the chain that two levels exclude. In
the cart runs nothing needs a bound but the number of orders: the stock bounds
the quantities, and lines are revived. In the reports a day is two instants
(`DayLength`) and the server's clock one ahead of UTC (`Offset`), so that the
first and the last UTC day of a range are half in it; `TopSize` is 1, so that the
second code or product is cut. `Own` is one subcategory that staff made, of the
organizer's group and in none of its plans. Three orders are one more than the two
that `OverrunBounded` allows with one usage and two requests. Symmetry is used
in safety runs only, over sets none of whose members a definition names.

### Fairness

`FairTxSpec`: a handler that can go on does (`WF`: the event loop runs it); a
waiting transaction gets its row or is refused if the row becomes free again and
again (`SF`: PostgreSQL queues the waiters of a row); the deadlock detector acts
on a cycle that stays (`WF`). `FairSpec` says the same of the bulk requests of
`Campaigns`. No fairness on new requests, on failures, or on anything that staff
or customers do. The other properties are safety and need none.

## Disagreements

Three runs of kind "violation" show a line of the repository and what the code
does instead:

| Run | What is said | What the code does |
|---|---|---|
| `cancel_confirmed` | `'Only pending orders can be cancelled'` (src/src/orders/orders.service.ts:404) | the check is on the order read before the transaction; the update is by id alone (:411). A confirmation that commits in between leaves a CANCELLED order whose goods stay deducted, and releases a reservation of another order |
| `cart_offers` | "applies product offer before category offer and sale price" (src/src/pricing/pricing.service.spec.ts:14) | `getCart` hands pricing the offers of a product without the `productIds` that pricing looks for (src/src/cart/cart.service.ts:83, :414), so an offer on a product shows on its page and not in the cart or the order |
| `bulk_reassign` | "Public Redis cache `categories:public` invalidated on category/product mutations" (src/docs/ADMIN_INTEGRATION.md:87) | `bulkReassign` deletes no key (src/src/products/products.service.ts:1077), so the tree keeps the old counts until they expire |

Others were met while modelling. They show in the models as the conditions of
the properties, which hold with them and fail without:

- two overlapping staff cancellations restore the goods twice, and a status
  update that overlaps another may write a step the flow does not have
  (`contested`);
- "Set exact inventory quantity" (src/src/inventory/inventory.admin.controller.ts:150)
  works out a difference outside the transaction (inventory.service.ts:309); a
  movement in between leaves another quantity;
- 'Coupon usage limit reached' (coupons.service.ts:76) is checked before the
  transaction that adds the usage: orders in flight at once pass the limit, by
  less than their number (`OverrunBounded`);
- `@@unique([cartId, productId, variantId])` (src/prisma/schema.prisma:619) does
  not compare null variants: two overlapping additions make two lines;
- two refreshes of one token both rotate it (auth.service.ts:206), and a refresh
  or login in flight outlives a password reset (`late` in `Sessions`);
- `averageOrderValue` divides by completed orders in one report of a customer and
  falls back differently in the other when there are none, and the reviews a list
  of customers counts include deleted ones, those of the summary do not;
- an update of a coupon compares its dates only if it names both
  (coupons.service.ts:213);
- "List products frequently bought together with this product"
  (src/src/products/products.controller.ts:118): the query compares text columns
  with `${productId}::uuid` (products.service.ts:201, :204), for which PostgreSQL
  has no operator, so it is refused every time; there is no list to model;
- an order near midnight is inside a range by the server's clock and on a day
  outside it in the chart of that range, which names days by UTC
  (admin-analytics.service.ts:443), and the codes in a customer's charts count
  snapshots (admin-customers.service.ts:426), not the usages of the same
  customer's summary (:297).

## Proofs

TLAPS proves the following for every value of the constants: any sets of rows,
orders, handlers, customers, tokens, files, categories, campaigns, reviews and
so on, and any bounds. Of the assumptions, the named `ASSUME`s of the modules,
TLC evaluates each in a passing run:

- `Null` is no value of the sets it is added to (`NullAssumption`,
  `AccountAssumption`, `ProductAssumption`, `ImageAssumption`, `OfferAssumption`
  and their like);
- what is summed, counted or listed is finite: orders (`OrdersAssumption`,
  `CheckoutAssumption`), handlers (`CartAssumption`), reviews and their stars
  (`ReviewAssumption`), orders and customers of a report (`ReportAssumption`),
  groups and names (`ScriptAssumption`), categories, products and variants
  (`FeedsAssumption`), campaigns (`CampaignAssumption`);
- quantities, deltas, days and stars are integers, prices, limits, fees and the
  units of a product naturals (`StockAssumption`, `TotalAssumption`,
  `ProductAssumption`), baskets are functions from
  rows to naturals; a day has a length and a cut list a size, both naturals, and
  the clocks a whole difference (`ReportAssumption`);
- every plan of the organizer has a rule for the rest and knows no subcategory
  that staff made, and `Null` is no product and no line of a file
  (`ScriptAssumption`, `ItemAssumption`).

What staff may send is a parameter of some specifications; theorems about these
say what is assumed of it: a change of a campaign's terms does not name the
counters or the mark of deletion (`ChangesOK`; the DTO has no such field), a new
campaign has all its terms (`TermsNamed`), a weight is an integer
(`WeightsGiven`, `WeightsChanged`; `@IsInt` in the DTO), a bulk request lists
campaigns (`BulksOK`), offers and files have their columns' types. `NullIsNoRow`
says that `Null` is told from a row.

Every theorem on a specification has the same form: an invariant that the
initial states satisfy, that every action keeps (a lemma for each action), and
that implies the property. The tables name that invariant and what it adds to
the property: mostly, what a request in flight knows.

### Sums (`Sums`)

`SumFunctionOnSet` is a recursive function on the subsets of a finite set. The
library's induction theorems are out of reach (they take an operator as a
parameter), so each induction is an argument about a smallest counterexample,
which is a set (`SmallestSubset`). From it: that the sum takes out an element
(`SumTakeOut`), follows a change of one (`SumChange`), adds (`SumAdd`, `SumPlus`,
`SumSplit`), and that sums and counts by groups add up (`SumOfParts`,
`CountOfParts`).

### Orders and the rows below them

| Theorem | Property | Argument |
|---|---|---|
| `OrdersProofs!TypeCorrect` | `TypeOK` | inductive by itself; one step per action, lemmas for the ledger rows and the request records |
| `StockNeverOverpromised` | `StockBounds` | inductive with the types; one lemma per stock operation, each from the check its code makes |
| `UncontestedOrdersSettled` | `UncontestedSettled` | not inductive: a commit must know that what it read still holds. `IInv` adds `RequestsCurrent`: a request in flight was let through by its read, and on an uncontested order it is the only one and the order is as it read it |
| `UncontestedOrdersForward` | `UncontestedForward` | from `IInv`: a commit on an uncontested order starts from the status it read, for which its step is allowed |
| `UncontestedHistories` | `UncontestedHistory` | `Path` with `IInv`: the row that is appended starts from the status that was read, which is where the path ended |
| `LedgerCorrect` | `LedgerAccounts` | inductive with the types; appending a row worked out from the quantity on hand keeps the chain |
| `StockAlwaysAttributed` | `StockAttributed` | `AttributedInv`: an order that is not placed has no account. Then a step changes one order's account and the rows of its lines by the same units (`SumChange`), and no other |
| `StockAlwaysConserved` | `StockConserved` | from the former and `IInv`: as long as nothing overlaps, the account of every order is 0 or 1 as its status says, so the sums are over the pending and the accepted orders |
| `OrderTransactionsProofs!TransactionsAtomic` | `ImplementsAtomic` | the refinement. `TxInv`: an open transaction is that of its handler's request, or a placement of an order nobody else places; a row it has taken is locked by it, was not refused, and what it means to write is the row as it still is, changed by its line. So a commit publishes what the one step of `Orders` writes (`EndTxEffect`, `CommitPlaceIsPlaceOrder`, `CommitWriteIsCommit`), and everything before it changes nothing that `Orders` sees |
| `RowsNeverOverpromised` | `StockBounds` | the refinement and `StockBoundsNext` of `OrdersProofs` |

### Cart and coupons (`CheckoutProofs`)

| Theorem | Property | Argument |
|---|---|---|
| `ViewsCurrent` | `ViewCurrent` | `IInv` adds that a customer whose requests have not overlapped has one request at most (`SoleRequest`), and that its checkout, before it reads the view, finds the fulfilment type it wrote (`PlaceTyped`). Every cart step begins a request or goes on with one, and touches the cart of its own customer alone (`CartStepKinds`) |
| `OverrunsBounded` | `OverrunBounded` | usages alone are not inductive: `LimitInv` counts with them the checkouts that have validated the code and not recorded a usage. A validation found the usages below the limit, and a commit turns a counted checkout into a usage |
| `UserLimitsKept` | `UserLimitKept` | the same count for one customer, with `SoleRequest`: the checkout that validates is the only one counted |
| `CheckoutTypeCorrect` | `CheckoutTypeOK` | inductive by itself: the tables of requests and orders are shared by cart and checkout |
| `UnitsAlwaysKept` | `UnitsKept` | `UnitsInv`: the change that a request has counted is the one its write will make (`PlanRight`), and the commit puts into the order what the cart holds, by `ViewCurrent` and `SoleRequest`. Units in the cart are sums over its lines, units ordered over the orders |
| `OneLineKept` | `OneLinePerItem` | `LinesInv`: a request that is to make a line found none, and for the customer of one request at a time there is none still; rows are marked, never deleted, and a variant's second row is refused by its key |

### The other services

| Theorem | Property | Argument |
|---|---|---|
| `CustomersProofs!OneTokenLives`, `ResetsRevoke` | `OneLivePerSession`, `ResetsEndSessions` | `RotationOK`: a token that is to be rotated is still the live one of its session unless it is overlapped, and a request that a reset overtook is known as such when it issues |
| `DefaultKept` | `OneDefault` | of a customer whose requests do not overlap, what a request has read of the defaults still holds (`Current`), so what it writes leaves one; the newest address that `remove` promotes is the greatest of a finite set (`GreatestOf`) |
| `ProfileAlwaysServed` | `ProfileServed` | `ProfileInv`: a sign-in has read the e-mail that is still there. `AvatarInv`: the file of an upload is on disk and nothing else names it, and what an account shows or an upload is about to delete is no other account's. The avatar is served however requests overlap; only a request lost after the deletion leaves a name without a file |
| `DevicesAlwaysServed` | `DevicesServed` | `PushInv`: unless the device is registered again meanwhile, the devices that a push has still to go to are its customer's, and those it is about to switch off are registered to nobody |
| `SearchesAlwaysCounted` | `SearchesCounted` | `SearchInv`: a term has been counted for everyone who has it and for everyone about to get it |
| `CatalogueProofs!TwoLevels` | `OneLevel` | a request that has counted no children, or resolved a top-level parent, is still right unless another was on one of the two (`UpdateOK`, `CreateOK`) |
| `StockRowsAlways` | `StockRows` | `ProductInv`: the rows that a request in flight works on are there, since rows are only marked as deleted; a product sold without variants has its stock row or the request that is about to make it |
| `UploadsAlwaysServed` | `UploadsServed` | `ImageInv`: a file has one owner, be it an image row, a banner or the request that will write it (`Exclusive`), so a deletion takes away nobody else's; holds however requests overlap, but for what was lost halfway |
| `AlwaysOnePrimary` | `OnePrimary` | `PrimaryInv`: what a request alone on its product has counted, cleared and found still holds (`Knows`), and where there is no primary image a deletion is about to promote one |
| `FeedsAlwaysAgree` | `FeedsAgree` | of any catalogue with categories on two levels, which `TwoLevels` gives as long as no two requests have been on one category; the theorem takes that as its hypothesis, because categories on three levels have no count of their own in the tree. Counts over the tree are counts over sets. For the pages: they part the places of a list (`PlacesParted`), and all orders have the same rank at a place (`SortedAlike`), so what ties with none is in one place in all of them; if a product is on no page, those it ties with fill more places than they are, and one of them has two |
| `PublicCachesProofs!CachesExplained` | `StaleExplained` | `ReadCurrent`: what a reader is about to store is current, or the key is overtaken |
| `SettingsFollow` | `SettingsRead` | `RowsOK`: the first row is the one found, and a request that found none was alone |
| `PatchesMerge` | `MergeKeepsOthers` | what a patch has read of a section is the section, unless another request writes it |
| `ServicesProofs!EventsMatch` | `EventsCounted` | `ShapeOK`: a bulk request holds the row of every campaign it has counted, so what it has counted so far is its part of the tally when it commits; the tallies are cardinalities of disjoint sets |
| `NumbersStayFresh` | `NumbersFresh` | every number drawn or written is at most the counter |
| `NoticesMatchCommits` | `ToldAsCommitted` | `ToldInv`: every version is in exactly one of three places, told, pending or missed; a dashboard job reads the row at its own time |
| `TermsStayWhole` | `TermsWhole` | `OffersInv` and `TermsInv`, which each leave the rows of the other alone: what a request will write, put over the row, is whole if nobody else is on the row; where a campaign leads is written as a whole or not at all, so that part holds however updates overlap |
| `RotationAlwaysFair` | `RotationFair` | from `TermsInv` with `WeightsInv`: weights are integers, in the rows and in what updates will write. Of any list: two choices of picks first differ at one position, where the shuffle then leaves two campaigns, so no order comes from two; and every order is reached by picking for each position, from the last on, the campaign that belongs there. The tickets of a campaign are those between the sums of the shares before it and up to it |
| `FlashAlwaysExact` | `FlashExact` | from `OffersInv`: no offer that was ever written takes off more than there is, so the best of those that run exists and is a price; rounding of cents and the order of the rules are worked out case by case |
| `OnlyVettedAlways`, `RatingAlwaysExact` | `OnlyVetted`, `RatingExact` | `ReviewInv`: what a request is to write is vetted if nobody else is on the review, and its rating is that of the rows it leaves if nobody else is on the product. A row that is replaced changes the sums of its own product by what it had and has |
| `DiscountAlwaysRecorded` | `DiscountRecorded` | `TotalsInv`: the discount a checkout has read is what its code gives as long as the code is not edited, and never above the subtotal |
| `FiguresAlwaysAdd` | `FiguresAdd` | of any orders at any instants: every chart is by a key (status, UTC day, week, way of delivery, customer) that each order has one value of, so its groups add up (`TotalByKey`, `CountByKey`), whatever days the range is of. The codes add up to the orders that have one (`CodesAddUp`), which are the usages and those whose code took nothing off (`CodedOrders`), and a cut list to no more (`TopSum`, `TopExists`). The two periods meet (`PeriodsMeet`), and the orders of the last thirty days are those of each customer (`ThirtyDaysAddUp`). A week's Thursday is in one year, and numbers its Monday (`WeekOfMonday`) |
| `ScriptsAlwaysRerun` | `ScriptsRerun` | `ScriptInv`: as long as nobody else writes, the lines that were read are as the file says, but for the stock of the one product whose row is half written; what is out of place is on the organizer's list, what is in a subcategory of no plan is not, and the moves that are made and left are those that a dry run foretold |

## Limits

Only model-checked:

- `RequestsEnd` and `TrackEnds`: liveness under fairness is out of the prover's
  reach, as is `ENABLED`;
- the three disagreements, which are counterexamples.

Abstracted:

- `Shuffle` is written for the prover, which takes no recursive operator, as a
  function of the number of swaps; `Top` chooses any of the cuts that a sort and
  a slice may leave.
- The server's clock is always as far from UTC: there is no change to summer
  time. The database's session is in UTC, so `date_trunc` names UTC days.
- PostgreSQL is assumed to provide row locks, rollback, unique keys and deadlock
  detection, Redis its atomic commands; definitions that stand for them are
  external in the map.
- Integers are unbounded; the columns are 32-bit, and no quantity the service
  takes comes near the limit. Amounts are whole cents, and a percentage rounds
  half a cent up, as the code's decimals do.
- The limits of a code are constants of `Checkout`; its amounts are in `Totals`,
  which has one code, one way of delivery and one checkout at a time.
- Names, notes, texts in two languages, phone numbers and addresses are left out;
  a time is a number of days where a property is about time, else expiry is
  something that may happen at any moment.
- Composition is by what services share. The order models, the cart models and
  each of the services on `Requests` are checked apart from the others: `Orders`
  takes any basket, `Totals` any price, `OrderEvents` any write of an order.

## Not modelled

- Replies to a review, reports of a review, marking a notification as read: one
  statement on one row under a key, which nothing else reads.
- Listings, printing, suggestions and search text, the search for pictures at
  Pexels: queries without effect.
- Figures on searches, wishlists, coupons and new customers: counts of rows by
  day or by name.
- `admin-audit`: rows that are only appended and that no decision reads.
- The seed of an empty database: upserts of fixed rows.
- The handshake of the socket, guards, filters, interceptors, configuration,
  health, the clients of PostgreSQL, Redis and Firebase: wiring without state of
  its own. Controllers appear where they hold a step of their own (the upload of
  an avatar).
- `PROJECT.json` lists every component with its status, and every hazard with the
  properties that watch it. One has a note instead: the importer writes the
  quantity of the file over a stock row whatever is reserved of it
  (src/prisma/importers/products-excel.importer.ts:286), and would break
  `StockBounds` at once.
