# Veluntra backend: TLA+ models and proofs

Veluntra is a multi-seller shop API: Node.js, Express, Prisma, PostgreSQL (READ
COMMITTED), Stripe for card payments, one process with an in-process scheduler.
The repository has no tests. What is hard to get right in it is not in any single
handler: it is what happens between the `await`s of two of them. This project
models the handlers at that grain, model-checks them with TLC and proves with TLAPS
what they guarantee.

Paths below are relative to `src/src/modules/` unless they start with `src/`.

## The system

| Part | State | Operations | Interacts with |
|---|---|---|---|
| Checkout (`orders/orders.service.js` `createFromCart`) | orders, order items | one transaction: an order per store, stock, coupon, cart | cart, coupons, inventory, settings |
| Order lifecycle (`updateStatus` and callers, `orderStateMachine.js`) | status, payment status, refund, rewards | status changes, cancellation, return, exchange | inventory (both pools), users, notifications |
| Payments (`payments/*`) | the Stripe session (external) | open a session, webhook, `markPaid` | orders |
| Scheduler (`src/src/jobs/scheduler.js`) | none | every 15 minutes: sweep of unpaid card orders, four notices | orders, notifications |
| Seller inventory (`inventory/inventory.service.js`) | `Product.stock`, `ProductVariant.stock`, audit log | conditional decrement, increment | checkout, lifecycle, product edits |
| Warehouse inventory (`inventory/warehouseInventory.service.js`) | `WarehouseStock` rows, audit log | get-or-create, adjust, decrement, restore | fulfilment requests, lifecycle, admin |
| Fulfilment requests (`fulfillmentRequests/*`, `fulfillment/*`) | request rows, `OrderItem.fulfillmentSource` | create, approve, reject | warehouse, orders |
| Cart (`cart/cart.service.js`) | cart, lines, applied coupon | add, update, remove, apply coupon, merge a guest's cart | checkout, coupons, promotions |
| Coupons (`coupons/*`) | limits, counter, redemption rows | create, update, remove, validate | cart, checkout |
| Products (`products/products.service.js`) | catalog, stock edits | CRUD, options and variants, bulk edits, CSV import | inventory log |
| Pricing and promotions (`src/src/utils/pricing.js`, `promotions/*`) | promotions | best promotion, coupon discount, totals | cart, checkout |
| Accounts (`auth/*`, `permissions/*`, `src/src/middleware/auth.js`) | users, refresh and reset tokens, role permissions | register, login, refresh, reset | everything |
| Content (`reviews`, `homepage`, `settings`, `categories`, `brands`, `wishlist`, `addresses`, `suggestions`) | one table each, ratings, drafts, flags | CRUD, moderation, publish, restore | activity log |
| Sellers and partners (`seller`, `admin`, `affiliates`, `partnerApplications`, `dropshipOrderRequests`, `wholesaleOrderRequests`) | stores, applications, requests | submit, then moderate | users, stores |
| Outputs (`stats`, invoices, slips, labels, mail, notifications, uploads) | none of their own | read, print, send | none back |

### What is hard

* **Check, then act.** Nearly every handler reads with one statement and writes with
  another, outside a transaction or inside a READ COMMITTED one, which protects
  nothing of what was read. Where the author cared, the write repeats the condition
  (`updateMany ... where stock >= quantity`, `where usageCount = seen`); elsewhere it
  does not (`updateStatus`, `markPaid`, `approve`, `getOrCreate`).
* **Locks.** A transaction keeps the rows it has updated locked until it ends, so two
  checkouts with the same rows in opposite order can deadlock.
* **Partial failure.** Checkout's answer (Stripe session, demo mark) comes after the
  commit; the webhook loops over orders with a statement each; the process may die
  anywhere.
* **Delivery.** Stripe delivers a webhook until it has a 200, and possibly again,
  concurrently or much later; the sweep does not know about a payment on its way.
* **Two pools.** An item's units belong to the seller or to the warehouse, and that may
  change after the order was placed.

`PROJECT.json` lists these hazards line by line, with the properties that address them.

### What makes each part correct

Checkout: no overselling, all or nothing, coupon limits, an answer for every request.
Lifecycle: units go back exactly once, to where they came from; refunds and payments are
what Stripe says. Warehouse: units are conserved, an item is served once, closed orders
give back. Cart: no addition is lost or doubled. Stock edits: the audit log explains the
stock. Pricing: discounts never exceed what they discount, and shares add up. Accounts:
a token is used once. Ratings, drafts, flags: an edit is not lost to a concurrent one.

## Modules

| Module | Models | Checked by |
|---|---|---|
| `AtomicCheckout` | what checkout promises: the abstract specification | `MCCheckout` |
| `Checkout` | `createFromCart`, row locks, its competitors; implements `AtomicCheckout` | `MCCheckout` |
| `Checkout_proofs` | invariants and refinement, proved | |
| `OrderBook` | what the shop promises about an order: each change one event (abstract) | `MCOrderLifecycle` |
| `OrderLifecycle` | orders after the commit: response, Stripe, `updateStatus`, sweep; implements `OrderBook` while updates are apart | `MCOrderLifecycle` |
| `OrderLifecycle_proofs` | invariants, proved: whatever overlaps, and while updates of an order do not; the refinement | |
| `StockAccount` | what the warehouse promises about a product: one account (abstract) | `MCWarehouseFulfillment` |
| `WarehouseFulfillment` | warehouse stock of a product, fulfilment requests; implements `StockAccount` | `MCWarehouseFulfillment` |
| `WarehouseFulfillment_proofs` | invariants, proved: whatever overlaps, and while nothing does; the refinement | |
| `Catalog` | product edits, bulk edits, the import, sales, and the inventory log | `MCGoods` |
| `Cart` | a shopper's two carts and their merge | `MCGoods` |
| `Pricing` | what a cart shows and what its orders charge | `MCGoods` |
| `Storefront` | the lists page by page; requests of dropshippers and wholesalers | `MCGoods` |
| `Reviews` | reviews of a product and the rating on its row | `MCGoods` |
| `Goods` | the five above side by side | `MCGoods` |
| `Accounts` | accounts, roles, sessions, password resets, stores | `MCOffice` |
| `Editorial` | settings, homepage sections with drafts, plain rows, the activity log | `MCOffice` |
| `Bootstrap` | the start of the server and the scripts it meets | `MCOffice` |
| `Notices` | the scheduler's announcements | `MCOffice` |
| `Reports` | the figures of the dashboards | `MCOffice` |
| `Desk` | addresses, wishes, applications, suggestions, affiliates | `MCOffice` |
| `Office` | the six above side by side | `MCOffice` |
| `Catalog_proofs` | the log explains the stock, proved | |
| `Goods_proofs` | `Reviews`, `Cart`, `Pricing`, `Storefront`, and the types of `Goods`, proved | |
| `Accounts_proofs` | sessions, stores, roles, proved | |
| `Office_proofs` | `Editorial`, `Bootstrap`, `Notices`, `Reports`, `Desk`, and the types of `Office`, proved | |
| `Sums` | sums over finite sets: the lemmas the other proofs cite | |

`Checkout`, `OrderLifecycle` and `WarehouseFulfillment` carry the core. What the others
model shares no variable with its neighbours at the grain modelled: `Goods` and `Office`
are the conjunctions of their specifications, and the theorems about them are about all
modules moving. Interleaving them would multiply TLC's states and show nothing, so
`MCGoods` and `MCOffice` choose one of them at the start (`part`, `unit`), and the rest
do not move. Where components do share state, they are in one module: checkout with
stock, coupon and cart; the lifecycle with Stripe and the sweep; the warehouse with its
requests and the orders that close; sales with product edits; the bootstrap with the
edits and scripts it runs into.

Each module carries, next to some definitions, faulty variants of them ("Faulty
variant: ..."): a guard dropped, a swap turned into a plain increment, a loop not
awaited. They are used by nothing; each shows that a property notices that mistake when
it replaces the definition it is a variant of.

Nearly all handlers have the same shape, which the modules keep: a first step that reads
and decides (the early returns are its guards), then a step for every statement or
transaction that writes, from what was read. `Abandon...` is an error or the end of the
process in between. A property that such a handler breaks only when it is overtaken says
so, by a history variable that records exactly the overtaking (`excused`, `disturbed`,
`upset`, `forked`, `stale`, `crossed`): the property then claims that nothing goes wrong for
any other reason. So these properties do not catch the race itself: each is listed under
"Holds only while nothing overlaps".

### Checkout

State: the committed database (`stock`, `sold`, `coupon`, `redemptions`, `cart`, and the
history variable `peak`, the highest limits the coupon has had) and, per request, its
position `pc`, what it has read (`lines`, `wants`, `seen`) and what its open transaction
has done (`opened`, `taken`, `target`). Locks are not variables: a row is locked if some
open transaction holds units of it (`Holds`), and the coupon row if a checkout is past
its swap. `Blockers` are the checkouts a statement waits for, over stock rows and the
coupon.

| Action | Code |
|---|---|
| `ReadCart`, `Begin`, `Refuse` | `orders.service.js` 33 to 121, before the transaction |
| `CreateOrder`, `CouponGone` | `tx.order.create` of a store, 126 to 174 |
| `SendDecrement`, `DecrementStock`, `OutOfStock` | `fulfillOrderItem`, `inventory.service.js` 16 to 25; sent and executed are two steps because it may wait |
| `ReadCoupon`, `CountRedemptions`, `RedeemCoupon`, `LostRace` | 200 to 219 |
| `Commit` | 220 to 239 and COMMIT |
| `DeadlockVictim`, `Abort`, `Rollback` | PostgreSQL and Prisma: deadlock detection, timeout, lost connection |
| `EditCart` | the cart's endpoints; a coupon is validated when applied (`findValidCoupon`) |
| `WriteStock` | restocks, `adjustStock`, bulk edits: any value, once the row is free |
| `UpdateCoupon`, `ExpireCoupon`, `DeleteCoupon` | `coupons.service.js` 48 to 83 and the clock |

Abstractions. A product without variants, or one variant, is a stock row; lines of a cart
for the same row are added up. Money is not modelled: a discount is the fact that the cart
it was computed from had the coupon. The reasons for which a request is refused other than
stock are one action, `Refuse`, which may always happen. There is one coupon. A request is
submitted once; a customer who submits twice is two requests. Everything that may be lost
in a stale stock edit is inside `WriteStock`.

### Order lifecycle

State: the orders of one checkout (`status`, `payment`, `source`, `method`), two history
variables (`restored` per pool, `rewarded`), Stripe and the clock (`session`, `acked`,
`stale`), and `Requests`, slots in which handlers run (`pc`, `order`, `by`, `change`,
`seen`, `todo`). An `updateStatus` is a call (the caller's own check), `ReadOrder` (line
326 and the guard) and `CommitUpdate` (the transaction, deciding on what was read). A
webhook is a read and a write per order. The sweep lists, then cancels one by one.

Abstractions. All items of an order have one source. The windows for cancelling and
returning are long or short as the settings say, so they may or may not stop a customer.
Staff do what `StaffMoves` allows, at most `MaxMoves` times; in the runs about overlaps
any status may follow any other, which is what the endpoints accept. Failures are bounded
by `MaxFailures`. Points and lifetime spend are one reward.

### Warehouse

State: `row` (stock rows of one product without variants), `request`, `source` and `order`
per item of one unit, histories (`adjusted`, `deducted`, `returned`, `overlapped`) and
handlers. `create` is three steps (reads, `existingPending`, insert), `approve` and
`reject` two (read; transaction or write), `adjust` two (`findFirst`; the rest of the
transaction), closing an order two. `findFirst` has no order, so any row may be found.

### Catalog

State: product rows, the log (as the sum of its deltas), what order items point at, and the
staff requests under way with the rows they read. `StartEdit` reads and checks ownership
(`findUnique`, `bulkFindOwned`); `WriteEdit` is one transaction and stands for `update`,
`adjustStock`, the bulk edits with their kinds of writing (absolute from what was
read; `updateMany`; replaced variants, which detach the order items of the old ones);
`Delete`, `Duplicate`, `Create` with `WriteLog` in a statement of its own; `StartImport`,
`ImportRow`, `WriteLog`, `EndEdit` are the CSV import. `Trade` is `decrementStock` and
`restoreStock`, of the row or of the variant. A category, brand, badge or flag is one
`place`. Options and images are left out.

### Cart

State: carts and lines, the shop's price, and per request what it found. `FindCart` is
`findFirst` (any cart), `CreateCart` may make a second one; `AddWrite`, `SetOrRemove`,
`MergeLine`, `MergeEnd` write from the lines read; `Order` stands for the effect of a
checkout on the cart. The coupon is in `Checkout` and `Pricing`.

### Pricing

One step, `PlaceOrders`, over every combination of the instance's carts, promotions,
coupons and charges: `summarize` and `createFromCart`'s split. Amounts are cents,
quotients are exact and rounded where the code calls `Math.round`; the code's floating
point may differ in the last digit before rounding. The two compute a coupon
differently, and so does the model: `CartCoupon` takes a store's coupon on the prices
its lines were added at (`snapshot`) and a platform's on what promotions leave, even if
that is less than nothing; `OrderCoupon` takes it on the prices charged, and on nothing
less than zero.

### Storefront

`StartWalk` parses the query, `NextPage` is one request: any order that the sort key
allows, cut to the page. The five lists are `Public`, `Catalogue` (of both partner
kinds), `OfStore`, `Platform`. `EditWare` and `DeleteWare` are the catalog seen from
here; `Request...` and `SetRequestStatus` the partners' requests, which keep the price
they were made at.

### Reviews

`StartReview`, `CreateReview` (two reads, an insert); `StartModeration`, `WriteStatus`,
`TakeAverage`, `WriteRating` are `setStatus` and `remove` with `recalculateRating`.

### Accounts

State: accounts, stores by owner, refresh tokens and reset codes. A login is the name of its
first token, so that a rotation is a chain (`login`), and `at` counts the resets before a
token was issued. `Register`, `GuestCheckout`, `Login`, `Refresh`, `ResetPassword`,
`SetRole`, `RaiseBoss` and `SoleStore` read and decide; `CreateAccount`, `CreateStore`,
`RevokeOld`, `Issue`, `ResetWrite` and `WriteRole` are the statements that follow;
logout, suspension, store status and deletion are one statement. Deletion and suspension
ask for an admin and for nothing else, of the caller or of the target.

### Editorial

A record is a row with two columns and, for a section, a draft; of the settings the
columns stand for flags in one JSON column. `Open...` reads, `Write` writes (`Applied`
says what each kind of call makes of a row), `Log` logs. `asked` is what the edits, in
the order of their writes, ask for. `OpenRestore` is `restoreFromLog`. `Arrived` is what
validation makes of the values of a form: of a configuration in `Defaulted` (smtpConfig)
it adds the default of a field left out, which Zod keeps through `.partial()`.
`SecretsToWrite` is the handling of masked SMTP, payment and Cloudinary secrets that
follows, and looks at what has arrived.

### Bootstrap

The steps of `prisma/seed.production.js` and `prisma/seedCatalog.js` in their order, one
action per statement that writes or that a later one relies on: `StartBoot` makes the
settings row and decides whether the shop is past its starter catalogue; `FillRow` and
`FillProduct` go through the starter rows; `FillPhoto` and `UpgradePhoto` through two
lists of photos made by one query each (`todo`), of which rows may be deleted before their
turn (`gone`), which ends the boot (`failed`). Only the starter products whose category
has a curated photo (`Curated`; Kids & Baby has none) are given one, the others stay with
a random one. `FillSections` is a homepage without sections; otherwise `ReadHero`,
`ReadLowest`, `InsertHero` or `ConfigureHero`, then `ReadTrending`, `MakeRoom`, `InsertAd`
insert the two banners. `Rehost` moves curated photos to the shop's own host. Where no
account administers the shop, `StartBoot` leads to `Rehost` at once ("bare"). Whether one
does is a choice: who administers the shop is in `Accounts`. `Crash` may come anywhere.

What the shop undergoes between and during boots: edits of products, photos, rows and
sections, the import script, the clean-up and restore scripts, the enrichment from a file.
A section's configuration is a text of the shop's own ("own"), the starter one, or none.

Left out: the photos of the categories (the same statements as the products'), the launch
promotion, the default shipping method; a second section of one type, which two inserts at
once would leave; two bootstraps at once; products of another store, in the count that
tells whether the shop is past its starters.

### Notices, Reports, Desk

`Notices` has a clock: `Check` is a run of the scheduler (soon after the boot, then every
interval), `Tell` a notice, `Fail`, `Stop` and `Restart` what interrupts them. `Reports` has
three actions that make orders and pass time; its operators are the queries of
`admin.service` and `seller.service`. In `Desk` only the default address takes two
statements; the rest is one statement, or an insert that a unique constraint decides.

## Runs

| Run | Shows | Instance |
|---|---|---|
| `checkout_races` | `TypeOK`, `NoOversell`, `CouponWithinLimits`, `DiscountIsRedeemed` | 3 checkouts of one customer, carts of one unit of a product with the coupon, 2 products of one store with up to 2 units, limits 1 to 2; 0.3 M states |
| `checkout_atomic` | `AllOrNothing`, `ImplementsAtomicCheckout`, `NobodyWaitsInVain`, `EveryCheckoutAnswered` | 2 customers, 2 products in 2 stores, carts of a unit of each or of one of them with the coupon; 71 k states |
| `lifecycle_races` | `TypeOK`, `ClosedIsRestocked`, `NeverPaidUnlessCharged`, `DeliveredIsRewarded` | 1 order, 2 overlapping requests, any moves; 1.4 M states |
| `lifecycle_serial` | `ImplementsOrderBook` | 1 order, 1 request at a time, 5 moves; 16 k states |
| `lifecycle_live` | `AckedIsRecorded`, `DemoPaidUnlessFailed`, `PaymentRecorded`, `StaleOrderReleased` | 2 orders paid by card or demo card, 2 requests, a failure; 0.1 M states |
| `warehouse_races` | `TypeOK`, `UnitsAccounted`, `ImplementsStockAccount`; `OneOfEach`, `ClosedGivesBack`, `ResolvedOnce` until handlers overlap | 2 items, 3 requests, 2 rows, 2 handlers; 0.5 M states |
| `goods` | `LogExplainsStock` (Catalog), `CartKeepsUnits` (Cart), `OrdersChargeWhatCartShows`, `InvoiceAddsUp` (Pricing), `PagesCoverList` (Storefront), `RatingTellsReviews` (Reviews), `GoodsTypeOK` | see below; 0.7 M states |
| `office` | `SessionsRotate`, `SellersOwnStores`, `AdminRoleByTheBoss` (Accounts), `EditsStand` (Editorial), `BootSettles`, `BootOnlyAdds` (Bootstrap), `OffersAnnounced` (Notices), `ReportsAgree` (Reports), `OneDefaultAddress` (Desk), `OfficeTypeOK` | see below; 0.6 M states |

and four runs in which TLC finds that the code does not do what its comments say:

| Run | What happens |
|---|---|
| `lifecycle_double_restock` | two cancellations (customer and staff, or customer and sweep) both read an open order and both restock it |
| `lifecycle_refund_undone` | paid, cancelled and refunded, then the webhook again: `markPaid` skips only `paid`, so the order is paid once more |
| `goods_cart_price` | a product without variants is repriced after it went into a cart: the order charges the price the cart remembers |
| `office_coupon_defaults` | an edit of a coupon that leaves a field out sets it to the default of a new coupon |

**Holds only while nothing overlaps.** `RestockedOnce`, `RestockedAtSource`,
`CancelRefunds`, `ImplementsOrderBook`, and those of `warehouse_races` that say so are
false once handlers overlap. It is the same defect each time, a decision on a read
outside the transaction and an unconditional write. Reachable in the models, and not
given a run of their own:

* a request that is approved after its order was closed takes a warehouse unit that nothing
  gives back;
* two first adjustments of a product both find no stock row and create two;
* delivered, return requested, turned down to delivered: points and lifetime spend twice
  (`OrderBook` promises a reward for each arrival at delivered, which is what the code means by
  its comparison; `DeliveredIsRewarded` that none is missed);
* the customer pays, the webhook is late, the sweep cancels; the payment arrives on a
  cancelled order;
* an edit of stock computed from an older value undoes a sale committed in between, and its
  log entry then does not add up;
* two additions to a cart lose one; a merge broken off half-way is doubled by the next login;
* two refreshes with one token leave two sessions; a login begun before a password reset
  issues its token after it;
* a starter product whose slug another product has taken ends every boot until it is freed;
* of two secrets of a form, one typed anew and one left masked: the mask is stored;
* two drafts of a section, or two partial updates of the flags, lose one;
* two recalculations of a rating write in the other order than they have read, and the rating
  is of an older set of reviews; two first reviews of one customer are both stored;
* two calls that make an address the default leave two defaults, until the next such call;
* a seller's registration ends between the account and its store: a seller without a store;
* a photo, product or section deleted between a boot's query and its update ends the boot, and
  with it the start of the server; the next one completes it.

**Holds with an exception that the repository's words deny.** Four properties of passing runs
name an exception, in their formula and their comment, because the code does in that case
what a comment says it does not. Each is reachable in the models:

* `LogExplainsStock`: a file creates a product with a stock below zero (`Number(row.stock)`,
  `products.service.js` 852 and 910, is not checked), and a new product's stock is logged
  only if it is above zero (880, 967); `src/prisma/schema.prisma` 1025 calls the log a
  "Full audit trail of every stock change, however it happened".
* `EditsStand`: the form of the mail settings keeps the default of `secure` although it is
  `.partial()` (`settings.validation.js` 58 to 63), so with every field masked and `secure`
  left out it arrives with `secure: true`, is not `allMasked` (`settings.service.js` 183),
  and its dots replace the credentials; lines 178 and 179 say they do not.
* `BootOnlyAdds`: a boot reads that the hero banner has no configuration
  (`src/prisma/seedCatalog.js` 439); the instance still serving saves one; the boot writes
  the starter one over it (449); line 448 says "never overwrites a config an admin has since
  set".
* `AdminRoleByTheBoss` is about accounts that go on: any admin may delete or suspend an admin
  (`admin.service.js` 28 to 32, 192 to 205), whereas `admin.routes.js` 67 says
  "Granting/removing Admin access is Super Admin-only (enforced in the service)".

**Bounds.** Two processes are what a race needs; three checkouts are taken because the
coupon's swap is a matter of three parties (one wins, one loses the swap, one counts
after the commit). Their carts must be able to share no product: the row lock on a
shared product puts one checkout behind the other until it commits, so that only
checkouts of different products meet at the coupon. Every cart starts with the coupon; a
checkout without one arises once the coupon is deleted. Two stores and two products are
what a deadlock, a partial rollback and the order-by-store loop need. One unit of stock
and limits 1 and 2 make every boundary reachable. One order is enough for races on an
order, since handlers of different orders share no row but the product's, whose writes
are atomic increments; two are needed only for the webhook's loop. `MaxMoves`,
`MaxFailures`, `MaxStock` and `RequestIds` only cut off repetition. The lifecycle's runs
switch the deadlock check off since there the system rests when all moves are used up,
and so do `goods` and `office`; the other runs never rest or stutter forever through
staff actions, and check it.

In `goods` and `office` two calls overlap (two is what a race needs; nothing in these
modules counts to three) and the number of calls is bounded (`MaxEdits`, `MaxCalls`,
`MaxVisits`, `MaxReviewCalls`, `MaxAccountCalls`, `MaxChanges`, `MaxDeskCalls`,
`MaxShopEdits`, `MaxBoots`, `MaxSales`). What each instance must contain:

* `Catalog`: a product with a variant, one without, a SKU still to come, a file that names a
  store that is not its product's, one with a stock below zero, an owner and an admin; two
  edits and a sale.
* `Cart`: three cart rows and three lines, so that both kinds of cart exist twice in turn
  and a merge adds to a line, makes one, and is repeated; four calls, price changes included.
* `Pricing`: amounts of 1 to 10 cents, where a rounding of half a cent is half of
  something; one store or two; every type of promotion and coupon, one beyond what a
  store's share leaves; a price that has changed since its line was added, and percentages
  beyond 100.
* `Storefront`: three products of distinct prices (ties come from edits), pages of one and
  two rows, limits out of range on both sides.
* `Reviews`: two reviews, two authors, two stars, two calls at a time and five in all: each
  order of two recalculations.
* `Accounts`: two people, three tokens (a login, its rotation, the fork), one code; all roles
  to start with that differ in what may become of them.
* `Editorial`: one record of each kind, two columns, three calls of which two overlap: an
  edit, its undoing, and an edit in between; a configuration whose form gets a field from its
  schema and one whose form does not (`Configs`, `Defaulted`), two secrets in each.
* `Bootstrap`: two starter products of which one is sold and one has a curated photo, a file
  with one more, a row made on every boot (`Basics`), one that only a young shop gets
  (`OfCatalog`) and one of neither kind, three boots (one half, one whole, one that finds
  everything done) and two edits between or during them.
* `Notices`: an interval of two ticks, four ticks: two windows, a restart or a late check
  or both, two offers so that one notice fails after another.
* `Reports`: two orders of two stores, three articles in two categories, days of two ticks
  and a window of one day, so that an order grows older than the window and its double.
* `Desk`: two customers, three addresses, two calls at a time, four in all.

**Symmetry** is used on interchangeable requests, items and rows in runs without liveness;
in `office` one set of values stands for the calls of every unit and for the offers.

**Fairness.** `Checkout`: weak fairness on each request (the event loop resumes every
continuation, the database answers) and on PostgreSQL's deadlock detector (it runs after
`deadlock_timeout`). `OrderLifecycle`: weak fairness on the steps of each request, on the
sweep (an interval of 15 minutes whose errors are caught), and on the webhook until it has
been answered (Stripe retries anything but a 2xx). Nothing is assumed of customers, staff,
Stripe's page, failures or crashes. The other modules state no fairness and claim no
liveness.

## Proofs

Every invariant, every action property and every refinement that a passing run checks is
proved by TLAPS, for any numbers of requests, customers, products, stores, orders,
items, lines, reviews, offers, calls and handlers; what is false of overlapping
handlers, under a condition that says they do not overlap. Only the three liveness
properties remain to TLC. The proofs assume of the constants what `CheckoutAssumption`,
`ContentsAssumption`, `LifecycleAssumption`, `WarehouseAssumption`, `CatalogAssumption`,
`CartAssumption`, `PricingAssumption`, `ReviewsAssumption`, `StorefrontAssumption`,
`AccountsAssumption`, `EditorialAssumption`, `BootstrapAssumption`, `NoticesAssumption`,
`ReportsAssumption` and `DeskAssumption` say: bounds are natural numbers, amounts are
natural numbers of cents (in carts and orders; of a file nothing is assumed but that its
numbers are integers), what is summed is finite, a placeholder is none of the things
it stands in for, staff moves and edits are well-formed. TLC evaluates all of them in
the runs.

`RestockedOnce`, `RestockedAtSource`, `CancelRefunds` and `SourceTellsPool` are theorems that
no passing run checks by name: the runs check the refinements that contain them, of
`OrderBook` (closing moves the units once, to the source; cancelling a paid order refunds
it) and of `StockAccount` (the source changes when, and only when, a unit is given).

**Checkout.** `Invariance` proves `Spec => []IInv`; the four safety properties and the type
follow. None is inductive alone. `NoOversell` (what is taken is on the shelf, and by one
transaction only) is what makes `Commit`'s subtraction safe; it needs `Progress`, which says
that a transaction has taken either nothing or the whole line it read, and only of stores it
has opened. `CouponWithinLimits` needs `SeenStillTrue`: while the counter is the one a
checkout has read, so is everything concluded from it, including the count of the customer's
own redemptions, which no lock protects. Hence the compare-and-swap suffices, and at most
one checkout can be past it. `PeakIsHighest` ties the limits read to the limits ever set.

**Refinement.** `Spec => ImplementsAtomicCheckout`: initial states map to initial states;
`Commit` maps to `Place` (its guard follows from `NoOversell` and `SeenStillTrue`), every
rollback and refusal to `Reject`, staff to themselves, and every other step to a stutter.

**Waiting.** `WaitingEndsOrIsDetected`: checkouts that wait for nobody but one another
contain a ring that the deadlock detector finds. Whoever holds the coupon has sent its
last update of a row and waits for nothing, so the waits of such a group are for stock
rows, held by transactions still open (`WaitingEnds`). Among the groups in which each
waits for a row that another holds there is a smallest; if nobody in it waited for one
of its members, the group without that member would be a smaller one, so each member is
waited for as well, and the smallest group is a ring (`RingIsDeadlock`). That locks end
with their transaction on every path, which `Rollback` must do on each of them, is what
makes the claim false when one path forgets it.

**Lifecycle, whatever overlaps.** `ClosedIsRestocked` is preserved because a request
that saw its order closed saw it restocked (`SeenClosedIsRestocked`), and units are
never taken out again. `NeverPaidUnlessCharged` and `AckedIsRecorded` follow from
`MarksFollowPayment`: whoever marks orders does so after the customer has paid, and
leaves no order of its list behind; `RespondsFirst` gives that the response that opens
the session precedes every webhook. `DeliveredOrdersAreRewarded` needs that whoever saw
an order delivered saw it rewarded (`RewardInv`): then the guard against rewarding twice
never leaves the reward out. `DemoOrdersAreMarked` needs that no request carries a
payment unless staff may type one in (`DemoInv`), and that no step but a failure takes
an unmarked order off the list of who is to mark it (`KeepsMarking`).

**Lifecycle, apart.** `RestockedOnce`, `RestockedAtSource` and `CancelRefunds` are false
when updates of an order overlap, as `lifecycle_double_restock` shows. The theorems say
what is enough for them: `Apart`, that while `updateStatus` is about an order no other
request is, and the source of its items does not change between the read and the write;
and `OrdinaryStaff`, that staff reopen no closed order, type in no payment that
contradicts a cancellation, and approve fulfilment of open orders only (the moves of
`lifecycle_serial` are such). The invariant is `SerialInv`: what was read is what the
order is, and what is asked for makes sense of it (`AsAsked`). `AloneIsApart` shows the
condition is met where one request runs at a time, which gives `AloneIsExact`,
for every instance. Under the same condition
`ApartImplementsOrderBook`: `CommitUpdate` maps to `Update` (what was read is what the
order is, so that closing, refunding and rewarding are decided as `OrderBook` decides
them), `MarkPaidWrite` to `Mark` (whoever marks has been charged: `MarksAreCharged`),
the payment at Stripe to `Charge`, `approve` to `TakeOver`, everything else to a
stutter. `AloneImplementsOrderBook` discharges the condition where requests run one at a
time: the claim of `lifecycle_serial` for every instance.

**Warehouse.** Whatever overlaps, no row falls below zero and an item's source tells who
gave for it: a handler half-way through has in hand what still exists, since rows and
requests never vanish (`HandlersKnow`), and what matters is decided again by the
transaction's own condition. `NoUnitLost` adds that no unit is lost or made, in however
many rows two first adjustments have left: each step moves as much in the sum of the
rows as in the books. The rest needs more, that what was read is still so (`StillTrue`),
and that holds as long as no two handlers have overlapped (`Alone`): then an item is
given one unit, out of a row that exists, and gives it back (`ServedOnce`), and there is
one of everything (`OnlyOne`). `ClosedGivesBackWhileAlone` assumes besides that nobody
approves a request of a closed order, which the code leaves to the admin.

The refinement `OneAccount` needs no such condition. The shelf of `StockAccount` is the
sum of the rows, its books are the histories. An approval, a correction and a closing
order that gives back are each one step of it, since the sum of the rows moves as the
one row written does (`SumFunctionOnSet` of a row changed, from `Sums`); who found an
item to be the warehouse's still finds it so when it closes the order, because nothing
makes an item the seller's again (`CloserKnows`). What a race does to the order, it does
not do to the account.

**Catalog.** `LogExplainsStock` speaks of the moments when no entry is outstanding;
inductive is what holds in between (`Explained`): the entries still to be written lead
from what is logged to the stock, one after the other in some order. That chain
(`Explains`) gains a link when a row is written, loses one when its entry is, and shifts
when a sale moves both ends; so no sum over the requests is needed, nor that they are
finite. The stock of a file may be any integer: `SignInv` is that what is below zero, in a
row or in what a request has read, has come from a file or from a copy of such a product.

**Cart.** The claim itself is the invariant, beside what requests have in hand (`CallsKnow`)
and that a line keeps its product until it is deleted (`LinesStay`). Each write changes one
line (`LineChanges`), the books by as much, or marks the product `disturbed`.

**Pricing.** The state has one step, the theorems are about arithmetic. A quotient is
within half a cent of what it rounds (`Rounded`), two of them together within one
(`RoundedApart`): `InvoicesAddUp`. For `OrdersChargeTheCart` the lines are partitioned
by store (`SumByGroups`), and the rounded shares of an amount differ from it by half a
cent per store at most (`SharesAddUp`). Its two conditions are needed. With promotions
worth more than the lines, the cart shows a coupon on a negative amount, which the order
does not charge; without room in a store for its share of the coupon, the share is lost
and the orders charge more.

**Reviews.** `RatingFollowsReviews`: while a recalculation is on its way, its average is
that of the reviews as they are, unless `upset`. **Storefront.** `PagesShowAll`: without
ties a list has one order (`OneOrder`: at the least place where two differ, each would
precede the other), so that what a walk has shown is the beginning of it (`WalkInv`),
pages adjoin (`PageTurns`), and the page that reaches the total ends it.

**Accounts.** `AccountsInv` adds what a call has seen (`CallKnown`), where tokens come
from (`TokensKnown`) and that between the two halves of an exchange the login has no
live token and no second exchange, unless it is `forked` (`ExchangesAlone`).
`OnlyTheBossChangesAdminRoles` is about accounts that go on; deletion and suspension are open
to any admin.
**Editorial.** A record that is not `stale` is what its edits ask for because a call
writes over the row it has read, and logs the row it has replaced (`SeenWasThere`).
**Bootstrap.** `Progress` (with `HeroProgress`, `AdProgress`) says of each step of a boot
what the steps before it have left, `Listed` what a loop has still to go through, and
`Rested` what a settled shop gives the next boot: everything, or enough products (`Grown`) that the catalogue is skipped.
`BootTakesNothing` is the action property, for every step. **Notices.** The windows of two runs that follow each other
leave no gap but those noted in `missed`. **Reports.** Each figure is a sum over orders
or items grouped in another way: `SumByGroups`, and `SumSwap` for two groupings at once;
that windows make no more than the whole is `SumSubset`. **Desk.** There is at most one
default, and none while a call is about to write one.

**Sums.** TLAPS knows nothing of `SumFunctionOnSet`, which is a fold, and an induction over
sets is out of reach here. `Sums` shows that the recursion has a solution, level by level of
the subsets of at most n elements, and that the order in which elements are taken does not
matter; every induction in it is on the least counterexample (`LeastOf`).

**Types.** `GoodsTypeCorrect` and `OfficeTypeCorrect` put the type invariants together,
each from its module's inductive invariant, for the conjunctions `GoodsSpec` and
`OfficeSpec`.

Only model-checked: `EveryCheckoutAnswered`, `PaymentRecorded` and `StaleOrderReleased`,
which rest on fairness, out of this prover's reach (`NobodyWaitsInVain` and
`AckedIsRecorded` are the safety parts of the first two, proved); and the properties of
the four runs that fail, which are false.

## Observations

What the code does, as modelled, where no text of the repository says otherwise:

* Prices: percentages above 100 are accepted; a coupon's scope and minimum are not checked
  again by checkout; `first_order` promotions are never applied; free shipping for VIPs is a
  shipping price of zero. A store whose promotions leave less than its share of a coupon
  gives no more than what is left, so that the orders charge more than the cart showed; where
  promotions exceed what they apply to (percentages again), the cart takes the coupon on a
  negative amount and shows more than the orders charge; and a store's coupon is shown on
  the prices at which lines were added (`OrdersChargeWhatCartShows` says when).
* Lists: rows that tie in the sort key may be repeated or left out across pages.
* Partner requests are accepted for a published product whose store is not approved, and go
  with their product.
* Editing: `promotions.update` does not compare the dates it is given with those that stay;
  an address form without a default clears it, and one without a country resets that.
* Bootstrap: what the staff delete of coupons, shipping methods and the hero banner is back
  after the next start; sections left out because the process died in the loop are not.
  Starter products of a category without a curated photo keep a random one, although the
  comment at `CATEGORY_IMAGE_OVERRIDES` counts none of them.
* Imports: a price or a variant's stock below zero is stored as well. `Pricing` and
  `Checkout` take amounts and stock as natural numbers: what such a product would do to a
  cart is not modelled (it cannot be sold from a stock below zero: the decrement's condition
  fails).
* Reports: `getAnalytics` values old sales at today's price, orders by category count
  cancelled ones, the refund rate may exceed 100 %, the trend of customers skips months
  without any. These figures are not in `ReportsAgree`.
* Notices: reminders are repeated by every check; an offer that starts while the server is
  down for longer than an interval is not announced.

## Not modelled

* Documents, uploads, the HTTP shell and the documentation endpoint: no state of their own.
  Validation is modelled where it changes what is written (defaults, masks, limits).
* Verification of e-mail addresses, device tokens, read marks: columns nothing depends on.
* Reassigning an order to another store and VIP tiers; a store's own settings.
* The scheduler's other three reminders, which have the shape of the one modelled.
* Product images, options and related products; public counters of the homepage.
* Which permission guards which route: a table of constants, checked by one middleware.
* Applying a coupon to a cart, beyond what `Checkout` (`EditCart`) and `Pricing` say of it.
* The development seed and the migrations: data.
* Writing a plain null to a JSON column (publishing or discarding a draft) is taken to clear it.

"components" in `PROJECT.json` gives the status of each part.

## Plan

1. One stock over `Checkout` and `Catalog`: an abstract specification of a product's units
   that both implement.
2. An abstract specification of the inventory log (a chain of entries that adds up to the
   stock) that `Catalog` implements but for the excused products.
3. Liveness of `Notices` under weak fairness of its checks; of `Bootstrap` (a boot that is
   not interrupted comes up, or names the slug that stops it).
4. Coupons in `Cart`, so that an order clears the coupon with the lines.

## Running

    tlc -workers 2 -config MCCheckout_races.cfg MCCheckout
    tlc -workers 2 -config MCGoods_all.cfg MCGoods
    tlapm Checkout_proofs.tla

and so on for each `_proofs` module and `Sums`; `Catalog_proofs`, `Accounts_proofs` and
`Goods_proofs` take a minute or two each.
