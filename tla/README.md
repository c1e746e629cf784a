# Gallery shop: formal models

TLA+ models of the gallery shop in this repository (NestJS backend, React
storefront, MySQL), model-checked with TLC on small instances, with proofs
checked by TLAPS for every size. Everything is translated from the source; the
file and lines each definition stands for are in `PROJECT.json` under `map`.

Run `tlc -config X.cfg M` for a run (section 3 says which `M`), `tlapm M.tla`
for the proofs of module `M`.

## 1. The system

One backend process (`backend/src`, restarted by Docker when it dies), a MySQL
database, browsers, and four outside services: SMTP, Telegram, Nova Poshta and
the image host. Node runs a handler without interruption between two awaits;
between an await and its answer anything else may run. Transactions are
opened by checkout, cancellation, a change of status, the toggle of a like and
the removal of an account. Everywhere else each statement is on its own. The
browser's half is event handlers, timers and answers, any of which may come in
any order.

| Part | State | Operations | Talks to | What is hard |
|---|---|---|---|---|
| Orders (`orders.service.ts`) | `orders`, `order_items`, `paintings.amount` / `isAvailable` | checkout, commission, cancel, admin status and payment, payment proof, archive, remove, claim by a signed-in guest; letters about all this | cart, paintings, Nova Poshta, image host, mail, Telegram | row locks, decisions on rows read before the transaction, saves that compare with a view older than the lock, jobs nobody waits for, crashes |
| Cart (`cart.service.ts`) | `cart_items` | add, update, remove, clear, merge of a guest's cart | paintings, orders | quantities against a stock that moves; merge is a loop of statements |
| Catalogue (paintings, series, materials, techniques, news, giveaways, reviews) | one table each | create, update, remove; the paintings of a series | orders | check-then-insert, saves that write columns nobody changed, a row removed under an edit |
| Mail outbox (`mail.service.ts`, `mail.dispatcher.ts`) | `mail_outbox`, the flag `draining` of each process | queue with deduplication, drain, claim, send, record, reschedule, release stuck rows, manual retry, clear the log | SMTP, orders, auth | two dispatchers, crashes in mid-send, lost answers, hung sends, stale copies of rows |
| Auth (`auth.service.ts`) | `refresh_sessions`, `password_resets`, `users` | register, login, Google sign-in, refresh with rotation, logout, reset and change of password | mail, browsers | concurrent refreshes, lost answers, check-then-act on single-use links |
| Support chat (`support.*.ts`) | `support_chats`, `support_messages`, presence set, sockets, rate windows | connect, write, read, claim, disconnect | auth, Telegram | read-modify-write counters, presence keyed by chat, connect racing disconnect |
| Likes, giveaways, accounts | join rows, a denormalised counter | toggle; join; remove an account with its likes | users, paintings | row locks and deadlocks, counter drift |
| Settings and Telegram links | one row; codes on users and chats | lazy creation, edits, codes from both sides | Telegram bot | read-modify-write, one-time codes |
| Exchange rate | a cached number | refresh with a deadline and a back-off | the bank | stale cache, two calls at once |
| Analytics | - | the overview | all tables | one answer from many moments, days with a changing clock |
| Web session client (`client.ts`, `bootstrap.ts`, `authSlice.ts`) | access token, the refresh in flight, the identity in the store | retry after 401, bootstrap, guards of pages | auth | two refreshes of one cookie, private answers kept across a change of identity |
| Query cache (`hooks/queries`, `hooks/mutations`) | copies of the server's rows | fetch, invalidate, optimistic updates and their roll-back | every route | an answer older than a write, a roll-back over somebody else's change |
| Forms and pages | what is typed, picked, dragged, quoted | photo form, FAQ editor, support desk, order form, customer's chat | the routes behind them | answers out of order, a form changed while it saves |
| Motion (`useScrollContinue`, `useAlternatingVideo`, `useHeroSequence`, the ring) | refs, timers, frames, GPU resources | scroll, load, draw, tear down | the browser | events that outlive their component, resources released once |
| Consent (`privacy.ts`, `consent.ts`) | a key in the browser's storage | decide, withdraw, count | the visit counter | tabs that share storage and hear nothing of each other |

What makes each part correct:

- **Orders, cart, catalogue**: no unit is sold twice, lost or invented; nothing
  sold out is on sale; what goes wrong with one painting touches no other;
  transactions never deadlock; every request is answered; what signing in moved
  to the account stays there; the customer hears of each change, and only of
  what happened.
- **Mail**: every letter written down is eventually sent or visibly given up on;
  nobody gets one twice unless something went wrong in mid-send; an automatic
  letter goes out once per order; the recorded outcome is true.
- **Auth and browser**: a token is replaced once and is dead then; what was
  ended stays ended; a new password ends older sessions; a tab can always
  refresh again; a private answer is shown to nobody else.
- **Support chat**: one chat per identity; nobody sees or writes into another's;
  every message is dealt with; both ends show the conversation they mean.
- **Community, settings, links**: counters equal the rows they count, a refusal
  is true, a code links one chat to one account, an edit does not take back
  another.
- **Storefront**: the cache shows what was there and no phantom once it is at
  rest; what is charged is what was shown; a page turns only when it is meant
  to; everything that is created is released; a withdrawn consent stops the
  counter.

All the hazards, with their lines, are listed in `PROJECT.json` under `hazards`.
## 2. Modules

| Module | What it is |
|---|---|
| `Orders` | `OrdersService` with the stock-moving parts of `CartService` and `PaintingsService` |
| `StockLedger` | what checkout, cancellation and restoration promise about stock, without requests, locks or rows; `Orders` implements it |
| `OrderNews` | which letters and messages a change of an order leaves behind |
| `MailOutbox` | `MailService` and `MailDispatcher` of any number of processes |
| `Sessions` | `AuthService` and `AuthController` for one account, and the browsers' refresh client |
| `SupportChat` | `SupportGateway`, `SupportService`, `SupportPresenceService` and the routes of `SupportController` |
| `RateLimit` | `SupportRateLimitService` |
| `Community` | likes, entries to giveaways, removal of accounts, paintings and giveaways |
| `Catalogue` | the seven tables administrators edit |
| `Links` | the settings row and the Telegram links, from the site and from the bot |
| `SignIn` | `useFinishSignIn()` and `mergeGuestCart()` |
| `ExchangeRate` | `ExchangeRateService` and the deadline of its calls |
| `Analytics` | `AnalyticsService.overview()` and the page's grouping of days |
| `ClientCache` | every query and mutation hook over the query cache |
| `Access` | routes, guards, the tab's identity and token, the keys of private answers |
| `Checkout` | the order form with its quote, and the quote checkout asks for itself |
| `PhotoForm`, `FaqEditor`, `SupportDesk` | the administrator's forms and desk |
| `CustomerChat` | the customer's page, badge and sockets |
| `ScrollContinue`, `PageMoves`, `AlternatingVideo`, `HeroSequence`, `Showcase` | what moves |
| `Consent` | the cookie decision in several tabs |
| `MCOrders`, `MCMailOutbox`, `MCSessions`, `MCSupportChat` | instances and symmetry for TLC |
| `MCServices`, `MCCustomers`, `MCBrowser` | several components in one run, one of them per behaviour |
| `OrdersProofs` | theorems about `Orders`, its ledger among them |
| `MailProofs`, `SessionsProofs`, `SupportProofs`, `CommunityProofs` | theorems about the module of that name; the last also about `OrderNews` |
| `ServicesProofs` | theorems about `ExchangeRate`, `RateLimit`, `SignIn`, `Links` and `Catalogue` |
| `BrowserProofs` | theorems about the parts of `MCBrowser` |
| `DataLemmas` | sums over finite sets, and what a sequence has in a set, for the proofs |

Each of the models' modules holds its invariants and properties after its
specification. A definition headed "Mutation of D" is what a plausible bug
would make of `D`; it is never used by the specification and shows that the
property next to it can be broken.

`MCServices`, `MCCustomers` and `MCBrowser` put components that share no state
into one specification. `part` says which one a behaviour is about and the
others stay where they are: the product of independent parts would show nothing
that the parts do not. `MCBrowser` keeps the variables of the part at work in
`s1` to `s12`, in the order the component declares them.

### Orders

*State.* `painting` (amount and isAvailable), `cart`, `order` (with its items),
`lock` (which transaction holds each painting row) and `request`, the memory of
each handler in progress: its private copy of the order (`entity`), the rows
left to lock (`todo`), the rows it will have written at commit (`buffer`), and
what `save()` has read (`seen`). `history` is no part of the program (below).

*Actions.* Every handler is one action up to its first await that matters and
one per further database or network answer. `checkout`, `createCommission`,
`cancel`, `updateStatusAdmin`, `updatePaymentStatusAdmin`,
`uploadPaymentProof`, `archiveAdmin`, `removeAdmin` read the order and decide;
`UpstreamAnswers` / `UpstreamFails` is Nova Poshta or the image host;
`LockRow` / `Refuse` is one `SELECT ... FOR UPDATE` with what is decided and
saved under it; `Look` is the SELECT of a `save()` that has no view yet;
`Commit` / `DuplicateKey` is the end of the transaction, or of the plain
`save()`. `update`, `Look` and `SaveEdit` are an admin's edit of a painting.
`claimGuestOrders` is a single statement. `Crash` loses every request and rolls
back every transaction.

*`save()`.* TypeORM reads the row again by a plain SELECT and sends only the
columns in which the entity differs from what it found; an INSERT, if it found
nothing. Outside a transaction anything may be written between that SELECT and
the UPDATE, so the row that results may have its columns from different writers
(`Written`, `SavedPainting`, `SavedOrder`). In a transaction (REPEATABLE READ)
every plain SELECT answers from the view that the first one took, while
`FOR UPDATE` answers from the row as it is. `checkout` and `restoreStock` save
each painting before they lock the next (`SavesAsItLocks`): the later rows are
compared with a view older than their locks, and a column whose new value
happens to be the one in the view is left out. `takeStockBack` locks everything
first, and its view is as new as its rows.

*`history`.* Three events lose count of a painting's stock, or mix its columns,
and the code does not rule them out: a save has left a column out (`skipped`),
the admin has typed an amount (`edited`), a request has decided over a status
that its order no longer had (`crossed`). `Commit` and `SaveEdit` note them. The
properties make an exception of the paintings concerned (`Marred`), and of no
others: two requests for one order may cross in all runs and all theorems.
Run `Resale` shows what the first of the three does to a gallery.

*Decisions.* Cart operations are one step each: between their read and their
save nothing else of the same customer's cart happens. What is told to people is
in `OrderNews`. Branches for a painting that no longer exists are left out:
foreign keys keep ordered paintings from being deleted.

### StockLedger

An order takes all of its units off the shelf in one step, if all are there, and
gives all of them back in one step. Of a painting that is `marred` nothing is
promised, and a painting that is not was never touched by what marred another:
an order with a marred painting still moves its other paintings whole.
`Orders!LedgerSpec` is the refinement, with the units of a live order as `held`.
Locks, views, buffers, refusals half-way and crashes are all stutters of it.

### OrderNews

*State.* The order's row, its letters in the outbox, and each request with the
job it leaves behind. *Actions.* A handler reads, decides and saves; its job
looks up the recipient, asks the outbox whether the letter went before (an
apology does not ask: it is always forced), and queues it, an await each. A letter is delivered or given up. A crash loses every
handler and job. The history is what the order has been through.

### MailOutbox

*State.* `letter` (the table), `server` (each process with its dispatcher's
drain: where it is, the letters it read, and the attempt counts it read with
them), `caller` (calls of `send()` and `retryOutboxLetter()` in progress), and
the history `delivered`, `failures`, `incidents`.

*Actions.* One per statement or SMTP exchange: `Check` and `Queue` of `send`;
the two halves of `retryOutboxLetter`; `clearSettledLetters`; `Tick`,
`releaseStuck`, `runDrain` (the query), `attempt` (the conditional claim),
`Accepted` / `Rejected`, `MarkSent`, `reschedule`; `Boot`. What goes wrong is
`Stop`, `DatabaseFails`, `RecordFails`, `AnswerLost`, `QueueFails` and `Hang`,
counted in `incidents`, as is a letter sent again by hand.

*Time.* A row carries `due`: `nextAttemptAt` has come, or, for a row in
SENDING, its claim is older than `STUCK_AFTER_MS`. `TimePasses` sets it. A
claim grows old while its send is still under way only in `Hang`.

### Sessions

*State.* `account` (the row of `users`), `session` (each row of
`refresh_sessions` with the token it holds), `link` (`password_resets`), `jar`
(the refresh cookie of each browser), `page` (each tab: has it an access token,
has it a refresh in flight), `request` (each call from being sent to being
answered: where its handler is, the cookie it came with, the row it found, the
sessions it has still to end), `expired`. The history `issued` and `token`
numbers the tokens and remembers the row each was signed for and the token it
replaced; `mark` of a request is the number of tokens that there were when it
changed the account.

*Actions.* What a tab sends: `register`, `login`, `googleSignIn`,
`bootstrapAuth` (a page load), `refreshAccessToken`, `logout`,
`logoutEverywhere`, `endSession`, `requestPasswordReset`, `resetPassword`,
`changePassword`. Then one action per statement of the handler, named for it
(`findSession`, `findUser`, `rotate`, `setPassword`, `list`, `endEach`, ...); a
statement that several handlers share is one action. `Answer` is what the
browser makes of the response. `Crash` ends the handlers and loses answers; a
page load makes the answers to its earlier calls unheard.

*Decisions.* A row is named by its first token. The access token has no
identity of its own: its fifteen minutes may be over at any time, which is what
`refreshAccessToken` is about. Tokens do not expire but with the row that holds
them (`expires_at` is set with the token). A cookie holds one token; a browser
that is refused keeps it. The sweep of old rows in `issueSession` is not waited
for: it happens at once or not at all. The phone step of a Google sign-up is one
refusal, the letter with a reset link belongs to `MailOutbox`, the removal of an
account to `Community`. Changes of the account are whole rows of one account:
statements on different accounts share nothing.

### SupportChat

*State.* `chat` and `message` are the tables; a chat's `owner` stands for its two
columns `user_id` and `guest_token`, one of which is set. `socket` is
`client.data` of each connection: who it is, whether it has been placed
(`ready`), whether it is open, and the chat it found. `room` is the socket.io
room of each chat, `online` the presence set, `call` the handlers in progress,
each with the chat id it goes by and, between `getChatById` and `save`, the row
as it was read. The history is who ever owned a chat, who was shown its
messages, and which messages were emitted.

*Actions.* `handleConnection`, `joinOwnChat`, `enterChat`, `identifyFails` and
`handleDisconnect` are a connection's life. A message is `handleMessage`,
`accept` (once `ready` has resolved), `findChat`, `insert`, `findAgain`,
`startChat` if there is no thread yet, and `getChatById`, `write`, `save`,
`emit`. Reading is `handleJoinChat`, `getMyChat`, `getChatMessages`,
`getMessages` and `markRead`; a sign-in is `claimGuestChat`, `copyGuestChat`,
`findOwnChat`, `handOver`. `DatabaseFails` fails any statement a handler waits
for, `Crash` empties the memory of the process.

*Decisions.* A save writes the whole row as the handler knows it; the unique
indexes (`Clash`) may refuse it. Its SELECT and its UPDATE are one step here,
unlike in `Orders`: outside a transaction the two follow each other, and a write
that falls between them and survives in part would mix counters, or the two
owner columns, of two writers who both had the thread. `Catalogue` and the
settings in `Links` do the same, and excuse rows two requests were at together. A handler goes on when its
socket has closed, as in the code: it still writes, enters the room and marks
the chat online. An insert that fails for whatever reason is followed by the
second look. Staff read and join every chat, so the emits to the room `admins`
need no state. The rate limit is a refusal at any time here, and counts in
`RateLimit`; the note to Telegram is not waited for.

### Community

*State.* `accounts`, `paintings`, `giveaways` with their deadlines, `like` (the
id of each row), `likesCount`, the entries, and `request`: each handler with the
statement it is at, the locks its transaction holds and what it will apply at
its commit. *Actions.* One per statement. A statement waits for the row locks it
needs, cascades included; `Victim` rolls back a transaction of a deadlock;
`Crash` rolls back all. *Decisions.* A transaction's changes appear at its
commit. The history `raced` has the paintings over which two requests of one
user met: the count may be off there by what the code allows.

### Catalogue

*State.* `row` (seven tables), the last id of each, the rows an order refers to,
and the requests. *Actions.* `create`, `update`, `remove`, `setPaintings` begin;
`Step` is one statement: the lookup of a name, the read, the save or the patch,
the foreign keys of a removal. *Decisions.* A table's `save()` writes the whole
copy and inserts it again if the row has gone; its `update()` writes the columns
sent. `setPaintings` is the two statements of the code.

### Links, SignIn, RateLimit, ExchangeRate

`Links` has the settings row with its lazy creation by whoever asks first, the
artist's code, the codes of accounts and of chats, and the bot, which takes one
update at a time. `SignIn` runs the three requests of `useFinishSignIn` one
after the other, each failing before or after its work, and the server's merge
as its loop of statements, which goes on when nobody waits for it. `RateLimit`
has one window per socket and one per address over a clock. `ExchangeRate` has
the cached rate (a rate is the moment it was published), the time to live, the
back-off after a failure and the deadline of a call.

### Analytics

The overview sends its queries at once and reads them one after the other,
outside a transaction; orders, likes and carts change between. A moment is UTC,
a day is Kyiv's, and `Offsets` puts the clock forward or back at `Change`.

### ClientCache and Access

`ClientCache` has the database as the log of committed writes, and a copy as the
set of writes it shows: it is out of date when it misses one. For each of the
hooks in `hooks/queries` and `hooks/mutations` a table says which writes a key
shows, what a mutation writes, and what it cancels, sets, rolls back and
invalidates. The library is external, modelled as it is used. `Access` has the
guard of each route, the condition under which a page calls it, the store's
identity with bootstrap and the single refresh, the interceptor's repetition,
and the query key an answer is kept under.

### Forms, desks and chat

`PhotoForm` picks, removes and uploads pictures one by one and then writes the
row, while the form is open to changes. `FaqEditor` drags, types, adds and
deletes over a column that each request reads, changes and saves whole.
`SupportDesk` selects chats whose transcripts arrive in any order.
`CustomerChat` is one tab with its page, its badge and a socket of each, through
changes of identity, cut connections and expired tokens. `Checkout` has the
page's copy of the cart, the quote under its key, and the server that quotes
again.

### Motion

`ScrollContinue` fills a bar by wheel and finger over moments of time, with its
timers, frames and listeners. `PageMoves` has the tab's history, the page React
shows, and where on it the reader is. `AlternatingVideo` hands over between two
clips that may stall, be refused or break. `HeroSequence` has a strip of stills
arriving in any order, and the loop that sleeps unless something wakes it.
`Showcase` builds and tears down a scene whose textures arrive whenever they do.
Geometry, easing and shading are left out.

### Consent

Tabs share `store` (the browser's storage, which may refuse writes or be
blocked) and nothing else. `Render` is a component's rerender with its effect;
`Mount` a new instance of it; `decide` what banner and panel do.
## 3. Runs

Passing runs:

| Run | Module | Checks | Instance |
|---|---|---|---|
| `OrdersStock` | `MCOrders` | `NoUnitLost`, `AvailableHasStock`, `LedgerSpec` (refinement) | two unique works, two orders, quantities of 1, crashes; five workloads with two requests (`Selling`, `Restoring`, `Editing`, `Paying`) or three (`Reviving`) |
| `OrdersLocks` | `MCOrders` | `RequestsFinish` (under fairness) | the same works and orders, two requests; workloads `Queueing` and `Answering` |
| `MailSettles` | `MCMailOutbox` | `DeliveriesAreTrue`, `EveryLetterSettles` (under fairness) | one letter, two processes, one caller, two incidents of any kind |
| `SessionsEnd` | `MCSessions` | `ReplacedOnce`, `OldSessionsEnd`, `EndedStaysEnded`, `RefreshesEnd` (under fairness) | one tab that is loaded again at any time, two calls in progress, two or three tokens, two passwords, one reset link; four workloads, one of them with crashes and deactivation, one with expiry |
| `SupportTalks` | `MCSupportChat` | `Private`, `CallsEnd` (under fairness) | guests, an account, staff, one or two sockets, two handlers, two or three chats, two messages; four workloads, one of them with failing statements and crashes |
| `Services` | `MCServices` | `OneAtATime`, `OneTimeCodes`, `CartFollows`, `FloodIsBounded`, `EditsStay` | two of each: calls, requests, rows of a table, users, chats, codes, ways in, sockets; limits of 2 and 3 messages in two moments |
| `Customers` | `MCCustomers` | `LikesCounted`, `RefusalsAreTrue`, `LettersAreTrue`, `RequestsEnd`, `CustomerIsTold` (under fairness) | two users, a painting or a giveaway, two requests, two toggles; one order, two requests of it, two operations |
| `Browser` | `MCBrowser` | the fifteen properties at its end | two calls, two accounts or works, two titles; the other bounds are in its cfg |

Four runs end in a violation, each of a sentence in the repository (quoted under
`findings`):

| Run | Property | What happens |
|---|---|---|
| `CancelConfirmed` | `CancelIsConfirmed` | a customer who cancels from the cabinet gets no letter, and without a linked chat hears nothing at all |
| `Resale` | `NothingSoldTwice` | nobody edits a painting, no two requests for one order cross, and yet two live orders hold one unique work: a checkout compared it with a view older than its lock, and left the amount as the cancellation of another order had put it |
| `LetterTwice` | `OneLetterEach` | two requests that want the same letter both find none in the outbox, both write one down, and the customer gets both |
| `FaqReorder` | `ReorderTakesEffect` | the editor sends the new order as one object, the route wants a list, and refuses it: no order is ever saved |

What each property is about, with the lines of the code, is said in the comment
above it; `hazards` says what could go wrong there.

Other sentences that the code does not keep, stated in the modules as
definitions that no run checks. Each is named as it is in its module, with the
line of the sentence:

- `MailOutbox!NobodyGetsItTwice` (`mail.dispatcher.ts:105`): a send that outlives
  `STUCK_AFTER_MS` is done by the other dispatcher as well.
  `MailOutbox!FiveAttempts` (`mail.dispatcher.ts:187`): there are six.
  `MailOutbox!ShutdownWaits` (`mail.dispatcher.ts:65`): `main.ts` enables no
  shutdown hooks, so the drain is not waited for.
- `Sessions!LogoutEndsSession` (`auth.service.ts:427`): a refresh rotates the
  session between the sending of a logout and its `DELETE`, which finds no row
  and reports success. `Sessions!ReuseMeansRotated`: the dead cookie of a browser
  that was signed out from elsewhere, never rotated, sets off the alarm.
- `SupportChat!StaysInAccount` (`support.service.ts:183`): a message of the guest
  that was read before the thread was handed to the account, and is saved after
  it, gives the thread back to the guest token.
- `SignIn!EverythingFollows` (`useFinishSignIn.ts:25`): a claim of the orders that
  fails is followed by a merge that succeeds, which clears the token. Two merges
  at once lose or double a line (`CartFollows` leaves them out).
- `Links!OneChat` (`users.service.ts:99`): the bot's `/start` with a code does not
  ask whether the chat is somebody else's.
- `ClientCache!SoldEverywhere` (`useAddToCart.ts:26`).
- `Access!RotationKeepsWho` (`authSlice.ts:50`). `client.ts:44` says that startup
  shares the single refresh in flight; `bootstrap.ts` makes a call of its own, and
  `Sessions` and `Access` have it as in the code.
- `Checkout!RefusalsTellWhy` (`orders.service.ts:172`) and
  `Checkout!QuoteIsOfTheCart` (`useNovaPoshta.ts:29`); the page lets an order be
  sent without a quote.
- `PhotoForm!PreviewsHold` (`CreatePaintingForm.tsx:125`), `PhotoForm!ClosesItsOwn`.
- `FaqEditor!SavesOverNothing` (`settings.service.ts:247`),
  `FaqEditor!LandsWhereReleased` (`FaqAdminEditor.tsx:245`).
- `SupportDesk!ShowsTheSelected` (`AdminSupportPage.tsx:107`), `NothingIsMissed`
  (`:114`), `ReadIsRead` (`:58`).
- `CustomerChat!ShowsItsOwn`, `ShowsAll`, `ShownOnce`, `ComesBack`
  (`useSupportSocket.ts:49`) and `ReadIsRead` (`useSupport.ts:55`).
- `Analytics!EveryDay` (`analytics.service.ts:235`), on a day of 23 hours, and
  `Analytics!ChartIsComplete`.
- `ScrollContinue!ReadyMeansFull` (`useScrollContinue.ts:77`), `TurnsWithNoFinger`
  (`:52`). `PageMoves!BackIsLeft` (`NavigationTracker.tsx:15`), `AnchorIsLeft`
  (`:123`), `BackStaysOnSite` (`useBack.ts:31`).
- `AlternatingVideo!NeverFrozen` (`useAlternatingVideo.ts:106`),
  `HeroSequence!FallsBack` (`useHeroSequence.ts:169`), `FirstFrame` (`:155`),
  `Showcase!AllReleased` (`paintingRingScene.ts:38`), `FailuresShowStrip`
  (`PaintingShowcase.tsx:26`).
- `Consent!CountsByDecision` (`privacy.ts:284`), `StopsWithoutReload` (`:280`).

*Workloads.* `MCOrders`, `MCSessions` and `MCSupportChat` begin a behaviour with
one of several workloads (`work`): what is asked for, by whom, for what, by how
many at once, and what goes wrong. It stays to the end. A question that needs
all of the operations at once would need an instance that is too large; which
operations meet is chosen by what they share, and each meets the ones it shares
a row, a lock or a token with. `Selling` is two orders of the same two works,
which is where locks and views matter; `Restoring` revives cancelled ones;
`Editing` has edits from stale forms beside changes of status, `Paying` a
guest's upload and claim beside a cancellation, `Reviving` three requests of one
order, one of which removes its row. The requests of
`MCSessions` are alike, and so are the handlers and unused sockets of
`MCSupportChat`; symmetry may not be declared under fairness, so the second is
begun only while the first is in use. The two passwords of `MCSessions` are alike as
well, and the account begins with the first.

*Bounds.* A conflict in the code is between two handlers over one order or one
painting; three are needed to put a removed row back. A deadlock needs two rows
and two transactions. A view that is older than a lock needs an order of two
works and another one that shares the second; that a unit is sold twice then
takes a third order, which `Resale` has. Order and letter ids are used up: a run
is all the histories with that many ids. `MaxAmount` is one more than there
ever were of a work: no request begins to give back, or to edit, while the shelf
holds as many, so that units that were invented do not multiply.
`Retries` is 1 instead of 5, so that a letter goes through reschedule and giving
up. `MaxIncidents` bounds how often something goes wrong. In `SessionsEnd` each
conflict is between two handlers over one token or one account. A tab that is
loaded again has both calls with one cookie, as two tabs of a browser would; the
theorems have any number of tabs, browsers and calls. Two tokens are a session
from before and one from after a change; three let a session be rotated while
another one is opened. In `SupportTalks` each conflict is between two handlers
over one row, or between a handler and a connection; two messages are written,
and a third chat lets a guest have a new thread after a hand-over.

In `Services` and `Customers` every conflict is again between two requests over
one row. The clock of the rate runs past its time to live and a back-off after
it; that of the windows runs through two of them and into a third. Two merges at once end a sign-in's
behaviour, because nothing is said of them.

In `Browser` the cache has two writes and, for every query and every mutation
that meets it, two calls; keys do not touch each other and neither do writes, so
pairs are enough. A strip has three frames and a ring two works. A bar is full
at four moments and empties after three. `MCBrowser` narrows six parts further,
each in a definition that says so: accounts begin as customers' unless an
administrator is asked for (`RightsInit`), the form is touched only while it
saves (`FormStep`), the rows of the figures come before or once during the report
(`FiguresStep`), an order is sent when no quote is on its way and spoilt by
others while it is sent (`OrderStep`), the ring is turned when no texture is on
its way (`RingStep`), and one row of questions is typed in at a time (`FaqStep`).
Of the pairs of a query and a mutation that meet, those that no condition of
`ClientCache` tells apart have one to stand for them (`Visits`).

CHECK_DEADLOCK FALSE is said where the system may stop: when all orders are
done with, the last token is signed, all messages are sent, all codes issued, the clock has run out.

*Symmetry* is over requests and order ids; over requests, users and chats; over calls,
accounts and works. Not over paintings or letters, which are numbers because the
code orders them by id, and not in the runs with liveness.

*Fairness.* In `Orders`, answers of outside services come (every call has a
timeout), a commit that can happen happens (weak fairness), and a lock that is
free again and again is granted in the end (strong fairness: InnoDB queues
waiting transactions). No fairness is assumed of what customers and admins
start. In `MailOutbox`, the timer fires, a drain goes on, Docker restarts a
process that is down (`restart: unless-stopped`), and time passes. In
`Sessions`, handlers go on and answers arrive (axios and the socket end every
call); nobody has to visit, and no event has to happen. In `SupportChat`, the
statements a handler or a connection waits for are answered; nobody has to write
or to close a socket. In `Community`, a statement whose locks are free again and
again is done (strong fairness, as in `Orders`), and InnoDB breaks a deadlock
(weak fairness). In `OrderNews`, a job goes on while its process lives.

## 4. Proofs

`tlapm` checks every proof below to the last leaf. The theorems hold for any
number of paintings, orders, requests, letters, processes and callers, tabs and
browsers, people, sockets and handlers, users, chats and codes, and any clock,
under the named assumptions on the constants: `OrdersAssumption` (finitely many
orders), `MailAssumption`, `SessionsAssumption`, `SupportAssumption`,
`CommunityAssumption`, `LettersAssumption`, `ServicesAssumption`,
`ExchangeRateAssumption`, and
`BrowserAssumption` with `CacheAssumption`. None of them bounds anything the
code does not bound. Four more assumptions are about tables without a parameter:
which page calls which route (`VisitsAreGuarded`), which mutation writes what
which query shows (`WritesAreAnswered`, `DrawnOnIsAnswered`, `EntriesAreGiven`).
TLC evaluates them in full, whatever the constants are, whenever it runs the
module; the proofs take it from there.

| Theorem | Says | Assumes besides |
|---|---|---|
| `OrdersProofs!TypeCorrect`, `StockCorrect` | `Spec => []TypeOK`, `Spec => []StockInv` | - |
| `OrdersProofs!AvailableHasStockAlways` | nothing sold out is on sale, but for rows that a save has mixed with another writer's (`history.skipped`) | - |
| `OrdersProofs!LocksAlwaysInOrder` | locks are taken in id order | - |
| `OrdersProofs!LedgerInvariant` | `Spec => []LedgerInv` | - |
| `OrdersProofs!OrdersImplementLedger` | `Spec => LedgerSpec`: units move in whole orders, but for paintings that are `Marred`, which concern no other | - |
| `OrdersProofs!NoUnitIsEverLost` | shelf and live orders hold the gallery's stock, of every painting that is not `Marred` | - |
| `MailProofs!TypeCorrect` | `Spec => []TypeOK` | - |
| `MailProofs!OutcomesAlwaysTrue`, `DuplicatesAlwaysPaid`, `DeliveriesAlwaysTrue` | a recorded outcome is true; each extra delivery has an incident of its own | - |
| `MailProofs!MailInvariant`, `NobodyGetsItTwiceAlways` | a letter in SENDING has one holder; none is delivered twice | no incidents |
| `SessionsProofs!SessionsInvariant`, `TypeCorrect` | `Spec => []SessionInv`, `Spec => []TypeOK` | - |
| `SessionsProofs!OneSuccessor`, `RotatedStaysDead` | a token is replaced once, and is dead then | - |
| `SessionsProofs!NoFalseAlarm` | no alarm about a token that holds a session | - |
| `SessionsProofs!OldSessionsAlwaysEnd` | a new password ends the sessions from before | - |
| `SessionsProofs!EndedForGood` | no session that was ended comes back | - |
| `SupportProofs!SupportInvariant`, `TypeCorrect` | `Spec => []SupportInv`, `Spec => []TypeOK` | - |
| `SupportProofs!ConversationsStayPrivate` | messages are shown to, and written by, people the thread belonged to, and staff | - |
| `SupportProofs!SendersHear` | who writes is in the room, or has left | - |
| `CommunityProofs!LikesInvariant`, `TypeCorrect` | `Spec => []LikesInv`, `Spec => []TypeOK` | - |
| `CommunityProofs!LikesAlwaysCounted` | the counter is the number of likes | - |
| `CommunityProofs!RefusalsAlwaysTrue` | who is told they have joined has joined | - |
| `ServicesProofs!RateInvariant`, `AlwaysOneAtATime` | one request to the bank at a time | - |
| `ServicesProofs!FloodAlwaysBounded` | fewer than two limits of messages in any stretch of a window's length | - |
| `ServicesProofs!CartAlwaysFollows` | what was in the carts is in them after the merge | - |
| `ServicesProofs!CodesAlwaysLinkOnce` | a code links once | - |
| `ServicesProofs!EditsAlwaysStay` | what was saved stays until somebody sends it again | - |
| `CommunityProofs!LettersAlwaysTrue` | letters say what was so | - |
| `BrowserProofs!WithdrawalAlwaysStops` | no tab counts once the yes is taken back | - |
| `BrowserProofs!CopiesStayTrue` | a fresh copy shows every write this tab was told of | - |
| `BrowserProofs!RefusalsHaveCauses`, `AlwaysKeptUnderItsOwner` | a refusal has a cause outside the page; private answers are kept under who got them | - |
| `BrowserProofs!PriceIsAsShown` | an order pays what the page showed | - |
| `BrowserProofs!SavesAreWhatWasPicked` | a save writes the pictures that were picked | - |
| `BrowserProofs!EveryTurnIsMeant` | a burst turns one page; none turns under a finger | - |
| `BrowserProofs!PagesAlwaysStartRight` | a page starts at its top, or where the browser put it | - |
| `BrowserProofs!OneClipCarries` | some clip that can play is on screen and moves on | - |
| `BrowserProofs!RestAlwaysShowsBest` | a strip at rest shows the nearest frame that came | - |
| `BrowserProofs!SceneAlwaysReleased` | nothing is held for a scene that is gone | - |
| `BrowserProofs!AlwaysUnderItsWriter` | a message lands in its writer's thread, once | - |
| `BrowserProofs!AlwaysOneConversation` | the desk shows one chat at a time | - |
| `BrowserProofs!EditorAlwaysAgrees` | the editor at rest shows what the shop has | - |

*Stock.* `AvailableHasStock` is not inductive: a commit writes a buffered row,
so the buffers must be consistent too, and they are only if the row under a lock
has not changed since it was read. `StockInv` therefore says who holds a lock
(`LocksHeld`), that the buffer is the locked row moved by the order's quantity
unless its save left a column out (`LockedReadsHold`, `skips`), and what is left
to lock or to save (`WorkLeft`).

*Ledger.* Nothing is assumed of the requests: any number may be at one order. A
commit whose status was decided over the row's own maps to `Take` or `GiveBack`
of the whole order: its movement is the one between the two statuses (`MoveOf`),
every row of the order is locked when none is left to lock (`RowsLocked`), and
what the order is of cannot change, in the row, in the copy and in what `save()`
has read (`CopiesFit`). A commit that crossed another one, or that left a column
out, is a `Lapse` on the paintings it marks and still moves the others whole or
not at all; that these are all the paintings it may have touched is the case
split of `CrossedCommit` and `OwnCommit`. An order being placed is nobody else's
(`Placing`), and only placed orders are crossed (`CrossedPlaced`), so what is
marred stays marred. `NoUnitLost` is a sum over the orders. `DataLemmas` has what
is needed of sums: changing the function at one place changes the sum by the
difference there. Induction over finite sets is out of the provers' reach as a
theorem that takes a predicate; its lemmas go by a least set at which a statement
about sums would fail. With them a step of the ledger moves as many units off the
shelf as into the orders.

*Mail.* A letter is in SENDING exactly as long as one drain holds it
(`HeldInSending`, `OneHolder`), and one that waits or is being sent has not been
delivered (`DeliveredOnce`). The conditional claim keeps the second, and the
first makes the claim exclusive. Any incident breaks the first. With incidents
the deliveries of a letter are therefore weighed: what has been delivered, and
what may still be delivered by whoever holds it, is at most one more than the
incidents so far that could cost a letter its record.

*Sessions.* The table moves by three kinds of steps only: rows are deleted, a row
is added with a new token, a row that still holds the token presented gets its
next one (`RowsEnd`, `RowAdded`, `RowRotated`; `TokenWasted` is the rotation
that finds no row). Each goes `Forward`: no session comes back, no row returns to
an earlier token. What a request may rely on (`Sound`) is stable under any
`Forward` step of others (`SoundStays`): an alarm stays true, and old sessions
that are gone stay gone. So each action is looked at for its own request only.
The strengthening is `Progress`: a request with a mark is on the way to ending
the old sessions, and those `endEach` has not reached yet are in `todo`; and
`TokensAreSigned`: what comes next is nowhere yet.

*Support chat.* A chat id travels from a lookup through a socket or a handler to
a write or an emit, and the row may change hands on the way. `SupportInv` says of
each place where an id waits that its chat exists and that whoever carries it
has owned it (`Placed` for connections, `Rooms`, `OnItsWay` for handlers), and
that the owners are in the history (`OwnersKnown`). Tables and connections only
go `Forward`: chats are not removed, owners are only added to the history, and an
open socket stays in its rooms. A handler that is sound stays so when others go
forward (`SoundStays`), so each action is about its own handler.

*Likes and giveaways.* Two requests can be about one like only when they are about
one user; `LikesCounted` then excuses the painting (`raced`). Of any other
painting a request that has looked knows what the table says of its user, until
it commits (`Sees`, `Apart`): so the counter goes up exactly when a like comes
and down when one goes. A refusal is true because an entry goes only with its
account or its giveaway.

*Rate of exchange.* The call on its way is the one whose start was noted last, and
its deadline is before the end of the pause that its start began
(`ExchangeRateAssumption` orders the times as the code does).

*Rate limit.* A window that is swept or expires forgets what went through. Any
stretch as long as a window meets at most two windows, so `LimitInv` says of the
one that is open how many it let through, and of the stretch that ends where it
starts that the sum is below the limit; a message adds to the first, a new window
makes the first into the second. The sums over stretches of moments are
`DataLemmas` again.

*Sign-in.* `CartInv` says for each painting where its two lines may be (`Placed`),
how much is in the account's (`Counted`), and for a merge which guest lines it
still has to do, that what it found of them is what is there (`Merges`), and
that it is the only one (`Alone`). `Counted` is what a crash between the two
statements of a line breaks, and a repeated merge then adds the quantity twice:
`broken` leaves that to `Placed`, which holds all the same.

*Codes.* `CodesInv` follows a code from its issue to the row it was written to,
into the hands of a redeeming request, and to being spent: it is on one side only
(a user's or a chat's), belongs to one owner, is in one request's hands or has
raced, and a code that has linked is in no row any more. The settings row needs
one exception of its own, because an overlapping save writes an old code back;
such codes have raced.

*Edits.* `EditsStay` is about steps, so the invariant says what a request carries
when it writes. Every row a request will change is known when it begins
(`Changes`; `Moves` says that its steps change no other row, but for a new one),
and two requests at one row make it raced (`Apart`). Therefore the copy an
update carries is the row, but for what was sent, for as long as the row has not
raced (`Current`), and the series that is given its works has none between the
two statements as long as its request is alone (`Released`). Of the settings: a
copy that nobody has saved over is the row, but for what the call is there to
change (`Timely`).

*Letters.* A letter that is still owed carries a copy of its order, and that the
order has been so is in the history (`Backed`); what is in the outbox was true
when it was written (`Truthful`).

*Consent.* A page that counts will leave an opt-out when told no, and what a
withdrawal left in the store stays until somebody says yes. Both are about
storage that is open: where it is blocked nothing is remembered, and the banner
comes again.

*Query cache.* `CopiesAreTrue` speaks of a copy that counts as fresh. What brings
it there is a request, and whether that is late depends on who overtook it. So
`CacheInv` says of every copy: what the tab is owed (the writes it was told of, but
for the pairs the table lists) is shown if the copy is fresh, and will be brought
by a request that has read and that nothing overtook; and a copy that a like was
drawn on is stale, or the like has yet to be answered. `OneKey` is `MCBrowser`'s
workload of one query.

*Who may see what.* `KeptUnderItsOwner` and `RefusedForACause` rest on the same
facts. An answer belongs to whoever its token is of (`RequestsAreRight`), and the
token is that of the visitor on the page as long as none was mixed up
(`TokenIsTheirs`). Until something disturbs the session, the page shows the
account whose session the cookie is of, and what bootstrap or a refresh will bring
is the same one (`TabIsOfCookie`); the account exists (`CookieIsOfSomeone`). A
refusal without a disturbance would need a call its guard does not let pass, and
`VisitsAreGuarded` says that there is none.

*The order.* While nobody else changes the shop, the total is that of the works
shown, a kept quote is one for its key, and what was sent with the order was such
a total and such a quote (`Undisturbed`). The fee about to be saved is the
carrier's for exactly these works, city and payment, whoever changes what
(`FeeIsOfParcel`).

*Forms with photographs.* A save goes on with what the form showed when it began,
so `FormInv` is about both. `Sound` says of photographs that they are what was
picked, each once, and that no file is in two sections. Of those being saved each
is stored, has yet to go up, went up, or failed (`Progress`), and of a save that is
`sure` they are what was picked when it began (`SaveIsSound`). What the form shows
after a failure is stored and pending pictures in a new order; `SortedKeeps` shows
that none is lost. As long as nobody touched the form while it saved, the row is
sound as well. What a sequence has in a set (the recursive function `Only`) is in
`DataLemmas`: by the least length at which it would fail.

*The walk.* The turn of a burst is on its way, or its bar is empty and not armed yet
(`TurnedOnce`), so the burst cannot turn again. A finger put down on a page with a
bar is known to be down (`FingerKnown`), which is what `release` asks.

*Pages.* `MovesInv`: a link leaves only its own resets to be done, and somebody who
came back, or to an anchor, with nothing settling, is where he was put.

*Two clips.* A clip that broke is known to have, or its event is under way; the one
on screen was asked for, is not known to be broken as long as the other is left,
and has its timer, or news that will set it, from when its length is known
(`Carried`).

*The strip.* Asleep, the loop has brought the playhead to where it goes, and what it
painted is the best of what came since (`StripInv`); that a nearest frame exists
(`NearestIsOne`) goes by the least distance.

*The ring.* No scene lives before its job is done, and what is held is that scene's,
but for lamps (`RingInv`).

*The customer's chat.* A connection is that of whoever the tab says it is
(`WhoItIs`); whatever waits, is on its way or was saved goes to its writer
(`ToItsWriter`) and is in one place only (`OnePlace`).

*The desk.* What a chat has said, and what a selection has read, is one
conversation; so is what is shown of the chat whose answer came last (`DeskInv`).

*The editor of questions.* With no overlap there is one request (`NoTwoRequests`),
its answer is what the shop has (`AnswerIsFaq`), and the rows are in the order of
the entries unless they are being dragged or an order has been sent that will be
refused (`RowsAreInOrder`).

*Services* and *Browser* put several components in one run (section 2). Each
theorem about one is proved of its own `Next` and carried to `MCSpec` by the
variable `part`, which no step changes. TLC narrows what some parts are asked to
do (section 3, *Bounds*). The theorems are about `MCSpec` with the same narrowing,
but the steps they rest on are lemmas about each component's own `Next`, which has
none.

*Only model-checked.* Liveness, which TLAPS does not do: `RequestsFinish`,
`EveryLetterSettles`, `RefreshesEnd`, `CallsEnd`, `RequestsEnd`,
`CustomerIsTold`. Of the safety properties `FiguresAgree` alone has no
theorem: it needs sums over the classes of a partition, and quotients by a symbolic
`DAY_MS`. That transactions which take their locks in id order never wait in a
circle is an induction along a circle of any length, which is not done;
`RequestsFinish` checks it.

## 5. Plan

Modelled, checked and proved: what sections 2 to 4 list. Left, in this order:

1. A proof of `FiguresAgree`, the one safety property that section 4 leaves to TLC.
2. The cart's steps by statement, and the SELECT and UPDATE of a `save()` apart
   outside `Orders` as well.
3. Two merges of one cart at once, and reset links that are asked for twice:
   both are modelled, and nothing is promised of them yet.
4. The rest of the administration pages, as far as they keep state of their own.

## 6. Not modelled

Wording of letters, listings and reports other than the overview, uploads (a
file is moved to Cloudinary or the disk), input validation, rendering,
translation and configuration: see `components` in `PROJECT.json` for each
part's reason. InnoDB's lock timeouts are not modelled: the locks of `Orders`
never form a cycle, and those of `Community` that do are broken by `Victim`.
