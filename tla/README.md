# Hamroh Taksi in TLA+

Hamroh Taksi is a Telegram bot for shared taxi rides between towns.  A passenger
books seats on a route, the system offers the order to the drivers waiting in that
route's queue, one of them accepts it and pays a commission from a prepaid balance,
the orders of one car form a trip, and an admin panel tops balances up.  The bot,
the Celery workers and the admin panel are separate processes which share a
PostgreSQL database and Redis; what can go wrong is mostly what happens between two
of their steps.

This directory models those steps, checks them with TLC and proves the most
important facts with TLAPS.  Line numbers refer to `src/app/...`.

## Inventory

| Part | State | Operations | What is hard, what must hold |
|---|---|---|---|
| Order acceptance (`services/order_service.py`, `core/locks.py`) | `lock:order:{id}` keys, rows of orders, drivers and trips | `accept_order_by_driver`, `_auto_start_trip_if_full` | races of drivers, a lock key that expires under its holder, rollbacks after messages have left; an order is taken once and paid once |
| Matching (`tasks/matching.py`) | order status and candidate, offer and skip keys, strikes, timers | find, notify, auto-reject and no-driver tasks, accept and reject buttons | at-least-once tasks, timers that race answers; an order is neither forgotten nor searched for without end |
| Payments (`services/payment_service.py` and callers) | balances, `transaction_logs`, deposit requests, an order's commission | debit, credit, refund, approve, reject, admin bookings | concurrent writers of one balance, stale readings; no negative balance, no unlogged move, one credit per deposit |
| Trip lifecycle (`order_service`, `trip_service`, `driver/orders.py`, `tasks/matching.py`) | trip status, seats, `is_on_trip` | start, auto-start, complete, auto-complete, cancel one order or the whole trip | double completion, delayed tasks on a trip that is over, transactions inside transactions; seats return once |
| Driver queue (`services/queue_service.py`, `driver/main_menu.py`) | a sorted set per route, `is_active`, priority | go online, stop, pause, add and remove tasks, priority toggle, nightly reset | database and Redis drift apart, tasks overtake each other; an active driver is in the queue |
| Blocking and bans (`services/driver_blocking.py`, `models/driver_ban.py`) | ban counters, `is_blocked` | ban, block, unblock, reset | counting at the threshold, cleaning up a blocked driver's orders |
| Cleanup (`tasks/cleanup.py`, `services/redis_cleanup.py`) | counters, keys | daily, nightly, hourly jobs | jobs against live traffic |
| Conversation states (`bot/dispatcher.py`, `middlewares/state_guard.py`, `bot/decorators.py`), registration and start | FSM state and data in Redis, the user's row and profile | the guard, the role decorators, `/start`, the registration dialogues, `/cancel`, the fallback; admins appointed, users blocked and deleted | updates of one user are handled at once, a role cached while it changes; a role has its profile, a state fits its role |
| Rate limiting (`middlewares/rate_limit.py`, `utils/rate_limiter.py`) | counters, violations and bans with expiry, a list of bookings | read, judge, count | read and write are two commands, keys lapse between them; bursts are bounded, bans end |
| Booking and routes (`passenger/booking.py`, `admin/routes/settings.py`, `models/route.py`) | the dialogue's data with its idempotency key, orders, the catalogue | choose, locate, count, finalize; create, close and delete a route | two presses, restarts between two writes, a route deleted under a dialogue; one order per dialogue |
| Support (`driver/support.py`, `driver/balance.py`, `admin/routes/feedback.py`) | amounts in the data, deposit requests, feedbacks | ask for a deposit, complain, reply, mark | a receipt sent twice, a clear that fails, two admins; one request per amount |
| Notifications (`tasks/notifications.py`, `admin/routes/broadcast.py`) | tasks, the rate key of a chat | fan out, send, retry, broadcast | floods, errors, dying workers; every message is settled |
| Places in the queue told to drivers (`tasks/matching.py`) | the id of the last message, the chats | add, remove, notify, clear tasks | several workers replace one message; what a chat says is true |
| Admin panel (`admin/`) | sessions, the tables above | approve, reject, book, block, edit a driver | two admins at once |
| Geo, settings, validation, formatting, metrics | tables, nothing | reads and texts | - |

How they interact.  A booking writes an order and publishes the *find* task.  The
find task asks the queue (Redis) for a candidate, sets the offer key, writes the
candidate into the order and publishes the *notify* task; the notify task shows the
driver two buttons and starts the *auto-reject* timer.  Accept runs
`accept_order_by_driver`: Redis key, then row locks on order and driver, then the
debit with its log row, the trip, and, when the car is full, the delayed
*auto-start* task.  Reject and auto-reject mark the driver skipped and publish *find*
again; the last retry publishes *no driver*, which tells the passenger and cancels.
Cancellations refund through the payment service.  `get_session()` commits when
its block ends normally, also by `return`; `transaction()` is the same around an
explicit transaction (`core/database.py:151-219`).  Celery acknowledges late and
requeues lost tasks (`core/celery_app.py:159-160`).

## Modules

Modules that do not share a step are checked in one run each of which behaviours belong
to one *part*: `MCAcceptance`, `MCTrips`, `MCDriverQueue`, `MCConversation` and
`MCServices` choose the part in their initial state, keep the variables of the other
parts where they are, and state every property for its part.  The state space is the
sum of the parts', never their product.  The part that such a module extends is proved
about where it stands; `ConversationProofs`, `DriverQueueProofs`, `ServicesProofs` and
`TripLifecycleProofs` carry the proofs about the other parts over to the run's own
properties as well.

### OrderClaim, OrderAcceptance, OrderAcceptanceProofs

`OrderClaim` is what an acceptance promises: in one step an order nobody holds
becomes a driver's, who pays the commission and gives up the seats.

`OrderAcceptance` is `accept_order_by_driver` with everything it awaits between two
steps.  A *call* is one run of the handler, and also its uuid4 token.  `lock` is
the Redis key (set with NX, expires at any moment, released by the compare-and-delete
script); `orderRow` and `driverRow` are the FOR UPDATE locks; `order`, `driver` and
`trip` are committed rows.  `JoinTrip` is the part between the checks and the commit
whose effects leave the transaction: the sequence value of a new trip, the removal
from the queue and the auto-start message; `Commit` writes all rows.  A call may
meet a Redis error, be rolled back or die at every step.  Around the calls run the
delayed auto-start task and the find task, which write the same rows.

| TLA+ | code |
|---|---|
| `SetLock`, `LockBusy`, `LockError`, `ReleaseLock` | `locks.py:202-259`, `redis_client.py:95-132` |
| `ReadOrder`, `ReadDriver`, `RefuseDriver` | `order_service.py:324-400` |
| `JoinTrip`, `Commit` | `order_service.py:402-510` |
| `AutoStart` | `order_service.py:819-929` |
| `FindReads`, `FindOffers` | `tasks/matching.py:43-110` |

The refinement mapping (`Abstract`) reads an order's owner through its trip and not
from `orders.driver_id`, which the find task can overwrite (see *Disagreements*).

### Matching, MatchingProofs

One order's way from PENDING to ACCEPTED or CANCELLED.  Tasks live in a bag, because
two equal ones may be queued; a task is a record with its step, and stays in the bag
until it is finished, so a worker that dies leaves it to be run again.  Telegram's
side is `shown` (offers whose buttons still work) and `blocked`.  A task that an error ends
is not run again (`EndsInError`): a message that is refused or fails for the last time, an
exception that the no-driver task catches, any other that no task catches (`TaskFails`).
`lost` is a history variable, the orders to which that has happened.  The acceptance is
one step here, which `OrderAcceptance` justifies.  A driver's handler that goes on
after its first step is in `answering`.

### OfferKey

The time an offer has, which `Matching` leaves out: `driver_offered` lives 130 seconds
(`KeyLife`) and is set before the notification is sent; the timer runs from when it is, for
as long as the panel's setting says then (any of `Timers`, longer than the key or not);
and three handlers delete the key whatever order it names.  `left` and `clock` count
down in ticks, `age` up from when the key was taken.  `wiped` is a history variable: offers
whose key went with another order's button or the start of a trip.  `OfferHoldsDriver` is
what the key does give: for `KeyLife` from when it was taken.  An offer that may still be
answered after that holds nobody.

### QueueMessages

The message about a driver's place: `add_driver_to_queue_task`,
`remove_driver_from_queue_task`, `notify_queue_update_task` and
`clear_queue_message_task`, each from GET to SET in steps, run by several workers.
`noted` is the key with the id of the last message, `chat` what his chat shows.
`astray` is a history variable: drivers whose queue changed and nobody was told, whose
message two tasks were about to touch, or about whom a command failed, until a task that
runs alone has told them their place again.

### Ledger, LedgerProofs

Every transaction that moves money, in two or three steps: lock and read, then commit
or fail.  `call` holds the locals and the row locks of each running transaction,
`log[d]` the rows of `transaction_logs`.  Readings that the code takes in an earlier
session (`CancelReads`, `FindReads`, `GivesUpReads`) are kept in the call and used
stale, as the code does.

### TripLifecycle, TripLifecycleProofs

What happens to an order once a driver has it.  `order`, `driver` and `trip` are
committed rows, `starts` the delayed auto-start messages, `timer` the number of
auto-complete messages about each trip.  `call` holds the local variables of every
process: a *call* is one press of a button and is used once, a *worker* runs one
Celery task after another.  A transaction that reads before it writes is two steps or
more; the two row locks that outlast a step are `OrderFree` (a completion between its
UPDATE and its commit) and `TripFree` (the trip FOR UPDATE of a cancellation).
`dropped` is a history variable: trips whose timer a broken-off handler has not set, or
whose list it has not gone through; no action reads it.  `finding` holds the find tasks
that have read a pending order and not yet written; the write names the order alone
(`tasks/matching.py:90`), so it can replace the driver of an order that has been accepted
meanwhile.  `misled` is a history variable: the orders to which that has happened, until
they are accepted anew.

| TLA+ | code |
|---|---|
| `GoesOnline`, `Accept`, `AcceptClearsFlag` | `driver/main_menu.py`, `order_service.py:300-510` in one step each |
| `FindReads`, `FindWrites`, `FindEnds` | `tasks/matching.py:43-149`: the check of the status, the unconditional UPDATE of the driver, every other end |
| `StartReads`, `StartCommits`, `StartSchedules` | `driver/orders.py:260-315` with `start_trip` (`order_service.py:555-660`) |
| `AutoStart`, `AutoStartFails` | `order_service.py:819-929` |
| `CompleteReads`, `CompleteMarks`, `CompleteCommits`, `CompleteFails` | `complete_trip` (`order_service.py:692-815`), `complete_order` (`models/order.py:523`) |
| `ManualReads`, `ManualEnds`, `ManualCleansUp` | `manual_complete_trip` |
| `AutoReads`, `AutoCloses`, `AutoFrees` | `auto_complete_trip_task` (`tasks/matching.py:475-640`) |
| `GivesUp*`, `CancelAll*` | `confirm_cancellation`, `cancel_all_orders_handler` |
| `PassengerReads`, `PassengerWrites` | `passenger_cancel_order` (`booking.py`) |
| `TripCancelReads` ... `TripCloses` | `confirm_trip_cancellation`, `cancel_pending_orders_in_trip` (`trip_service.py`) |

Left out here: money (`Ledger`), the counters of trips, `auto_confirm_trip_task`, which nobody publishes,
and the row locks of transactions that are one step.

### DriverQueue, DriverQueueProofs

The sorted set of each route beside the drivers' rows.  `driver` holds the row,
`queue` the scores, `adds` and `removals` the tasks that wait, `adding` and `removing`
those that run; the removal task goes from queue to queue (`RemovalStep`).  A score is
a time from which the priority offset has been taken or not, and only the number of
offsets is kept.  `open[d]` is the transaction that has locked the row of `d` and has
published a task about him or written to a queue, but not committed: going online,
stopping, an acceptance that fills the car, an admin who puts him offline.  Workers run
tasks before that commit as well as after it, everybody else still reads the old row, and
those who would write it wait (`Free`).  `panel` holds what an admin's edit has read,
`toggle` the local variables of the priority request, `reset` the queues the nightly reset
still has to delete.  `events` bounds what admins, the nightly reset, crashes and errors do.

`Placed(d, r)` says that his row gives him a place in the queue of `r`, or will once the
open transaction is committed.  `apart` is a history variable: drivers about whom the two
invariants say nothing, from the step on at which their row and their place come apart
and no code follows it up.  These are the steps:

* `RollsBack`: a handler fails after it has published or removed;
* `AddWrites`, `RemovalEnds`, `AcceptFills`: an error of Redis is swallowed, and nothing is
  written or removed;
* `AddWrites`, `ToggleWrites`: a task or a priority request that is late puts him into a
  queue where he has no place, when nothing is to take him out any more (`Stray`);
* `RemovalStep`, `ResetDeletes`: the task of an earlier stop, or the reset, takes a place he
  has got since, when nothing is to put him back (`Belongs`); the reset also takes that of
  a driver on a trip with seats left;
* `ResetFails`: the reset breaks off after the commit, and he is in a queue it had left;
* `StruckOut`: his row stays active;
* `AdminOn` (other edits of a row by hand are left out), `Block` while he is active, and
  `AdminOff` when his route has changed since the admin's request read it;
* `HandsBack`, `Completes`: a full car gets a seat back, and nothing puts him back;
* `AutoStart`, `Completes`, `CancelsAll`: he goes offline while he has a place;
* `AcceptFills` by an order of another route: the place is taken from the wrong queue.

Tasks that overtake each other, run before the commit or are run again, an add task beside
a removal, a priority request or a reset beside any of them: all of these are checked as
long as none of these steps is taken.  A stop takes him out of `apart`: it clears all
queues, whatever was the matter before.

| TLA+ | code |
|---|---|
| `StartAccepting`; `SeatsSelected`, `Joins`; `Stop`, `Stops` | `driver/main_menu.py:121-345`, `405-432`: to the publication of the task, and on to the commit |
| `RollsBack` | `core/database.py:192-219`, of each of these transactions |
| `AddReads`, `AddWrites`, `RemovalStarts`, `RemovalStep`, `RemovalEnds` | `tasks/matching.py:710-770`, `queue_service.py:74-283` |
| `Offers`, `Declines`, `StruckOut`, `Accept` | `get_next_driver`, `auto_reject_order_task`, `accept_order_by_driver`, in one step each |
| `AcceptFills`, `Fills` | `accept_order_by_driver` when no seat is left: the ZREM (`order_service.py:482`), and the commit |
| `AutoStart`, `StartTrip`, `HandsBack`, `Completes`, `CancelsAll` | the trip's operations, reduced to the driver's row and place |
| `ToggleCommits`, `ToggleReads`, `ToggleWrites` | `queue_service.py:105-155` |
| `Block`, `Unblock` | `admin/routes/drivers.py:309-408` |
| `AdminReads`, `AdminOff`, `Goes`, `AdminOn` | `admin/routes/drivers.py:663-815`: the read, the ZREM of the route that was read, the commit |
| `ResetRows`, `ResetDeletes`, `ResetFails` | `cleanup.py:91-127`, `queue_service.py:452-486` |

### QueueSearch

One run of `get_next_driver`: `Reads` takes a part of the queue by rank, `Checks`
looks at its drivers one by one; any error ends it with the answer of an empty queue
(`Errs`).  Between the steps drivers join, leave, get or lose
priority (their scores here are times, with and without the offset), and become
suitable or unsuitable (`fit`).  `steady` and `calm` are history variables: who has
been there and suitable since the search began, and whether nobody has left since.

### Booking, BookingProofs

The passenger's dialogue from the choice of a route to the order, with two messages of
his in the handlers at once, and the driver's from going online to his seats, over a
catalogue which the office changes.  `update_data` is read, change, write back (`Updates`,
`Writes`); `finalize_order` draws its key, inserts, commits, publishes, records the order
in the data and clears it, and a crash or an error falls anywhere between.  `shared` are
the dialogues in which two messages were handled at once, `stranded` the driver whose
route was deleted while he was online on it.

### Conversation, ConversationProofs

One user: the FSM state and data, his row and profiles, updates in the handlers at once,
and the panel.  `FirstHandler` is what aiogram's routers do: the state when the update
arrives picks the handler.  Then the guard goes step by step (`GuardReadsData` ...
`GuardClears`), then the handler.  Of the drivers' and the passengers' states one each is
kept, since the guard tells only the groups apart.  `turned` says that the role changed
under the conversation, `bereft` that the panel took the profile of the user's role or gave
him the role.

### Support

The driver's two dialogues that end in a deposit request, complaints, and the panel's
reply and mark.  An *item* is a row; `dialogue.of` says of which amount it was made,
`raced` which amounts two receipts had read before either was done, or whose receipt left
a row but, after a restart or an error, the conversation as it was: the guard's own clear
may fail too (`GuardClears`).

### RateLimit

The keys of one user, command by command, in the middleware and in the booking limiter.
Time is what the keys have left.  `admitted` counts the calls let through since the
counter came into being.  A refusal is a message (`Refuses`): when it fails, the middleware
catches the error and calls the handler, uncounted.  `gone` keeps the bookings of the
window whose list has lapsed before them, `missed` those let through by an error.

### Notifications

`notify_admins`, `notify_trip_completed` and `send_bulk_messages` as `fan`, one
`send_telegram_message` task for each chat with its rate key and tries, and the
broadcast of the panel (`casts`), which the request sends itself; `dropped` are the chats
it had not come to when it died.

| TLA+ | code |
|---|---|
| `Locks`, `Sends`, `AutoRejects`, `Unlocks` (`OfferKey`) | `queue_service.py:380-400`, `matching.py:284-377` |
| `Looks`, `Deletes`, `Forgets`; `Reads`, `Asks`, `Sends`, `Notes` (`QueueMessages`) | `_clear_queue_message_for_driver`, `_notify_queue_positions` |
| `Finalizes` ... `ClearsData`; `DeleteRoute` (`Booking`) | `finalize_order`; `delete_route` (`settings.py:392`) |
| `Guard*`, `MenuActs`, `StartReads`, `StartWrites`, `Last*` (`Conversation`) | `state_guard.py:42-190`, `decorators.py:53-154`, `start.py`, `registration.py` |
| `ReadsAmount`, `Inserts`, `Tells`, `ClearsAfter`; `Replies`, `Mark*` (`Support`) | `receipt_uploaded`, `receipt_photo_uploaded`, `complaint_text_entered`; `feedback.py` |
| `ReadBan` ... `Ban`; `CheckLimit`, `Push`, `SetTerm` (`RateLimit`) | `rate_limit.py:46-198`; `rate_limiter.py:65-173` |
| `Counts`, `Expires`, `Waits`, `Sends`, `Stumbles`; `Casts` (`Notifications`) | `send_telegram_message`; `send_broadcast` |

`PROJECT.json` gives the exact lines of every definition.

## What each run shows

| Run | Bounds | Shows |
|---|---|---|
| `acceptance` | accepting: 2 drivers, 2 orders (1 and 2 seats), 2 calls, 2 trip ids, 2 lock attempts, find tasks for one order; riding: 2 drivers, 2 trips, 2 orders, 1 press, 1 worker, 1 fault; searching: the same with late find tasks for one order in place of the fault; with fairness | atomic claim, one winner, one open trip, seats of a trip, lock keys, auto-start, every call answered; a ride in progress ends, but for the named exceptions |
| `offer_after_accept` | 1 call, find tasks | the find task overwrites the acceptance (violation) |
| `matching` | 1 order, 2 drivers with one seat, of whom d2 may come online, 2 retries, 1 strike, 1 reject a day, d1 may block the bot, 1 fault, with fairness | the search ends, and undoes an acceptance only by the named late task |
| `matching_faults` | 1 order published twice, 1 driver, 1 retry, 2 strikes, 1 resend, 2 faults, the passenger may block the bot | the search goes on through crashes, Telegram errors that are tried again, lapsed keys, duplicates |
| `ledger` | 2 orders, 2 drivers who can pay one commission, 1 deposit, 4 calls | types, row locks, one credit per deposit, audit trail with true old balances |
| `refund_twice` | 1 order, 2 drivers, 4 calls | a refund from a stale reading (violation) |
| `trips` | rides: 2 drivers, 2 trips, 2 orders of one seat, cars of 2 seats, 2 presses of a button, 1 worker, no faults; searches: the same with 1 press, beside find tasks of both orders; messages: 2 drivers, 2 workers, 3 changes of the queue, 1 fault | an active order rides with its driver, but for one a late find task has misled, statuses move forward; what a chat says of a place is true and said once |
| `ride_stuck` | 1 driver, 1 trip, 2 orders, 2 presses, 1 worker, no faults, with fairness | the wait cycle keeps a ride in progress (violation) |
| `timer_of_trip` | 2 drivers, 2 orders, cars of 1 or 2 seats, 1 press | a timer completes another driver's order (violation) |
| `queue` | queue: 1 driver, 2 routes, 1 waiting and 1 running task of a kind, orders of 1 route held or offered at a time, 2 tasks, transactions or requests under way at once, 1 event of an admin, the night, a crash or an error; booking: 2 messages at once, 2 dialogues, 3 keys, 2 routes of one way, 1 fault or change of the catalogue (3 changes under a driver) | a waiting driver is in his queue, a queued driver is online, the offset is taken at most once; one order per dialogue, no dangling route |
| `conversations` | 2 updates at once; user: 1 fault or change by the panel; office: 1 fault, 2 items, 1 request of the panel | roles have profiles, the cache and the states follow the role; one request per amount |
| `services` | offers: 2 orders, a key of 3 ticks, timers of 2 and 4; limits: 2 updates at once of two kinds, limits 1 and 2, windows of 1 and bans of 2 ticks, 1 booking, 1 fault; messages: 2 texts, 1 chat, 2 tries, 2 deaths; line: 3 drivers, read in parts of 2, 3 joins; with fairness | the key holds the driver, bursts are bounded, bans end, messages are settled, the search ends and misses nobody while nobody leaves |

Why these bounds are enough to be worth running: two calls race for one order, or are the
same driver's for two orders, or one order's find task runs beside them; a driver with two seats is filled by
one acceptance, one with three by two; a balance of one commission makes the second
debit fail.  In `matching` the second driver is what a reject, a skip or a strike
moves on to; a threshold and a limit of 1 are reached and passed; he may be online only
after the first round found nobody else, and a fault falls at any other point instead.  In `ledger` four
calls are enough for accept, hand back, accept again and a cancellation between them.
In the trip runs every trip has the number of an order (`MCNumber`), because both
sequences count from one; two presses are a start and a cancellation, two
completions, or two hand-backs; cars of two seats may start with one order and take
another.  One press is enough for `timer_of_trip`: the auto-start of a full car sets the
timer.  A find task that is late meets one press, which can take the order further on or
back; two presses and such a task in one behaviour are left to the proof, and the two violations
of trips need none (`Sought` is empty).  In `queue` nothing the drivers do to each other's rows or places is left out by
having one: every action is about one driver, but for the nightly reset, which treats
each alike.  One event is any of them.  `MaxBusy` lets any two of a task of each
kind, an open transaction, the panel's requests and the reset be under way together, one
inside the other, with further tasks waiting; `MaxRides` keeps a driver to orders of one
route at a time, which may be another than the one he is online on.  Three under way, or two
events, are too many for a run kept beside the code and left to the proof, which is for
any number of them.  In `services` three drivers are two parts, so
that a place can cross their border; of two orders a late answer to the first frees a
driver who has the second; one timer ends before the key and one after it; limits differ by kind because both kinds
share one counter; two tries are one retry.  In `conversations` and for the passenger in
`queue` two calls are what a double press needs, and one fault falls between any two
commands; a fault and a change by the panel or of the catalogue in one behaviour double
the states and are left out (`MaxMishaps`).  In the messages of `trips` two workers can touch one message, four ids are as
many as can be told apart, and ids that nothing names are used again.  `MCAcceptance` gives
the riding part one press, since a completion needs no more and the fault stands for the
other's absence, and faults and late find tasks are apart; two presses under fairness are in
`ride_stuck`.  `MaxFaults` bounds crashes, resends, lapsed keys and returns to work together.
Calls, drivers' presses and fault counts are bounded, so the modelled system may
stop: deadlock is not checked.  `CallsAnswer` and `PendingResolves` say what must
not stop.

### Fairness

`acceptance`: weak fairness of each call's step (the event loop resumes a
coroutine whose await can complete; PostgreSQL grants a free row lock) and of the
expiry of Redis keys; in its riding part, and in `ride_stuck`, weak fairness of what a
handler does after its first step and of the worker: nobody has to press a button, and
the auto-start task may wait.  `matching`: weak fairness of the workers per order, and of
button handlers that have been started.  No fairness for drivers, passengers,
failures or key expiry: silence is allowed.  `services`: time passes (the expiry of
Redis keys), the search goes on, which is one coroutine, and the workers come to every
task.  An acceptance or a message may always be delayed, never for ever.

### Disagreements between code and comments

* `offer_after_accept`: `find_driver_for_order_task` checks the status and later
  runs `UPDATE orders SET driver_id` whatever the status is (`matching.py:90`).
* `refund_twice`: `passenger_cancel_order` refunds from a reading of another session
  and keeps the refund when the cancellation finds the order changed
  (`booking.py:243-266`).
* `ride_stuck`: `cancel_pending_orders_in_trip` keeps the trip row FOR UPDATE while
  `refund_commission_for_order`, in a transaction of its own, waits for an order row
  (`trip_service.py:137`); `complete_trip` holds that order row and waits for the
  trip row.  The cycle runs through the application, so PostgreSQL does not break it,
  and the ride that was to end after ten minutes "in any case" (`orders.py:326`) does
  not.
* `timer_of_trip`: `auto_complete_trip_task` takes its target for an order id when the
  trip of that id is not ACTIVE (`matching.py:513`), and completes whatever order in
  progress has this number.

No run of their own, but visible in the modules:

* `notify_passenger_no_driver_task` cancels without looking again after its message
  (`matching.py:688`): an order accepted meanwhile is cancelled, although the comment
  at its check (`matching.py:653`) leaves accepted orders alone.
* `start_trip` publishes the removal from the queue (`order_service.py:650`) with the
  route of `order`, a variable which has no value when the UPDATE has succeeded
  (`:653`).  The error is logged and nothing is published: a driver with free seats
  keeps his place through the ride.
* The search never looks at `current_route_id` (`queue_service.py:562`): a place left
  behind in another route's queue gets him that route's orders.
* The search reads by rank (`queue_service.py:538`): when somebody of an earlier part
  leaves, the first of the next part becomes the last of one already read and is
  passed over.  `FirstInLine` is therefore about searches during which nobody leaves.
* The priority request writes back the score it has read (`queue_service.py:147`), also
  of a driver who has left meanwhile: he is queued again.  An add task that read the
  row before the request and writes after it loses the priority.
* The message to a driver who is struck out tells him to press the button that answers
  that he is active already (`matching.py:367`, `main_menu.py:139`).
* A driver whose full car gets a seat back is active and in no queue
  (`orders.py:870`); only a stop and a new start bring him back.
* The auto-reject timer is never cancelled, and counts a strike for a driver who
  rejected in time and was offered the order again (`matching.py:333`).
* `confirm_cancellation` repeats none of its checks in the UPDATE (`orders.py:848`):
  an order that was completed or cancelled meanwhile is PENDING again.
  `MovesForward` therefore says nothing of the step to PENDING.
* `complete_order` does not ask whether its UPDATE changed anything
  (`order_service.py:711`): two completions of one order give its seats back twice.
  This is why the module has no abstract specification with seats given back once.
* `start_trip` makes the trip ACTIVE whatever it was (`order_service.py:625`), so a
  closed trip can be open again.
* The auto-complete task closes a trip in which orders are still ACCEPTED, although
  the status says all its orders are completed (`trip.py:43`); the cancellation of a
  trip leaves an order IN_PROGRESS in a CANCELLED trip.
* A passenger's cancellation clears `is_on_trip` of a driver who has another order,
  and gives seats to one who was only a candidate (`booking.py:275`).
* An error that ends a task leaves a pending order with no task and not cancelled, although
  the find task's docstring promises it (`matching.py:41`): any exception of the message to
  the passenger or of the UPDATE after it (`701`), the last retry of a notification (`312`),
  a candidate who has blocked the bot (`307`), an error of the database, Redis or the
  broker that a task does not catch.  These are the orders in `lost`, of which
  `SearchGoesOn` and `PendingResolves` say nothing.
* `INCR` on a counter that lapsed since it was read makes a key without expiry
  (`rate_limit.py:191`): the user stays at the limit until somebody deletes it.  A message
  of refusal that fails lets a banned user through (`rate_limit.py:193-198`).
* "3 orders per minute" (`rate_limiter.py:32`): the list of bookings gets its expiry at
  the first entry only and lapses with the later ones, so that twice as many pass within a
  minute (`BookingsAreBounded`), and the limiter lets everything through when Redis does
  not answer.
* The key of an offer lives 130 seconds (`queue_service.py:380`) and the time to answer is
  a setting without a bound (`matching.py:211`, `settings.py:141`): set above the key's
  life, a driver with a live offer is offered another order.
* `get_next_driver` answers any error with None (`queue_service.py:648`), and the passenger
  is told that there is no driver.
* `delete_route` says that it sets `is_active = false` (`settings.py:392`), deletes the
  row, and with it the route's orders; drivers who are online there stay so, on no route.
* The idempotency key of a booking (`booking.py:150`) is read and written in two steps:
  presses handled at once draw two.  After a restart between the record of the order and
  the end of the dialogue, the next booking is answered with the old one.  A broker that
  does not answer turns a stored order into an error message.
* In the dialogues for a deposit the buttons that lead out of the question for the amount
  are taken for bad amounts (`balance.py:110`, `support.py:90`); each photo of an album
  makes a request of its own; a request made in `balance.py` is announced to nobody; the
  others are announced before they are committed, and a complaint as "#None".
* `refund_commission` sends its message to the driver's id and not to his Telegram id
  (`payment_service.py:437`).
* An emptied setting can never be changed again, because `update_setting` asks whether
  its value is true (`models/system_settings.py`).
* Strikes, admins, the nightly reset and priority leave messages ("the next order is
  yours") which nobody corrects; a remove task that finds no queue clears no message; two
  tasks at once leave one nobody replaces (`matching.py:743-897`).
* A broadcast is not resumed after a restart (`broadcast.py:37`).

## What is proved

`OrderAcceptanceProofs`, for all sets of drivers, orders, calls and trips, all
seat counts, balances and commissions (`ConstantsAssumption`): `TypeCorrect`,
`WinnerIsUnique`, `TripIsUnique`, `KeyIsItsHolders`, `FullCarsStart` and `Refinement`
(the implementation of `OrderClaim`).  They rest on `Inv`.  Types alone are not
inductive: a commit subtracts seats and money that were checked two steps before,
so `DriverRowHeld` says the checks still hold while the row is locked, `OrderRowHeld`
that the order is still pending, and `TripReserved` that the trip a call is about to
write is its driver's open trip or a row nobody else can see.  The Redis lock plays
no part in the argument: the row locks alone make the claim atomic.  `FullCarsStart`
adds `Scheduled`: a call about to take the last seat has its auto-start message on its
way.  It is inductive because the driver's row is locked, so that nobody changes the
seats the call judged by, and because the countdown outlasts the transaction
(`CountdownOver`), so that no worker takes the message before.  `SeatsMatch` proves
`TripSeatsMatch`, which counts the riders of a trip and not the sum of its orders' seats, so
that no induction over the orders is needed: `SeatsAddUp` also says that the riders are
finitely many, because they come one commit after the other (`CommitSeats`).

`LedgerProofs`, for all orders, drivers, deposit requests, calls, fees and balances:
`LedgerTypes`, `RowsAreProtected`, `DepositsCreditedOnce`, `AuditTrail`, `OldBalances`.
`Relies` is what a transaction may count on while it holds its rows: also that the
balance it has read is still the driver's, which the log's old balance rests on; `QuietStep` and
`MoneyStep` show it for steps without and with a movement of money, and every action
is one or the other.

`TripLifecycleProofs`, for all orders, drivers, trips, calls, workers and seat counts:
`Invariance`, `RidesTogether`, `Forward`.  `RidesWithItsDriver` alone is not
inductive: an acceptance takes over an unused trip, so `Inv` adds that no active order
is in one and that the trip of an active order has a driver, the order's own unless it is
`misled`, and `CompletionHolds`, that a completion which found its order in progress
keeps it so, and alone, until it commits.  `MovesForward` follows from `Inv` in each
step, the late write of the find task included: it changes the driver of an order and never
its status.  So `RidesTogether` holds of every order to which such a write has not happened
since it was accepted; to those it does not apply, as `offer_after_accept` shows.

The types (`TripTypes`) need an argument in one place: that a message of a timer is taken
off no more often than it was sent.  `TimersCover` says that a trip has at least as many
messages as workers on it, for a worker takes its message off when it is done
(`Running`, finite because `Workers` is); `CallsRefer`, that a call which writes an order or
a trip has one.

The same module is about `QueueMessages` beside the trips: `PlaceTold` and, with the types
of both, `PartsTypes`.  `PlaceIsTold` speaks only of moments when no task runs or waits.
`MessagesHold` says for the moments between, of each driver who is not `astray`
(`Followed`): one teller at most is at his message (`Separate`); his chat shows none but
the noted one or the one just sent (`OneMessage`); what a teller has read of his key holds
until it acts on it (`Knows`); a place that is shown is his, or the queue will be read
again, or a teller still has him on its list (`Truthful`), and then with the right place
or with news behind it (`InPlace`); and who has left the queue and sees or is about to be
told a place will be cleared (`Gone`).  Drivers are finitely many and `None` is no
message (`MessagesAssumption`).  `Ids` and `MaxChanges` may be any set and number, `Ids`
infinite too; with finite `Ids` a message is sent only when an id is free.

`ServicesProofs`, for every size and limit of the four parts of `MCServices`
(`ConstantsAssumption`, `ServicesAssumption`: positive limits, parts of the queue that
are not empty, a priority offset beyond all times): `ServicesTypes`, `RequestsBounded`,
`FirstPicked`; `OfferKeyInvariance` and `DriverIsHeld` about `OfferKey` where it stands.

* `OfferKey`, for a key of any life and timers of any length.  That the key names an offer
  that may be answered is not inductive.  `Held` adds, from the moment the key is taken,
  that the offer's age and what is left of its key make up the key's life; `Unoffered`,
  that an order which was not offered yet has no age.
* `RateLimit`.  The bound on a burst is a product, and the invariant `Burst` is its
  account: what has got through, a `Share` for each call that will still begin the count
  again (it found no key, or a fault may make it find none), and what gets through on the
  count as it is, are together no more than the bound.  While there is no key only faults
  let anybody through, and so does a refusal whose message fails.  `Bookings` counts the calls that have passed `check_limit` and
  not pushed yet with the entries; time moves the entries' pairs of age and number one
  age on, which is an injection (`PairsShift`).  Lapsed entries of the window are those of
  one list (`LapsedKept`): a list outlives its first entry, so that a second one can lapse
  only when the first one's entries are out of the window (`Outlived`).
* `QueueSearch`.  `Searched` says, as long as nobody leaves, that each driver who suits
  and was not read yet has a rank from the start of the next part on and a score above
  all of the part under way.  Scores are apart because the times are (`Apart`), so ranks
  are the numbers below the length of the queue (`RankTaken`), and a rank only grows when
  others join (`RankGrows`).
* `Notifications`: types only; its other properties are liveness.

`MatchingProofs`, for all orders, drivers, limits, resends and faults
(`ConstantsAssumption`): `TypeCorrect`, `SearchNeverStops`, `AcceptancesStand`.  The bag
of tasks needs no counting: `TaskReplaced` and `TaskAdded` say what a step does to the
set of its elements, which is all the properties look at.  `SearchGoesOn` is not
inductive, because it lets any task stand for the search, also a duplicate that is about
to find nothing to do.  `SearchInv` asks for more: the order is in `lost`, or one of its
tasks always leaves another behind unless an error ends it (`Solid`), as all do but a find
task that has published its notification and has only to commit.

`DriverQueueProofs`, for all drivers, routes, copies of a task and events: `TypeCorrect`,
`WaitingAreQueued`, `QueuedAreOnline`.  The two properties are proved together
(`RowsMatch`, `Settled` of each driver outside `apart`), each with what it needs of the
other.  `Placing` says with `Placed` that who has a place, or will have one once the open
transaction is committed, is in the queue or to be added to it, and that who stands in a
queue has such a place or will be taken out.  It holds of drivers on a trip too, who may
wait again.  `ChoosesOffline` says that nobody is online who is asked for his seats, unless
he is about to go offline.  The tasks about one driver are bounded by his events
(`FewTasks`), which the types need.

`BookingProofs`, for all messages at once, dialogues, keys, routes, changes of the
catalogue and crashes (`ConstantsFit`: keys are numbered from one, no route is `None`):
`TypeCorrect`, `RoutesAreThere`, `OneOrder`.  `NoDanglingRoute` is inductive over the
types: the insert looks at the route under its lock, and a deletion waits for what is
open.  `OneOrderPerDialogue` is not.  `Kept` adds that an order about to be inserted
has its key in the data already (`Keeps`), and, for every order that is made, that no
call of its dialogue comes to another key (`Once`, `Same`): the data, also those a call
has read and will write, have its key or no route (`Knows`), and the conversation does not
go back to the choice of a route.  Two calls at once defeat the second part, which is
why their dialogues are the exception (`Alone`).  `DriverQueueProofs` carries the three
theorems over to the instance that the run checks, whose routes all go one way
(`PartsTypeCorrect`, `RoutesAreThere`, `OneOrder` there).

`ConversationProofs`, for any number of updates at once, faults and changes by the panel:
`TypeCorrect` (for bounds that are numbers), `RolesHaveProfiles`, `CachesFollowRoles`,
`StatesFitRoles`.  `Follows` is the three properties together with `Kept` of every call:
what it has read of the role or is about to write into the conversation is still the
role, or the role has changed since (`turned`).  The same module proves the part about
`Support`, for all rows, calls, amounts and faults (`ItemsFit`: no row is called "none"):
`OneRequestPerAmount` and, with both parts' types, `PartsTypeCorrect`.  The
invariant is `DeskKept`.  A call that has inserted a row has it to itself until it ends, and the panel
sees no feedback before (`Owned`); amounts are numbered up to the dialogue's (`Counted`).
Two calls with one amount make it a raced one, and a row of an amount that is not raced
means that the data is gone, or has a later amount, or that a call is still to clear it
(`Requested`).

So every invariant and every action property that a passing run checks is also a theorem.
Only model-checked are the liveness properties, which are beyond the prover: `CallsAnswer`,
`RideEnds`, `PendingResolves`, `ShutOutEnds`, `MessagesSettle`, `SearchEnds`.

## Not modelled

Redis before its client is initialised (the in-memory lock and queue), the texts and
keyboards, geometry, validation, statistics and metrics, the panel's sessions and
settings, connection pools.  The handlers behind buttons that no message carries
(`passenger/driver_info.py`, and with them the counted bans of `driver_blocking.py`),
`complete_registration` and `auto_confirm_trip_task` are unreachable and left out.  The
auto-start countdown, minutes long, is taken to outlast the transaction that published it
(`CountdownOver`).  A driver's ride is one trip in `Ledger`.  A search that is started
again by a hand-back before its commit (`orders.py:765`) needs the accepted part of an
order's life in `Matching`; no property covers it yet.

## Plan

1. `OrderClaim`, `OrderAcceptance` and proofs: done.
2. `Matching`, `OfferKey` and their proofs, `QueueMessages`: done; the search started by a
   hand-back is left.
3. `Ledger` and proofs: done.
4. `TripLifecycle` and proofs: done.
5. `DriverQueue` and proofs, `QueueSearch`: done; priority in the queue against priority in
   the database is left.
6. `Conversation`, `Support`, `Booking`, `RateLimit`, `Notifications`: done.
7. Cleanup: the counters that are reset at midnight against live traffic; the panel's
   sessions.
8. Proofs of `Matching`, `DriverQueue`, `Booking`, `Conversation`, `Support` and of the
   four parts of `MCServices`; types of `TripLifecycle`, `PlaceIsTold`: done.
