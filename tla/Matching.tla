-------------------------------- MODULE Matching --------------------------------
(***************************************************************************)
(* From a pending order to an accepted or cancelled one: the Celery tasks  *)
(* of app/tasks/matching.py (find, notify, auto-reject, no-driver), the    *)
(* driver's accept and reject buttons, and the Redis keys between them.    *)
(*                                                                         *)
(* A task is delivered at least once: it stays in the bag `tasks` until it *)
(* is done, and a worker that dies in the middle leaves it to be delivered *)
(* again.  Two identical tasks may coexist (a new order is published to    *)
(* find_driver_for_order_task twice), hence a bag.  Acceptance itself is   *)
(* one step here: OrderAcceptance shows that it is indivisible.  Every     *)
(* order needs one seat.                                                   *)
(***************************************************************************)
EXTENDS Integers, FiniteSets, Bags, BagsExt

CONSTANTS
  Orders, Drivers, None,
  StartSeats,       \* driver -> free seats when going online
  Online,           \* drivers who are online when the orders come
  Publications,     \* how often a new order's first find task is published
  MaxRetries,       \* max_retries of find_driver_for_order_task
  MaxSends,         \* max_retries of notify_driver_new_order_task
  Threshold,        \* DRIVER_INACTIVITY_THRESHOLD
  MaxRejects,       \* MAX_DRIVER_REJECTS_PER_DAY
  MayBlock,         \* drivers, and orders' passengers, who may block the bot
  MaxFaults         \* bound: crashes, errors, lapsed keys, new sessions

ASSUME ConstantsAssumption ==
  /\ None \notin Drivers
  /\ StartSeats \in [Drivers -> Nat] /\ Online \subseteq Drivers
  /\ Publications \in Nat \ {0}
  /\ MaxRetries \in Nat \ {0} /\ MaxSends \in Nat /\ Threshold \in Nat \ {0}
  /\ MaxRejects \in Nat /\ MaxFaults \in Nat
  /\ MayBlock \subseteq Drivers \cup Orders

VARIABLES
  status,      \* orders.status
  holder,      \* orders.driver_id
  seats,       \* drivers.available_seats
  queue,       \* drivers in the zset driver_queue:{route}
  offered,     \* Redis: driver -> order under driver_offered:{driver}, or None
  skips,       \* Redis: pairs <<driver, order>> under order_skip:{order}:{driver}
  strikes,     \* Redis: driver -> driver_inactivity:{driver}:{route}
  rejects,     \* Redis: driver -> driver_rejects:{day}:{driver}
  tasks,       \* bag of Celery tasks, queued or running
  shown,       \* pairs <<driver, order>>: an offer with live buttons in the chat
  answering,   \* driver -> what is left to do of the button handler
  blocked,     \* who has blocked the bot: Telegram refuses to deliver
  lost,        \* orders a task of which ended in an error, with nothing after it
  faults       \* how much of MaxFaults has been used

db      == <<status, holder, seats>>
redis   == <<queue, offered, skips, strikes, rejects>>
chat    == <<shown, answering, blocked>>
vars    == <<db, redis, tasks, chat, lost, faults>>

--------------------------------------------------------------------------------
(* Tasks *)

Task(kind, o, d, n) ==
  [kind |-> kind, order |-> o, driver |-> d, tries |-> n, pc |-> "queued"]

Find(o, n)       == Task("find", o, None, n)
Notify(d, o)     == Task("notify", o, d, 0)
AutoReject(d, o) == Task("autoReject", o, d, 0)
NoDriver(o)      == Task("noDriver", o, None, 0)

TaskSet == [kind: {"find", "notify", "autoReject", "noDriver"}, order: Orders,
            driver: Drivers \cup {None}, tries: 0..(MaxRetries + MaxSends),
            pc: {"queued", "reading", "picked", "locked", "published", "sent", "struck"}]

At(kind, pc) == {t \in BagToSet(tasks) : t.kind = kind /\ t.pc = pc}

\* One copy of t is replaced by the tasks of S
Becomes(t, S) == tasks' = (tasks (-) SetToBag({t})) (+) SetToBag(S)

MovesTo(t, pc) == Becomes(t, {[t EXCEPT !.pc = pc]})

Fault == faults < MaxFaults /\ faults' = faults + 1

\* A task that fails is not delivered again, and what it was about is not seen to
EndsInError(t) ==
  /\ Becomes(t, {})
  /\ lost' = lost \cup {t.order}
  /\ UNCHANGED <<db, redis, chat>>

\* The find task holds the order row from its UPDATE to its commit
RowFree(o) == \A t \in At("find", "published") : t.order # o

--------------------------------------------------------------------------------
(* find_driver_for_order_task *)

FindStarts(t) ==
  /\ t \in At("find", "queued")
  /\ IF status[t.order] = "PENDING" THEN MovesTo(t, "reading") ELSE Becomes(t, {})
  /\ UNCHANGED <<db, redis, chat, lost, faults>>

\* get_next_driver: in the queue, not skipped, without another offer, with a seat
Eligible(d, o) ==
  d \in queue /\ <<d, o>> \notin skips /\ offered[d] = None /\ seats[d] > 0

FindPicks(t, d) ==
  /\ t \in At("find", "reading")
  /\ Eligible(d, t.order)
  /\ Becomes(t, {[t EXCEPT !.pc = "picked", !.driver = d]})
  /\ UNCHANGED <<db, redis, chat, lost, faults>>

\* lock_driver_for_offer: SET driver_offered:{driver} NX
FindLocks(t) ==
  /\ t \in At("find", "picked")
  /\ offered[t.driver] = None
  /\ offered' = [offered EXCEPT ![t.driver] = t.order]
  /\ MovesTo(t, "locked")
  /\ UNCHANGED <<db, queue, skips, strikes, rejects, chat, lost, faults>>

\* Mutants: the last retry ends without telling anyone; the attempts are not counted
NothingLeft(o, n) == IF n + 1 >= MaxRetries THEN {} ELSE {Find(o, n + 1)}
SameTryAgain(o, n) == {Find(o, n)}

\* What follows a round in which nobody was found
NextTry(o, n) == IF n + 1 >= MaxRetries THEN {NoDriver(o)} ELSE {Find(o, n + 1)}

\* The key was taken in between: look again, or give up in the third round
FindLosesRace(t) ==
  /\ t \in At("find", "picked")
  /\ offered[t.driver] # None
  /\ \/ Becomes(t, {[t EXCEPT !.pc = "reading", !.driver = None]})
     \/ Becomes(t, NextTry(t.order, t.tries))
  /\ UNCHANGED <<db, redis, chat, lost, faults>>

\* Nobody suits; or get_next_driver met an error, which has the same answer
FindFails(t) ==
  /\ t \in At("find", "reading")
  /\ \/ (\A d \in Drivers : ~Eligible(d, t.order)) /\ UNCHANGED faults
     \/ Fault
  /\ Becomes(t, NextTry(t.order, t.tries))
  /\ UNCHANGED <<db, redis, chat, lost>>

\* UPDATE orders.driver_id, and publish the notification before the commit
FindPublishes(t) ==
  /\ t \in At("find", "locked")
  /\ RowFree(t.order)
  /\ Becomes(t, {[t EXCEPT !.pc = "published"], Notify(t.driver, t.order)})
  /\ UNCHANGED <<db, redis, chat, lost, faults>>

\* The UPDATE names the order only: whatever became of it meanwhile
FindCommits(t) ==
  /\ t \in At("find", "published")
  /\ holder' = [holder EXCEPT ![t.order] = t.driver]
  /\ Becomes(t, {})
  /\ UNCHANGED <<status, seats, redis, chat, lost, faults>>

--------------------------------------------------------------------------------
(* notify_driver_new_order_task *)

\* No look at the status: the offer goes out even if the order is taken
NotifySends(t) ==
  /\ t \in At("notify", "queued")
  /\ t.driver \notin blocked
  /\ shown' = shown \cup {<<t.driver, t.order>>}
  /\ MovesTo(t, "sent")
  /\ UNCHANGED <<db, redis, answering, blocked, lost, faults>>

NotifyStartsTimer(t) ==
  /\ t \in At("notify", "sent")
  /\ Becomes(t, {AutoReject(t.driver, t.order)})
  /\ UNCHANGED <<db, redis, chat, lost, faults>>

NotifyRetries(t) ==
  /\ t \in At("notify", "queued") \cup At("notify", "sent")
  /\ t.tries < MaxSends
  /\ Fault
  /\ Becomes(t, {[t EXCEPT !.pc = "queued", !.tries = @ + 1]})
  /\ UNCHANGED <<db, redis, chat, lost>>

\* "bot was blocked by the user": reason "forbidden", nothing else is scheduled
NotifyForbidden(t) ==
  /\ t \in At("notify", "queued")
  /\ t.driver \in blocked
  /\ EndsInError(t)
  /\ UNCHANGED faults

--------------------------------------------------------------------------------
(* auto_reject_order_task *)

AutoRejectReads(t) ==
  /\ t \in At("autoReject", "queued")
  /\ IF status[t.order] = "PENDING" THEN MovesTo(t, "reading") ELSE Becomes(t, {})
  /\ UNCHANGED <<db, redis, chat, lost, faults>>

\* track_driver_inactivity, and out of the queue at the threshold ...
AutoRejectStrikes(t) ==
  LET d == t.driver IN
  /\ t \in At("autoReject", "reading")
  /\ strikes' = [strikes EXCEPT ![d] = @ + 1]
  /\ queue' = IF strikes[d] + 1 >= Threshold THEN queue \ {d} ELSE queue
  /\ MovesTo(t, "struck")
  /\ UNCHANGED <<db, offered, skips, rejects, chat, lost, faults>>

NextSearch(t) == {Find(t.order, 0)}

\* ... then the order is offered to someone else; the offer key stays
AutoRejectMovesOn(t) ==
  /\ t \in At("autoReject", "struck")
  /\ skips' = skips \cup {<<t.driver, t.order>>}
  /\ Becomes(t, NextSearch(t))
  /\ UNCHANGED <<db, queue, offered, strikes, rejects, chat, lost, faults>>

--------------------------------------------------------------------------------
(* notify_passenger_no_driver_task *)

\* Mutant: the order goes first, whatever its status, and the message after it
CancelsFirst(t) ==
  /\ t \in At("noDriver", "queued")
  /\ RowFree(t.order)
  /\ status' = [status EXCEPT ![t.order] = "CANCELLED"]
  /\ Becomes(t, {})
  /\ UNCHANGED <<holder, seats, redis, chat, lost, faults>>

NoDriverReads(t) ==
  /\ t \in At("noDriver", "queued")
  /\ IF status[t.order] = "PENDING" THEN MovesTo(t, "reading") ELSE Becomes(t, {})
  /\ UNCHANGED <<db, redis, chat, lost, faults>>

\* After the message to the passenger, UPDATE status WHERE order_id only
NoDriverCancels(t) ==
  /\ t \in At("noDriver", "reading")
  /\ t.order \notin blocked
  /\ RowFree(t.order)
  /\ status' = [status EXCEPT ![t.order] = "CANCELLED"]
  /\ Becomes(t, {})
  /\ UNCHANGED <<holder, seats, redis, chat, lost, faults>>

\* The message failed, as it does with a passenger who blocked the bot, or the UPDATE:
\* the exception is logged and the order left as it is
NoDriverFails(t) ==
  /\ t \in At("noDriver", "reading")
  /\ (t.order \in blocked /\ UNCHANGED faults) \/ Fault
  /\ EndsInError(t)

--------------------------------------------------------------------------------
(* The driver's buttons *)

Idle == [order |-> None, step |-> "idle"]

\* accept_order_handler: the acceptance ...
Accepts(d, o) ==
  /\ <<d, o>> \in shown
  /\ answering[d] = Idle
  /\ RowFree(o)
  /\ IF status[o] = "PENDING" /\ seats[d] > 0
       THEN /\ status' = [status EXCEPT ![o] = "ACCEPTED"]
            /\ holder' = [holder EXCEPT ![o] = d]
            /\ seats' = [seats EXCEPT ![d] = @ - 1]
            /\ queue' = IF seats[d] = 1 THEN queue \ {d} ELSE queue
            /\ answering' = [answering EXCEPT ![d] = [order |-> o, step |-> "accepted"]]
       ELSE UNCHANGED <<db, queue, answering>>
  /\ shown' = shown \ {<<d, o>>}
  /\ UNCHANGED <<offered, skips, strikes, rejects, tasks, blocked, lost, faults>>

\* ... then the keys, once the transaction has committed
AcceptUnlocks(d) ==
  /\ answering[d].step = "accepted"
  /\ strikes' = [strikes EXCEPT ![d] = 0]
  /\ offered' = [offered EXCEPT ![d] = None]
  /\ answering' = [answering EXCEPT ![d] = Idle]
  /\ UNCHANGED <<db, queue, skips, rejects, tasks, shown, blocked, lost, faults>>

\* Mutant: one reject more than the limit
DayLimitPassed(d) == rejects[d] > MaxRejects

DayLimitReached(d) == rejects[d] >= MaxRejects

\* reject_order_handler: unlock the driver, whichever order the key names ...
RejectUnlocks(d, o) ==
  /\ <<d, o>> \in shown
  /\ answering[d] = Idle
  /\ ~DayLimitReached(d)
  /\ offered' = [offered EXCEPT ![d] = None]
  /\ answering' = [answering EXCEPT ![d] = [order |-> o, step |-> "unlocked"]]
  /\ shown' = shown \ {<<d, o>>}
  /\ UNCHANGED <<db, queue, skips, strikes, rejects, tasks, blocked, lost, faults>>

\* ... count the reject, skip this driver for the order, forget the strikes ...
RejectSkips(d) ==
  /\ answering[d].step = "unlocked"
  /\ rejects' = [rejects EXCEPT ![d] = @ + 1]
  /\ skips' = skips \cup {<<d, answering[d].order>>}
  /\ strikes' = [strikes EXCEPT ![d] = 0]
  /\ answering' = [answering EXCEPT ![d].step = "skipped"]
  /\ UNCHANGED <<db, queue, offered, tasks, shown, blocked, lost, faults>>

\* ... and put the order back, if it is still pending
RejectRequeues(d) ==
  LET o == answering[d].order IN
  /\ answering[d].step = "skipped"
  /\ RowFree(o)
  /\ IF status[o] = "PENDING"
       THEN /\ holder' = [holder EXCEPT ![o] = None]
            /\ tasks' = tasks (+) SetToBag({Find(o, 0)})
       ELSE UNCHANGED <<holder, tasks>>
  /\ answering' = [answering EXCEPT ![d] = Idle]
  /\ UNCHANGED <<status, seats, redis, shown, blocked, lost, faults>>

\* The daily limit is reached: the buttons go away and nothing else happens
RejectRefused(d, o) ==
  /\ <<d, o>> \in shown
  /\ answering[d] = Idle
  /\ DayLimitReached(d)
  /\ shown' = shown \ {<<d, o>>}
  /\ UNCHANGED <<db, redis, tasks, answering, blocked, lost, faults>>

--------------------------------------------------------------------------------
(* The rest of the world *)

\* passenger_cancel_order on an order nobody has accepted
PassengerCancels(o) ==
  /\ status[o] = "PENDING"
  /\ RowFree(o)
  /\ status' = [status EXCEPT ![o] = "CANCELLED"]
  /\ UNCHANGED <<holder, seats, redis, tasks, chat, lost, faults>>

\* What a passenger's block stops is the message that there is no driver: an earlier
\* block is the same
Blocks(x) ==
  /\ x \in MayBlock \ blocked
  /\ x \in Orders => \E t \in At("noDriver", "reading") : t.order = x
  /\ blocked' = blocked \cup {x}
  /\ UNCHANGED <<db, redis, tasks, shown, answering, lost, faults>>

\* start_accepting_orders ... seats_selected, by a driver who is offline
GoesOnline(d) ==
  /\ d \notin queue /\ seats[d] = 0
  /\ Fault
  /\ seats' = [seats EXCEPT ![d] = StartSeats[d]]
  /\ queue' = queue \cup {d}
  /\ UNCHANGED <<status, holder, offered, skips, strikes, rejects, tasks, chat, lost>>

\* stop_accepting_orders, remove_driver_from_queue_task
Stops(d) ==
  /\ d \in queue \/ seats[d] > 0
  /\ seats' = [seats EXCEPT ![d] = 0]
  /\ queue' = queue \ {d}
  /\ UNCHANGED <<status, holder, offered, skips, strikes, rejects, tasks, chat, lost, faults>>

\* The key lives 130 s and the timer 120 s, but the key is older: either may be first
OfferExpires(d) ==
  /\ offered[d] # None
  /\ offered' = [offered EXCEPT ![d] = None]
  /\ UNCHANGED <<db, queue, skips, strikes, rejects, tasks, chat, lost, faults>>

KeyLapses(d) ==
  /\ Fault
  /\ \/ /\ strikes[d] > 0
        /\ strikes' = [strikes EXCEPT ![d] = 0]
        /\ UNCHANGED skips
     \/ /\ \E o \in Orders : <<d, o>> \in skips /\ skips' = skips \ {<<d, o>>}
        /\ UNCHANGED strikes
  /\ UNCHANGED <<db, queue, offered, rejects, tasks, chat, lost>>

\* A worker dies: its transaction is rolled back and the task is delivered again
WorkerDies(t) ==
  /\ t \in BagToSet(tasks) /\ t.pc # "queued"
  /\ Fault
  /\ Becomes(t, {[t EXCEPT !.pc = "queued",
                           !.driver = IF t.kind = "find" THEN None ELSE @]})
  /\ UNCHANGED <<db, redis, chat, lost>>

\* An error of the database, Redis or the broker that no task catches, or the last one
\* of the messages that notify_driver_new_order_task tries again
TaskFails(t) ==
  /\ t \in BagToSet(tasks)
  /\ Fault
  /\ EndsInError(t)

\* The bot dies in a button handler; Telegram does not deliver the press again
HandlerDies(d) ==
  /\ answering[d] # Idle
  /\ Fault
  /\ answering' = [answering EXCEPT ![d] = Idle]
  /\ UNCHANGED <<db, redis, tasks, shown, blocked, lost>>

--------------------------------------------------------------------------------
\* Every order has just been created: create_new_order and finalize_order have
\* both published a find task
Init ==
  /\ status = [o \in Orders |-> "PENDING"]
  /\ holder = [o \in Orders |-> None]
  /\ seats = [d \in Drivers |-> IF d \in Online THEN StartSeats[d] ELSE 0]
  /\ queue = {d \in Online : StartSeats[d] > 0}
  /\ offered = [d \in Drivers |-> None]
  /\ skips = {}
  /\ strikes = [d \in Drivers |-> 0]
  /\ rejects = [d \in Drivers |-> 0]
  /\ tasks = [t \in {Find(o, 0) : o \in Orders} |-> Publications]
  /\ shown = {}
  /\ answering = [d \in Drivers |-> Idle]
  /\ blocked = {}
  /\ lost = {}
  /\ faults = 0

FindStep(t) ==
  \/ FindStarts(t) \/ (\E d \in Drivers : FindPicks(t, d)) \/ FindLocks(t)
  \/ FindLosesRace(t) \/ FindFails(t) \/ FindPublishes(t) \/ FindCommits(t)

TaskStep(t) ==
  \/ FindStep(t)
  \/ NotifySends(t) \/ NotifyStartsTimer(t) \/ NotifyForbidden(t)
  \/ AutoRejectReads(t) \/ AutoRejectStrikes(t) \/ AutoRejectMovesOn(t)
  \/ NoDriverReads(t) \/ NoDriverCancels(t) \/ NoDriverFails(t)

\* A worker works on a task of order o
WorkerStep(o) == \E t \in BagToSet(tasks) : t.order = o /\ TaskStep(t)

HandlerStep(d) == AcceptUnlocks(d) \/ RejectSkips(d) \/ RejectRequeues(d)

Presses(d, o) == Accepts(d, o) \/ RejectUnlocks(d, o) \/ RejectRefused(d, o)

Environment ==
  \/ \E t \in BagToSet(tasks) : NotifyRetries(t) \/ WorkerDies(t) \/ TaskFails(t)
  \/ \E d \in Drivers : GoesOnline(d) \/ Stops(d) \/ OfferExpires(d) \/ KeyLapses(d)
                        \/ HandlerDies(d)
  \/ \E o \in Orders : PassengerCancels(o)
  \/ \E x \in MayBlock : Blocks(x)

Next ==
  \/ \E o \in Orders : WorkerStep(o)
  \/ \E d \in Drivers : HandlerStep(d)
  \/ \E d \in Drivers, o \in Orders : Presses(d, o)
  \/ Environment

Spec == Init /\ [][Next]_vars

\* The workers keep working and the bot's event loop finishes what it started;
\* nobody has to press a button, and no key has to expire.
FairSpec ==
  /\ Spec
  /\ \A o \in Orders : WF_vars(WorkerStep(o))
  /\ \A d \in Drivers : WF_vars(HandlerStep(d))

--------------------------------------------------------------------------------
(* Properties *)

TypeOK ==
  /\ status \in [Orders -> {"PENDING", "ACCEPTED", "CANCELLED"}]
  /\ holder \in [Orders -> Drivers \cup {None}]
  /\ seats \in [Drivers -> Nat]
  /\ queue \subseteq Drivers
  /\ offered \in [Drivers -> Orders \cup {None}]
  /\ skips \subseteq Drivers \X Orders
  /\ strikes \in [Drivers -> Nat]
  /\ rejects \in [Drivers -> 0..MaxRejects]
  /\ IsABag(tasks) /\ BagToSet(tasks) \subseteq TaskSet
  /\ shown \subseteq Drivers \X Orders
  /\ answering \in [Drivers -> [order: Orders \cup {None},
                                step: {"idle", "accepted", "unlocked", "skipped"}]]
  /\ blocked \subseteq MayBlock
  /\ lost \subseteq Orders
  /\ faults \in 0..MaxFaults

Waits(o) == status[o] = "PENDING"

\* A pending order is never forgotten: through crashes, duplicates, retries, lost presses,
\* expired keys and searches that see nobody, some task is still going to look at it.
\* Only an error that ends one of its tasks may leave it with none, a candidate or a
\* passenger who has blocked the bot included (the docstring at app/tasks/matching.py:41
\* makes no exception: there the order is cancelled in the end).
SearchGoesOn ==
  \A o \in Orders :
    Waits(o) => o \in lost \/ \E t \in BagToSet(tasks) : t.order = o

\* Every order is eventually taken or cancelled, however silent the drivers are,
\* with the same exceptions.
PendingResolves ==
  \A o \in Orders : Waits(o) ~> (~Waits(o) \/ o \in lost)

\* An order that a driver has is not taken from him by the search that went on for it.
\* Only a notify_passenger_no_driver_task that had read it before the acceptance
\* does: its UPDATE comes after the message and does not look at the status again.
AcceptanceStep ==
  \A o \in Orders :
    status[o] = "ACCEPTED" /\ status'[o] # "ACCEPTED"
      => \E t \in At("noDriver", "reading") : t.order = o

AcceptanceStands == [][AcceptanceStep]_vars

================================================================================
