------------------------------ MODULE DriverQueue ------------------------------
(***************************************************************************)
(* The queue of drivers of each route, a sorted set in Redis, beside the   *)
(* drivers' rows in PostgreSQL (services/queue_service.py,                 *)
(* bot/handlers/driver/main_menu.py, tasks/matching.py, tasks/cleanup.py,  *)
(* admin/routes/drivers.py).                                               *)
(*                                                                         *)
(* Handlers write the row and leave the queue to Celery tasks, which       *)
(* several workers run in any order, also before the handler commits;      *)
(* acceptances and admins write the queue first and commit then, the       *)
(* nightly reset the other way round.  From its UPDATE to the commit a     *)
(* handler has the driver's row locked (open), and others read what was    *)
(* there before.  An order is reduced to its route, seats to               *)
(* "there are enough"; balances are in Ledger, skips, counted strikes and  *)
(* late answers in Matching, the steps of a trip in TripLifecycle, the     *)
(* order within a queue in QueueSearch.  A score is a time from which an   *)
(* offset has been taken or not: the time is left out here.  The 24 hours  *)
(* after which a queue's key expires are longer than the time between two  *)
(* nightly resets.                                                         *)
(***************************************************************************)
EXTENDS Integers, FiniteSets

CONSTANTS
  Drivers, Routes, None,
  MaxCopies,  \* bound on a driver's tasks of a kind that wait, and on those that run
  MaxEvents   \* bound on what admins, the nightly reset, crashes and errors do

ASSUME ConstantsAssumption ==
  /\ None \notin Drivers \cup Routes \cup Int
  /\ MaxCopies \in Nat /\ MaxEvents \in Nat

VARIABLES
  driver,    \* row: is_active, is_on_trip, is_blocked, is_priority, seats, current_route_id
  rides,     \* driver -> routes of the orders he holds
  timers,    \* drivers with a delayed auto_start_trip_task
  choosing,  \* drivers in the dialogue that ends with the number of seats
  queue,     \* driver_queue:{route}: driver -> offsets taken from his score
  offered,   \* driver_offered:{driver} -> route of the order
  adds,      \* driver -> route -> add tasks that wait
  adding,    \* add tasks that run, with the score they have computed
  removals,  \* driver -> removal tasks (from all queues) that wait
  removing,  \* removal tasks that run, with the queues left to them
  open,      \* driver -> the transaction that has locked his row and written to the queue,
             \* or published a task that will
  panel,     \* the admin's edit of a driver: whom, and the route that was read
  toggle,    \* the admin's priority request: its local variables
  reset,     \* the nightly reset: queues still to be deleted
  events,    \* what admins, the nightly reset, crashes and errors have done
  apart      \* drivers whose row and place may differ: one of the events has come that
             \* the code does not follow up

rows  == <<driver, rides, timers, choosing>>
redis == <<queue, offered>>
tasks == <<adds, adding, removals, removing>>
admin == <<panel, toggle, reset>>
vars  == <<rows, redis, tasks, open, admin, events, apart>>

--------------------------------------------------------------------------------
Scores == {0, 1}

DriverRec  == [active: BOOLEAN, onTrip: BOOLEAN, blocked: BOOLEAN, priority: BOOLEAN,
               free: BOOLEAN, route: Routes \cup {None}]
AddRec     == [driver: Drivers, route: Routes, score: Scores]
RemovalRec == [driver: Drivers, left: SUBSET Routes]
ToggleRec  == [pc: {"idle", "reading", "writing"}, driver: Drivers \cup {None},
               route: Routes \cup {None}, on: BOOLEAN, score: Scores \cup {None}]

OpenRec    == [does: {"nothing", "joins", "stops", "fills", "goes"}, route: Routes \cup {None}]
PanelRec   == [driver: Drivers \cup {None}, route: Routes \cup {None}]

Nothing  == [does |-> "nothing", route |-> None]
NoPanel  == [driver |-> None, route |-> None]
NoToggle == [pc |-> "idle", driver |-> None, route |-> None, on |-> FALSE, score |-> None]

InQueue(d, r) == queue[r][d] # None

\* The row says that he waits on the route
Waits(d, r) == driver[d].active /\ ~driver[d].onTrip /\ driver[d].free /\ driver[d].route = r

AddDue(d, r) == adds[d][r] > 0 \/ \E t \in adding : t.driver = d /\ t.route = r
RemovalDue(d, r) ==
  \/ removals[d] > 0
  \/ \E t \in removing : t.driver = d /\ r \in t.left
  \/ r \in reset

Free(d)       == open[d] = Nothing
Joining(d, r) == open[d].does = "joins" /\ open[d].route = r
Leaving(d)    == open[d].does \in {"stops", "fills", "goes"}

\* His row has a place in the queue of r, or will once the open transaction is committed
Placed(d, r) ==
  \/ Joining(d, r)
  \/ ~Leaving(d) /\ driver[d].active /\ driver[d].free /\ driver[d].route = r

\* In the queue of r he would be there for no orders, and nothing will take him out of it
Stray(d, r) == ~Placed(d, r) /\ ~RemovalDue(d, r)

\* He is rightly in the queue of r, and nothing will put him back
Belongs(d, r) == Placed(d, r) /\ InQueue(d, r) /\ ~AddDue(d, r)

\* ZREM
Without(d, r) == [queue EXCEPT ![r][d] = None]

\* SCAN returns the keys that are there all the time, and perhaps others
Scanned == {q \in SUBSET Routes : \A r \in Routes : (\E d \in Drivers : InQueue(d, r)) => r \in q}

Offline(row) == [row EXCEPT !.active = FALSE, !.onTrip = FALSE, !.free = FALSE]

Event == events < MaxEvents /\ events' = events + 1
ApartIf(d, event) == apart' = IF event THEN apart \cup {d} ELSE apart

--------------------------------------------------------------------------------
(* Going online and offline *)

\* start_accepting_orders: the checks, the cleanup of a driver on no trip, the dialogue
StartAccepting(d) ==
  /\ ~driver[d].blocked /\ ~driver[d].active
  /\ driver[d].onTrip => (rides[d] = {} /\ Free(d))
  /\ driver' = IF driver[d].onTrip
                 THEN [driver EXCEPT ![d] = [Offline(@) EXCEPT !.route = None]] ELSE driver
  /\ choosing' = choosing \cup {d}
  /\ UNCHANGED <<rides, timers, redis, tasks, open, admin, events, apart>>

\* Mutant: the driver is not put in the queue
NoAdd(d, r) == adds

AddPublished(d, r) == [adds EXCEPT ![d][r] = @ + 1]

\* seats_selected: no check is repeated; the row is written and the task published, ...
SeatsSelected(d, r) ==
  /\ d \in choosing /\ Free(d)
  /\ adds[d][r] < MaxCopies /\ Cardinality({q \in Routes : adds[d][q] > 0}) < MaxCopies
  /\ open' = [open EXCEPT ![d] = [does |-> "joins", route |-> r]]
  /\ adds' = AddPublished(d, r)
  /\ UNCHANGED <<rows, redis, adding, removals, removing, admin, events, apart>>

\* ... a message edited, and all of it committed
Joins(d) ==
  /\ open[d].does = "joins"
  /\ driver' = [driver EXCEPT ![d].active = TRUE, ![d].free = TRUE, ![d].route = open[d].route]
  /\ choosing' = choosing \ {d}
  /\ open' = [open EXCEPT ![d] = Nothing]
  /\ UNCHANGED <<rides, timers, redis, tasks, admin, events, apart>>

\* Mutant: the driver is left in the queue
NoRemoval(d) == removals

RemovalPublished(d) == [removals EXCEPT ![d] = @ + 1]

\* stop_accepting_orders and its callback, which does not look whether he is active: in
\* the same order.  All queues are going to be cleared of him
Stop(d) ==
  /\ Free(d)
  /\ removals[d] < MaxCopies
  /\ open' = [open EXCEPT ![d] = [does |-> "stops", route |-> None]]
  /\ removals' = RemovalPublished(d)
  /\ apart' = apart \ {d}
  /\ UNCHANGED <<rows, redis, adds, adding, removing, admin, events>>

Stops(d) ==
  /\ open[d].does = "stops"
  /\ driver' = [driver EXCEPT ![d].active = FALSE, ![d].free = FALSE]
  /\ choosing' = choosing \ {d}
  /\ open' = [open EXCEPT ![d] = Nothing]
  /\ UNCHANGED <<rides, timers, redis, tasks, admin, events, apart>>

\* An error of Telegram or of the database, or a crash, before the commit: what was
\* published or written to the queue stays
RollsBack(d) ==
  /\ ~Free(d)
  /\ Event
  /\ open' = [open EXCEPT ![d] = Nothing]
  /\ ApartIf(d, TRUE)
  /\ UNCHANGED <<rows, redis, tasks, admin>>

--------------------------------------------------------------------------------
(* The tasks *)

\* add_driver: the row, where an error is swallowed, ...
AddReads(d, r) ==
  /\ adds[d][r] > 0 /\ Cardinality(adding) < MaxCopies
  /\ adds' = [adds EXCEPT ![d][r] = @ - 1]
  /\ \E first \in {driver[d].priority, FALSE} :
       /\ IF first = driver[d].priority THEN UNCHANGED events ELSE Event
       /\ adding' = adding \cup
            {[driver |-> d, route |-> r, score |-> IF first THEN 1 ELSE 0]}
  /\ UNCHANGED <<rows, redis, removals, removing, open, admin, apart>>

\* ... then ZADD, whether he still is online or not, and its errors are swallowed too; a
\* worker that dies before it has acknowledged leaves the task to be run again
AddWrites(t) ==
  /\ adding' = adding \ {t}
  /\ \E written, again \in BOOLEAN :
       /\ queue' = IF written THEN [queue EXCEPT ![t.route][t.driver] = t.score] ELSE queue
       /\ adds' = IF again THEN AddPublished(t.driver, t.route) ELSE adds
       /\ IF written /\ ~again THEN UNCHANGED events ELSE Event
       /\ ApartIf(t.driver, IF written THEN Stray(t.driver, t.route) ELSE ~again)
  /\ UNCHANGED <<rows, offered, removals, removing, open, admin>>

\* remove_driver_from_queue_task, for all queues: nobody publishes it for one
RemovalStarts(d) ==
  /\ removals[d] > 0 /\ Cardinality(removing) < MaxCopies
  /\ removals' = [removals EXCEPT ![d] = @ - 1]
  /\ \E left \in Scanned :
       /\ [driver |-> d, left |-> left] \notin removing
       /\ removing' = removing \cup {[driver |-> d, left |-> left]}
  /\ UNCHANGED <<rows, redis, adds, adding, open, admin, events, apart>>

\* The task of an earlier stop takes the place he has since got as well
RemovalStep(t, r) ==
  /\ r \in t.left
  /\ queue' = Without(t.driver, r)
  /\ removing' = (removing \ {t}) \cup {[t EXCEPT !.left = @ \ {r}]}
  /\ ApartIf(t.driver, Belongs(t.driver, r))
  /\ UNCHANGED <<rows, offered, adds, adding, removals, open, admin, events>>

\* The end, an error that ends it early, or a crash, after which it is run again
RemovalEnds(t) ==
  /\ removing' = removing \ {t}
  /\ \/ t.left = {} /\ UNCHANGED <<removals, events, apart>>
     \/ t.left # {} /\ Event /\ ApartIf(t.driver, TRUE) /\ UNCHANGED removals
     \/ Event /\ removals' = RemovalPublished(t.driver) /\ UNCHANGED apart
  /\ UNCHANGED <<rows, redis, adds, adding, open, admin>>

--------------------------------------------------------------------------------
(* Searching: get_next_driver, and SET NX in find_driver_for_order_task.  They are one
   step here; Matching and QueueSearch have them apart *)

\* current_route_id is not looked at
Eligible(d) ==
  /\ offered[d] = None
  /\ driver[d].active /\ ~driver[d].onTrip /\ ~driver[d].blocked /\ driver[d].free

Offers(d, r) ==
  /\ InQueue(d, r) /\ Eligible(d)
  /\ offered' = [offered EXCEPT ![d] = r]
  /\ UNCHANGED <<rows, queue, tasks, open, admin, events, apart>>

--------------------------------------------------------------------------------
(* Answers and rides, as far as the row and the queue are concerned *)

\* A press of "reject", or the lapse of the lock
Declines(d) ==
  /\ offered[d] # None
  /\ offered' = [offered EXCEPT ![d] = None]
  /\ UNCHANGED <<rows, queue, tasks, open, admin, events, apart>>

\* auto_reject_order_task at the last strike, before the lock lapses: the row stays as it is
StruckOut(d) ==
  LET r == offered[d] IN
  /\ r # None
  /\ queue' = Without(d, r)
  /\ ApartIf(d, TRUE)
  /\ UNCHANGED <<rows, offered, tasks, open, admin, events>>

QueueWhenFull(d, r) == Without(d, r)

\* accept_order_handler, of an order that leaves seats: all of it
Accept(d) ==
  LET r == offered[d] IN
  /\ r # None /\ Free(d)
  /\ ~driver[d].blocked /\ ~driver[d].onTrip /\ driver[d].free
  /\ rides' = [rides EXCEPT ![d] = @ \cup {r}]
  /\ offered' = [offered EXCEPT ![d] = None]
  /\ UNCHANGED <<driver, timers, choosing, queue, tasks, open, admin, events, apart>>

\* A full car leaves the queue of the order, where an error is swallowed, ...
AcceptFills(d) ==
  LET r == offered[d] IN
  /\ r # None /\ Free(d)
  /\ ~driver[d].blocked /\ ~driver[d].onTrip /\ driver[d].free
  /\ open' = [open EXCEPT ![d] = [does |-> "fills", route |-> r]]
  /\ \/ /\ queue' = QueueWhenFull(d, r)
        /\ ApartIf(d, r # driver[d].route)
        /\ UNCHANGED events
     \/ Event /\ ApartIf(d, TRUE) /\ UNCHANGED queue
  /\ UNCHANGED <<rows, offered, tasks, admin>>

\* ... and then the row is committed, and a countdown starts
Fills(d) ==
  /\ open[d].does = "fills"
  /\ driver' = [driver EXCEPT ![d].free = FALSE]
  /\ rides' = [rides EXCEPT ![d] = @ \cup {open[d].route}]
  /\ timers' = timers \cup {d}
  /\ offered' = [offered EXCEPT ![d] = None]
  /\ open' = [open EXCEPT ![d] = Nothing]
  /\ UNCHANGED <<choosing, queue, tasks, admin, events, apart>>

\* _start_trip_sync
AutoStart(d) ==
  /\ d \in timers /\ Free(d)
  /\ timers' = timers \ {d}
  /\ driver' = [driver EXCEPT ![d].onTrip = TRUE, ![d].active = FALSE]
  /\ ApartIf(d, driver[d].active /\ driver[d].free)
  /\ UNCHANGED <<rides, choosing, redis, tasks, open, admin, events>>

\* driver_started_trip and start_trip, where the variable `order` has no value in the
\* statement that would publish the removal: the error is logged
StartTrip(d, r) ==
  /\ r \in rides[d] /\ Free(d)
  /\ driver' = [driver EXCEPT ![d].onTrip = TRUE]
  /\ queue' = IF driver[d].free THEN queue ELSE Without(d, r)
  /\ UNCHANGED <<rides, timers, choosing, offered, tasks, open, admin, events, apart>>

\* The driver or the passenger cancels an order, which the driver may only have been
\* offered: seats come back, the place in the queue does not
HandsBack(d, r) ==
  /\ r \in rides[d] \/ offered[d] = r
  /\ Free(d)
  /\ driver' = [driver EXCEPT ![d].free = TRUE, ![d].onTrip = FALSE]
  /\ rides' \in {rides, [rides EXCEPT ![d] = @ \ {r}]}
  /\ ApartIf(d, driver[d].active /\ ~driver[d].free)
  /\ UNCHANGED <<timers, choosing, redis, tasks, open, admin, events>>

\* complete_trip, auto_complete_trip_task: the driver of the last order goes offline and
\* keeps the place he has
Completes(d) ==
  /\ Free(d)
  /\ \/ /\ rides[d] # {}
        /\ driver' = [driver EXCEPT ![d].active = FALSE, ![d].onTrip = FALSE, ![d].free = TRUE]
        /\ rides' = [rides EXCEPT ![d] = {}]
        /\ ApartIf(d, driver[d].active /\ driver[d].free)
     \/ /\ \E r \in rides[d] : rides' \in {rides, [rides EXCEPT ![d] = @ \ {r}]}
        /\ rides'[d] # {}
        /\ driver' = [driver EXCEPT ![d].free = TRUE]
        /\ ApartIf(d, driver[d].active /\ ~driver[d].free)
  /\ UNCHANGED <<timers, choosing, redis, tasks, open, admin, events>>

\* cancel_all_orders_handler, confirm_trip_cancellation
CancelsAll(d) ==
  /\ rides[d] # {} /\ Free(d)
  /\ driver' = [driver EXCEPT ![d] = Offline(@)]
  /\ rides' = [rides EXCEPT ![d] = {}]
  /\ choosing' = choosing \ {d}
  /\ ApartIf(d, driver[d].active /\ driver[d].free)
  /\ UNCHANGED <<timers, redis, tasks, open, admin, events>>

--------------------------------------------------------------------------------
(* Admins and the night *)

\* toggle_driver_priority: the row and its route, ...
ToggleCommits(d, on) ==
  /\ toggle = NoToggle /\ Free(d)
  /\ Event
  /\ driver' = [driver EXCEPT ![d].priority = on]
  /\ toggle' = IF driver[d].route = None THEN NoToggle
               ELSE [pc |-> "reading", driver |-> d, route |-> driver[d].route, on |-> on,
                     score |-> None]
  /\ UNCHANGED <<rides, timers, choosing, redis, tasks, open, panel, reset, apart>>

\* Mutant: the sign of the score is not looked at
ShiftedAlways(score, on) == IF on THEN score + 1 ELSE score - 1

\* An offset is more than the time it is taken from
Negative(score) == score > 0

Shifted(score, on) ==
  CASE on /\ ~Negative(score) -> score + 1
    [] ~on /\ Negative(score) -> score - 1
    [] OTHER                  -> score

\* ... ZSCORE ...
ToggleReads ==
  LET score == queue[toggle.route][toggle.driver] IN
  /\ toggle.pc = "reading"
  /\ toggle' = IF score = None THEN NoToggle
               ELSE [toggle EXCEPT !.pc = "writing", !.score = Shifted(score, toggle.on)]
  /\ UNCHANGED <<rows, redis, tasks, open, panel, reset, events, apart>>

\* ... and ZADD, which adds a driver who has left in between
ToggleWrites ==
  LET d == toggle.driver
      r == toggle.route
  IN
  /\ toggle.pc = "writing"
  /\ queue' = [queue EXCEPT ![r][d] = toggle.score]
  /\ toggle' = NoToggle
  /\ ApartIf(d, ~InQueue(d, r) /\ Stray(d, r))
  /\ UNCHANGED <<rows, offered, tasks, open, panel, reset, events>>

\* block_driver, unblock_driver: the queue is left alone
Block(d) ==
  /\ ~driver[d].blocked /\ Free(d)
  /\ Event
  /\ driver' = [driver EXCEPT ![d].blocked = TRUE, ![d].active = FALSE]
  /\ ApartIf(d, driver[d].active)
  /\ UNCHANGED <<rides, timers, choosing, redis, tasks, open, admin>>

Unblock(d) ==
  /\ driver[d].blocked /\ Free(d)
  /\ driver' = [driver EXCEPT ![d].blocked = FALSE]
  /\ UNCHANGED <<rides, timers, choosing, redis, tasks, open, admin, events, apart>>

\* update_driver_state: the row is read, ...
AdminReads(d) ==
  /\ panel = NoPanel
  /\ Event
  /\ panel' = [driver |-> d, route |-> driver[d].route]
  /\ UNCHANGED <<rows, redis, tasks, open, toggle, reset, apart>>

\* ... the driver put offline, and his place in the queue of that route taken, where an
\* error is swallowed, ...
AdminOff(d) ==
  /\ panel.driver = d /\ Free(d)
  /\ open' = [open EXCEPT ![d] = [does |-> "goes", route |-> None]]
  /\ panel' = NoPanel
  /\ queue' = IF panel.route = None THEN queue ELSE Without(d, panel.route)
  /\ ApartIf(d, panel.route # driver[d].route)
  /\ UNCHANGED <<rows, offered, tasks, toggle, reset, events>>

\* ... his orders cancelled, and all of it committed
Goes(d) ==
  /\ open[d].does = "goes"
  /\ driver' = [driver EXCEPT ![d] = [Offline(@) EXCEPT !.route = None]]
  /\ rides' = [rides EXCEPT ![d] = {}]
  /\ open' = [open EXCEPT ![d] = Nothing]
  /\ UNCHANGED <<timers, choosing, redis, tasks, admin, events, apart>>

\* ... or the driver put online, with no place in any queue
AdminOn(d, r) ==
  /\ panel.driver = d /\ Free(d)
  /\ driver' = [driver EXCEPT ![d].active = TRUE, ![d].route = r, ![d].free = TRUE]
  /\ panel' = NoPanel
  /\ ApartIf(d, TRUE)
  /\ UNCHANGED <<rides, timers, choosing, redis, tasks, open, toggle, reset, events>>

\* nightly_driver_reset: the rows of those who are not on a trip, ...
ResetRows ==
  LET Reset(d) == driver[d].active /\ ~driver[d].onTrip IN
  /\ reset = {}
  /\ \A d \in Drivers : Reset(d) => Free(d)
  /\ Event
  /\ driver' = [d \in Drivers |-> IF Reset(d) THEN [Offline(driver[d]) EXCEPT !.route = None]
                                             ELSE driver[d]]
  /\ reset' \in Scanned
  /\ UNCHANGED <<rides, timers, choosing, redis, tasks, open, panel, toggle, apart>>

\* ... then, with the rows committed, every queue, and who has come online since or is on
\* a trip with seats left loses his place as well
ResetDeletes(r) ==
  /\ r \in reset
  /\ queue' = [queue EXCEPT ![r] = [d \in Drivers |-> None]]
  /\ reset' = reset \ {r}
  /\ apart' = apart \cup {d \in Drivers : Belongs(d, r)}
  /\ UNCHANGED <<rows, offered, tasks, open, panel, toggle, events>>

\* An error of Redis, or a crash, between the commit and the last queue: who has been put
\* offline stays in those that are left
ResetFails ==
  /\ reset # {}
  /\ reset' = {}
  /\ apart' = apart \cup {d \in Drivers : \E r \in reset : InQueue(d, r)}
  /\ UNCHANGED <<rows, redis, tasks, open, panel, toggle, events>>

--------------------------------------------------------------------------------
Init ==
  /\ driver = [d \in Drivers |-> [active |-> FALSE, onTrip |-> FALSE, blocked |-> FALSE,
                                  priority |-> FALSE, free |-> FALSE, route |-> None]]
  /\ rides = [d \in Drivers |-> {}]
  /\ timers = {} /\ choosing = {}
  /\ queue = [r \in Routes |-> [d \in Drivers |-> None]]
  /\ offered = [d \in Drivers |-> None]
  /\ adds = [d \in Drivers |-> [r \in Routes |-> 0]]
  /\ removals = [d \in Drivers |-> 0]
  /\ adding = {} /\ removing = {}
  /\ open = [d \in Drivers |-> Nothing]
  /\ panel = NoPanel /\ toggle = NoToggle /\ reset = {}
  /\ events = 0
  /\ apart = {}

Presses ==
  \E d \in Drivers :
    \/ StartAccepting(d) \/ Joins(d) \/ Stop(d) \/ Stops(d) \/ RollsBack(d)
    \/ \E r \in Routes : SeatsSelected(d, r)

Works ==
  \/ \E d \in Drivers : RemovalStarts(d) \/ \E r \in Routes : AddReads(d, r)
  \/ \E t \in adding : AddWrites(t)
  \/ \E t \in removing : RemovalEnds(t) \/ \E r \in Routes : RemovalStep(t, r)

Searches == \E d \in Drivers, r \in Routes : Offers(d, r)

Rides ==
  \E d \in Drivers :
    \/ Declines(d) \/ StruckOut(d) \/ Accept(d) \/ AcceptFills(d) \/ Fills(d)
    \/ AutoStart(d) \/ Completes(d) \/ CancelsAll(d)
    \/ \E r \in Routes : StartTrip(d, r) \/ HandsBack(d, r)

Administers ==
  \/ \E d \in Drivers :
       \/ \E on \in BOOLEAN : ToggleCommits(d, on)
       \/ Block(d) \/ Unblock(d) \/ AdminReads(d) \/ AdminOff(d) \/ Goes(d)
       \/ \E r \in Routes : AdminOn(d, r)
  \/ ToggleReads \/ ToggleWrites
  \/ ResetRows \/ ResetFails
  \/ \E r \in Routes : ResetDeletes(r)

Next == Presses \/ Works \/ Searches \/ Rides \/ Administers

Spec == Init /\ [][Next]_vars

--------------------------------------------------------------------------------
(* Properties *)

\* Every value keeps to its type.  Of the scores it says that the offset is in them at
\* most once, whatever add tasks and priority requests are under way at the same time.
TypeOK ==
  /\ driver \in [Drivers -> DriverRec]
  /\ rides \in [Drivers -> SUBSET Routes]
  /\ timers \subseteq Drivers /\ choosing \subseteq Drivers /\ apart \subseteq Drivers
  /\ queue \in [Routes -> [Drivers -> Scores \cup {None}]]
  /\ offered \in [Drivers -> Routes \cup {None}]
  /\ adds \in [Drivers -> [Routes -> 0 .. MaxCopies + MaxEvents]]
  /\ removals \in [Drivers -> 0 .. MaxCopies + MaxEvents]
  /\ adding \subseteq AddRec /\ removing \subseteq RemovalRec
  /\ open \in [Drivers -> OpenRec]
  /\ panel \in PanelRec /\ toggle \in ToggleRec /\ reset \subseteq Routes
  /\ events \in 0 .. MaxEvents

\* A driver whose row says that he waits is in the queue of his route, or a task will put
\* him there, or the transaction that takes him out of it is about to commit, unless one of
\* the events has come that the code does not follow up since he last stopped (apart).
WaitingIsQueued ==
  \A d \in Drivers \ apart, r \in Routes :
    Waits(d, r) => InQueue(d, r) \/ AddDue(d, r) \/ Leaving(d)

\* A driver stands in the queue of the route his row names, and only while he is active and
\* has a seat, or something under way will take him out of it, or the transaction that has
\* put him there is about to commit, with the same exception.
QueuedIsOnline ==
  \A d \in Drivers \ apart, r \in Routes :
    InQueue(d, r) => \/ driver[d].active /\ driver[d].free /\ driver[d].route = r
                     \/ RemovalDue(d, r) \/ Joining(d, r)

================================================================================
