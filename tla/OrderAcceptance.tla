---------------------------- MODULE OrderAcceptance ----------------------------
(***************************************************************************)
(* Several drivers press "accept", perhaps for the same order, perhaps     *)
(* twice: accept_order_by_driver (app/services/order_service.py) under the *)
(* Redis lock of acquire_order_lock (app/core/locks.py).                   *)
(*                                                                         *)
(* Two mechanisms guard the order.  The Redis key lock:order:{id} holds    *)
(* the token of one call and expires by itself, perhaps while its holder   *)
(* is still working.  The transaction reads the order row and then the     *)
(* driver row FOR UPDATE: those row locks live until commit or rollback.   *)
(* A call is one run of the handler; its uuid4 token is the call itself.   *)
(* Steps of one call are separated wherever it awaits Redis or PostgreSQL. *)
(***************************************************************************)
EXTENDS Integers, FiniteSets

CONSTANTS
  Orders, Drivers, None,
  Calls,            \* runs of accept_order_by_driver
  Trips,            \* ids the trips sequence can hand out
  PassengerCount,   \* order -> seats it needs
  Commission,       \* pricing setting commission_amount
  StartSeats,       \* driver -> seats chosen when going online
  StartBalance,     \* driver -> balance at that moment
  MaxRetries,       \* ORDER_LOCK_MAX_RETRIES
  Sought            \* bound: the orders that still have find tasks running

ASSUME ConstantsAssumption ==
  /\ None \notin Drivers /\ None \notin Calls /\ None \notin Trips
  /\ PassengerCount \in [Orders -> Nat]
  /\ Commission \in Nat
  /\ StartSeats \in [Drivers -> Nat]
  /\ StartBalance \in [Drivers -> Nat]
  /\ MaxRetries \in Nat \ {0}
  /\ Sought \subseteq Orders

VARIABLES
  lock,        \* Redis: order -> token stored under lock:order:{id}
  call,        \* call -> where it is and what it has read
  orderRow,    \* order -> call whose transaction holds the row lock
  driverRow,   \* driver -> call whose transaction holds the row lock
  order,       \* committed rows of table orders
  driver,      \* committed rows of table drivers
  trip,        \* committed rows of table trips
  usedTrips,   \* ids already drawn from the sequence, committed or not
  queue,       \* drivers in the Redis zset driver_queue:{route}
  autoStart,   \* auto_start_trip_task messages not yet acknowledged
  finder       \* orders some find task read PENDING and is about to offer

vars == <<lock, call, orderRow, driverRow, order, driver, trip, usedTrips,
          queue, autoStart, finder>>
rows == <<order, driver, trip>>

PC == {"new", "locking", "locked", "order", "driver", "prepared",
       "release", "done"}
CallRec == [pc: PC, driver: Drivers \cup {None}, order: Orders \cup {None},
            tries: 0..MaxRetries, trip: Trips \cup {None}, accepted: BOOLEAN]
OrderRec == [status: {"PENDING", "ACCEPTED", "IN_PROGRESS"},
             driver: Drivers \cup {None}, trip: Trips \cup {None}]
DriverRec == [seats: Nat, balance: Nat, onTrip: BOOLEAN]
TripRec == [driver: Drivers \cup {None}, total: Nat, available: Int,
            started: BOOLEAN]
NoTrip == [driver |-> None, total |-> 0, available |-> 0, started |-> FALSE]

TypeOK ==
  /\ lock \in [Orders -> Calls \cup {None}]
  /\ call \in [Calls -> CallRec]
  /\ orderRow \in [Orders -> Calls \cup {None}]
  /\ driverRow \in [Drivers -> Calls \cup {None}]
  /\ order \in [Orders -> OrderRec]
  /\ driver \in [Drivers -> DriverRec]
  /\ trip \in [Trips -> TripRec]
  /\ usedTrips \subseteq Trips
  /\ queue \subseteq Drivers
  /\ autoStart \subseteq Trips \X Drivers
  /\ finder \subseteq Orders

--------------------------------------------------------------------------------
(* Reads of the committed rows *)

Active(o) == order[o].status \in {"ACCEPTED", "IN_PROGRESS"}

\* validate_driver_trip_state: does any active order carry this driver_id?
HasActiveOrders(d) == \E o \in Orders : Active(o) /\ order[o].driver = d

\* get_active_trip_by_driver: in this module no trip is ever closed
OpenTrips(d) == {t \in Trips : trip[t].driver = d}

Go(c, r) == call' = [call EXCEPT ![c] = r]

\* The handler is over and its locals are gone
Idle(pc) == [pc |-> pc, driver |-> None, order |-> None, tries |-> 0,
             trip |-> None, accepted |-> FALSE]

\* It returns, and a driver who was told "accepted" remembers it
Return(c) ==
  Go(c, IF call[c].accepted THEN [call[c] EXCEPT !.pc = "done"] ELSE Idle("done"))

\* The checks made once the driver row is locked
CanAccept(d, o) ==
  /\ ~driver[d].onTrip
  /\ driver[d].balance >= Commission
  /\ driver[d].seats >= PassengerCount[o]

\* Mutant: the driver row stays locked after the transaction
FreeOrderRowOnly(c) ==
  /\ orderRow' = [o \in Orders |-> IF orderRow[o] = c THEN None ELSE orderRow[o]]
  /\ UNCHANGED driverRow

\* End of the transaction of call c, committed or rolled back
FreeRows(c) ==
  /\ orderRow'  = [o \in Orders |-> IF orderRow[o] = c THEN None ELSE orderRow[o]]
  /\ driverRow' = [d \in Drivers |-> IF driverRow[d] = c THEN None ELSE driverRow[d]]

--------------------------------------------------------------------------------
(* acquire_order_lock *)

Begin(c, d, o) ==
  /\ call[c].pc = "new"
  /\ Go(c, [call[c] EXCEPT !.pc = "locking", !.driver = d, !.order = o])
  /\ UNCHANGED <<lock, orderRow, driverRow, rows, usedTrips, queue, autoStart, finder>>

\* SET lock:order:{id} token NX EX: the key was free
SetLock(c) ==
  LET o == call[c].order IN
  /\ call[c].pc = "locking"
  /\ lock[o] = None
  /\ lock' = [lock EXCEPT ![o] = c]
  /\ Go(c, [call[c] EXCEPT !.pc = "locked", !.tries = 0])
  /\ UNCHANGED <<orderRow, driverRow, rows, usedTrips, queue, autoStart, finder>>

\* The SET answered False: sleep and retry, or give up and answer "busy"
NotLocked(c) ==
  IF call[c].tries < MaxRetries - 1
    THEN Go(c, [call[c] EXCEPT !.tries = @ + 1])
    ELSE Return(c)

LockBusy(c) ==
  /\ call[c].pc = "locking"
  /\ lock[call[c].order] # None
  /\ NotLocked(c)
  /\ UNCHANGED <<lock, orderRow, driverRow, rows, usedTrips, queue, autoStart, finder>>

\* RedisClient.set swallows an error and answers False too.  The SET may have
\* reached the server all the same: then the call is refused by its own token.
LockError(c) ==
  LET o == call[c].order IN
  /\ call[c].pc = "locking"
  /\ \/ lock' = lock
     \/ lock[o] = None /\ lock' = [lock EXCEPT ![o] = c]
  /\ NotLocked(c)
  /\ UNCHANGED <<orderRow, driverRow, rows, usedTrips, queue, autoStart, finder>>

\* The key's TTL runs out, whatever its holder is doing
LockExpires(o) ==
  /\ lock[o] # None
  /\ lock' = [lock EXCEPT ![o] = None]
  /\ UNCHANGED <<call, orderRow, driverRow, rows, usedTrips, queue, autoStart, finder>>

\* Mutant: a plain DEL
KeyDeleted(o, c) == None

\* The finally block: RELEASE_LOCK_SCRIPT compares the token, then deletes
KeyAfterRelease(o, c) == IF lock[o] = c THEN None ELSE lock[o]

ReleaseLock(c) ==
  LET o == call[c].order IN
  /\ call[c].pc = "release"
  /\ lock' = [lock EXCEPT ![o] = KeyAfterRelease(o, c)]
  /\ Return(c)
  /\ UNCHANGED <<orderRow, driverRow, rows, usedTrips, queue, autoStart, finder>>

\* EVALSHA failed: logged, the key is left to expire
ReleaseError(c) ==
  /\ call[c].pc = "release"
  /\ Return(c)
  /\ UNCHANGED <<lock, orderRow, driverRow, rows, usedTrips, queue, autoStart, finder>>

--------------------------------------------------------------------------------
(* The transaction of accept_order_by_driver *)

\* Mutant: a plain SELECT of the order
RowIgnored(o) == TRUE

\* SELECT ... FOR UPDATE waits for the row, then tells a pending order from one
\* that is already taken
RowFree(o) == orderRow[o] = None

ReadOrder(c) ==
  LET o == call[c].order IN
  /\ call[c].pc = "locked"
  /\ RowFree(o)
  /\ IF order[o].status = "PENDING"
       THEN /\ orderRow' = [orderRow EXCEPT ![o] = c]
            /\ Go(c, [call[c] EXCEPT !.pc = "order"])
       ELSE /\ Go(c, [call[c] EXCEPT !.pc = "release"])
            /\ UNCHANGED orderRow
  /\ UNCHANGED <<lock, driverRow, rows, usedTrips, queue, autoStart, finder>>

\* Mutant: a plain SELECT of the driver
DriverRowIgnored(d) == TRUE

DriverRowFree(d) == driverRow[d] = None

ReadDriver(c) ==
  LET o == call[c].order
      d == call[c].driver
  IN
  /\ call[c].pc = "order"
  /\ DriverRowFree(d)
  /\ CanAccept(d, o)
  /\ driverRow' = [driverRow EXCEPT ![d] = c]
  /\ Go(c, [call[c] EXCEPT !.pc = "driver"])
  /\ UNCHANGED <<lock, orderRow, rows, usedTrips, queue, autoStart, finder>>

\* A check fails: the call answers an error.  A driver flagged on_trip without
\* any active order loses the flag, and that write commits with the return.
RefuseDriver(c) ==
  LET o == call[c].order
      d == call[c].driver
  IN
  /\ call[c].pc = "order"
  /\ DriverRowFree(d)
  /\ ~CanAccept(d, o)
  /\ driver' = IF driver[d].onTrip /\ ~HasActiveOrders(d)
                 THEN [driver EXCEPT ![d].onTrip = FALSE]
                 ELSE driver
  /\ FreeRows(c)
  /\ Go(c, [call[c] EXCEPT !.pc = "release"])
  /\ UNCHANGED <<lock, order, trip, usedTrips, queue, autoStart, finder>>

\* Mutant: one seat too late
NoSeatMissing(d, o) == driver[d].seats - PassengerCount[o] < 0

NoSeatLeft(d, o) == driver[d].seats - PassengerCount[o] < 1

\* Join the driver's active trip or draw a new trip id; if the car is now full,
\* leave the queue (a Redis failure there is swallowed) and publish the delayed
\* auto-start task.  Both effects leave the process before the commit.
JoinTrip(c) ==
  LET o == call[c].order
      d == call[c].driver
  IN
  /\ call[c].pc = "driver"
  /\ \E t \in (IF OpenTrips(d) = {} THEN Trips \ usedTrips ELSE OpenTrips(d)) :
       /\ usedTrips' = usedTrips \cup {t}
       /\ Go(c, [call[c] EXCEPT !.pc = "prepared", !.trip = t])
       /\ autoStart' = IF NoSeatLeft(d, o) THEN autoStart \cup {<<t, d>>} ELSE autoStart
  /\ queue' \in (IF NoSeatLeft(d, o) THEN {queue, queue \ {d}} ELSE {queue})
  /\ UNCHANGED <<lock, orderRow, driverRow, rows, finder>>

\* The rows the call writes: the trip it joins or inserts, and its driver
TripAfter(t, d, o) ==
  IF trip[t].driver = None
    THEN [driver |-> d, total |-> driver[d].seats, started |-> FALSE,
          available |-> driver[d].seats - PassengerCount[o]]
    ELSE [trip[t] EXCEPT !.available = @ - PassengerCount[o]]

DriverAfter(d, o) ==
  [driver[d] EXCEPT !.seats = @ - PassengerCount[o], !.balance = @ - Commission]

Commit(c) ==
  LET o == call[c].order
      d == call[c].driver
      t == call[c].trip
  IN
  /\ call[c].pc = "prepared"
  /\ order' = [order EXCEPT ![o] = [status |-> "ACCEPTED", driver |-> d, trip |-> t]]
  /\ driver' = [driver EXCEPT ![d] = DriverAfter(d, o)]
  /\ trip' = [trip EXCEPT ![t] = TripAfter(t, d, o)]
  /\ FreeRows(c)
  /\ Go(c, [call[c] EXCEPT !.pc = "release", !.trip = None, !.accepted = TRUE])
  /\ UNCHANGED <<lock, usedTrips, queue, autoStart, finder>>

\* Any other exception inside the transaction (database error, deadlock victim,
\* broker unreachable) rolls it back and answers an error
Rollback(c) ==
  /\ call[c].pc \in {"order", "driver", "prepared"}
  /\ FreeRows(c)
  /\ Go(c, [call[c] EXCEPT !.pc = "release", !.trip = None])
  /\ UNCHANGED <<lock, rows, usedTrips, queue, autoStart, finder>>

\* The process dies: PostgreSQL rolls back, Redis keeps the key until it expires,
\* and the driver gets no answer
Crash(c) ==
  /\ call[c].pc \notin {"new", "done"}
  /\ FreeRows(c)
  /\ Go(c, Idle("done"))
  /\ UNCHANGED <<lock, rows, usedTrips, queue, autoStart, finder>>

--------------------------------------------------------------------------------
(* Celery tasks that write the same rows *)

\* auto_start_trip_task / _start_trip_sync: no check of the trip or its orders,
\* and the trip id may come from a transaction that was rolled back.  The worker
\* acknowledges late, so the message may be delivered again.  The countdown of
\* minutes is taken to outlast the transaction that published the message.
CountdownOver(t) == \A c \in Calls : call[c].trip # t

AutoStart(t, d) ==
  /\ <<t, d>> \in autoStart
  /\ CountdownOver(t)
  /\ driverRow[d] = None
  /\ trip' = IF trip[t].driver = None THEN trip ELSE [trip EXCEPT ![t].started = TRUE]
  /\ order' = [o \in Orders |->
                 IF order[o].trip = t /\ order[o].status = "ACCEPTED"
                   THEN [order[o] EXCEPT !.status = "IN_PROGRESS"]
                   ELSE order[o]]
  /\ driver' = [driver EXCEPT ![d].onTrip = TRUE]
  /\ \/ autoStart' = autoStart \ {<<t, d>>}
     \/ UNCHANGED autoStart
  /\ UNCHANGED <<lock, call, orderRow, driverRow, usedTrips, queue, finder>>

\* The task raises: its transaction is rolled back and it is not retried
AutoStartFails(t, d) ==
  /\ <<t, d>> \in autoStart
  /\ CountdownOver(t)
  /\ autoStart' = autoStart \ {<<t, d>>}
  /\ UNCHANGED <<lock, call, orderRow, driverRow, rows, usedTrips, queue, finder>>

\* find_driver_for_order_task reads the order ...
FindReads(o) ==
  /\ o \in Sought
  /\ order[o].status = "PENDING"
  /\ o \notin finder
  /\ finder' = finder \cup {o}
  /\ UNCHANGED <<lock, call, orderRow, driverRow, rows, usedTrips, queue, autoStart>>

\* ... asks Redis for a queued driver, and later writes the candidate into
\* orders.driver_id with no condition on the status it read
Eligible(d, o) ==
  /\ d \in queue
  /\ ~driver[d].onTrip
  /\ driver[d].balance >= Commission
  /\ driver[d].seats >= PassengerCount[o]

FindOffers(o, d) ==
  /\ o \in finder
  /\ Eligible(d, o)
  /\ orderRow[o] = None
  /\ order' = [order EXCEPT ![o].driver = d]
  /\ finder' = finder \ {o}
  /\ UNCHANGED <<lock, call, orderRow, driverRow, driver, trip, usedTrips, queue, autoStart>>

FindGivesUp(o) ==
  /\ o \in finder
  /\ finder' = finder \ {o}
  /\ UNCHANGED <<lock, call, orderRow, driverRow, rows, usedTrips, queue, autoStart>>

--------------------------------------------------------------------------------
Init ==
  /\ lock = [o \in Orders |-> None]
  /\ call = [c \in Calls |-> Idle("new")]
  /\ orderRow = [o \in Orders |-> None]
  /\ driverRow = [d \in Drivers |-> None]
  /\ order = [o \in Orders |-> [status |-> "PENDING", driver |-> None, trip |-> None]]
  /\ driver = [d \in Drivers |-> [seats |-> StartSeats[d],
                                  balance |-> StartBalance[d], onTrip |-> FALSE]]
  /\ trip = [t \in Trips |-> NoTrip]
  /\ usedTrips = {}
  /\ queue = Drivers
  /\ autoStart = {}
  /\ finder = {}

\* What a call does when nothing fails
CallStep(c) ==
  \/ SetLock(c) \/ LockBusy(c) \/ ReleaseLock(c)
  \/ ReadOrder(c) \/ ReadDriver(c) \/ RefuseDriver(c) \/ JoinTrip(c) \/ Commit(c)

CallFails(c) == LockError(c) \/ ReleaseError(c) \/ Rollback(c) \/ Crash(c)

Next ==
  \/ \E c \in Calls, d \in Drivers, o \in Orders : Begin(c, d, o)
  \/ \E c \in Calls : CallStep(c) \/ CallFails(c)
  \/ \E o \in Orders : LockExpires(o) \/ FindReads(o) \/ FindGivesUp(o)
  \/ \E o \in Orders, d \in Drivers : FindOffers(o, d)
  \/ \E t \in Trips, d \in Drivers : AutoStart(t, d) \/ AutoStartFails(t, d)

Spec == Init /\ [][Next]_vars

\* The event loop resumes every call whose await can complete, and Redis expires keys
Fairness ==
  /\ \A c \in Calls : WF_vars(CallStep(c))
  /\ \A o \in Orders : WF_vars(LockExpires(o))

FairSpec == Spec /\ Fairness

--------------------------------------------------------------------------------
(* Properties *)

\* The driver an order belongs to is the driver of the trip it was put into
Owner(o) == IF order[o].trip = None THEN None ELSE trip[order[o].trip].driver

Abstract == INSTANCE OrderClaim WITH
  owner   <- [o \in Orders |-> Owner(o)],
  seats   <- [d \in Drivers |-> driver[d].seats],
  balance <- [d \in Drivers |-> driver[d].balance]

\* accept_order_by_driver implements the indivisible claim: whatever calls race,
\* expire, fail or crash, an order is taken once, and exactly its taker pays the
\* commission and loses the seats.
ClaimsAtomically == Abstract!Spec

\* At most one call per order is ever told "accepted", and it is told the truth:
\* the order is in a trip of the driver that called.
OneWinner ==
  \A c \in Calls : call[c].accepted =>
    /\ Owner(call[c].order) = call[c].driver
    /\ \A b \in Calls : call[b].accepted /\ call[b].order = call[c].order => b = c

\* Two accepts of one driver for two orders share a trip: a driver never gets two
\* active trips (get_active_trip_by_driver would raise on the second).
OneOpenTrip == \A d \in Drivers : \A s, t \in OpenTrips(d) : s = t

\* The passengers of the orders in a trip, each told apart
Riders(t) == UNION {{o} \X (1 .. PassengerCount[o]) : o \in {p \in Orders : order[p].trip = t}}

\* Trip.passenger_count (total_seats - available_seats) is the number of
\* passengers of the orders in the trip, also when two accepts join it at once.
TripSeatsMatch == \A t \in Trips : trip[t].total - trip[t].available = Cardinality(Riders(t))

\* The acceptance that takes a driver's last seat leaves the auto-start task on its
\* way: whatever was retried or rolled back before, a full car is scheduled to start.
FullCarScheduled ==
  [][\A o \in Orders : order[o].status = "PENDING" /\ Active(o)' =>
       LET t == order'[o].trip
           d == trip'[t].driver
       IN driver'[d].seats < 1 => <<t, d>> \in autoStart']_vars

\* A lock key disappears by expiry or at the hand of the call whose token it
\* holds; a call that outlived its key never deletes the next holder's.
KeyStep ==
  \A o \in Orders : lock[o] # None /\ lock'[o] # lock[o] =>
    /\ lock'[o] = None
    /\ call' # call => call[lock[o]].pc = "release" /\ call[lock[o]].order = o

KeyLeftToItsHolder == [][KeyStep]_vars

\* Every accept call that was begun is answered: no two calls wait for each
\* other's Redis key or row locks for ever.
CallsAnswer == \A c \in Calls : call[c].pc = "locking" ~> call[c].pc = "done"

\* The find task's comment (app/tasks/matching.py:50) takes an accepted order out
\* of matching: its driver_id is the driver who accepted it.
AcceptedKeepsDriver == \A o \in Orders : Active(o) => order[o].driver = Owner(o)

--------------------------------------------------------------------------------
(* The inductive invariant behind OneWinner, OneOpenTrip and ClaimsAtomically *)

InTransaction == {"order", "driver", "prepared"}

\* Every running call has its arguments
CallBound ==
  \A c \in Calls : call[c].pc \notin {"new", "done"} =>
    call[c].driver \in Drivers /\ call[c].order \in Orders

\* A call past ReadOrder owns the row of its order, which stays pending
OrderRowHeld ==
  \A c \in Calls : call[c].pc \in InTransaction =>
    LET o == call[c].order IN orderRow[o] = c /\ order[o].status = "PENDING"

\* A call past ReadDriver also owns the row of its driver, who can still pay
DriverRowHeld ==
  \A c \in Calls : call[c].pc \in {"driver", "prepared"} =>
    LET d == call[c].driver IN
      /\ driverRow[d] = c
      /\ driver[d].seats >= PassengerCount[call[c].order]
      /\ driver[d].balance >= Commission

\* The trip a call is about to write is its driver's active trip, or a new row
\* no one else can see while the driver has none
TripReserved ==
  \A c \in Calls : call[c].pc = "prepared" =>
    LET t == call[c].trip
        d == call[c].driver
    IN /\ t \in Trips /\ t \in usedTrips
       /\ \/ trip[t].driver = d
          \/ trip[t].driver = None /\ OpenTrips(d) = {}
       /\ \A b \in Calls : call[b].pc = "prepared" /\ call[b].trip = t => b = c

\* A pending order is in no trip, any other is in a committed one
TripOfOrder ==
  \A o \in Orders :
    IF order[o].status = "PENDING" THEN order[o].trip = None
    ELSE order[o].trip \in Trips /\ trip[order[o].trip].driver # None

CommittedTripsUsed == \A t \in Trips : trip[t].driver # None => t \in usedTrips

\* A call told "accepted" has left its transaction, and its order has left "PENDING"
AcceptedSettled ==
  \A c \in Calls : call[c].accepted =>
    /\ call[c].pc \in {"release", "done"}
    /\ call[c].order \in Orders
    /\ order[call[c].order].status # "PENDING"

Inv ==
  /\ TypeOK
  /\ CallBound
  /\ OrderRowHeld
  /\ DriverRowHeld
  /\ TripReserved
  /\ TripOfOrder
  /\ CommittedTripsUsed
  /\ AcceptedSettled
  /\ OneWinner
  /\ OneOpenTrip
================================================================================
