----------------------------- MODULE TripLifecycle -----------------------------
(***************************************************************************)
(* What happens to an order after a driver has taken it: the trip starts,  *)
(* by the driver or by the delayed auto-start task, is completed, by the   *)
(* driver or by the auto-complete task ten minutes later, or one of its    *)
(* orders, or all of them, are handed back (order_service.py,              *)
(* trip_service.py, bot/handlers/driver/orders.py, tasks/matching.py).     *)
(*                                                                         *)
(* A call is one press of a button and is used once; a worker runs one     *)
(* Celery task after another.  A transaction that reads before it writes   *)
(* is two steps or more.  Taking an order is one step (OrderAcceptance).   *)
(* Money is in Ledger.                                                     *)
(***************************************************************************)
EXTENDS Integers, FiniteSets

CONSTANTS
  Orders, Drivers, Trips, Calls, Workers, None,
  Number,      \* the integer ids: orders and trips count from one, each for itself
  Seats,       \* order -> passenger_count
  MaxSeats,    \* 6: least(..., 6) in the code, the CHECK of the table
  SeatChoices, \* what a driver may pick when he goes online
  Sought,      \* bound: orders about which find tasks run
  MaxFaults    \* bound on crashes and database errors

ASSUME ConstantsAssumption ==
  /\ None \notin Orders \cup Drivers \cup Trips
  /\ Calls \cap Workers = {} /\ IsFiniteSet(Workers)
  /\ Number \in [Orders \cup Trips -> Nat]
  /\ MaxSeats \in Nat /\ MaxFaults \in Nat
  /\ Seats \in [Orders -> 1 .. MaxSeats]
  /\ SeatChoices \subseteq 1 .. MaxSeats
  /\ Sought \subseteq Orders

VARIABLES
  order,    \* order row: status, driver_id, trip_id
  driver,   \* driver row: available_seats, is_on_trip, is_active
  trip,     \* trip row: driver_id, status; "unused" before it is inserted
  starts,   \* trips with a delayed auto_start_trip_task
  timer,    \* trip -> auto_complete_trip_task messages about it
  call,     \* call or worker -> its local variables
  faults,   \* crashes and errors so far
  dropped,  \* trips a button's handler has left without a timer or half completed:
            \* it broke off, or the order had changed its trip between two readings
  finding,  \* orders that a find task has read as pending
  misled    \* orders whose driver_id was replaced while a driver had them

rows  == <<order, driver, trip>>
tasks == <<starts, timer>>
find  == <<finding, misled>>
vars  == <<rows, tasks, call, faults, dropped, find>>

--------------------------------------------------------------------------------
OrderRec  == [status: {"PENDING", "ACCEPTED", "IN_PROGRESS", "COMPLETED", "CANCELLED"},
              driver: Drivers \cup {None}, trip: Trips \cup {None}]
DriverRec == [seats: 0 .. MaxSeats, onTrip: BOOLEAN, active: BOOLEAN]
TripRec   == [driver: Drivers \cup {None},
              status: {"unused", "ACTIVE", "COMPLETED", "CANCELLED"}]

\* todo: what a loop has still to go through, each order with the driver_id that was
\* read with it; hit: the UPDATE of complete_order found the order in progress;
\* last: no other active order was seen; found: the task's trip was ACTIVE
CallRec ==
  [pc: {"idle", "starting", "scheduling", "listed", "completing", "marked", "freeing",
        "givingUp", "cancellingAll", "cancelling", "tripCancel", "tripClosing", "done"},
   order: Orders \cup {None}, driver: Drivers \cup {None}, trip: Trips \cup {None},
   ride: Trips \cup {None}, todo: SUBSET (Orders \X Drivers), gone: SUBSET Orders,
   hit: BOOLEAN, last: BOOLEAN, found: BOOLEAN]

New == [pc |-> "idle", order |-> None, driver |-> None, trip |-> None, ride |-> None,
        todo |-> {}, gone |-> {}, hit |-> FALSE, last |-> FALSE, found |-> FALSE]

Step(c, r) == call' = [call EXCEPT ![c] = r]

\* A worker takes the next task, a handler is over
Over(c) == Step(c, IF c \in Workers THEN New ELSE [New EXCEPT !.pc = "done"])

Active(o) == order[o].status \in {"ACCEPTED", "IN_PROGRESS"}

HeldBy(d) == {o \in Orders : Active(o) /\ order[o].driver = d}

\* get_active_trip_by_driver
OpenTrips(d) == {t \in Trips : trip[t].driver = d /\ trip[t].status = "ACTIVE"}

\* Row locks that outlast a step: complete_order's UPDATE, and the trip FOR UPDATE
OrderFree(o) == \A c \in DOMAIN call : ~(call[c].pc = "marked" /\ call[c].hit /\ call[c].order = o)
TripFree(t)  == \A c \in DOMAIN call : ~(call[c].pc = "tripCancel" /\ call[c].trip = t)

\* UPDATE orders SET status = to WHERE trip_id = t AND status = 'ACCEPTED'
Started(t) ==
  [o \in Orders |-> IF order[o].trip = t /\ order[o].status = "ACCEPTED"
                      THEN [order[o] EXCEPT !.status = "IN_PROGRESS"] ELSE order[o]]

\* Mutant: the CHECK constraint of the table is missing
AnySeats(n) == TRUE

SeatsAllowed(n) == n <= MaxSeats

Capped(n) == IF n > MaxSeats THEN MaxSeats ELSE n

Offline(n) == [seats |-> n, onTrip |-> FALSE, active |-> FALSE]

HandedBack(o) == [order[o] EXCEPT !.status = "PENDING", !.driver = None]

--------------------------------------------------------------------------------
(* Before the trip: going online, the candidate, the acceptance *)

\* start_accepting_orders ... seats_selected; a flag without an order is cleaned up
GoesOnline(d, n) ==
  /\ ~driver[d].active
  /\ driver[d].onTrip => HeldBy(d) = {}
  /\ driver' = [driver EXCEPT ![d] = [seats |-> n, onTrip |-> FALSE, active |-> TRUE]]
  /\ UNCHANGED <<order, trip, tasks, call, faults, dropped, find>>

\* find_driver_for_order_task reads the status, one run for an order at a time ...
FindReads(o) ==
  /\ order[o].status = "PENDING"
  /\ finding' = finding \cup {o}
  /\ UNCHANGED <<rows, tasks, call, faults, dropped, misled>>

\* ... picks a driver whose row suits, and its UPDATE of driver_id names the order only,
\* whatever became of it meanwhile
FindWrites(o, d) ==
  /\ o \in finding
  /\ driver[d].active /\ ~driver[d].onTrip /\ driver[d].seats >= Seats[o]
  /\ OrderFree(o)
  /\ order' = [order EXCEPT ![o].driver = d]
  /\ misled' = IF Active(o) /\ order[o].driver # d THEN misled \cup {o} ELSE misled
  /\ finding' = finding \ {o}
  /\ UNCHANGED <<driver, trip, tasks, call, faults, dropped>>

\* Nobody suits, the driver has another offer, or the task dies
FindEnds(o) ==
  /\ o \in finding
  /\ finding' = finding \ {o}
  /\ UNCHANGED <<rows, tasks, call, faults, dropped, misled>>

\* Mutant: an order keeps the trip it was in before
KeptTrip(o, t) == IF order[o].trip = None THEN t ELSE order[o].trip

TripTaken(o, t) == t

\* accept_order_by_driver; two active trips would make it raise
Accept(d, o, t) ==
  LET left == driver[d].seats - Seats[o] IN
  /\ order[o].status = "PENDING"
  /\ ~driver[d].onTrip
  /\ left >= 0
  /\ IF OpenTrips(d) = {} THEN trip[t].status = "unused" ELSE OpenTrips(d) = {t}
  /\ TripFree(t)
  /\ order' = [order EXCEPT ![o] = [status |-> "ACCEPTED", driver |-> d,
                                    trip |-> TripTaken(o, t)]]
  /\ driver' = [driver EXCEPT ![d].seats = left]
  /\ trip' = [trip EXCEPT ![t] = [driver |-> d, status |-> "ACTIVE"]]
  /\ starts' = IF left < 1 THEN starts \cup {t} ELSE starts
  /\ misled' = misled \ {o}
  /\ UNCHANGED <<timer, call, faults, dropped, finding>>

\* The refusal of a driver on a trip clears a flag that has no order behind it
AcceptClearsFlag(d) ==
  /\ driver[d].onTrip /\ HeldBy(d) = {}
  /\ driver' = [driver EXCEPT ![d].onTrip = FALSE]
  /\ UNCHANGED <<order, trip, tasks, call, faults, dropped, find>>

--------------------------------------------------------------------------------
(* Starting *)

\* driver_started_trip reads the order in its own session ...
StartReads(c, d, o) ==
  /\ call[c].pc = "idle"
  /\ order[o].status = "ACCEPTED" /\ order[o].driver = d
  /\ Step(c, [New EXCEPT !.pc = "starting", !.order = o, !.driver = d,
                         !.trip = order[o].trip])
  /\ UNCHANGED <<rows, tasks, faults, dropped, find>>

\* Mutant: start_trip relies on what the handler has read
StillAccepted(o, d) == TRUE

StartMatches(o, d) == order[o].status = "ACCEPTED" /\ order[o].driver = d

\* ... start_trip checks again in its UPDATE, and makes the trip ACTIVE whatever it was ...
StartCommits(c) ==
  LET o == call[c].order
      d == call[c].driver
      t == order[o].trip
  IN
  /\ call[c].pc = "starting"
  /\ IF StartMatches(o, d)
       THEN /\ TripFree(t)
            /\ order' = [Started(t) EXCEPT ![o].status = "IN_PROGRESS"]
            /\ driver' = [driver EXCEPT ![d].onTrip = TRUE]
            /\ trip' = [trip EXCEPT ![t].status = "ACTIVE"]
            /\ Step(c, [call[c] EXCEPT !.pc = "scheduling"])
            /\ dropped' = IF t # call[c].trip THEN dropped \cup {t} ELSE dropped
       ELSE UNCHANGED <<rows, dropped>> /\ Over(c)
  /\ UNCHANGED <<tasks, faults, find>>

\* Mutant: no auto-complete after a manual start
NoTimer(t) == timer

TimerSet(t) == [timer EXCEPT ![t] = @ + 1]

\* ... and the handler schedules the completion of the trip it had read
StartSchedules(c) ==
  /\ call[c].pc = "scheduling"
  /\ timer' = TimerSet(call[c].trip)
  /\ Over(c)
  /\ UNCHANGED <<rows, starts, faults, dropped, find>>

\* auto_start_trip_task: no check of the trip.  The message about the completion
\* leaves before the commit; a failing task is not retried, one whose worker dies
\* before it acknowledges is run again.
AutoStart(t) ==
  LET d == trip[t].driver IN
  /\ t \in starts
  /\ TripFree(t)
  /\ timer' = [timer EXCEPT ![t] = @ + 1]
  /\ order' = Started(t)
  /\ driver' = [driver EXCEPT ![d].onTrip = TRUE, ![d].active = FALSE]
  /\ \/ starts' = starts \ {t} /\ UNCHANGED faults
     \/ UNCHANGED starts /\ faults < MaxFaults /\ faults' = faults + 1
  /\ UNCHANGED <<trip, call, dropped, find>>

AutoStartFails(t) ==
  /\ t \in starts
  /\ faults < MaxFaults /\ faults' = faults + 1
  /\ timer' = [timer EXCEPT ![t] = @ + 1]
  /\ starts' = starts \ {t}
  /\ UNCHANGED <<rows, call, dropped, find>>

--------------------------------------------------------------------------------
(* complete_trip, once per listed order *)

\* The order is read without a lock
CompleteReads(c, o, d) ==
  LET r == [call[c] EXCEPT !.todo = @ \ {<<o, d>>}, !.driver = d] IN
  /\ call[c].pc = "listed"
  /\ <<o, d>> \in call[c].todo
  /\ IF order[o].driver = d /\ order[o].status = "IN_PROGRESS"
       THEN Step(c, [r EXCEPT !.pc = "completing", !.order = o])
       ELSE Step(c, r)
  /\ UNCHANGED <<rows, tasks, faults, dropped, find>>

InProgress(o) == order[o].status = "IN_PROGRESS"

\* complete_order waits for the row and tests the status; whether it changed
\* anything is not asked.  The driver's other orders are read without a lock.
CompleteMarks(c) ==
  LET o == call[c].order IN
  /\ call[c].pc = "completing"
  /\ OrderFree(o)
  /\ Step(c, [call[c] EXCEPT !.pc = "marked", !.hit = InProgress(o), !.ride = order[o].trip,
                             !.last = HeldBy(call[c].driver) \ {o} = {}])
  /\ UNCHANGED <<rows, tasks, faults, dropped, find>>

CompleteCommits(c) ==
  LET r == call[c]
      seats == Capped(driver[r.driver].seats + Seats[r.order])
  IN
  /\ r.pc = "marked"
  /\ r.last => TripFree(r.ride)
  /\ order' = IF r.hit THEN [order EXCEPT ![r.order].status = "COMPLETED"] ELSE order
  /\ driver' = [driver EXCEPT ![r.driver] = IF r.last THEN Offline(seats)
                                                      ELSE [@ EXCEPT !.seats = seats]]
  /\ trip' = IF r.last THEN [trip EXCEPT ![r.ride].status = "COMPLETED"] ELSE trip
  /\ Step(c, [r EXCEPT !.pc = "listed", !.order = None, !.ride = None, !.hit = FALSE,
                       !.last = FALSE])
  /\ UNCHANGED <<tasks, faults, dropped, find>>

\* Any exception is answered with success = False, and the loop goes on
CompleteFails(c) ==
  /\ call[c].pc \in {"completing", "marked"}
  /\ faults < MaxFaults /\ faults' = faults + 1
  /\ Step(c, [call[c] EXCEPT !.pc = "listed", !.order = None, !.ride = None, !.hit = FALSE,
                             !.last = FALSE])
  /\ dropped' = IF c \in Calls THEN dropped \cup {call[c].trip} ELSE dropped
  /\ UNCHANGED <<rows, tasks, find>>

--------------------------------------------------------------------------------
(* manual_complete_trip *)

\* The trip's accepted orders are put in progress (and committed), then listed; o is
\* what the conversation state or the database names
ManualReads(c, d, o) ==
  LET t == order[o].trip
      now(q) == order[q].trip = t /\ order[q].driver = d
  IN
  /\ call[c].pc = "idle"
  /\ order[o].driver = d /\ Active(o)
  /\ order' = [q \in Orders |-> IF now(q) /\ order[q].status = "ACCEPTED"
                                  THEN [order[q] EXCEPT !.status = "IN_PROGRESS"]
                                  ELSE order[q]]
  /\ Step(c, [New EXCEPT !.pc = "listed", !.trip = t,
                         !.todo = {q \in Orders : now(q) /\ Active(q)} \X {d}])
  /\ UNCHANGED <<driver, trip, tasks, faults, dropped, find>>

ManualEnds(c) ==
  /\ c \in Calls
  /\ call[c].pc = "listed" /\ call[c].todo = {}
  /\ Over(c)
  /\ UNCHANGED <<rows, tasks, faults, dropped, find>>

\* Nothing is active: cleanup_stuck_driver_state
ManualCleansUp(c, d) ==
  /\ call[c].pc = "idle"
  /\ HeldBy(d) = {}
  /\ driver' = [driver EXCEPT ![d] = Offline(0)]
  /\ Over(c)
  /\ UNCHANGED <<order, trip, tasks, faults, dropped, find>>

--------------------------------------------------------------------------------
(* auto_complete_trip_task *)

Running(t) == {w \in Workers : call[w].pc # "idle" /\ call[w].trip = t}

\* The target is no trip in progress: it is taken for an order id
SameNumber(t) == {o \in Orders : Number[o] = Number[t] /\ InProgress(o)}

Target(t) ==
  IF trip[t].status = "ACTIVE" THEN {o \in Orders : order[o].trip = t /\ InProgress(o)}
                               ELSE SameNumber(t)

AutoReads(w, t) ==
  LET todo == {<<o, order[o].driver>> : o \in Target(t)} IN
  /\ call[w].pc = "idle"
  /\ timer[t] > Cardinality(Running(t))
  /\ IF todo = {}
       THEN timer' = [timer EXCEPT ![t] = @ - 1] /\ UNCHANGED call
       ELSE /\ Step(w, [New EXCEPT !.pc = "listed", !.trip = t, !.todo = todo,
                                   !.found = trip[t].status = "ACTIVE"])
            /\ UNCHANGED timer
  /\ UNCHANGED <<rows, starts, faults, dropped, find>>

\* The trip is closed on the strength of the first reading, and committed ...
AutoCloses(w) ==
  LET r == call[w] IN
  /\ w \in Workers
  /\ r.pc = "listed" /\ r.todo = {}
  /\ r.found => TripFree(r.trip)
  /\ trip' = IF r.found THEN [trip EXCEPT ![r.trip].status = "COMPLETED"] ELSE trip
  /\ Step(w, [r EXCEPT !.pc = "freeing"])
  /\ UNCHANGED <<order, driver, tasks, faults, dropped, find>>

\* ... then the driver of the last order is set free
AutoFrees(w) ==
  LET r == call[w] IN
  /\ r.pc = "freeing"
  /\ driver' = [driver EXCEPT ![r.driver].onTrip = FALSE, ![r.driver].active = FALSE]
  /\ timer' = [timer EXCEPT ![r.trip] = @ - 1]
  /\ Over(w)
  /\ UNCHANGED <<order, trip, starts, faults, dropped, find>>

--------------------------------------------------------------------------------
(* Handing back and cancelling *)

\* confirm_cancellation: the UPDATE repeats none of the checks, and the seats are
\* not capped, so that the CHECK of the table can undo it all
GivesUpReads(c, d, o) ==
  /\ call[c].pc = "idle"
  /\ order[o].driver = d /\ Active(o)
  /\ Step(c, [New EXCEPT !.pc = "givingUp", !.order = o, !.driver = d])
  /\ UNCHANGED <<rows, tasks, faults, dropped, find>>

GivesUpWrites(c) ==
  LET o == call[c].order
      d == call[c].driver
      seats == driver[d].seats + Seats[o]
  IN
  /\ call[c].pc = "givingUp"
  /\ OrderFree(o)
  /\ IF SeatsAllowed(seats)
       THEN /\ order' = [order EXCEPT ![o] = HandedBack(o)]
            /\ driver' = [driver EXCEPT ![d].seats = seats, ![d].onTrip = FALSE]
       ELSE UNCHANGED <<order, driver>>
  /\ Over(c)
  /\ UNCHANGED <<trip, tasks, faults, dropped, find>>

\* cancel_all_orders_handler
CancelAllReads(c, d) ==
  /\ call[c].pc = "idle"
  /\ HeldBy(d) # {}
  /\ Step(c, [New EXCEPT !.pc = "cancellingAll", !.driver = d, !.gone = HeldBy(d)])
  /\ UNCHANGED <<rows, tasks, faults, dropped, find>>

CancelAllWrites(c) ==
  LET r == call[c] IN
  /\ r.pc = "cancellingAll"
  /\ \A o \in r.gone : OrderFree(o)
  /\ order' = [o \in Orders |-> IF o \in r.gone THEN HandedBack(o) ELSE order[o]]
  /\ driver' = [driver EXCEPT ![r.driver] = Offline(0)]
  /\ Over(c)
  /\ UNCHANGED <<trip, tasks, faults, dropped, find>>

\* passenger_cancel_order: the driver is the one read before, candidate or not
Cancellable(o) == order[o].status \in {"PENDING", "ACCEPTED"}

PassengerReads(c, o) ==
  /\ call[c].pc = "idle"
  /\ Cancellable(o)
  /\ Step(c, [New EXCEPT !.pc = "cancelling", !.order = o, !.driver = order[o].driver])
  /\ UNCHANGED <<rows, tasks, faults, dropped, find>>

PassengerWrites(c) ==
  LET o == call[c].order
      d == call[c].driver
  IN
  /\ call[c].pc = "cancelling"
  /\ IF Cancellable(o)
       THEN /\ order' = [order EXCEPT ![o].status = "CANCELLED"]
            /\ driver' = IF d = None THEN driver
                         ELSE [driver EXCEPT ![d].seats = Capped(@ + Seats[o]),
                                             ![d].onTrip = FALSE]
       ELSE UNCHANGED <<order, driver>>
  /\ Over(c)
  /\ UNCHANGED <<trip, tasks, faults, dropped, find>>

\* confirm_trip_cancellation: cancel_pending_orders_in_trip locks the trip ...
TripCancelReads(c, t) ==
  LET mine == {o \in Orders : order[o].trip = t /\ order[o].status = "ACCEPTED"} IN
  /\ call[c].pc = "idle"
  /\ trip[t].status # "unused"
  /\ TripFree(t)
  /\ Step(c, [New EXCEPT !.pc = "tripCancel", !.trip = t, !.driver = trip[t].driver,
                         !.todo = mine \X {trip[t].driver}])
  /\ UNCHANGED <<rows, tasks, faults, dropped, find>>

\* ... each order goes back in a transaction of its own; one without a driver ends
\* the whole cancellation with an error ...
TripOrderReset(c, o) ==
  LET r == call[c]
      d == order[o].driver
  IN
  /\ r.pc = "tripCancel"
  /\ \E e \in Drivers : <<o, e>> \in r.todo
  /\ OrderFree(o)
  /\ IF d = None
       THEN UNCHANGED rows /\ Over(c)
       ELSE /\ order' = [order EXCEPT ![o] = HandedBack(o)]
            /\ driver' = [driver EXCEPT ![d].onTrip = FALSE]
            /\ Step(c, [r EXCEPT !.todo = {p \in @ : p[1] # o}, !.gone = @ \cup {o}])
            /\ UNCHANGED trip
  /\ UNCHANGED <<tasks, faults, dropped, find>>

\* ... and the outer transaction flushes its own objects over them
TripCancelCommits(c) ==
  LET r == call[c] IN
  /\ r.pc = "tripCancel" /\ r.todo = {}
  /\ \A o \in r.gone : OrderFree(o)
  /\ order' = [o \in Orders |-> IF o \in r.gone THEN [order[o] EXCEPT !.status = "CANCELLED"]
                                                ELSE order[o]]
  /\ Step(c, [r EXCEPT !.pc = "tripClosing", !.gone = {}])
  /\ UNCHANGED <<driver, trip, tasks, faults, dropped, find>>

TripCloses(c) ==
  LET r == call[c] IN
  /\ r.pc = "tripClosing"
  /\ TripFree(r.trip)
  /\ trip' = [trip EXCEPT ![r.trip].status = "CANCELLED"]
  /\ driver' = [driver EXCEPT ![r.driver] = Offline(0)]
  /\ Over(c)
  /\ UNCHANGED <<order, tasks, faults, dropped, find>>

--------------------------------------------------------------------------------
(* A process dies: the message of a task stays, a press of a button is gone *)

Dies(c) ==
  /\ call[c].pc \notin {"idle", "done"}
  /\ faults < MaxFaults /\ faults' = faults + 1
  /\ Over(c)
  /\ dropped' = IF c \in Calls THEN dropped \cup ({call[c].trip} \ {None}) ELSE dropped
  /\ UNCHANGED <<rows, tasks, find>>

--------------------------------------------------------------------------------
Init ==
  /\ order = [o \in Orders |-> [status |-> "PENDING", driver |-> None, trip |-> None]]
  /\ driver = [d \in Drivers |-> Offline(0)]
  /\ trip = [t \in Trips |-> [driver |-> None, status |-> "unused"]]
  /\ starts = {}
  /\ timer = [t \in Trips |-> 0]
  /\ call = [c \in Calls \cup Workers |-> New]
  /\ faults = 0
  /\ dropped = {}
  /\ finding = {} /\ misled = {}

Presses(c) ==
  \/ \E d \in Drivers, o \in Orders :
       StartReads(c, d, o) \/ ManualReads(c, d, o) \/ GivesUpReads(c, d, o)
  \/ \E d \in Drivers : ManualCleansUp(c, d) \/ CancelAllReads(c, d)
  \/ \E o \in Orders : PassengerReads(c, o)
  \/ \E t \in Trips : TripCancelReads(c, t)

CompleteStep(c) ==
  \/ \E o \in Orders, d \in Drivers : CompleteReads(c, o, d)
  \/ CompleteMarks(c) \/ CompleteCommits(c)

\* What a handler does after its first step
CallStep(c) ==
  \/ StartCommits(c) \/ StartSchedules(c)
  \/ CompleteStep(c) \/ ManualEnds(c)
  \/ GivesUpWrites(c) \/ CancelAllWrites(c) \/ PassengerWrites(c)
  \/ \E o \in Orders : TripOrderReset(c, o)
  \/ TripCancelCommits(c) \/ TripCloses(c)

WorkerStep(w) ==
  \/ \E t \in Trips : AutoReads(w, t)
  \/ CompleteStep(w) \/ AutoCloses(w) \/ AutoFrees(w)

Next ==
  \/ \E d \in Drivers, n \in SeatChoices : GoesOnline(d, n)
  \/ \E o \in Sought : FindReads(o)
  \/ \E o \in Orders : FindEnds(o) \/ \E d \in Drivers : FindWrites(o, d)
  \/ \E d \in Drivers, o \in Orders, t \in Trips : Accept(d, o, t)
  \/ \E d \in Drivers : AcceptClearsFlag(d)
  \/ \E t \in Trips : AutoStart(t) \/ AutoStartFails(t)
  \/ \E c \in Calls : Presses(c) \/ CallStep(c)
  \/ \E w \in Workers : WorkerStep(w)
  \/ \E c \in Calls \cup Workers : CompleteFails(c) \/ Dies(c)

Spec == Init /\ [][Next]_vars

\* Coroutines whose await can complete go on, workers take due tasks.  Nobody has to
\* press anything, and the auto-start task may wait.
Fairness ==
  /\ \A c \in Calls : WF_vars(CallStep(c))
  /\ \A w \in Workers : WF_vars(WorkerStep(w))

FairSpec == Spec /\ Fairness

--------------------------------------------------------------------------------
(* Properties *)

TypeOK ==
  /\ order \in [Orders -> OrderRec]
  /\ driver \in [Drivers -> DriverRec]
  /\ trip \in [Trips -> TripRec]
  /\ starts \subseteq Trips
  /\ timer \in [Trips -> Nat]
  /\ call \in [Calls \cup Workers -> CallRec]
  /\ faults \in 0 .. MaxFaults
  /\ dropped \subseteq Trips
  /\ finding \subseteq Orders /\ misled \subseteq Orders

\* start_trip, auto-start and both completions choose their orders by trip_id alone
\* or together with a driver read earlier.  That is only right because an order that
\* is accepted or in progress is in a trip of the driver it names, however often it
\* was handed back, offered and accepted again before.  Only a find task that had read it
\* before it was accepted can put another driver's name on it (misled); it keeps a trip
\* and a driver then, too.
RidesWithItsDriver ==
  \A o \in Orders :
    Active(o) => /\ order[o].driver # None /\ order[o].trip # None
                 /\ o \in misled \/ trip[order[o].trip].driver = order[o].driver

\* A completion that has found its order in progress keeps it so until it commits:
\* hand-backs, cancellations and other completions wait for its row.
CompletionHolds ==
  \A c \in Calls \cup Workers :
    call[c].pc = "marked" /\ call[c].hit =>
      /\ InProgress(call[c].order)
      /\ \A e \in Calls \cup Workers :
           e # c /\ call[e].pc = "marked" /\ call[e].hit => call[e].order # call[c].order

\* The inductive invariant: the two above, the types of what they speak of, and that
\* an active order is never in a trip whose id is still to be given out, or in nobody's.
Inv ==
  /\ order \in [Orders -> OrderRec]
  /\ trip \in [Trips -> TripRec]
  /\ call \in [Calls \cup Workers -> CallRec]
  /\ \A c \in Calls \cup Workers :
       call[c].pc \in {"completing", "marked"} => call[c].order \in Orders
  /\ RidesWithItsDriver
  /\ \A o \in Orders : Active(o) => /\ trip[order[o].trip].status # "unused"
                                   /\ trip[order[o].trip].driver # None
  /\ CompletionHolds

\* "accepted -> in_progress", "in_progress -> completed" (order_service.py:560,
\* order.py:527): two starts, two completions, the timer and the buttons race, and
\* still an order is started only out of ACCEPTED and completed only out of
\* IN_PROGRESS, whatever the handler read before.
MovesForward ==
  \A o \in Orders :
    LET was == order[o].status
        now == order'[o].status
    IN was # now => /\ now = "ACCEPTED" => was = "PENDING"
                    /\ now = "IN_PROGRESS" => was = "ACCEPTED"
                    /\ now = "COMPLETED" => was = "IN_PROGRESS"

StatusMovesForward == [][MovesForward]_vars

\* Two transactions that PostgreSQL cannot tell from a slow application: the outer one
\* of a trip cancellation keeps the trip row while its inner one waits for an order row,
\* and the completion that holds this order waits for the trip row.
WaitCycle ==
  \E c, e \in DOMAIN call :
    /\ call[c].pc = "tripCancel" /\ \E p \in call[c].todo : p[1] = call[e].order
    /\ call[e].pc = "marked" /\ call[e].hit /\ call[e].last /\ call[e].ride = call[c].trip

\* The trip of the order was closed around it, the handler of a button left it without
\* its timer or did not go through its list, or a late find task renamed its driver,
\* whom a completion under way then passes over
LeftBehind(o) ==
  \/ \E t \in Trips : order[o].trip = t /\ (trip[t].status # "ACTIVE" \/ t \in dropped)
  \/ o \in misled

\* "After 10 minutes the trip is completed automatically" (driver/orders.py:319): a
\* ride in progress does not stay so, although timers, buttons and crashes of workers
\* interleave, unless it was left behind ...
RideIsCompleted == \A o \in Orders : InProgress(o) ~> (~InProgress(o) \/ LeftBehind(o))

\* ... or the wait cycle has caught it.
RideEnds ==
  \A o \in Orders : InProgress(o) ~> (~InProgress(o) \/ LeftBehind(o) \/ WaitCycle)

\* "trip_id -> all orders of the trip which are in progress" (tasks/matching.py:480):
\* the timer of a trip that is over goes on to complete nobody else's order.
TimerKeepsToItsTrip ==
  \A w \in Workers :
    call[w].pc = "listed" /\ ~call[w].found =>
      \A p \in call[w].todo : order[p[1]].trip = call[w].trip
================================================================================
