------------------------- MODULE TripLifecycleProofs -------------------------
(***************************************************************************)
(* Of TripLifecycle, that an active order rides in a trip of the driver it *)
(* names, that statuses only move forward, and the types, the count of a   *)
(* trip's timers among them; of QueueMessages, that a driver is told his   *)
(* place.  For all orders, drivers, trips, calls and workers.              *)
(*                                                                         *)
(* A completion marks its order and commits later; all other steps leave   *)
(* marks alone or take one away.  So the steps are of a few kinds: those   *)
(* that write no row (Quiet), those that write rows (Writes, and Plain for *)
(* those of no call) - to start rides, to end them or to close a trip -    *)
(* and CompleteMarks.  Each is proved once, and once per action it applies *)
(* to.                                                                     *)
(*                                                                         *)
(* Of the places, the invariant says of each driver who is not astray what *)
(* his chat shows, what is noted of it, what the tellers know of him and   *)
(* what is still to be told (Followed).  A step of a teller passes a       *)
(* driver by, or that teller is alone with him; so each action is proved   *)
(* for the driver it is about and for all others.                          *)
(***************************************************************************)
EXTENDS MCTrips, Sequences, FiniteSetTheorems, TLAPS

Processes == Calls \cup Workers

Marked(c) == call[c].pc = "marked" /\ call[c].hit

\* Order o, of row q, rides in a trip of t, if it is not one of m with its own driver's
Rides(o, q, t, m) == /\ q.driver # None /\ q.trip # None
                     /\ t[q.trip].driver # None /\ t[q.trip].status # "unused"
                     /\ o \in m \/ t[q.trip].driver = q.driver

IsActive(q) == q.status \in {"ACCEPTED", "IN_PROGRESS"}

\* Started(t) is InRide(AcceptedIn(t))
AcceptedIn(t) == {q \in Orders : order[q].trip = t /\ order[q].status = "ACCEPTED"}

InRide(S) == [q \in Orders |-> IF q \in S THEN [order[q] EXCEPT !.status = "IN_PROGRESS"]
                                         ELSE order[q]]

--------------------------------------------------------------------------------
(* The invariant in the words used below *)

\* Inv says, order by order, that an active one rides
LEMMA InvRides ==
  ASSUME Inv, NEW o \in Orders, IsActive(order[o])
  PROVE  Rides(o, order[o], trip, misled)
  BY DEF Inv, RidesWithItsDriver, Active, IsActive, Rides

\* A marked order is known and in progress, and marked once
LEMMA InvMarks ==
  ASSUME Inv, NEW c \in Processes, Marked(c)
  PROVE  /\ call[c].order \in Orders
         /\ order[call[c].order].status = "IN_PROGRESS"
         /\ \A e \in Processes : e # c /\ Marked(e) => call[e].order # call[c].order
  BY DEF Inv, CompletionHolds, Marked, InProgress, Processes

\* Every step that adds no mark
LEMMA NoNewMark ==
  ASSUME Inv,
         order' \in [Orders -> OrderRec], trip' \in [Trips -> TripRec],
         call' \in [Processes -> CallRec],
         \A e \in Processes : call'[e].pc \in {"completing", "marked"} => call'[e].order \in Orders,
         \A o \in Orders : IsActive(order'[o]) => Rides(o, order'[o], trip', misled'),
         \A e \in Processes : Marked(e)' =>
            call'[e] = call[e] /\ order'[call[e].order].status = "IN_PROGRESS"
  PROVE  Inv'
  <1>1. RidesWithItsDriver'
    BY DEF RidesWithItsDriver, Active, IsActive, Rides
  <1>2. \A o \in Orders : Active(o)' => /\ trip'[order'[o].trip].status # "unused"
                                       /\ trip'[order'[o].trip].driver # None
    BY DEF Active, IsActive, Rides
  <1>3. CompletionHolds'
    BY InvMarks DEF CompletionHolds, Marked, InProgress, Processes
  <1> QED BY <1>1, <1>2, <1>3 DEF Inv, Processes

--------------------------------------------------------------------------------
(* Three kinds of step *)

\* No row is written
LEMMA Quiet ==
  ASSUME Inv, NEW c \in Processes, NEW r \in CallRec, Step(c, r), UNCHANGED <<order, trip, misled>>,
         r.pc # "marked", r.pc = "completing" => r.order \in Orders
  PROVE  Inv' /\ MovesForward
  <1>1. /\ order' = order /\ trip' = trip /\ misled' = misled
        /\ order \in [Orders -> OrderRec] /\ trip \in [Trips -> TripRec]
        /\ call \in [Processes -> CallRec]
    BY DEF Inv, Processes
  <1>2. call' \in [Processes -> CallRec] BY <1>1 DEF Step
  <1>3. \A e \in Processes : call'[e] = IF e = c THEN r ELSE call[e] BY <1>1 DEF Step
  <1>4. \A e \in Processes : call'[e].pc \in {"completing", "marked"} => call'[e].order \in Orders
    BY <1>3 DEF Inv, Processes
  <1>5. \A o \in Orders : IsActive(order'[o]) => Rides(o, order'[o], trip', misled')
    BY <1>1, InvRides
  <1>6. \A e \in Processes : Marked(e)' =>
           call'[e] = call[e] /\ order'[call[e].order].status = "IN_PROGRESS"
    BY <1>1, <1>3, InvMarks DEF Marked
  <1>7. MovesForward BY <1>1 DEF MovesForward
  <1> QED BY <1>1, <1>2, <1>4, <1>5, <1>6, <1>7, NoNewMark

\* A call writes rows, and leaves alone what another one has marked
LEMMA Writes ==
  ASSUME Inv, NEW c \in Processes, NEW r \in CallRec, Step(c, r),
         r.pc \notin {"completing", "marked"},
         order' \in [Orders -> OrderRec], trip' \in [Trips -> TripRec],
         \A o \in Orders : IsActive(order'[o]) => Rides(o, order'[o], trip', misled'),
         \A e \in Processes \ {c} : Marked(e) => order'[call[e].order].status = "IN_PROGRESS"
  PROVE  Inv'
  <1>1. call \in [Processes -> CallRec] BY DEF Inv, Processes
  <1>2. call' \in [Processes -> CallRec] BY <1>1 DEF Step
  <1>3. \A e \in Processes : call'[e] = IF e = c THEN r ELSE call[e] BY <1>1 DEF Step
  <1>4. \A e \in Processes : call'[e].pc \in {"completing", "marked"} => call'[e].order \in Orders
    BY <1>3 DEF Inv, Processes
  <1>5. \A e \in Processes : Marked(e)' =>
           call'[e] = call[e] /\ order'[call[e].order].status = "IN_PROGRESS"
    BY <1>3 DEF Marked
  <1> QED BY <1>2, <1>4, <1>5, NoNewMark

\* The same for a step of no call
LEMMA Plain ==
  ASSUME Inv, UNCHANGED call,
         order' \in [Orders -> OrderRec], trip' \in [Trips -> TripRec],
         \A o \in Orders : IsActive(order'[o]) => Rides(o, order'[o], trip', misled'),
         \A e \in Processes : Marked(e) => order'[call[e].order].status = "IN_PROGRESS"
  PROVE  Inv'
  <1>1. call' \in [Processes -> CallRec] BY DEF Inv, Processes
  <1>2. \A e \in Processes : call'[e].pc \in {"completing", "marked"} => call'[e].order \in Orders
    BY DEF Inv, Processes
  <1>3. \A e \in Processes : Marked(e)' =>
           call'[e] = call[e] /\ order'[call[e].order].status = "IN_PROGRESS"
    BY DEF Marked
  <1> QED BY <1>1, <1>2, <1>3, NoNewMark
--------------------------------------------------------------------------------
(* Facts the actions share *)

LEMMA Types ==
  ASSUME Inv
  PROVE  /\ order \in [Orders -> OrderRec] /\ trip \in [Trips -> TripRec]
         /\ call \in [Processes -> CallRec]
  BY DEF Inv, Processes

\* The end of a handler or a task is a record that completes nothing
LEMMA OverStep ==
  ASSUME NEW c \in Processes, Over(c)
  PROVE  \E r \in CallRec : Step(c, r) /\ r.pc \in {"idle", "done"}
  <1>1. /\ New \in CallRec /\ New.pc = "idle"
        /\ [New EXCEPT !.pc = "done"] \in CallRec /\ [New EXCEPT !.pc = "done"].pc = "done"
    BY DEF New, CallRec
  <1>2. CASE c \in Workers BY <1>1, <1>2 DEF Over
  <1>3. CASE c \notin Workers BY <1>1, <1>3 DEF Over
  <1> QED BY <1>2, <1>3

\* Who waits for the order's row cannot meet a mark
LEMMA Unmarked ==
  ASSUME Inv, NEW o \in Orders, OrderFree(o), NEW e \in Processes, Marked(e)
  PROVE  call[e].order # o
  BY Types DEF OrderFree, Marked

LEMMA OverQuiet ==
  ASSUME Inv, NEW c \in Processes, Over(c), UNCHANGED <<order, trip, misled>>
  PROVE  Inv' /\ MovesForward
  <1>1. PICK r \in CallRec : Step(c, r) /\ r.pc \in {"idle", "done"} BY OverStep
  <1> QED BY <1>1, Quiet

\* The orders of some set go to a status that is not active; none of them is marked
LEMMA Inactive ==
  ASSUME Inv, NEW c \in Processes, NEW r \in CallRec, Step(c, r),
         r.pc \notin {"completing", "marked"},
         NEW S \in SUBSET Orders, \A o \in S : \A e \in Processes \ {c} : Marked(e) => call[e].order # o,
         order' \in [Orders -> OrderRec], \A o \in Orders \ S : order'[o] = order[o],
         \A o \in S : /\ ~IsActive(order'[o])
                      /\ order'[o].status = "COMPLETED" => order[o].status = "IN_PROGRESS",
         trip' \in [Trips -> TripRec],
         \A t \in Trips : /\ trip'[t].driver = trip[t].driver
                          /\ trip'[t].status = "unused" => trip[t].status = "unused",
         UNCHANGED misled
  PROVE  Inv' /\ MovesForward
  <1>1. ASSUME NEW o \in Orders, IsActive(order'[o]) PROVE Rides(o, order'[o], trip', misled')
    <2>1. o \notin S /\ order'[o] = order[o] BY <1>1
    <2>2. Rides(o, order[o], trip, misled) BY <1>1, <2>1, InvRides
    <2>3. order[o].trip \in Trips BY <2>2, Types DEF OrderRec, Rides
    <2> QED BY <2>1, <2>2, <2>3 DEF Rides
  <1>2. \A e \in Processes \ {c} : Marked(e) => order'[call[e].order].status = "IN_PROGRESS"
    BY InvMarks
  <1>3. MovesForward BY DEF MovesForward, IsActive
  <1> QED BY <1>1, <1>2, <1>3, Writes

\* Started(t), or more of it: accepted orders go in progress, and nothing else
LEMMA Starting ==
  ASSUME Inv, NEW S \in SUBSET Orders, \A o \in S : order[o].status = "ACCEPTED",
         order' = InRide(S),
         trip' \in [Trips -> TripRec],
         \A t \in Trips : /\ trip'[t].driver = trip[t].driver
                          /\ trip'[t].status = "unused" => trip[t].status = "unused",
         UNCHANGED misled
  PROVE  /\ order' \in [Orders -> OrderRec]
         /\ \A o \in Orders : IsActive(order'[o]) => Rides(o, order'[o], trip', misled')
         /\ \A e \in Processes : Marked(e) => order'[call[e].order].status = "IN_PROGRESS"
         /\ MovesForward
  <1>1. order' \in [Orders -> OrderRec] BY Types DEF OrderRec, InRide
  <1>2. ASSUME NEW o \in Orders, IsActive(order'[o]) PROVE Rides(o, order'[o], trip', misled')
    <2>1. /\ order'[o].driver = order[o].driver /\ order'[o].trip = order[o].trip
          /\ IsActive(order[o])
      BY <1>2, Types DEF OrderRec, IsActive, InRide
    <2>2. Rides(o, order[o], trip, misled) BY <2>1, InvRides
    <2>3. order[o].trip \in Trips BY <2>2, Types DEF OrderRec, Rides
    <2> QED BY <2>1, <2>2, <2>3 DEF Rides
  <1>3. ASSUME NEW e \in Processes, Marked(e)
        PROVE  order'[call[e].order].status = "IN_PROGRESS"
    <2>1. PICK o \in Orders : o = call[e].order /\ order[o].status = "IN_PROGRESS" BY <1>3, InvMarks
    <2> QED BY <2>1, Types DEF InRide, OrderRec
  <1>4. MovesForward BY Types DEF MovesForward, OrderRec, InRide
  <1> QED BY <1>1, <1>2, <1>3, <1>4
--------------------------------------------------------------------------------
(* Steps that write no order and no trip *)

LEMMA NoRow ==
  ASSUME Inv, UNCHANGED <<order, trip, call, misled>>
  PROVE  Inv' /\ MovesForward
  <1>1. Inv'
    BY DEF Inv, RidesWithItsDriver, Active, CompletionHolds, InProgress
  <1>2. MovesForward BY DEF MovesForward
  <1> QED BY <1>1, <1>2

LEMMA StartGivesUpQuiet ==
  ASSUME Inv, NEW c \in Calls, NEW d \in Drivers, NEW o \in Orders,
         StartReads(c, d, o) \/ GivesUpReads(c, d, o)
  PROVE  Inv' /\ MovesForward
  <1> c \in Processes BY DEF Processes
  <1>1. ASSUME StartReads(c, d, o) PROVE Inv' /\ MovesForward
    <2>1. PICK r : r = [New EXCEPT !.pc = "starting", !.order = o, !.driver = d,
                                   !.trip = order[o].trip]
      OBVIOUS
    <2>2. r \in CallRec /\ r.pc = "starting" BY <2>1, Types DEF New, CallRec, OrderRec
    <2> QED BY <1>1, <2>1, <2>2, Quiet DEF StartReads, rows, find
  <1>2. ASSUME GivesUpReads(c, d, o) PROVE Inv' /\ MovesForward
    <2>1. PICK r : r = [New EXCEPT !.pc = "givingUp", !.order = o, !.driver = d] OBVIOUS
    <2>2. r \in CallRec /\ r.pc = "givingUp" BY <2>1 DEF New, CallRec
    <2> QED BY <1>2, <2>1, <2>2, Quiet DEF GivesUpReads, rows, find
  <1> QED BY <1>1, <1>2

LEMMA CancelAllQuiet ==
  ASSUME Inv, NEW c \in Calls, NEW d \in Drivers, CancelAllReads(c, d)
  PROVE  Inv' /\ MovesForward
  <1> c \in Processes BY DEF Processes
  <1>1. PICK r : r = [New EXCEPT !.pc = "cancellingAll", !.driver = d, !.gone = HeldBy(d)]
    OBVIOUS
  <1>2. r \in CallRec /\ r.pc = "cancellingAll" BY <1>1 DEF New, CallRec, HeldBy
  <1> QED BY <1>1, <1>2, Quiet DEF CancelAllReads, rows, find

LEMMA PassengerQuiet ==
  ASSUME Inv, NEW c \in Calls, NEW o \in Orders, PassengerReads(c, o)
  PROVE  Inv' /\ MovesForward
  <1> c \in Processes BY DEF Processes
  <1>1. PICK r : r = [New EXCEPT !.pc = "cancelling", !.order = o, !.driver = order[o].driver]
    OBVIOUS
  <1>2. r \in CallRec /\ r.pc = "cancelling" BY <1>1, Types DEF New, CallRec, OrderRec
  <1> QED BY <1>1, <1>2, Quiet DEF PassengerReads, rows, find

LEMMA TripCancelQuiet ==
  ASSUME Inv, NEW c \in Calls, NEW t \in Trips, TripCancelReads(c, t)
  PROVE  Inv' /\ MovesForward
  <1> c \in Processes BY DEF Processes
  <1>1. PICK m : m = {q \in Orders : order[q].trip = t /\ order[q].status = "ACCEPTED"}
    OBVIOUS
  <1>2. PICK r : r = [New EXCEPT !.pc = "tripCancel", !.trip = t, !.driver = trip[t].driver,
                                 !.todo = m \X {trip[t].driver}]
    OBVIOUS
  <1>3. trip[t].driver \in Drivers \cup {None} BY Types DEF TripRec
  <1>4. ASSUME NEW q \in m PROVE trip[t].driver \in Drivers
    <2>1. q \in Orders /\ order[q].trip = t /\ IsActive(order[q]) BY <1>1, <1>4 DEF IsActive
    <2>2. Rides(q, order[q], trip, misled) BY <2>1, InvRides
    <2> QED BY <2>1, <2>2, <1>3 DEF Rides
  <1>5. m \X {trip[t].driver} \in SUBSET (Orders \X Drivers) BY <1>1, <1>4
  <1>6. r \in CallRec /\ r.pc = "tripCancel" BY <1>2, <1>3, <1>5 DEF New, CallRec
  <1>7. Step(c, r) /\ UNCHANGED <<order, trip, misled>>
    BY <1>1, <1>2 DEF TripCancelReads, rows, find
  <1> QED BY <1>6, <1>7, Quiet

LEMMA EndsQuiet ==
  ASSUME Inv, NEW c \in Processes,
         ManualEnds(c) \/ AutoFrees(c) \/ StartSchedules(c) \/ Dies(c)
  PROVE  Inv' /\ MovesForward
  BY OverQuiet DEF ManualEnds, AutoFrees, StartSchedules, Dies, rows, find

LEMMA CleansUpQuiet ==
  ASSUME Inv, NEW c \in Processes, NEW d \in Drivers, ManualCleansUp(c, d)
  PROVE  Inv' /\ MovesForward
  BY OverQuiet DEF ManualCleansUp, find

LEMMA CompleteReadsQuiet ==
  ASSUME Inv, NEW c \in Processes, NEW o \in Orders, NEW d \in Drivers, CompleteReads(c, o, d)
  PROVE  Inv' /\ MovesForward
  <1>1. PICK r : r = [call[c] EXCEPT !.todo = @ \ {<<o, d>>}, !.driver = d] OBVIOUS
  <1>2. call[c] \in CallRec /\ call[c].pc = "listed" BY Types DEF CompleteReads
  <1>3. r \in CallRec /\ r.pc = "listed" BY <1>1, <1>2 DEF CallRec
  <1>4. PICK k : k = [r EXCEPT !.pc = "completing", !.order = o] OBVIOUS
  <1>5. k \in CallRec /\ k.pc = "completing" /\ k.order = o BY <1>3, <1>4 DEF CallRec
  <1>6. Step(c, k) \/ Step(c, r) BY <1>1, <1>4 DEF CompleteReads
  <1>7. UNCHANGED <<order, trip, misled>> BY DEF CompleteReads, rows, find
  <1> QED BY <1>3, <1>5, <1>6, <1>7, Quiet

LEMMA CompleteFailsQuiet ==
  ASSUME Inv, NEW c \in Processes, CompleteFails(c)
  PROVE  Inv' /\ MovesForward
  <1>1. PICK r : r = [call[c] EXCEPT !.pc = "listed", !.order = None, !.ride = None,
                                     !.hit = FALSE, !.last = FALSE]
    OBVIOUS
  <1>2. call[c] \in CallRec BY Types
  <1>3. r \in CallRec /\ r.pc = "listed" BY <1>1, <1>2 DEF CallRec
  <1> QED BY <1>1, <1>3, Quiet DEF CompleteFails, rows, find

LEMMA AutoReadsQuiet ==
  ASSUME Inv, NEW w \in Workers, NEW t \in Trips, AutoReads(w, t)
  PROVE  Inv' /\ MovesForward
  <1> w \in Processes BY DEF Processes
  <1>1. PICK m : m = {<<o, order[o].driver>> : o \in Target(t)} OBVIOUS
  <1>2. PICK r : r = [New EXCEPT !.pc = "listed", !.trip = t, !.todo = m,
                                 !.found = trip[t].status = "ACTIVE"]
    OBVIOUS
  <1>3. ASSUME NEW o \in Target(t) PROVE o \in Orders /\ order[o].driver \in Drivers
    <2>1. o \in Orders /\ IsActive(order[o])
      BY <1>3 DEF Target, SameNumber, InProgress, IsActive
    <2> QED BY <2>1, InvRides, Types DEF Rides, OrderRec
  <1>4. m \in SUBSET (Orders \X Drivers) BY <1>1, <1>3
  <1>5. r \in CallRec /\ r.pc = "listed" BY <1>2, <1>4 DEF New, CallRec
  <1>6. UNCHANGED call \/ Step(w, r) BY <1>1, <1>2 DEF AutoReads
  <1>7. UNCHANGED <<order, trip, misled>> BY DEF AutoReads, rows, find
  <1> QED BY <1>5, <1>6, <1>7, Quiet, NoRow

\* The one step that adds a mark: the order's row was free
LEMMA CompleteMarksHolds ==
  ASSUME Inv, NEW c \in Processes, CompleteMarks(c)
  PROVE  Inv' /\ MovesForward
  <1>1. PICK o : o = call[c].order OBVIOUS
  <1>2. PICK r : r = [call[c] EXCEPT !.pc = "marked", !.hit = InProgress(o), !.ride = order[o].trip,
                                     !.last = HeldBy(call[c].driver) \ {o} = {}]
    OBVIOUS
  <1>3. o \in Orders BY <1>1 DEF CompleteMarks, Inv, Processes
  <1>4. /\ r \in CallRec /\ r.pc = "marked" /\ r.order = o /\ r.hit = InProgress(o)
    <2>1. call[c] \in CallRec /\ order[o].trip \in Trips \cup {None}
      BY <1>3, Types DEF OrderRec
    <2>2. PICK h \in BOOLEAN, l \in BOOLEAN :
            h = InProgress(o) /\ l = (HeldBy(call[c].driver) \ {o} = {})
      BY DEF InProgress
    <2>3. r = [call[c] EXCEPT !.pc = "marked", !.hit = h, !.ride = order[o].trip, !.last = l]
      BY <1>2, <2>2
    <2>4. PICK x : x = call[c] OBVIOUS
    <2>5. PICK y : y = [x EXCEPT !.pc = "marked", !.ride = order[o].trip] OBVIOUS
    <2>6. y \in CallRec /\ y.pc = "marked" /\ y.order = x.order
      BY <2>1, <2>4, <2>5 DEF CallRec
    <2>7. r = [y EXCEPT !.hit = h, !.last = l] BY <2>1, <2>3, <2>4, <2>5 DEF CallRec
    <2>8. r \in CallRec /\ r.pc = "marked" /\ r.order = x.order /\ r.hit = h
      BY <2>6, <2>7 DEF CallRec
    <2>9. x.order = o BY <1>1, <2>4
    <2> QED BY <2>2, <2>8, <2>9
  <1>5. OrderFree(o) /\ Step(c, r) /\ UNCHANGED <<order, trip, misled>>
    BY <1>1, <1>2 DEF CompleteMarks, rows, find
  <1>6. \A e \in Processes : call'[e] = IF e = c THEN r ELSE call[e]
    BY <1>5, Types DEF Step
  <1>7. call' \in [Processes -> CallRec] BY <1>4, <1>5, Types DEF Step
  <1>8. \A e \in Processes : call'[e].pc \in {"completing", "marked"} => call'[e].order \in Orders
    BY <1>3, <1>4, <1>6 DEF Inv, Processes
  <1>9. RidesWithItsDriver' /\ \A q \in Orders : Active(q)' =>
                               /\ trip'[order'[q].trip].status # "unused"
                               /\ trip'[order'[q].trip].driver # None
    BY <1>5 DEF Inv, RidesWithItsDriver, Active
  <1>10. ASSUME NEW e \in Processes, Marked(e)'
         PROVE  /\ order'[call'[e].order].status = "IN_PROGRESS"
                /\ \A f \in Processes : f # e /\ Marked(f)' => call'[f].order # call'[e].order
    <2>1. \A f \in Processes \ {c} : Marked(f)' => Marked(f) /\ call[f].order # o /\ call'[f] = call[f]
      BY <1>3, <1>5, <1>6, Unmarked DEF Marked
    <2>2. CASE e = c
      BY <1>4, <1>5, <1>6, <1>10, <2>1, <2>2 DEF Marked, InProgress
    <2>3. CASE e # c
      BY <1>4, <1>5, <1>6, <1>10, <2>1, <2>3, InvMarks
    <2> QED BY <2>2, <2>3
  <1>11. CompletionHolds' BY <1>10 DEF CompletionHolds, Marked, InProgress, Processes
  <1>12. MovesForward BY <1>5 DEF MovesForward
  <1> QED BY <1>5, <1>7, <1>8, <1>9, <1>11, <1>12, Types DEF Inv, Processes

--------------------------------------------------------------------------------
(* Steps that start rides *)

LEMMA StartedOrders ==
  ASSUME Inv, NEW t, NEW o,
         o \in Orders => order[o].status = "ACCEPTED" /\ order[o].trip = t
  PROVE  /\ Started(t) = InRide(AcceptedIn(t))
         /\ [Started(t) EXCEPT ![o].status = "IN_PROGRESS"] = Started(t)
  <1>1. Started(t) = InRide(AcceptedIn(t)) BY DEF Started, InRide, AcceptedIn
  <1>2. CASE o \in Orders
    <2>1. o \in AcceptedIn(t) /\ order[o] \in OrderRec BY <1>2, Types DEF AcceptedIn
    <2>2. InRide(AcceptedIn(t))[o] = [order[o] EXCEPT !.status = "IN_PROGRESS"]
      BY <2>1, <1>2 DEF InRide
    <2>3. [Started(t)[o] EXCEPT !.status = "IN_PROGRESS"] = Started(t)[o]
      BY <1>1, <2>1, <2>2 DEF OrderRec
    <2>4. [Started(t) EXCEPT ![o].status = "IN_PROGRESS"] = Started(t)
      BY <1>2, <2>3 DEF Started
    <2> QED BY <1>1, <2>4
  <1>3. CASE o \notin Orders
    BY <1>1, <1>3 DEF Started
  <1> QED BY <1>2, <1>3

LEMMA StartCommitsHolds ==
  ASSUME Inv, NEW c \in Calls, StartCommits(c)
  PROVE  Inv' /\ MovesForward
  <1> c \in Processes BY DEF Processes
  <1>1. PICK o, t, d : o = call[c].order /\ t = order[o].trip /\ d = call[c].driver OBVIOUS
  <1>2. ASSUME StartMatches(o, d) PROVE Inv' /\ MovesForward
    <2>1. /\ order' = [Started(t) EXCEPT ![o].status = "IN_PROGRESS"]
          /\ trip' = [trip EXCEPT ![t].status = "ACTIVE"]
          /\ Step(c, [call[c] EXCEPT !.pc = "scheduling"])
          /\ misled' = misled
      BY <1>1, <1>2 DEF StartCommits, find
    <2>2. order[o].status = "ACCEPTED" BY <1>2 DEF StartMatches
    <2>3. order' = InRide(AcceptedIn(t)) BY <1>1, <2>1, <2>2, StartedOrders
    <2>4. AcceptedIn(t) \in SUBSET Orders /\ \A q \in AcceptedIn(t) : order[q].status = "ACCEPTED"
      BY DEF AcceptedIn
    <2>5. /\ trip' \in [Trips -> TripRec]
          /\ \A x \in Trips : /\ trip'[x].driver = trip[x].driver
                              /\ trip'[x].status = "unused" => trip[x].status = "unused"
      BY <2>1, Types DEF TripRec
    <2>6. /\ order' \in [Orders -> OrderRec]
          /\ \A q \in Orders : IsActive(order'[q]) => Rides(q, order'[q], trip', misled')
          /\ \A e \in Processes : Marked(e) => order'[call[e].order].status = "IN_PROGRESS"
          /\ MovesForward
      BY <2>1, <2>3, <2>4, <2>5, Starting
    <2>7. PICK r : r = [call[c] EXCEPT !.pc = "scheduling"] OBVIOUS
    <2>8. r \in CallRec /\ r.pc = "scheduling"
      <3>1. call[c] \in CallRec BY Types
      <3> QED BY <2>7, <3>1 DEF CallRec
    <2>9. Step(c, r) BY <2>1, <2>7
    <2>10. Inv' BY <2>5, <2>6, <2>8, <2>9, Writes
    <2> QED BY <2>6, <2>10
  <1>3. ASSUME ~StartMatches(o, d) PROVE Inv' /\ MovesForward
    BY <1>1, <1>3, OverQuiet DEF StartCommits, rows, find
  <1> QED BY <1>2, <1>3

LEMMA AutoStartHolds ==
  ASSUME Inv, NEW t \in Trips, AutoStart(t)
  PROVE  Inv' /\ MovesForward
  <1>1. order' = Started(t) /\ trip' = trip /\ call' = call /\ misled' = misled
    BY DEF AutoStart, find
  <1>2. None \notin Orders BY ConstantsAssumption
  <1>3. order' = InRide(AcceptedIn(t)) BY <1>1, <1>2, StartedOrders
  <1>4. AcceptedIn(t) \in SUBSET Orders /\ \A q \in AcceptedIn(t) : order[q].status = "ACCEPTED"
    BY DEF AcceptedIn
  <1>5. trip' \in [Trips -> TripRec] BY <1>1, Types
  <1>6. /\ order' \in [Orders -> OrderRec]
        /\ \A q \in Orders : IsActive(order'[q]) => Rides(q, order'[q], trip', misled')
        /\ \A e \in Processes : Marked(e) => order'[call[e].order].status = "IN_PROGRESS"
        /\ MovesForward
    BY <1>1, <1>3, <1>4, <1>5, Starting
  <1> QED BY <1>1, <1>5, <1>6, Plain

LEMMA ManualReadsHolds ==
  ASSUME Inv, NEW c \in Calls, NEW d \in Drivers, NEW o \in Orders, ManualReads(c, d, o)
  PROVE  Inv' /\ MovesForward
  <1> c \in Processes BY DEF Processes
  <1>1. PICK t, M : /\ t = order[o].trip
                    /\ M = {q \in Orders : (order[q].trip = t /\ order[q].driver = d) /\ Active(q)}
    OBVIOUS
  <1>2. PICK S : S = {q \in Orders : (order[q].trip = t /\ order[q].driver = d)
                                       /\ order[q].status = "ACCEPTED"}
    OBVIOUS
  <1>3. order' = InRide(S) /\ trip' = trip /\ misled' = misled
    BY <1>1, <1>2 DEF ManualReads, InRide, find
  <1>4. S \in SUBSET Orders /\ \A q \in S : order[q].status = "ACCEPTED" BY <1>2
  <1>5. trip' \in [Trips -> TripRec] BY <1>3, Types
  <1>6. /\ order' \in [Orders -> OrderRec]
        /\ \A q \in Orders : IsActive(order'[q]) => Rides(q, order'[q], trip', misled')
        /\ \A e \in Processes : Marked(e) => order'[call[e].order].status = "IN_PROGRESS"
        /\ MovesForward
    BY <1>3, <1>4, <1>5, Starting
  <1>7. PICK r : r = [New EXCEPT !.pc = "listed", !.trip = t, !.todo = M \X {d}] OBVIOUS
  <1>8. r \in CallRec /\ r.pc = "listed"
    <2>1. t \in Trips \cup {None} /\ M \X {d} \in SUBSET (Orders \X Drivers)
      BY <1>1, Types DEF OrderRec
    <2> QED BY <1>7, <2>1 DEF New, CallRec
  <1>9. Step(c, r) BY <1>1, <1>7 DEF ManualReads
  <1> QED BY <1>5, <1>6, <1>8, <1>9, Writes

--------------------------------------------------------------------------------
(* Offers and acceptance *)

LEMMA FindReadsEndsHolds ==
  ASSUME Inv, NEW o, FindReads(o) \/ FindEnds(o)
  PROVE  Inv' /\ MovesForward
  BY NoRow DEF FindReads, FindEnds, rows

\* An active order gets another driver's name, and is misled from then on
LEMMA FindWritesHolds ==
  ASSUME Inv, NEW o \in Orders, NEW d \in Drivers, FindWrites(o, d)
  PROVE  Inv' /\ MovesForward
  <1>1. /\ order' = [order EXCEPT ![o].driver = d] /\ trip' = trip /\ call' = call
        /\ misled' = IF Active(o) /\ order[o].driver # d THEN misled \cup {o} ELSE misled
    BY DEF FindWrites
  <1>2. order' \in [Orders -> OrderRec] /\ trip' \in [Trips -> TripRec]
    BY <1>1, Types DEF OrderRec
  <1>3. /\ order'[o].status = order[o].status /\ order'[o].trip = order[o].trip
        /\ order'[o].driver = d
        /\ \A q \in Orders \ {o} : order'[q] = order[q]
    BY <1>1, Types DEF OrderRec
  <1>4. ASSUME NEW q \in Orders, IsActive(order'[q])
        PROVE  Rides(q, order'[q], trip', misled')
    <2>1. Rides(q, order[q], trip, misled) BY <1>3, <1>4, InvRides DEF IsActive
    <2>2. CASE q # o BY <1>1, <1>3, <2>1, <2>2 DEF Rides
    <2>3. CASE q = o
      <3>1. o \in misled' \/ order[o].driver = d
        BY <1>1, <1>3, <1>4, <2>3 DEF Active, IsActive
      <3>2. misled \subseteq misled' BY <1>1
      <3> QED BY <1>1, <1>3, <2>1, <2>3, <3>1, <3>2, ConstantsAssumption DEF Rides
    <2> QED BY <2>2, <2>3
  <1>5. ASSUME NEW e \in Processes, Marked(e)
        PROVE  order'[call[e].order].status = "IN_PROGRESS"
    BY <1>3, <1>5, InvMarks
  <1>6. MovesForward
    <2>1. \A q \in Orders : order'[q].status = order[q].status BY <1>3
    <2> QED BY <2>1 DEF MovesForward
  <1> QED BY <1>1, <1>2, <1>4, <1>5, <1>6, Plain

\* The trip is the driver's own, or one that no active order can be in
LEMMA AcceptHolds ==
  ASSUME Inv, NEW d \in Drivers, NEW o \in Orders, NEW t \in Trips, Accept(d, o, t)
  PROVE  Inv' /\ MovesForward
  <1>1. /\ order[o].status = "PENDING" /\ call' = call
        /\ order' = [order EXCEPT ![o] = [status |-> "ACCEPTED", driver |-> d, trip |-> t]]
        /\ trip' = [trip EXCEPT ![t] = [driver |-> d, status |-> "ACTIVE"]]
        /\ misled' = misled \ {o}
    BY DEF Accept, TripTaken
  <1>2. trip[t].status = "unused" \/ trip[t].driver = d
    BY DEF Accept, OpenTrips
  <1>3. order' \in [Orders -> OrderRec] /\ trip' \in [Trips -> TripRec]
    BY <1>1, Types DEF OrderRec, TripRec
  <1>4. /\ order'[o] = [status |-> "ACCEPTED", driver |-> d, trip |-> t]
        /\ \A q \in Orders \ {o} : order'[q] = order[q]
        /\ trip'[t] = [driver |-> d, status |-> "ACTIVE"]
        /\ \A x \in Trips \ {t} : trip'[x] = trip[x]
    BY <1>1, Types
  <1>5. ASSUME NEW q \in Orders, IsActive(order'[q]) PROVE Rides(q, order'[q], trip', misled')
    <2>1. CASE q = o BY <1>4, <2>1, ConstantsAssumption DEF Rides
    <2>2. ASSUME q # o PROVE Rides(q, order'[q], trip', misled')
      <3>1. order'[q] = order[q] BY <1>4, <2>2
      <3>2. Rides(q, order[q], trip, misled) BY <1>5, <3>1, InvRides
      <3>3. order[q].trip \in Trips BY <3>2, Types DEF OrderRec, Rides
      <3>4. CASE order[q].trip = t BY <1>1, <2>2, ConstantsAssumption, <1>2, <1>4, <3>1, <3>2, <3>4 DEF Rides
      <3>5. CASE order[q].trip # t BY <1>1, <2>2, <1>4, <3>1, <3>2, <3>3, <3>5 DEF Rides
      <3> QED BY <3>4, <3>5
    <2> QED BY <2>1, <2>2
  <1>6. \A e \in Processes : Marked(e) => order'[call[e].order].status = "IN_PROGRESS"
    BY <1>1, <1>4, InvMarks
  <1>7. MovesForward BY <1>1, <1>4 DEF MovesForward
  <1> QED BY <1>1, <1>3, <1>5, <1>6, <1>7, Plain

--------------------------------------------------------------------------------
(* Orders that end or go back *)

LEMMA HandedBackOrder ==
  ASSUME Inv, NEW o \in Orders
  PROVE  HandedBack(o) \in OrderRec /\ HandedBack(o).status = "PENDING"
  BY Types DEF HandedBack, OrderRec

LEMMA GivesUpHolds ==
  ASSUME Inv, NEW c \in Calls, GivesUpWrites(c)
  PROVE  Inv' /\ MovesForward
  <1> c \in Processes BY DEF Processes
  <1>1. PICK o : o = call[c].order OBVIOUS
  <1>2. PICK r \in CallRec : Step(c, r) /\ r.pc \in {"idle", "done"}
    BY OverStep DEF GivesUpWrites
  <1>3. /\ OrderFree(o) /\ trip' = trip /\ misled' = misled
        /\ order' \in {order, [order EXCEPT ![o] = HandedBack(o)]}
    BY <1>1 DEF GivesUpWrites, find
  <1>4. CASE order' = order BY <1>2, <1>3, <1>4, Quiet
  <1>5. CASE o \notin Orders
    <2>1. order' = order BY <1>3, <1>5, Types
    <2> QED BY <1>2, <1>3, <2>1, Quiet
  <1>6. ASSUME o \in Orders, order' = [order EXCEPT ![o] = HandedBack(o)]
        PROVE  Inv' /\ MovesForward
    <2>1. HandedBack(o) \in OrderRec /\ HandedBack(o).status = "PENDING"
      BY <1>6, HandedBackOrder
    <2>2. order' \in [Orders -> OrderRec] BY <1>6, <2>1, Types
    <2>3. order'[o] = HandedBack(o) /\ \A q \in Orders \ {o} : order'[q] = order[q]
      BY <1>6, Types
    <2>4. PICK S : S = {o} OBVIOUS
    <2>5. S \in SUBSET Orders BY <1>6, <2>4
    <2>6. \A q \in S : \A e \in Processes \ {c} : Marked(e) => call[e].order # q
      BY <1>3, <1>6, <2>4, Unmarked
    <2>7. \A q \in S : ~IsActive(order'[q])
                      /\ (order'[q].status = "COMPLETED" => order[q].status = "IN_PROGRESS")
      BY <2>1, <2>3, <2>4 DEF IsActive
    <2>8. trip' \in [Trips -> TripRec] BY <1>3, Types
    <2> QED BY <1>2, <1>3, <2>2, <2>3, <2>4, <2>5, <2>6, <2>7, <2>8, Inactive
  <1> QED BY <1>3, <1>4, <1>5, <1>6

LEMMA CancelAllHolds ==
  ASSUME Inv, NEW c \in Calls, CancelAllWrites(c)
  PROVE  Inv' /\ MovesForward
  <1> c \in Processes BY DEF Processes
  <1>1. PICK S : S = call[c].gone OBVIOUS
  <1>2. S \in SUBSET Orders BY <1>1, Types DEF CallRec
  <1>3. PICK r \in CallRec : Step(c, r) /\ r.pc \in {"idle", "done"}
    BY OverStep DEF CancelAllWrites
  <1>4. /\ \A q \in S : OrderFree(q)
        /\ trip' = trip
        /\ misled' = misled
        /\ order' = [q \in Orders |-> IF q \in S THEN HandedBack(q) ELSE order[q]]
    BY <1>1 DEF CancelAllWrites, find
  <1>5. order' \in [Orders -> OrderRec] BY <1>4, HandedBackOrder, Types
  <1>6. \A q \in S : \A e \in Processes \ {c} : Marked(e) => call[e].order # q
    BY <1>2, <1>4, Unmarked
  <1>7. \A q \in S : ~IsActive(order'[q])
                    /\ (order'[q].status = "COMPLETED" => order[q].status = "IN_PROGRESS")
    BY <1>2, <1>4, HandedBackOrder DEF IsActive
  <1>8. \A q \in Orders \ S : order'[q] = order[q] BY <1>4
  <1>9. trip' \in [Trips -> TripRec] BY <1>4, Types
  <1> QED BY <1>2, <1>3, <1>4, <1>5, <1>6, <1>7, <1>8, <1>9, Inactive

\* Cancellable excludes an order in progress, and so a marked one
LEMMA PassengerHolds ==
  ASSUME Inv, NEW c \in Calls, PassengerWrites(c)
  PROVE  Inv' /\ MovesForward
  <1> c \in Processes BY DEF Processes
  <1>1. PICK o : o = call[c].order OBVIOUS
  <1>2. PICK r \in CallRec : Step(c, r) /\ r.pc \in {"idle", "done"}
    BY OverStep DEF PassengerWrites
  <1>3. trip' = trip /\ misled' = misled BY DEF PassengerWrites, find
  <1>4. \/ order' = order
        \/ Cancellable(o) /\ order' = [order EXCEPT ![o].status = "CANCELLED"]
    BY <1>1 DEF PassengerWrites
  <1>5. CASE order' = order BY <1>2, <1>3, <1>5, Quiet
  <1>6. ASSUME Cancellable(o), order' = [order EXCEPT ![o].status = "CANCELLED"]
        PROVE  Inv' /\ MovesForward
    <2>1. CASE o \notin Orders
      <3>1. order' = order BY <1>6, <2>1, Types
      <3> QED BY <1>2, <1>3, <3>1, Quiet
    <2>2. ASSUME o \in Orders PROVE Inv' /\ MovesForward
      <3>1. order' \in [Orders -> OrderRec] BY <1>6, <2>2, Types DEF OrderRec
      <3>2. /\ order'[o].status = "CANCELLED" /\ \A q \in Orders \ {o} : order'[q] = order[q]
        BY <1>6, <2>2, Types DEF OrderRec
      <3>3. PICK S : S = {o} OBVIOUS
      <3>4. S \in SUBSET Orders BY <2>2, <3>3
      <3>5. \A q \in S : \A e \in Processes \ {c} : Marked(e) => call[e].order # q
        BY <1>6, <3>3, InvMarks DEF Cancellable
      <3>6. \A q \in S : ~IsActive(order'[q])
                        /\ (order'[q].status = "COMPLETED" => order[q].status = "IN_PROGRESS")
        BY <3>2, <3>3 DEF IsActive
      <3>7. trip' \in [Trips -> TripRec] BY <1>3, Types
      <3> QED BY <1>2, <1>3, <3>1, <3>2, <3>3, <3>4, <3>5, <3>6, <3>7, Inactive
    <2> QED BY <2>1, <2>2
  <1> QED BY <1>4, <1>5, <1>6

LEMMA TripOrderResetHolds ==
  ASSUME Inv, NEW c \in Calls, NEW o \in Orders, TripOrderReset(c, o)
  PROVE  Inv' /\ MovesForward
  <1> c \in Processes BY DEF Processes
  <1>1. ASSUME order[o].driver = None PROVE Inv' /\ MovesForward
    BY <1>1, OverQuiet DEF TripOrderReset, rows, find
  <1>2. ASSUME order[o].driver # None PROVE Inv' /\ MovesForward
    <2>1. PICK r : r = [call[c] EXCEPT !.todo = {p \in @ : p[1] # o}, !.gone = @ \cup {o}] OBVIOUS
    <2>2. call[c] \in CallRec /\ call[c].pc = "tripCancel" BY Types DEF TripOrderReset
    <2>3. r \in CallRec /\ r.pc = "tripCancel" BY <2>1, <2>2 DEF CallRec
    <2>4. /\ Step(c, r) /\ OrderFree(o) /\ trip' = trip
          /\ order' = [order EXCEPT ![o] = HandedBack(o)] /\ misled' = misled
      BY <1>2, <2>1 DEF TripOrderReset, find
    <2>5. HandedBack(o) \in OrderRec /\ HandedBack(o).status = "PENDING" BY HandedBackOrder
    <2>6. order' \in [Orders -> OrderRec] /\ trip' \in [Trips -> TripRec] BY <2>4, <2>5, Types
    <2>7. order'[o] = HandedBack(o) /\ \A q \in Orders \ {o} : order'[q] = order[q]
      BY <2>4, Types
    <2>8. PICK S : S = {o} OBVIOUS
    <2>9. S \in SUBSET Orders BY <2>8
    <2>10. \A q \in S : \A e \in Processes \ {c} : Marked(e) => call[e].order # q
      BY <2>4, <2>8, Unmarked
    <2>11. \A q \in S : ~IsActive(order'[q])
                       /\ (order'[q].status = "COMPLETED" => order[q].status = "IN_PROGRESS")
      BY <2>5, <2>7, <2>8 DEF IsActive
    <2> QED BY <2>3, <2>4, <2>6, <2>7, <2>8, <2>9, <2>10, <2>11, Inactive
  <1> QED BY <1>1, <1>2

LEMMA TripCancelCommitsHolds ==
  ASSUME Inv, NEW c \in Calls, TripCancelCommits(c)
  PROVE  Inv' /\ MovesForward
  <1> c \in Processes BY DEF Processes
  <1>1. PICK S : S = call[c].gone OBVIOUS
  <1>2. S \in SUBSET Orders BY <1>1, Types DEF CallRec
  <1>3. PICK r : r = [call[c] EXCEPT !.pc = "tripClosing", !.gone = {}] OBVIOUS
  <1>4. call[c] \in CallRec BY Types
  <1>5. r \in CallRec /\ r.pc = "tripClosing" BY <1>3, <1>4 DEF CallRec
  <1>6. /\ Step(c, r) /\ \A q \in S : OrderFree(q)
        /\ trip' = trip /\ misled' = misled
        /\ order' = [q \in Orders |-> IF q \in S THEN [order[q] EXCEPT !.status = "CANCELLED"]
                                              ELSE order[q]]
    BY <1>1, <1>3 DEF TripCancelCommits, find
  <1>7. order' \in [Orders -> OrderRec] /\ trip' \in [Trips -> TripRec]
    BY <1>6, Types DEF OrderRec
  <1>8. \A q \in S : \A e \in Processes \ {c} : Marked(e) => call[e].order # q
    BY <1>2, <1>6, Unmarked
  <1>9. \A q \in S : order'[q].status = "CANCELLED" BY <1>2, <1>6, Types DEF OrderRec
  <1>10. \A q \in S : ~IsActive(order'[q])
                     /\ (order'[q].status = "COMPLETED" => order[q].status = "IN_PROGRESS")
    BY <1>9 DEF IsActive
  <1>11. \A q \in Orders \ S : order'[q] = order[q] BY <1>6
  <1> QED BY <1>2, <1>5, <1>6, <1>7, <1>8, <1>10, <1>11, Inactive

--------------------------------------------------------------------------------
(* Steps that close a trip *)

\* No order is written
LEMMA Closing ==
  ASSUME Inv, NEW c \in Processes, NEW r \in CallRec, Step(c, r),
         r.pc \notin {"completing", "marked"}, UNCHANGED order,
         trip' \in [Trips -> TripRec],
         \A t \in Trips : /\ trip'[t].driver = trip[t].driver
                          /\ trip'[t].status = "unused" => trip[t].status = "unused",
         UNCHANGED misled
  PROVE  Inv' /\ MovesForward
  <1>1. PICK S : S = {} OBVIOUS
  <1>2. S \in SUBSET Orders /\ \A q \in Orders \ S : order'[q] = order[q] BY <1>1
  <1>3. order' \in [Orders -> OrderRec] BY Types
  <1>4. \A q \in S : \A e \in Processes \ {c} : Marked(e) => call[e].order # q BY <1>1
  <1>5. \A q \in S : ~IsActive(order'[q])
                    /\ (order'[q].status = "COMPLETED" => order[q].status = "IN_PROGRESS")
    BY <1>1
  <1> QED BY <1>2, <1>3, <1>4, <1>5, Inactive

LEMMA TripClosesHolds ==
  ASSUME Inv, NEW c \in Calls, TripCloses(c)
  PROVE  Inv' /\ MovesForward
  <1> c \in Processes BY DEF Processes
  <1>1. PICK r \in CallRec : Step(c, r) /\ r.pc \in {"idle", "done"}
    BY OverStep DEF TripCloses
  <1>2. /\ order' = order /\ misled' = misled
        /\ trip' = [trip EXCEPT ![call[c].trip].status = "CANCELLED"]
    BY DEF TripCloses, find
  <1>3. /\ trip' \in [Trips -> TripRec]
        /\ \A t \in Trips : /\ trip'[t].driver = trip[t].driver
                            /\ trip'[t].status = "unused" => trip[t].status = "unused"
    BY <1>2, Types DEF TripRec
  <1> QED BY <1>1, <1>2, <1>3, Closing

LEMMA AutoClosesHolds ==
  ASSUME Inv, NEW w \in Workers, AutoCloses(w)
  PROVE  Inv' /\ MovesForward
  <1> w \in Processes BY DEF Processes
  <1>1. PICK r : r = [call[w] EXCEPT !.pc = "freeing"] OBVIOUS
  <1>2. call[w] \in CallRec BY Types
  <1>3. r \in CallRec /\ r.pc = "freeing" /\ Step(w, r) /\ UNCHANGED <<order, misled>>
    BY <1>1, <1>2 DEF CallRec, AutoCloses, find
  <1>4. trip' \in {trip, [trip EXCEPT ![call[w].trip].status = "COMPLETED"]}
    BY DEF AutoCloses
  <1>5. /\ trip' \in [Trips -> TripRec]
        /\ \A t \in Trips : /\ trip'[t].driver = trip[t].driver
                            /\ trip'[t].status = "unused" => trip[t].status = "unused"
    BY <1>4, Types DEF TripRec
  <1> QED BY <1>3, <1>5, Closing

LEMMA CompleteCommitsHolds ==
  ASSUME Inv, NEW c \in Processes, CompleteCommits(c)
  PROVE  Inv' /\ MovesForward
  <1>1. PICK o : o = call[c].order OBVIOUS
  <1>2. o \in Orders BY <1>1 DEF CompleteCommits, Inv, Processes
  <1>3. PICK r : r = [call[c] EXCEPT !.pc = "listed", !.order = None, !.ride = None,
                                     !.hit = FALSE, !.last = FALSE]
    OBVIOUS
  <1>4. call[c] \in CallRec /\ call[c].pc = "marked" BY Types DEF CompleteCommits
  <1>5. r \in CallRec /\ r.pc = "listed" /\ Step(c, r) /\ misled' = misled
    BY <1>3, <1>4 DEF CallRec, CompleteCommits, find
  <1>6. trip' \in {trip, [trip EXCEPT ![call[c].ride].status = "COMPLETED"]}
    BY DEF CompleteCommits
  <1>7. /\ trip' \in [Trips -> TripRec]
        /\ \A t \in Trips : /\ trip'[t].driver = trip[t].driver
                            /\ trip'[t].status = "unused" => trip[t].status = "unused"
    BY <1>6, Types DEF TripRec
  <1>8. ASSUME call[c].hit PROVE Inv' /\ MovesForward
    <2>1. order' = [order EXCEPT ![o].status = "COMPLETED"] BY <1>1, <1>8 DEF CompleteCommits
    <2>2. /\ order' \in [Orders -> OrderRec] /\ order'[o].status = "COMPLETED"
          /\ \A q \in Orders \ {o} : order'[q] = order[q]
      BY <1>2, <2>1, Types DEF OrderRec
    <2>3. Marked(c) BY <1>4, <1>8 DEF Marked
    <2>4. PICK S : S = {o} OBVIOUS
    <2>5. S \in SUBSET Orders BY <1>2, <2>4
    <2>6. \A q \in S : \A e \in Processes \ {c} : Marked(e) => call[e].order # q
      BY <1>1, <2>3, <2>4, InvMarks
    <2>7. \A q \in S : ~IsActive(order'[q])
                      /\ (order'[q].status = "COMPLETED" => order[q].status = "IN_PROGRESS")
      BY <1>1, <2>2, <2>3, <2>4, InvMarks DEF IsActive
    <2> QED BY <1>5, <1>7, <2>2, <2>4, <2>5, <2>6, <2>7, Inactive
  <1>9. ASSUME ~call[c].hit PROVE Inv' /\ MovesForward
    <2>1. order' = order BY <1>9 DEF CompleteCommits
    <2> QED BY <1>5, <1>7, <2>1, Closing
  <1> QED BY <1>8, <1>9

--------------------------------------------------------------------------------
(* Every step *)

LEMMA InitHolds == Init => Inv
  BY ConstantsAssumption DEF Init, New, Inv, OrderRec, TripRec, CallRec, RidesWithItsDriver,
     Active, CompletionHolds

LEMMA StepHolds == Inv /\ [Next]_vars => Inv' /\ [MovesForward]_vars
  <1> SUFFICES ASSUME Inv, [Next]_vars PROVE Inv' /\ [MovesForward]_vars
    OBVIOUS
  <1>1. CASE UNCHANGED vars BY <1>1, NoRow DEF vars, rows, tasks, find
  <1>2. ASSUME NEW d \in Drivers, NEW n \in SeatChoices, GoesOnline(d, n)
        PROVE  Inv' /\ MovesForward
    BY <1>2, NoRow DEF GoesOnline, find
  <1>3. ASSUME NEW d \in Drivers, AcceptClearsFlag(d) PROVE Inv' /\ MovesForward
    BY <1>3, NoRow DEF AcceptClearsFlag, find
  <1>4. ASSUME NEW t \in Trips, AutoStartFails(t) PROVE Inv' /\ MovesForward
    BY <1>4, NoRow DEF AutoStartFails, rows, find
  <1>5. ASSUME NEW c \in Processes, CompleteStep(c) PROVE Inv' /\ MovesForward
    BY <1>5, CompleteReadsQuiet, CompleteMarksHolds, CompleteCommitsHolds DEF CompleteStep
  <1>6. ASSUME NEW c \in Calls, Presses(c) PROVE Inv' /\ MovesForward
    <2>1. ASSUME NEW d \in Drivers, NEW o \in Orders, StartReads(c, d, o) \/ GivesUpReads(c, d, o)
          PROVE  Inv' /\ MovesForward
      BY <2>1, StartGivesUpQuiet
    <2>2. ASSUME NEW d \in Drivers, NEW o \in Orders, ManualReads(c, d, o)
          PROVE  Inv' /\ MovesForward
      BY <2>2, ManualReadsHolds
    <2>3. ASSUME NEW d \in Drivers, ManualCleansUp(c, d) PROVE Inv' /\ MovesForward
      BY <2>3, CleansUpQuiet DEF Processes
    <2>4. ASSUME NEW d \in Drivers, CancelAllReads(c, d) PROVE Inv' /\ MovesForward
      BY <2>4, CancelAllQuiet
    <2>5. ASSUME NEW o \in Orders, PassengerReads(c, o) PROVE Inv' /\ MovesForward
      BY <2>5, PassengerQuiet
    <2>6. ASSUME NEW t \in Trips, TripCancelReads(c, t) PROVE Inv' /\ MovesForward
      BY <2>6, TripCancelQuiet
    <2> QED BY <1>6, <2>1, <2>2, <2>3, <2>4, <2>5, <2>6 DEF Presses
  <1>7. ASSUME NEW c \in Calls, CallStep(c) PROVE Inv' /\ MovesForward
    <2>1. c \in Processes BY DEF Processes
    <2>2. CASE StartSchedules(c) \/ ManualEnds(c) BY <2>1, <2>2, EndsQuiet
    <2>3. CASE ~(StartSchedules(c) \/ ManualEnds(c))
      BY <1>5, <1>7, <2>1, <2>3, StartCommitsHolds, GivesUpHolds, CancelAllHolds, PassengerHolds,
         TripOrderResetHolds, TripCancelCommitsHolds, TripClosesHolds DEF CallStep
    <2> QED BY <2>2, <2>3
  <1>8. ASSUME NEW w \in Workers, WorkerStep(w) PROVE Inv' /\ MovesForward
    <2>1. w \in Processes BY DEF Processes
    <2> QED BY <1>5, <1>8, <2>1, AutoReadsQuiet, AutoClosesHolds, EndsQuiet DEF WorkerStep
  <1>9. ASSUME NEW c \in Processes, CompleteFails(c) \/ Dies(c) PROVE Inv' /\ MovesForward
    BY <1>9, CompleteFailsQuiet, EndsQuiet
  <1>10. CASE Next
    BY <1>2, <1>3, <1>4, <1>6, <1>7, <1>8, <1>9, <1>10, FindReadsEndsHolds, FindWritesHolds,
       AcceptHolds, AutoStartHolds, ConstantsAssumption
    DEF Next, Processes
  <1> QED BY <1>1, <1>10

--------------------------------------------------------------------------------
(* The rest of the types: what a call has read, and the counts of messages *)

\* What a call has read is there when it writes
CallsRefer ==
  \A c \in Processes :
    /\ call[c].pc \in {"starting", "givingUp", "cancelling"} => call[c].order \in Orders
    /\ c \in Calls /\ call[c].pc \in {"listed", "completing", "marked"} => call[c].trip \in Trips

\* A worker's message stays until it has done with it
TimersCover ==
  /\ timer \in [Trips -> Nat]
  /\ \A t \in Trips : Cardinality(Running(t)) <= timer[t]

RestTyped ==
  /\ driver \in [Drivers -> DriverRec]
  /\ starts \subseteq Trips
  /\ faults \in 0 .. MaxFaults
  /\ dropped \subseteq Trips

FindTyped == finding \subseteq Orders /\ misled \subseteq Orders

TypesInv == Inv /\ RestTyped /\ CallsRefer /\ TimersCover /\ FindTyped

LEMMA RunningFinite ==
  ASSUME NEW t
  PROVE  /\ IsFiniteSet(Running(t)) /\ Cardinality(Running(t)) \in Nat
         /\ \A w \in Running(t) : Cardinality(Running(t) \ {w}) = Cardinality(Running(t)) - 1
                                  /\ Cardinality(Running(t)) > 0
         /\ \A w : w \notin Running(t) => Cardinality(Running(t) \cup {w}) = Cardinality(Running(t)) + 1
<1>1. Running(t) \subseteq Workers /\ IsFiniteSet(Workers)
  BY ConstantsAssumption DEF Running
<1>2. IsFiniteSet(Running(t)) /\ Cardinality(Running(t)) \in Nat
  BY <1>1, FS_Subset, FS_CardinalityType
<1>3. \A w \in Running(t) : Cardinality(Running(t) \ {w}) = Cardinality(Running(t)) - 1
  BY <1>2, FS_RemoveElement
<1>4. \A w \in Running(t) : Cardinality(Running(t)) > 0
  <2> SUFFICES ASSUME NEW w \in Running(t) PROVE Cardinality(Running(t)) > 0
    OBVIOUS
  <2>1. Cardinality(Running(t)) # 0
    BY <1>2, FS_EmptySet
  <2> QED
    BY <1>2, <2>1
<1>5. \A w : w \notin Running(t) => Cardinality(Running(t) \cup {w}) = Cardinality(Running(t)) + 1
  BY <1>2, FS_AddElement
<1> QED
  BY <1>2, <1>3, <1>4, <1>5

--------------------------------------------------------------------------------
(* The driver's row and what breaks off *)

LEMMA CappedFits ==
  ASSUME NEW m \in 0 .. MaxSeats, NEW n \in 1 .. MaxSeats
  PROVE  Capped(m + n) \in 0 .. MaxSeats /\ (SeatsAllowed(m + n) => m + n \in 0 .. MaxSeats)
BY ConstantsAssumption DEF Capped, SeatsAllowed

LEMMA OfflineFits ==
  ASSUME NEW n \in 0 .. MaxSeats
  PROVE  Offline(n) \in DriverRec
BY DEF Offline, DriverRec

\* A driver whose flags or seats are written
LEMMA RowFits ==
  ASSUME NEW f \in [Drivers -> DriverRec], NEW d, NEW b \in BOOLEAN
  PROVE  /\ [f EXCEPT ![d].onTrip = b] \in [Drivers -> DriverRec]
         /\ [f EXCEPT ![d].onTrip = b, ![d].active = FALSE] \in [Drivers -> DriverRec]
         /\ \A n \in 0 .. MaxSeats :
              /\ [f EXCEPT ![d].seats = n] \in [Drivers -> DriverRec]
              /\ [f EXCEPT ![d].seats = n, ![d].onTrip = b] \in [Drivers -> DriverRec]
              /\ [f EXCEPT ![d] = [seats |-> n, onTrip |-> b, active |-> TRUE]] \in [Drivers -> DriverRec]
              /\ [f EXCEPT ![d] = Offline(n)] \in [Drivers -> DriverRec]
BY DEF DriverRec, Offline

\* One call moves
LEMMA ReferKept ==
  ASSUME CallsRefer, call \in [Processes -> CallRec], NEW c \in Processes, NEW r \in CallRec, Step(c, r),
         r.pc \in {"starting", "givingUp", "cancelling"} => r.order \in Orders,
         c \in Calls /\ r.pc \in {"listed", "completing", "marked"} => r.trip \in Trips
  PROVE  CallsRefer'
BY DEF CallsRefer, Step

LEMMA OverRefers ==
  ASSUME CallsRefer, call \in [Processes -> CallRec], NEW c \in Processes, Over(c)
  PROVE  CallsRefer'
<1>1. PICK r \in CallRec : Step(c, r) /\ r.pc \in {"idle", "done"}
  BY OverStep
<1> QED
  BY <1>1, ReferKept

Kept == RestTyped /\ CallsRefer

\* Nobody's call, but for the taking and the starting of orders
LEMMA PlainKeeps ==
  ASSUME Inv, Kept,
         \/ \E d \in Drivers, n \in SeatChoices : GoesOnline(d, n)
         \/ \E o \in Orders : FindReads(o) \/ FindEnds(o)
         \/ \E o \in Orders, d \in Drivers : FindWrites(o, d)
         \/ \E d \in Drivers, o \in Orders, t \in Trips : Accept(d, o, t)
         \/ \E d \in Drivers : AcceptClearsFlag(d)
         \/ \E t \in Trips : AutoStart(t) \/ AutoStartFails(t)
  PROVE  Kept'
<1>0. /\ driver \in [Drivers -> DriverRec] /\ starts \subseteq Trips /\ faults \in 0 .. MaxFaults
      /\ dropped \subseteq Trips /\ CallsRefer
  BY DEF Kept, RestTyped
<1>1. ASSUME UNCHANGED <<starts, call, faults, dropped>>, driver' \in [Drivers -> DriverRec]
      PROVE  Kept'
  BY <1>0, <1>1 DEF Kept, RestTyped, CallsRefer
<1>2. ASSUME NEW d \in Drivers, NEW n \in SeatChoices, GoesOnline(d, n) PROVE Kept'
  <2>1. n \in 0 .. MaxSeats
    BY ConstantsAssumption
  <2> QED
    BY <1>0, <1>1, <1>2, <2>1, RowFits DEF GoesOnline, tasks
<1>3. ASSUME NEW o \in Orders,
             FindReads(o) \/ FindEnds(o) \/ \E d \in Drivers : FindWrites(o, d)
      PROVE  Kept'
  BY <1>0, <1>1, <1>3 DEF FindReads, FindEnds, FindWrites, rows, tasks
<1>4. ASSUME NEW d \in Drivers, NEW o \in Orders, NEW t \in Trips, Accept(d, o, t) PROVE Kept'
  <2>1. PICK left : /\ left = driver[d].seats - Seats[o] /\ left >= 0
                    /\ driver' = [driver EXCEPT ![d].seats = left]
                    /\ starts' = IF left < 1 THEN starts \cup {t} ELSE starts
                    /\ UNCHANGED <<call, faults, dropped>>
    BY <1>4 DEF Accept
  <2>2. left \in 0 .. MaxSeats
    <3>1. driver[d].seats \in 0 .. MaxSeats /\ Seats[o] \in 1 .. MaxSeats /\ MaxSeats \in Nat
      BY <1>0, ConstantsAssumption DEF DriverRec
    <3> QED
      BY <2>1, <3>1
  <2>3. driver' \in [Drivers -> DriverRec]
    BY <1>0, <2>1, <2>2 DEF DriverRec
  <2> QED
    BY <1>0, <2>1, <2>3 DEF Kept, RestTyped, CallsRefer
<1>5. ASSUME NEW d \in Drivers, AcceptClearsFlag(d) PROVE Kept'
  BY <1>0, <1>1, <1>5, RowFits DEF AcceptClearsFlag, tasks
<1>6. ASSUME NEW t \in Trips, AutoStart(t) \/ AutoStartFails(t) PROVE Kept'
  <2>1. driver' \in [Drivers -> DriverRec]
    <3>1. \/ driver' = [driver EXCEPT ![trip[t].driver].onTrip = TRUE, ![trip[t].driver].active = FALSE]
          \/ driver' = driver
      BY <1>6 DEF AutoStart, AutoStartFails, rows
    <3>2. [driver EXCEPT ![trip[t].driver].onTrip = TRUE, ![trip[t].driver].active = FALSE]
            \in [Drivers -> DriverRec]
      BY <1>0, RowFits
    <3> QED
      BY <1>0, <3>1, <3>2
  <2>2. /\ starts' \subseteq Trips /\ UNCHANGED <<call, dropped>>
        /\ faults' = faults \/ (faults < MaxFaults /\ faults' = faults + 1)
    BY <1>0, <1>6 DEF AutoStart, AutoStartFails
  <2>3. faults' \in 0 .. MaxFaults
    BY <1>0, <2>2, ConstantsAssumption
  <2> QED
    BY <1>0, <2>1, <2>2, <2>3 DEF Kept, RestTyped, CallsRefer
<1> QED
  BY <1>2, <1>3, <1>4, <1>5, <1>6

LEMMA PressesKeep ==
  ASSUME Inv, Kept, NEW c \in Calls, Presses(c)
  PROVE  Kept'
<1>0. /\ driver \in [Drivers -> DriverRec] /\ starts \subseteq Trips /\ faults \in 0 .. MaxFaults
      /\ dropped \subseteq Trips /\ CallsRefer /\ call \in [Processes -> CallRec] /\ c \in Processes
  BY Types DEF Kept, RestTyped, Processes
<1>1. ASSUME UNCHANGED <<starts, faults, dropped>>, driver' \in [Drivers -> DriverRec], CallsRefer'
      PROVE  Kept'
  BY <1>0, <1>1 DEF Kept, RestTyped
<1>2. ASSUME NEW d \in Drivers, NEW o \in Orders, StartReads(c, d, o) \/ GivesUpReads(c, d, o)
      PROVE  Kept'
  <2>1. PICK r : /\ Step(c, r)
                 /\ \/ /\ order[o].status = "ACCEPTED" /\ order[o].driver = d
                       /\ r = [New EXCEPT !.pc = "starting", !.order = o, !.driver = d,
                                          !.trip = order[o].trip]
                    \/ r = [New EXCEPT !.pc = "givingUp", !.order = o, !.driver = d]
    BY <1>2 DEF StartReads, GivesUpReads
  <2>2. r \in CallRec /\ r.pc \in {"starting", "givingUp"} /\ r.order = o
    <3>1. order[o].trip \in Trips \cup {None}
      BY Types DEF OrderRec
    <3> QED
      BY <2>1, <3>1 DEF New, CallRec
  <2>3. CallsRefer'
    BY <1>0, <2>1, <2>2, ReferKept
  <2> QED
    BY <1>0, <1>1, <1>2, <2>3 DEF StartReads, GivesUpReads, rows, tasks
<1>3. ASSUME NEW d \in Drivers, NEW o \in Orders, ManualReads(c, d, o) PROVE Kept'
  <2>1. PICK r : /\ Step(c, r)
                 /\ r = [New EXCEPT !.pc = "listed", !.trip = order[o].trip,
                           !.todo = {q \in Orders : order[q].trip = order[o].trip /\ order[q].driver = d
                                                    /\ Active(q)} \X {d}]
    BY <1>3 DEF ManualReads
  <2>2. order[o].trip \in Trips
    <3>1. Rides(o, order[o], trip, misled)
      BY <1>3, InvRides DEF ManualReads, Active, IsActive
    <3>2. order[o].trip \in Trips \cup {None}
      BY Types DEF OrderRec
    <3> QED
      BY <3>1, <3>2 DEF Rides
  <2>3. r \in CallRec /\ r.pc = "listed" /\ r.trip \in Trips
    BY <2>1, <2>2 DEF New, CallRec
  <2>4. CallsRefer'
    BY <1>0, <2>1, <2>3, ReferKept
  <2> QED
    BY <1>0, <1>1, <1>3, <2>4 DEF ManualReads, tasks
<1>4. ASSUME NEW d \in Drivers, ManualCleansUp(c, d) PROVE Kept'
  <2>1. CallsRefer'
    BY <1>0, <1>4, OverRefers DEF ManualCleansUp
  <2>2. driver' \in [Drivers -> DriverRec]
    <3>1. 0 \in 0 .. MaxSeats
      BY ConstantsAssumption
    <3>2. [driver EXCEPT ![d] = Offline(0)] \in [Drivers -> DriverRec]
      BY <1>0, <3>1, OfflineFits
    <3> QED
      BY <1>4, <3>2 DEF ManualCleansUp
  <2> QED
    BY <1>1, <1>4, <2>1, <2>2 DEF ManualCleansUp, tasks
<1>5. ASSUME NEW d \in Drivers, CancelAllReads(c, d) PROVE Kept'
  <2>1. PICK r : Step(c, r) /\ r = [New EXCEPT !.pc = "cancellingAll", !.driver = d, !.gone = HeldBy(d)]
    BY <1>5 DEF CancelAllReads
  <2>2. r \in CallRec /\ r.pc = "cancellingAll"
    BY <2>1 DEF New, CallRec, HeldBy
  <2>3. CallsRefer'
    BY <1>0, <2>1, <2>2, ReferKept
  <2> QED
    BY <1>0, <1>1, <1>5, <2>3 DEF CancelAllReads, rows, tasks
<1>6. ASSUME NEW o \in Orders, PassengerReads(c, o) PROVE Kept'
  <2>1. PICK r : Step(c, r) /\ r = [New EXCEPT !.pc = "cancelling", !.order = o,
                                               !.driver = order[o].driver]
    BY <1>6 DEF PassengerReads
  <2>2. r \in CallRec /\ r.pc = "cancelling" /\ r.order = o
    <3>1. order[o].driver \in Drivers \cup {None}
      BY Types DEF OrderRec
    <3> QED
      BY <2>1, <3>1 DEF New, CallRec
  <2>3. CallsRefer'
    BY <1>0, <2>1, <2>2, ReferKept
  <2> QED
    BY <1>0, <1>1, <1>6, <2>3 DEF PassengerReads, rows, tasks
<1>7. ASSUME NEW t \in Trips, TripCancelReads(c, t) PROVE Kept'
  <2>1. PICK r \in CallRec : Step(c, r) /\ r.pc = "tripCancel"
    <3> DEFINE mine == {o \in Orders : order[o].trip = t /\ order[o].status = "ACCEPTED"}
    <3>1. PICK m : m = mine \X {trip[t].driver}
      OBVIOUS
    <3>2. m \subseteq Orders \X Drivers
      <4>1. trip[t].driver \in Drivers \cup {None}
        BY Types DEF TripRec
      <4>2. ASSUME NEW o \in mine PROVE trip[t].driver # None
        BY <4>2, InvRides DEF IsActive, Rides
      <4> QED
        BY <3>1, <4>1, <4>2
    <3>3. PICK r : Step(c, r) /\ r = [New EXCEPT !.pc = "tripCancel", !.trip = t,
                                        !.driver = trip[t].driver, !.todo = m]
      BY <1>7, <3>1 DEF TripCancelReads
    <3>4. trip[t].driver \in Drivers \cup {None}
      BY Types DEF TripRec
    <3>5. r \in CallRec /\ r.pc = "tripCancel"
      BY <3>2, <3>3, <3>4 DEF New, CallRec
    <3> QED
      BY <3>3, <3>5
  <2>2. CallsRefer'
    BY <1>0, <2>1, ReferKept
  <2> QED
    BY <1>0, <1>1, <1>7, <2>2 DEF TripCancelReads, rows, tasks
<1> QED
  BY <1>2, <1>3, <1>4, <1>5, <1>6, <1>7 DEF Presses

LEMMA CompleteStepKeeps ==
  ASSUME Inv, Kept, NEW c \in Processes, CompleteStep(c)
  PROVE  Kept'
<1>0. /\ driver \in [Drivers -> DriverRec] /\ CallsRefer /\ call \in [Processes -> CallRec]
      /\ call[c] \in CallRec
  BY Types DEF Kept, RestTyped
<1>1. ASSUME UNCHANGED <<starts, faults, dropped>>, driver' \in [Drivers -> DriverRec],
             NEW r \in CallRec, Step(c, r), r.pc \in {"listed", "completing", "marked"},
             r.trip = call[c].trip, call[c].pc \in {"listed", "completing", "marked"}
      PROVE  Kept'
  <2>1. CallsRefer'
    BY <1>0, <1>1, ReferKept DEF CallsRefer
  <2> QED
    BY <1>1, <2>1 DEF Kept, RestTyped
<1>2. ASSUME NEW o \in Orders, NEW d \in Drivers, CompleteReads(c, o, d) PROVE Kept'
  <2>1. PICK q : q = [call[c] EXCEPT !.todo = @ \ {<<o, d>>}, !.driver = d]
    OBVIOUS
  <2>2. q \in CallRec /\ q.pc = call[c].pc /\ q.trip = call[c].trip
    BY <1>0, <2>1 DEF CallRec
  <2>3. PICK r : Step(c, r) /\ r \in {q, [q EXCEPT !.pc = "completing", !.order = o]}
    BY <1>2, <2>1 DEF CompleteReads
  <2>4. r \in CallRec /\ r.pc \in {"listed", "completing"} /\ r.trip = call[c].trip
    BY <1>2, <2>2, <2>3 DEF CallRec, CompleteReads
  <2> QED
    BY <1>0, <1>1, <1>2, <2>3, <2>4 DEF CompleteReads, rows, tasks
<1>3. ASSUME CompleteMarks(c) PROVE Kept'
  <2>1. PICK h, l, r :
          /\ h \in BOOLEAN /\ l \in BOOLEAN
          /\ Step(c, r)
          /\ r = [call[c] EXCEPT !.pc = "marked", !.hit = h, !.ride = order[call[c].order].trip, !.last = l]
    BY <1>3 DEF CompleteMarks, InProgress
  <2>2. call[c].order \in Orders
    BY <1>3 DEF CompleteMarks, Inv, Processes
  <2>3. order[call[c].order].trip \in Trips \cup {None}
    BY <2>2, Types DEF OrderRec
  <2>4. r \in CallRec /\ r.pc = "marked" /\ r.trip = call[c].trip
    BY <1>0, <2>1, <2>3 DEF CallRec
  <2> QED
    BY <1>0, <1>1, <1>3, <2>1, <2>4 DEF CompleteMarks, rows, tasks
<1>4. ASSUME CompleteCommits(c) PROVE Kept'
  <2>1. PICK r : /\ Step(c, r)
                 /\ r = [call[c] EXCEPT !.pc = "listed", !.order = None, !.ride = None, !.hit = FALSE,
                                        !.last = FALSE]
    BY <1>4 DEF CompleteCommits
  <2>2. r \in CallRec /\ r.pc = "listed" /\ r.trip = call[c].trip
    BY <1>0, <2>1 DEF CallRec
  <2>3. call[c].order \in Orders
    BY <1>4 DEF CompleteCommits, Inv, Processes
  <2>4. driver' \in [Drivers -> DriverRec]
    <3> DEFINE d == call[c].driver
               seats == Capped(driver[d].seats + Seats[call[c].order])
    <3>1. d \in Drivers => seats \in 0 .. MaxSeats
      BY <1>0, <2>3, CappedFits, ConstantsAssumption DEF DriverRec
    <3>2. \/ driver' = [driver EXCEPT ![d] = Offline(seats)]
          \/ driver' = [driver EXCEPT ![d] = [@ EXCEPT !.seats = seats]]
      BY <1>4 DEF CompleteCommits
    <3> HIDE DEF seats
    <3>3. d \in Drivers => Offline(seats) \in DriverRec /\ [driver[d] EXCEPT !.seats = seats] \in DriverRec
      BY <1>0, <3>1, OfflineFits DEF DriverRec
    <3> QED
      BY <1>0, <3>2, <3>3
  <2> QED
    BY <1>0, <1>1, <1>4, <2>1, <2>2, <2>4 DEF CompleteCommits, tasks
<1> QED
  BY <1>2, <1>3, <1>4 DEF CompleteStep

LEMMA CallStepKeeps ==
  ASSUME Inv, Kept, NEW c \in Calls, CallStep(c)
  PROVE  Kept'
<1>0. /\ driver \in [Drivers -> DriverRec] /\ starts \subseteq Trips /\ faults \in 0 .. MaxFaults
      /\ dropped \subseteq Trips /\ CallsRefer /\ call \in [Processes -> CallRec] /\ c \in Processes
      /\ call[c] \in CallRec /\ 0 \in 0 .. MaxSeats
  BY Types, ConstantsAssumption DEF Kept, RestTyped, Processes
<1>1. ASSUME UNCHANGED <<starts, faults, dropped>>, driver' \in [Drivers -> DriverRec], CallsRefer'
      PROVE  Kept'
  BY <1>0, <1>1 DEF Kept, RestTyped
<1>2. ASSUME StartCommits(c) PROVE Kept'
  <2>1. PICK o, d, t : o = call[c].order /\ d = call[c].driver /\ t = order[o].trip
    OBVIOUS
  <2>2. CASE StartMatches(o, d)
    <3>1. o \in Orders
      BY <1>0, <1>2, <2>1 DEF StartCommits, CallsRefer
    <3>2. t \in Trips
      <4>1. Rides(o, order[o], trip, misled) /\ order[o].trip \in Trips \cup {None}
        BY <2>2, <3>1, InvRides, Types DEF StartMatches, IsActive, OrderRec
      <4> QED
        BY <2>1, <4>1 DEF Rides
    <3>3. PICK r : Step(c, r) /\ r = [call[c] EXCEPT !.pc = "scheduling"]
      BY <1>2, <2>1, <2>2 DEF StartCommits
    <3>4. r \in CallRec /\ r.pc = "scheduling"
      BY <1>0, <3>3 DEF CallRec
    <3>5. CallsRefer'
      BY <1>0, <3>3, <3>4, ReferKept
    <3>6. /\ driver' = [driver EXCEPT ![d].onTrip = TRUE] /\ UNCHANGED <<starts, faults>>
          /\ dropped' \in {dropped, dropped \cup {t}}
      BY <1>2, <2>1, <2>2 DEF StartCommits, tasks
    <3>7. driver' \in [Drivers -> DriverRec] /\ dropped' \subseteq Trips
      BY <1>0, <3>2, <3>6, RowFits
    <3> QED
      BY <1>0, <3>5, <3>6, <3>7 DEF Kept, RestTyped
  <2>3. CASE ~StartMatches(o, d)
    <3>1. Over(c) /\ UNCHANGED <<driver, starts, faults, dropped>>
      BY <1>2, <2>1, <2>3 DEF StartCommits, rows, tasks
    <3> QED
      BY <1>0, <1>1, <3>1, OverRefers
  <2> QED
    BY <2>2, <2>3
<1>3. ASSUME StartSchedules(c) \/ ManualEnds(c) PROVE Kept'
  BY <1>0, <1>1, <1>3, OverRefers DEF StartSchedules, ManualEnds, rows, tasks
<1>4. ASSUME GivesUpWrites(c) PROVE Kept'
  <2>1. PICK o, d : o = call[c].order /\ d = call[c].driver
    OBVIOUS
  <2>2. o \in Orders
    BY <1>0, <1>4, <2>1 DEF GivesUpWrites, CallsRefer
  <2>3. PICK seats : seats = driver[d].seats + Seats[o]
    OBVIOUS
  <2>4. \/ driver' = driver
        \/ SeatsAllowed(seats) /\ driver' = [driver EXCEPT ![d].seats = seats, ![d].onTrip = FALSE]
    BY <1>4, <2>1, <2>3 DEF GivesUpWrites
  <2>5. driver' \in [Drivers -> DriverRec]
    <3>1. CASE d \in Drivers
      <4>1. SeatsAllowed(seats) => seats \in 0 .. MaxSeats
        BY <1>0, <2>2, <2>3, <3>1, CappedFits, ConstantsAssumption DEF DriverRec
      <4> QED
        BY <1>0, <2>4, <4>1 DEF DriverRec
    <3>2. CASE d \notin Drivers
      BY <1>0, <2>4, <3>2
    <3> QED
      BY <3>1, <3>2
  <2> QED
    BY <1>0, <1>1, <1>4, <2>5, OverRefers DEF GivesUpWrites, tasks
<1>5. ASSUME CancelAllWrites(c) PROVE Kept'
  <2>1. driver' = [driver EXCEPT ![call[c].driver] = Offline(0)]
    BY <1>5 DEF CancelAllWrites
  <2>2. driver' \in [Drivers -> DriverRec]
    BY <1>0, <2>1, OfflineFits
  <2> QED
    BY <1>0, <1>1, <1>5, <2>2, OverRefers DEF CancelAllWrites, tasks
<1>6. ASSUME PassengerWrites(c) PROVE Kept'
  <2>1. PICK o, d : o = call[c].order /\ d = call[c].driver
    OBVIOUS
  <2>2. o \in Orders
    BY <1>0, <1>6, <2>1 DEF PassengerWrites, CallsRefer
  <2>3. \/ driver' = driver
        \/ driver' = [driver EXCEPT ![d].seats = Capped(@ + Seats[o]), ![d].onTrip = FALSE]
    BY <1>6, <2>1 DEF PassengerWrites
  <2>4. driver' \in [Drivers -> DriverRec]
    <3>1. CASE d \in Drivers
      <4>1. Capped(driver[d].seats + Seats[o]) \in 0 .. MaxSeats
        BY <1>0, <2>2, <3>1, CappedFits, ConstantsAssumption DEF DriverRec
      <4>2. PICK n : n = Capped(driver[d].seats + Seats[o])
        OBVIOUS
      <4>3. driver' = driver \/ driver' = [driver EXCEPT ![d].seats = n, ![d].onTrip = FALSE]
        BY <2>3, <4>2
      <4> QED
        BY <1>0, <4>1, <4>2, <4>3 DEF DriverRec
    <3>2. CASE d \notin Drivers
      BY <1>0, <2>3, <3>2
    <3> QED
      BY <3>1, <3>2
  <2> QED
    BY <1>0, <1>1, <1>6, <2>4, OverRefers DEF PassengerWrites, tasks
<1>7. ASSUME NEW o \in Orders, TripOrderReset(c, o) PROVE Kept'
  <2>1. CASE order[o].driver = None
    BY <1>0, <1>1, <1>7, <2>1, OverRefers DEF TripOrderReset, rows, tasks
  <2>2. CASE order[o].driver # None
    <3>1. PICK r : Step(c, r) /\ r = [call[c] EXCEPT !.todo = {p \in @ : p[1] # o}, !.gone = @ \cup {o}]
      BY <1>7, <2>2 DEF TripOrderReset
    <3>2. r \in CallRec /\ r.pc = "tripCancel"
      BY <1>0, <1>7, <3>1 DEF CallRec, TripOrderReset
    <3>3. CallsRefer'
      BY <1>0, <3>1, <3>2, ReferKept
    <3>4. driver' = [driver EXCEPT ![order[o].driver].onTrip = FALSE]
      BY <1>7, <2>2 DEF TripOrderReset
    <3>5. driver' \in [Drivers -> DriverRec]
      BY <1>0, <3>4, RowFits
    <3> QED
      BY <1>1, <1>7, <3>3, <3>5 DEF TripOrderReset, tasks
  <2> QED
    BY <2>1, <2>2
<1>8. ASSUME TripCancelCommits(c) PROVE Kept'
  <2>1. PICK r : Step(c, r) /\ r = [call[c] EXCEPT !.pc = "tripClosing", !.gone = {}]
    BY <1>8 DEF TripCancelCommits
  <2>2. r \in CallRec /\ r.pc = "tripClosing"
    BY <1>0, <2>1 DEF CallRec
  <2>3. CallsRefer'
    BY <1>0, <2>1, <2>2, ReferKept
  <2> QED
    BY <1>0, <1>1, <1>8, <2>3 DEF TripCancelCommits, tasks
<1>9. ASSUME TripCloses(c) PROVE Kept'
  <2>1. driver' = [driver EXCEPT ![call[c].driver] = Offline(0)]
    BY <1>9 DEF TripCloses
  <2>2. driver' \in [Drivers -> DriverRec]
    BY <1>0, <2>1, OfflineFits
  <2> QED
    BY <1>0, <1>1, <1>9, <2>2, OverRefers DEF TripCloses, tasks
<1> QED
  BY <1>0, <1>2, <1>3, <1>4, <1>5, <1>6, <1>7, <1>8, <1>9, CompleteStepKeeps DEF CallStep

LEMMA WorkerStepKeeps ==
  ASSUME Inv, Kept, NEW w \in Workers, WorkerStep(w)
  PROVE  Kept'
<1>0. /\ driver \in [Drivers -> DriverRec] /\ CallsRefer /\ call \in [Processes -> CallRec]
      /\ w \in Processes /\ w \notin Calls /\ call[w] \in CallRec
  BY Types, ConstantsAssumption DEF Kept, RestTyped, Processes
<1>1. ASSUME UNCHANGED <<starts, faults, dropped>>, driver' \in [Drivers -> DriverRec], CallsRefer'
      PROVE  Kept'
  BY <1>1 DEF Kept, RestTyped
<1>2. ASSUME NEW t \in Trips, AutoReads(w, t) PROVE Kept'
  <2>1. CASE UNCHANGED call
    BY <1>0, <1>1, <1>2, <2>1 DEF AutoReads, rows, CallsRefer
  <2>2. CASE ~UNCHANGED call
    <3> DEFINE f == trip[t].status = "ACTIVE"
    <3>0. PICK todo : todo = {<<o, order[o].driver>> : o \in Target(t)}
      OBVIOUS
    <3>1. PICK r : Step(w, r) /\ r = [New EXCEPT !.pc = "listed", !.trip = t, !.todo = todo, !.found = f]
      BY <1>2, <2>2, <3>0 DEF AutoReads
    <3>2. todo \subseteq Orders \X Drivers
      <4>1. \A o \in Target(t) : o \in Orders /\ order[o].status = "IN_PROGRESS"
        BY DEF Target, SameNumber, InProgress
      <4>2. \A o \in Target(t) : order[o].driver \in Drivers
        BY <4>1, InvRides, Types DEF IsActive, Rides, OrderRec
      <4> QED
        BY <3>0, <4>1, <4>2
    <3>3. r \in CallRec /\ r.pc = "listed"
      BY <3>1, <3>2 DEF New, CallRec
    <3>4. CallsRefer'
      BY <1>0, <3>1, <3>3, ReferKept
    <3> QED
      BY <1>0, <1>1, <1>2, <3>4 DEF AutoReads, rows
  <2> QED
    BY <2>1, <2>2
<1>3. ASSUME AutoCloses(w) PROVE Kept'
  <2>1. PICK r : Step(w, r) /\ r = [call[w] EXCEPT !.pc = "freeing"]
    BY <1>3 DEF AutoCloses
  <2>2. r \in CallRec /\ r.pc = "freeing"
    BY <1>0, <2>1 DEF CallRec
  <2>3. CallsRefer'
    BY <1>0, <2>1, <2>2, ReferKept
  <2> QED
    BY <1>0, <1>1, <1>3, <2>3 DEF AutoCloses, tasks
<1>4. ASSUME AutoFrees(w) PROVE Kept'
  <2>1. driver' \in [Drivers -> DriverRec]
    BY <1>0, <1>4, RowFits DEF AutoFrees
  <2> QED
    BY <1>0, <1>1, <1>4, <2>1, OverRefers DEF AutoFrees
<1> QED
  BY <1>0, <1>2, <1>3, <1>4, CompleteStepKeeps DEF WorkerStep

LEMMA BreaksOffKeeps ==
  ASSUME Inv, Kept, NEW c \in Processes, CompleteFails(c) \/ Dies(c)
  PROVE  Kept'
<1>0. /\ driver \in [Drivers -> DriverRec] /\ starts \subseteq Trips /\ faults \in 0 .. MaxFaults
      /\ dropped \subseteq Trips /\ CallsRefer /\ call \in [Processes -> CallRec]
      /\ call[c] \in CallRec
  BY Types DEF Kept, RestTyped
<1>1. faults' \in 0 .. MaxFaults /\ UNCHANGED <<driver, starts>>
  BY <1>0, ConstantsAssumption DEF CompleteFails, Dies, rows, tasks
<1>2. CASE CompleteFails(c)
  <2>1. PICK r : /\ Step(c, r)
                 /\ r = [call[c] EXCEPT !.pc = "listed", !.order = None, !.ride = None, !.hit = FALSE,
                                        !.last = FALSE]
    BY <1>2 DEF CompleteFails
  <2>2. r \in CallRec /\ r.pc = "listed" /\ r.trip = call[c].trip
    BY <1>0, <2>1 DEF CallRec
  <2>3. c \in Calls => call[c].trip \in Trips
    BY <1>0, <1>2 DEF CompleteFails, CallsRefer
  <2>4. CallsRefer'
    BY <1>0, <2>1, <2>2, <2>3, ReferKept
  <2>5. dropped' \subseteq Trips
    BY <1>0, <1>2, <2>3 DEF CompleteFails
  <2> QED
    BY <1>0, <1>1, <2>4, <2>5 DEF Kept, RestTyped
<1>3. CASE Dies(c)
  <2>1. CallsRefer'
    BY <1>0, <1>3, OverRefers DEF Dies
  <2>2. call[c].trip \in Trips \cup {None}
    BY <1>0 DEF CallRec
  <2>3. dropped' \subseteq Trips
    BY <1>0, <1>3, <2>2 DEF Dies
  <2> QED
    BY <1>0, <1>1, <2>1, <2>3 DEF Kept, RestTyped
<1> QED
  BY <1>2, <1>3

--------------------------------------------------------------------------------
(* The messages of the timer *)

\* No call takes a worker's place
LEMMA CoverKept ==
  ASSUME TimersCover, timer' \in [Trips -> Nat], \A t \in Trips : timer'[t] >= timer[t],
         \A t \in Trips : Running(t)' \subseteq Running(t)
  PROVE  TimersCover'
<1> SUFFICES ASSUME NEW t \in Trips PROVE Cardinality(Running(t)') <= timer'[t]
  BY DEF TimersCover
<1>1. Cardinality(Running(t)') <= Cardinality(Running(t)) /\ Cardinality(Running(t)') \in Nat
  BY RunningFinite, FS_Subset, FS_CardinalityType
<1> QED
  BY <1>1, RunningFinite DEF TimersCover

\* A worker goes on with its trip, or is through with it
LEMMA RunningKept ==
  ASSUME call \in [Processes -> CallRec], NEW c \in Processes, NEW r, Step(c, r),
         \/ c \notin Workers
         \/ r.pc = "idle"
         \/ call[c].pc # "idle" /\ r.trip = call[c].trip
  PROVE  \A t \in Trips : Running(t)' \subseteq Running(t)
BY DEF Running, Step, Processes

LEMMA OverRunning ==
  ASSUME call \in [Processes -> CallRec], NEW c \in Processes, Over(c)
  PROVE  \A t \in Trips : Running(t)' \subseteq Running(t)
<1>1. CASE c \in Workers
  <2>1. Step(c, New) /\ New.pc = "idle"
    BY <1>1 DEF Over, New
  <2> QED
    BY <2>1, RunningKept
<1>2. CASE c \notin Workers
  BY <1>2, RunningKept DEF Over
<1> QED
  BY <1>1, <1>2

LEMMA CompleteRunning ==
  ASSUME Inv, NEW c \in Processes, CompleteStep(c) \/ CompleteFails(c)
  PROVE  \A t \in Trips : Running(t)' \subseteq Running(t)
<1>0. call \in [Processes -> CallRec] /\ call[c] \in CallRec
  BY Types
<1>1. ASSUME NEW o \in Orders, NEW d \in Drivers, CompleteReads(c, o, d)
      PROVE  \A t \in Trips : Running(t)' \subseteq Running(t)
  <2>1. PICK q : q = [call[c] EXCEPT !.todo = @ \ {<<o, d>>}, !.driver = d]
    OBVIOUS
  <2>2. q \in CallRec /\ q.trip = call[c].trip
    BY <1>0, <2>1 DEF CallRec
  <2>3. PICK r : Step(c, r) /\ r \in {q, [q EXCEPT !.pc = "completing", !.order = o]}
    BY <1>1, <2>1 DEF CompleteReads
  <2>4. r.trip = call[c].trip /\ call[c].pc # "idle"
    BY <1>1, <2>2, <2>3 DEF CallRec, CompleteReads
  <2> QED
    BY <1>0, <2>3, <2>4, RunningKept
<1>2. ASSUME CompleteMarks(c) PROVE \A t \in Trips : Running(t)' \subseteq Running(t)
  <2>1. PICK h, l, n, r :
          /\ Step(c, r)
          /\ r = [call[c] EXCEPT !.pc = "marked", !.hit = h, !.ride = n, !.last = l]
    BY <1>2 DEF CompleteMarks
  <2>2. r.trip = call[c].trip /\ call[c].pc # "idle"
    BY <1>0, <1>2, <2>1 DEF CallRec, CompleteMarks
  <2> QED
    BY <1>0, <2>1, <2>2, RunningKept
<1>3. ASSUME CompleteCommits(c) \/ CompleteFails(c)
      PROVE  \A t \in Trips : Running(t)' \subseteq Running(t)
  <2>1. PICK r : /\ Step(c, r)
                 /\ r = [call[c] EXCEPT !.pc = "listed", !.order = None, !.ride = None, !.hit = FALSE,
                                        !.last = FALSE]
    BY <1>3 DEF CompleteCommits, CompleteFails
  <2>2. r.trip = call[c].trip /\ call[c].pc # "idle"
    BY <1>0, <1>3, <2>1 DEF CallRec, CompleteCommits, CompleteFails
  <2> QED
    BY <1>0, <2>1, <2>2, RunningKept
<1> QED
  BY <1>1, <1>2, <1>3 DEF CompleteStep

LEMMA CoverHolds ==
  ASSUME Inv, TimersCover, Next
  PROVE  TimersCover'
<1>0. call \in [Processes -> CallRec] /\ timer \in [Trips -> Nat]
  BY Types DEF TimersCover
<1>1. ASSUME timer' = timer, \A t \in Trips : Running(t)' \subseteq Running(t) PROVE TimersCover'
  BY <1>0, <1>1, CoverKept
<1>2. ASSUME NEW t \in Trips, timer' = [timer EXCEPT ![t] = @ + 1], call' = call PROVE TimersCover'
  BY <1>0, <1>2, CoverKept DEF Running
<1>3. CASE \/ \E d \in Drivers, n \in SeatChoices : GoesOnline(d, n)
           \/ \E o \in Orders : FindReads(o) \/ FindEnds(o)
           \/ \E o \in Orders, d \in Drivers : FindWrites(o, d)
           \/ \E d \in Drivers, o \in Orders, t \in Trips : Accept(d, o, t)
           \/ \E d \in Drivers : AcceptClearsFlag(d)
  BY <1>1, <1>3 DEF GoesOnline, FindReads, FindEnds, FindWrites, Accept, AcceptClearsFlag, tasks,
     Running
<1>4. ASSUME NEW t \in Trips, AutoStart(t) \/ AutoStartFails(t) PROVE TimersCover'
  BY <1>2, <1>4 DEF AutoStart, AutoStartFails
<1>5. ASSUME NEW c \in Calls, Presses(c) PROVE TimersCover'
  <2>1. timer' = timer /\ \E r : Step(c, r)
    BY <1>5 DEF Presses, StartReads, GivesUpReads, ManualReads, ManualCleansUp, CancelAllReads,
       PassengerReads, TripCancelReads, Over, tasks
  <2>2. c \in Processes /\ c \notin Workers
    BY ConstantsAssumption DEF Processes
  <2> QED
    BY <1>0, <1>1, <2>1, <2>2, RunningKept
<1>6. ASSUME NEW c \in Calls, CallStep(c) PROVE TimersCover'
  <2>1. c \in Processes /\ c \notin Workers
    BY ConstantsAssumption DEF Processes
  <2>2. \E r : Step(c, r)
    BY <1>6 DEF CallStep, StartCommits, StartSchedules, CompleteStep, CompleteReads, CompleteMarks,
       CompleteCommits, ManualEnds, GivesUpWrites, CancelAllWrites, PassengerWrites, TripOrderReset,
       TripCancelCommits, TripCloses, Over
  <2>3. \A t \in Trips : Running(t)' \subseteq Running(t)
    BY <1>0, <2>1, <2>2, RunningKept
  <2>4. timer' = timer \/ timer' = [timer EXCEPT ![call[c].trip] = @ + 1]
    BY <1>6 DEF CallStep, StartCommits, StartSchedules, CompleteStep, CompleteReads, CompleteMarks,
       CompleteCommits, ManualEnds, GivesUpWrites, CancelAllWrites, PassengerWrites, TripOrderReset,
       TripCancelCommits, TripCloses, tasks, TimerSet
  <2> QED
    BY <1>0, <2>3, <2>4, CoverKept
<1>7. ASSUME NEW w \in Workers, WorkerStep(w) PROVE TimersCover'
  <2>0. w \in Processes /\ call[w] \in CallRec
    BY <1>0 DEF Processes
  <2>1. CASE CompleteStep(w)
    BY <1>1, <2>0, <2>1, CompleteRunning DEF CompleteStep, CompleteReads, CompleteMarks,
       CompleteCommits, tasks
  <2>2. ASSUME NEW t \in Trips, AutoReads(w, t) PROVE TimersCover'
    <3>1. CASE UNCHANGED call
      <4>1. timer' = [timer EXCEPT ![t] = @ - 1] \/ timer' = timer
        BY <2>2 DEF AutoReads
      <4>2. timer[t] > Cardinality(Running(t)) /\ \A u : Running(u)' = Running(u)
        BY <2>2, <3>1 DEF AutoReads, Running
      <4> QED
        BY <1>0, <4>1, <4>2, RunningFinite DEF TimersCover
    <3>2. CASE ~UNCHANGED call
      <4>1. PICK todo, f, r :
              Step(w, r) /\ r = [New EXCEPT !.pc = "listed", !.trip = t, !.todo = todo, !.found = f]
        BY <2>2, <3>2 DEF AutoReads
      <4>2. r.pc = "listed" /\ r.trip = t
        BY <4>1 DEF New
      <4>3. timer' = timer /\ call[w].pc = "idle" /\ timer[t] > Cardinality(Running(t))
        BY <2>2, <3>2 DEF AutoReads
      <4>4. call'[w] = r /\ \A v \in Workers \ {w} : call'[v] = call[v]
        BY <1>0, <2>0, <4>1 DEF Step, Processes
      <4>5. Running(t)' = Running(t) \cup {w} /\ w \notin Running(t)
        BY <4>2, <4>3, <4>4 DEF Running
      <4>6. \A u \in Trips \ {t} : Running(u)' = Running(u)
        BY <4>2, <4>3, <4>4 DEF Running
      <4>7. Cardinality(Running(t)') = Cardinality(Running(t)) + 1
        BY <4>5, RunningFinite
      <4> QED
        BY <1>0, <4>3, <4>6, <4>7, RunningFinite DEF TimersCover
    <3> QED
      BY <3>1, <3>2
  <2>3. CASE AutoCloses(w)
    <3>1. PICK r : Step(w, r) /\ r = [call[w] EXCEPT !.pc = "freeing"]
      BY <2>3 DEF AutoCloses
    <3>2. r.trip = call[w].trip /\ call[w].pc # "idle" /\ timer' = timer
      BY <2>0, <2>3, <3>1 DEF CallRec, AutoCloses, tasks
    <3> QED
      BY <1>0, <1>1, <2>0, <3>1, <3>2, RunningKept
  <2>4. CASE AutoFrees(w)
    <3>1. PICK t : t = call[w].trip
      OBVIOUS
    <3>2. timer' = [timer EXCEPT ![t] = @ - 1] /\ Step(w, New) /\ call[w].pc = "freeing"
      BY <2>4, <3>1 DEF AutoFrees, Over
    <3>3. call'[w] = New /\ New.pc = "idle" /\ \A v \in Workers \ {w} : call'[v] = call[v]
      BY <1>0, <2>0, <3>2 DEF Step, Processes, New
    <3>4. Running(t)' = Running(t) \ {w} /\ w \in Running(t)
      BY <3>1, <3>2, <3>3 DEF Running
    <3>5. \A u \in Trips \ {t} : Running(u)' = Running(u)
      BY <3>1, <3>2, <3>3 DEF Running
    <3>6. Cardinality(Running(t)') = Cardinality(Running(t)) - 1 /\ Cardinality(Running(t)) > 0
      BY <3>4, RunningFinite
    <3>7. \A u \in Trips : Cardinality(Running(u)) \in Nat /\ Cardinality(Running(u)) <= timer[u]
      BY RunningFinite DEF TimersCover
    <3>8. timer' \in [Trips -> Nat]
      <4>1. CASE t \in Trips
        <5>1. timer[t] - 1 \in Nat
          BY <1>0, <3>6, <3>7, <4>1
        <5> QED
          BY <1>0, <3>2, <5>1
      <4>2. CASE t \notin Trips
        BY <1>0, <3>2, <4>2
      <4> QED
        BY <4>1, <4>2
    <3>9. ASSUME NEW u \in Trips PROVE Cardinality(Running(u)') <= timer'[u]
      <4>1. CASE u = t
        <5>1. timer'[u] = timer[u] - 1 /\ timer[u] \in Nat
          BY <1>0, <3>2, <4>1
        <5> QED
          BY <3>6, <3>7, <4>1, <5>1
      <4>2. CASE u # t
        BY <1>0, <3>2, <3>5, <3>7, <4>2
      <4> QED
        BY <4>1, <4>2
    <3> QED
      BY <3>8, <3>9 DEF TimersCover
  <2> QED
    BY <1>7, <2>1, <2>2, <2>3, <2>4 DEF WorkerStep
<1>8. ASSUME NEW c \in Processes, CompleteFails(c) PROVE TimersCover'
  BY <1>1, <1>8, CompleteRunning DEF CompleteFails, tasks
<1>9. ASSUME NEW c \in Processes, Dies(c) PROVE TimersCover'
  BY <1>0, <1>1, <1>9, OverRunning DEF Dies, tasks
<1> QED
  BY <1>3, <1>4, <1>5, <1>6, <1>7, <1>8, <1>9, ConstantsAssumption DEF Next, Processes

--------------------------------------------------------------------------------
(* Every step *)

LEMMA KeptNext ==
  ASSUME Inv, Kept, [Next]_vars
  PROVE  Kept'
<1>1. CASE UNCHANGED vars
  BY <1>1 DEF vars, rows, tasks, Kept, RestTyped, CallsRefer
<1>2. CASE Next
  <2>1. ASSUME NEW c \in Calls, Presses(c) \/ CallStep(c) PROVE Kept'
    BY <2>1, PressesKeep, CallStepKeeps
  <2>2. ASSUME NEW w \in Workers, WorkerStep(w) PROVE Kept'
    BY <2>2, WorkerStepKeeps
  <2>3. ASSUME NEW c \in Processes, CompleteFails(c) \/ Dies(c) PROVE Kept'
    BY <2>3, BreaksOffKeeps
  <2> QED
    BY <1>2, <2>1, <2>2, <2>3, PlainKeeps, ConstantsAssumption DEF Next, Processes
<1> QED
  BY <1>1, <1>2

\* Only the find task and an acceptance touch what it has read and misled
LEMMA FindTypedNext ==
  ASSUME FindTyped, [Next]_vars
  PROVE  FindTyped'
<1>1. ASSUME UNCHANGED find PROVE FindTyped'
  BY <1>1 DEF find, FindTyped
<1>2. ASSUME NEW o \in Orders, FindReads(o) \/ FindEnds(o) \/ \E d \in Drivers : FindWrites(o, d)
      PROVE  FindTyped'
  BY <1>2 DEF FindTyped, FindReads, FindEnds, FindWrites
<1>3. ASSUME NEW o \in Orders, NEW d, NEW t, Accept(d, o, t) PROVE FindTyped'
  BY <1>3 DEF FindTyped, Accept
<1>4. ASSUME NEW c, CompleteStep(c) \/ CompleteFails(c) \/ Dies(c) PROVE UNCHANGED find
  BY <1>4 DEF CompleteStep, CompleteReads, CompleteMarks, CompleteCommits, CompleteFails, Dies
<1>5. ASSUME NEW c, Presses(c) PROVE UNCHANGED find
  BY <1>5 DEF Presses, StartReads, ManualReads, GivesUpReads, ManualCleansUp, CancelAllReads,
     PassengerReads, TripCancelReads
<1>6. ASSUME NEW c, CallStep(c) PROVE UNCHANGED find
  BY <1>4, <1>6 DEF CallStep, StartCommits, StartSchedules, ManualEnds, GivesUpWrites,
     CancelAllWrites, PassengerWrites, TripOrderReset, TripCancelCommits, TripCloses
<1>7. ASSUME NEW w, WorkerStep(w) PROVE UNCHANGED find
  BY <1>4, <1>7 DEF WorkerStep, AutoReads, AutoCloses, AutoFrees
<1>8. ASSUME NEW t, AutoStart(t) \/ AutoStartFails(t) PROVE UNCHANGED find
  BY <1>8 DEF AutoStart, AutoStartFails
<1>9. ASSUME NEW d, AcceptClearsFlag(d) \/ \E n \in SeatChoices : GoesOnline(d, n)
      PROVE  UNCHANGED find
  BY <1>9 DEF AcceptClearsFlag, GoesOnline
<1>10. CASE Next
  BY <1>1, <1>2, <1>3, <1>4, <1>5, <1>6, <1>7, <1>8, <1>9, <1>10, ConstantsAssumption DEF Next
<1>11. CASE UNCHANGED vars
  BY <1>1, <1>11 DEF vars
<1> QED
  BY <1>10, <1>11

LEMMA TypesInvInit == Init => TypesInv
<1> SUFFICES ASSUME Init PROVE TypesInv
  OBVIOUS
<1>1. \A c \in Processes : call[c].pc = "idle"
  BY DEF Init, New, Processes
<1>2. Kept
  <2>1. driver \in [Drivers -> DriverRec]
    BY ConstantsAssumption DEF Init, Offline, DriverRec
  <2> QED
    BY <1>1, <2>1, ConstantsAssumption DEF Init, Kept, RestTyped, CallsRefer
<1>3. TimersCover
  <2>1. \A t \in Trips : Running(t) = {}
    BY <1>1 DEF Running, Processes
  <2>2. Cardinality({}) = 0
    BY FS_EmptySet
  <2>3. \A t \in Trips : Cardinality(Running(t)) = 0
    BY <2>1, <2>2
  <2>4. timer \in [Trips -> Nat] /\ \A t \in Trips : timer[t] = 0
    BY DEF Init
  <2> QED
    BY <2>3, <2>4 DEF TimersCover
<1>4. FindTyped
  BY DEF Init, FindTyped
<1> QED
  BY <1>2, <1>3, <1>4, InitHolds DEF TypesInv, Kept

LEMMA TypesInvNext ==
  ASSUME TypesInv, [Next]_vars
  PROVE  TypesInv'
<1>1. Inv' /\ Kept'
  BY StepHolds, KeptNext DEF TypesInv, Kept
<1>2. TimersCover'
  <2>1. CASE UNCHANGED vars
    BY <2>1 DEF vars, tasks, TypesInv, TimersCover, Running
  <2> QED
    BY <2>1, CoverHolds DEF TypesInv
<1>3. FindTyped'
  BY FindTypedNext DEF TypesInv
<1> QED
  BY <1>1, <1>2, <1>3 DEF TypesInv, Kept

LEMMA TypesFit == TypesInv => TypeOK
BY DEF TypesInv, Inv, RestTyped, TimersCover, FindTyped, TypeOK

--------------------------------------------------------------------------------
(* Queues of drivers *)

\* A queue and the list a task works through have every driver once
Once(s) == \A i, j \in 1 .. Len(s) : s[i] = s[j] => i = j

LEMMA PositionFound ==
  ASSUME NEW s \in Seq(Drivers), NEW d, QM!Contains(s, d)
  PROVE  QM!Position(s, d) \in 1 .. Len(s) /\ s[QM!Position(s, d)] = d
<1>1. DOMAIN s = 1 .. Len(s)
  OBVIOUS
<1>2. \E i \in DOMAIN s : s[i] = d
  BY <1>1 DEF QM!Contains
<1> QED
  BY <1>1, <1>2 DEF QM!Position

LEMMA WithoutOne ==
  ASSUME NEW s \in Seq(Drivers), Once(s), NEW d
  PROVE  /\ QM!Without(s, d) \in Seq(Drivers) /\ Once(QM!Without(s, d))
         /\ \A e \in Drivers : QM!Contains(QM!Without(s, d), e) <=> e # d /\ QM!Contains(s, e)
<1>1. CASE ~QM!Contains(s, d)
  BY <1>1 DEF QM!Without
<1>2. CASE QM!Contains(s, d)
  <2> DEFINE p == QM!Position(s, d)
             a == SubSeq(s, 1, p - 1)
             b == SubSeq(s, p + 1, Len(s))
             r == a \o b
  <2>1. p \in 1 .. Len(s) /\ s[p] = d
    BY <1>2, PositionFound
  <2>2. QM!Without(s, d) = r
    BY <1>2 DEF QM!Without, QM!RemoveAt
  <2> HIDE DEF p
  <2>3. a \in Seq(Drivers) /\ Len(a) = p - 1 /\ \A i \in 1 .. p - 1 : a[i] = s[i]
    BY <2>1
  <2>4. b \in Seq(Drivers) /\ Len(b) = Len(s) - p /\ \A i \in 1 .. Len(s) - p : b[i] = s[i + p]
    BY <2>1
  <2> HIDE DEF a, b
  <2>5. /\ r \in Seq(Drivers) /\ Len(r) = Len(s) - 1
        /\ \A i \in 1 .. Len(a) : r[i] = a[i]
        /\ \A i \in Len(a) + 1 .. Len(a) + Len(b) : r[i] = b[i - Len(a)]
    <3> a \in Seq(Drivers) /\ b \in Seq(Drivers)
      BY <2>3, <2>4
    <3>1. /\ r \in Seq(Drivers) /\ Len(r) = Len(a) + Len(b)
          /\ \A i \in 1 .. Len(a) : r[i] = a[i]
      OBVIOUS
    <3>2. \A i \in Len(a) + 1 .. Len(a) + Len(b) : r[i] = b[i - Len(a)]
      OBVIOUS
    <3> QED
      BY <2>1, <2>3, <2>4, <3>1, <3>2
  <2> HIDE DEF r
  <2>6. \A i \in 1 .. Len(r) : r[i] = IF i < p THEN s[i] ELSE s[i + 1]
    <3> SUFFICES ASSUME NEW i \in 1 .. Len(r) PROVE r[i] = IF i < p THEN s[i] ELSE s[i + 1]
      OBVIOUS
    <3>1. CASE i < p
      BY <2>1, <2>3, <2>5, <3>1
    <3>2. CASE ~(i < p)
      <4>1. i \in Len(a) + 1 .. Len(a) + Len(b) /\ i - Len(a) \in 1 .. Len(s) - p
        BY <2>1, <2>3, <2>4, <2>5, <3>2
      <4>2. r[i] = s[i - Len(a) + p]
        BY <2>4, <2>5, <4>1
      <4>3. i - Len(a) + p = i + 1
        BY <2>1, <2>3, <2>5
      <4> QED
        BY <3>2, <4>2, <4>3
    <3> QED
      BY <3>1, <3>2
  <2>7. Once(r)
    BY <2>1, <2>5, <2>6 DEF Once
  <2>8. ASSUME NEW e \in Drivers PROVE QM!Contains(r, e) <=> e # d /\ QM!Contains(s, e)
    <3>1. ASSUME QM!Contains(r, e) PROVE e # d /\ QM!Contains(s, e)
      <4>1. PICK i \in 1 .. Len(r) : r[i] = e
        BY <3>1 DEF QM!Contains
      <4>2. CASE i < p
        BY <2>1, <2>5, <2>6, <4>1, <4>2 DEF QM!Contains, Once
      <4>3. CASE ~(i < p)
        <5>1. i + 1 \in 1 .. Len(s) /\ i + 1 # p /\ s[i + 1] = e
          BY <2>1, <2>5, <2>6, <4>1, <4>3
        <5> QED
          BY <2>1, <5>1 DEF QM!Contains, Once
      <4> QED
        BY <4>2, <4>3
    <3>2. ASSUME e # d, QM!Contains(s, e) PROVE QM!Contains(r, e)
      <4>1. PICK i \in 1 .. Len(s) : s[i] = e
        BY <3>2 DEF QM!Contains
      <4>2. CASE i < p
        BY <2>1, <2>5, <2>6, <4>1, <4>2 DEF QM!Contains
      <4>3. CASE i > p
        <5>1. i - 1 \in 1 .. Len(r) /\ r[i - 1] = e
          BY <2>1, <2>5, <2>6, <4>1, <4>3
        <5> QED
          BY <5>1 DEF QM!Contains
      <4> QED
        BY <2>1, <3>2, <4>1, <4>2, <4>3
    <3> QED
      BY <3>1, <3>2
  <2> QED
    BY <2>2, <2>5, <2>7, <2>8
<1> QED
  BY <1>1, <1>2

LEMMA AppendOne ==
  ASSUME NEW s \in Seq(Drivers), Once(s), NEW d \in Drivers, ~QM!Contains(s, d)
  PROVE  /\ Append(s, d) \in Seq(Drivers) /\ Once(Append(s, d))
         /\ \A e \in Drivers : QM!Contains(Append(s, d), e) <=> e = d \/ QM!Contains(s, e)
<1>1. /\ Append(s, d) \in Seq(Drivers) /\ Len(Append(s, d)) = Len(s) + 1
      /\ \A i \in 1 .. Len(s) : Append(s, d)[i] = s[i]
      /\ Append(s, d)[Len(s) + 1] = d /\ Len(s) \in Nat
  OBVIOUS
<1> DEFINE r == Append(s, d)
<1> HIDE DEF r
<1>2. Once(r)
  BY <1>1 DEF Once, QM!Contains, r
<1>3. ASSUME NEW e \in Drivers PROVE QM!Contains(r, e) <=> e = d \/ QM!Contains(s, e)
  BY <1>1 DEF QM!Contains, r
<1> QED
  BY <1>1, <1>2, <1>3 DEF r

LEMMA ConsOne ==
  ASSUME NEW s \in Seq(Drivers), Once(s), NEW d \in Drivers, ~QM!Contains(s, d)
  PROVE  /\ <<d>> \o s \in Seq(Drivers) /\ Once(<<d>> \o s)
         /\ \A e \in Drivers : QM!Contains(<<d>> \o s, e) <=> e = d \/ QM!Contains(s, e)
<1> DEFINE r == <<d>> \o s
<1>1. /\ r \in Seq(Drivers) /\ Len(r) = Len(s) + 1 /\ Len(s) \in Nat
      /\ r[1] = d
  OBVIOUS
<1>2. \A i \in 2 .. Len(s) + 1 : r[i] = s[i - 1]
  OBVIOUS
<1> HIDE DEF r
<1>3. ASSUME NEW i \in 1 .. Len(r), NEW j \in 1 .. Len(r), r[i] = r[j] PROVE i = j
  <2>1. ASSUME NEW k \in 1 .. Len(r), k # 1
        PROVE  k - 1 \in 1 .. Len(s) /\ r[k] = s[k - 1] /\ r[k] # d
    <3>1. k - 1 \in 1 .. Len(s) /\ r[k] = s[k - 1]
      BY <1>1, <1>2, <2>1
    <3> QED
      BY <3>1 DEF QM!Contains
  <2>2. CASE i = 1 \/ j = 1
    BY <1>1, <1>3, <2>1, <2>2
  <2>3. CASE i # 1 /\ j # 1
    <3>1. i - 1 = j - 1
      BY <1>3, <2>1, <2>3 DEF Once
    <3> QED
      BY <1>1, <3>1
  <2> QED
    BY <2>2, <2>3
<1>4. ASSUME NEW e \in Drivers PROVE QM!Contains(r, e) <=> e = d \/ QM!Contains(s, e)
  <2>1. ASSUME NEW i \in 1 .. Len(s), s[i] = e PROVE QM!Contains(r, e)
    <3>1. i + 1 \in 2 .. Len(s) + 1 /\ r[i + 1] = s[i]
      BY <1>1, <1>2
    <3> QED
      BY <1>1, <2>1, <3>1 DEF QM!Contains
  <2> QED
    BY <1>1, <1>2, <2>1 DEF QM!Contains
<1> QED
  BY <1>1, <1>3, <1>4 DEF r, Once

LEMMA TailOne ==
  ASSUME NEW s \in Seq(Drivers), Once(s), s # <<>>
  PROVE  /\ Head(s) \in Drivers /\ Head(s) = s[1] /\ QM!Contains(s, Head(s))
         /\ Tail(s) \in Seq(Drivers) /\ Once(Tail(s))
         /\ Len(Tail(s)) = Len(s) - 1 /\ Len(s) > 0 /\ Len(s) \in Nat
         /\ \A i \in 1 .. Len(s) - 1 : Tail(s)[i] = s[i + 1]
         /\ \A e \in Drivers : QM!Contains(Tail(s), e) <=> e # Head(s) /\ QM!Contains(s, e)
<1> DEFINE r == Tail(s)
<1>1. /\ Head(s) \in Drivers /\ Head(s) = s[1] /\ r \in Seq(Drivers) /\ Len(s) > 0
      /\ Len(r) = Len(s) - 1 /\ \A i \in 1 .. Len(s) - 1 : r[i] = s[i + 1]
      /\ Len(s) \in Nat
  OBVIOUS
<1> HIDE DEF r
<1>2. Once(r)
  BY <1>1 DEF Once
<1>3. ASSUME NEW e \in Drivers PROVE QM!Contains(r, e) <=> e # Head(s) /\ QM!Contains(s, e)
  <2>1. ASSUME NEW i \in 1 .. Len(s), s[i] = e, e # Head(s) PROVE QM!Contains(r, e)
    <3>1. i - 1 \in 1 .. Len(s) - 1 /\ r[i - 1] = s[i]
      BY <1>1, <2>1
    <3> QED
      BY <1>1, <2>1, <3>1 DEF QM!Contains
  <2>2. ASSUME NEW i \in 1 .. Len(r), r[i] = e PROVE e # Head(s) /\ QM!Contains(s, e)
    <3>1. i + 1 \in 1 .. Len(s) /\ s[i + 1] = e /\ i + 1 # 1
      BY <1>1, <2>2
    <3> QED
      BY <1>1, <3>1 DEF QM!Contains, Once
  <2> QED
    BY <2>1, <2>2 DEF QM!Contains
<1> QED
  BY <1>1, <1>2, <1>3 DEF r, QM!Contains

\* The place of a driver is where the queue has him
LEMMA PlaceFound ==
  ASSUME places \in Seq(Drivers), Once(places), NEW d \in Drivers
  PROVE  /\ \A i \in 1 .. Len(places) : places[i] = d => QM!Place(d) = i
         /\ QM!Contains(places, d) <=> QM!Place(d) # 0
         /\ QM!Place(d) \in 0 .. Len(places)
<1>1. CASE QM!Contains(places, d)
  BY <1>1, PositionFound DEF QM!Place, Once
<1>2. CASE ~QM!Contains(places, d)
  BY <1>2 DEF QM!Place, QM!Contains
<1> QED
  BY <1>1, <1>2

LEMMA CardinalityQM == \A S : QM!Cardinality(S) = Cardinality(S)
BY DEF QM!Cardinality, Cardinality, QM!IsFiniteSet, IsFiniteSet

\* No more places than drivers
LEMMA PlacesBounded ==
  ASSUME NEW s \in Seq(Drivers), Once(s)
  PROVE  Len(s) \in 0 .. QM!Cardinality(Drivers)
<1>1. DOMAIN s = 1 .. Len(s) /\ Len(s) \in Nat
  OBVIOUS
<1>2. IsFiniteSet(1 .. Len(s)) /\ Cardinality(1 .. Len(s)) = Len(s)
  BY <1>1, FS_Interval
<1>3. s \in Injection(1 .. Len(s), Drivers)
  BY <1>1 DEF Injection, IsInjective, Once
<1>4. Cardinality(1 .. Len(s)) <= Cardinality(Drivers) /\ Cardinality(Drivers) \in Nat
  BY <1>2, <1>3, MessagesAssumption, FS_Injection, FS_CardinalityType DEF ExistsInjection
<1> QED
  BY <1>1, <1>2, <1>4, CardinalityQM
--------------------------------------------------------------------------------
(* What a teller is at *)

Touching == {"asks", "sends", "notes"}
Clearing == {"looks", "deletes", "forgets"}

TellerRec == [pc: {"idle", "adds", "removes", "reads"} \cup Touching \cup Clearing,
              task: QM!Tasks, rest: Seq(Drivers), place: Nat,
              prev: Ids \cup {None}, sent: Ids \cup {None}]

Kinds(pc) == CASE pc = "adds" -> {"add"} [] pc = "removes" -> {"remove"}
               [] pc \in Clearing -> {"remove", "clear"}
               [] OTHER -> {"add", "remove", "notify"}

TellerFits(t) ==
  /\ t \in TellerRec /\ Once(t.rest)
  /\ t.pc \in Touching <=> t.rest # <<>>
  /\ t.task.kind \in Kinds(t.pc)
  /\ t.pc \in Touching =>
       t.place >= 1 /\ t.place + Len(t.rest) <= QM!Cardinality(Drivers) + 1
  /\ t.pc = "notes" => t.sent \in Ids
  /\ t.pc = "deletes" => t.prev \in Ids

MessagesTyped ==
  /\ places \in Seq(Drivers) /\ Once(places)
  /\ noted \in [Drivers -> Ids \cup {None}]
  /\ board \in [Drivers -> [Ids -> 0 .. QM!Cardinality(Drivers)]]
  /\ waiting \in [QM!Tasks -> Nat]
  /\ worker \in [Tellers -> TellerRec]
  /\ \A w \in Tellers : TellerFits(worker[w])
  /\ astray \subseteq Drivers

Goes(w, t) == worker' = [worker EXCEPT ![w] = t]

LEMMA TaskFits ==
  /\ QM!Notify \in QM!Tasks
  /\ \A x \in QM!Tasks : x.kind \in {"add", "remove", "clear", "notify"}
  /\ \A x \in QM!Tasks : x.kind # "notify" => x.driver \in Drivers /\ x = QM!Task(x.kind, x.driver)
  /\ \A d \in Drivers, k \in {"add", "remove", "clear"} :
       QM!Task(k, d) \in QM!Tasks /\ QM!Task(k, d).kind = k /\ QM!Task(k, d).driver = d
BY DEF QM!Tasks, QM!Task, QM!Notify

LEMMA IdleFits ==
  /\ TellerFits(QM!Idle)
  /\ QM!Idle.pc = "idle" /\ QM!Idle.rest = <<>> /\ \A d : ~QM!Contains(QM!Idle.rest, d)
<1>1. QM!Notify.kind = "notify"
  BY DEF QM!Notify, QM!Task
<1>2. <<>> \in Seq(Drivers) /\ Once(<<>>) /\ \A d : ~QM!Contains(<<>>, d)
  BY DEF Once, QM!Contains
<1>3. QM!Idle \in TellerRec
  BY <1>2, TaskFits DEF QM!Idle, TellerRec
<1> QED
  BY <1>1, <1>2, <1>3 DEF QM!Idle, TellerFits, Kinds, Touching, Clearing

\* What a teller takes a task with
Start(x) ==
  [QM!Idle EXCEPT !.task = x, !.pc =
     CASE x.kind = "add" -> "adds" [] x.kind = "remove" -> "removes"
       [] x.kind = "clear" -> "looks" [] OTHER -> "reads"]

LEMMA StartFits ==
  ASSUME NEW x \in QM!Tasks,
         NEW t, t = Start(x)
  PROVE  /\ TellerFits(t) /\ t.rest = <<>> /\ t.task = x
         /\ x.kind = "add" => t.pc = "adds"
         /\ x.kind = "remove" => t.pc = "removes"
         /\ x.kind = "clear" => t.pc = "looks"
         /\ x.kind = "notify" => t.pc = "reads"
<1>1. <<>> \in Seq(Drivers) /\ Once(<<>>)
  BY DEF Once
<1>2. /\ t.rest = <<>> /\ t.task = x
      /\ x.kind = "add" => t.pc = "adds"
      /\ x.kind = "remove" => t.pc = "removes"
      /\ x.kind = "clear" => t.pc = "looks"
      /\ x.kind = "notify" => t.pc = "reads"
  BY DEF QM!Idle, Start
<1>3. t \in TellerRec
  BY <1>1, TaskFits DEF QM!Idle, Start, TellerRec, Touching, Clearing
<1> QED
  BY <1>1, <1>2, <1>3, TaskFits DEF TellerFits, Kinds, Touching, Clearing

LEMMA ClearedFits ==
  ASSUME NEW t, TellerFits(t), t.pc \in Clearing
  PROVE  /\ TellerFits(QM!Cleared(t)) /\ QM!Cleared(t).rest = <<>>
         /\ t.task.kind = "remove" => QM!Cleared(t).pc = "reads"
         /\ t.task.kind # "remove" => QM!Cleared(t) = QM!Idle
<1>1. CASE t.task.kind = "remove"
  BY <1>1 DEF QM!Cleared, TellerFits, TellerRec, Kinds, Touching, Clearing
<1>2. CASE t.task.kind # "remove"
  BY <1>2, IdleFits DEF QM!Cleared
<1> QED
  BY <1>1, <1>2

LEMMA ToNextFits ==
  ASSUME NEW t, TellerFits(t), t.pc \in Touching
  PROVE  /\ TellerFits(QM!ToNext(t)) /\ QM!ToNext(t).pc \in {"idle", "asks"}
         /\ Head(t.rest) \in Drivers /\ QM!Contains(t.rest, Head(t.rest))
         /\ Head(t.rest) = t.rest[1] /\ 1 \in 1 .. Len(t.rest)
         /\ \A d \in Drivers : QM!Contains(QM!ToNext(t).rest, d) <=>
                                 d # Head(t.rest) /\ QM!Contains(t.rest, d)
         /\ \A i \in 1 .. Len(QM!ToNext(t).rest) :
              /\ i + 1 \in 1 .. Len(t.rest) /\ QM!ToNext(t).rest[i] = t.rest[i + 1]
              /\ QM!ToNext(t).place = t.place + 1
<1> DEFINE s == t.rest
<1>1. s \in Seq(Drivers) /\ Once(s) /\ s # <<>> /\ t \in TellerRec
  BY DEF TellerFits, TellerRec
<1>2. /\ Head(s) \in Drivers /\ Head(s) = s[1] /\ QM!Contains(s, Head(s))
      /\ Tail(s) \in Seq(Drivers) /\ Once(Tail(s))
      /\ Len(Tail(s)) = Len(s) - 1 /\ Len(s) > 0 /\ Len(s) \in Nat
      /\ \A i \in 1 .. Len(s) - 1 : Tail(s)[i] = s[i + 1]
      /\ \A e \in Drivers : QM!Contains(Tail(s), e) <=> e # Head(s) /\ QM!Contains(s, e)
  BY <1>1, TailOne
<1>3. CASE Len(s) = 1
  <2>1. QM!ToNext(t) = QM!Idle
    BY <1>3 DEF QM!ToNext
  <2>2. \A d : QM!Contains(s, d) => d = Head(s)
    BY <1>2, <1>3 DEF QM!Contains
  <2>3. Len(QM!Idle.rest) = 0
    BY IdleFits
  <2> QED
    BY <1>2, <2>1, <2>2, <2>3, IdleFits
<1>4. CASE Len(s) # 1
  <2> DEFINE u == [t EXCEPT !.pc = "asks", !.rest = Tail(@), !.place = @ + 1,
                            !.prev = None, !.sent = None]
  <2>1. QM!ToNext(t) = u
    BY <1>4 DEF QM!ToNext
  <2>2. u \in TellerRec /\ u.pc = "asks" /\ u.rest = Tail(s) /\ u.place = t.place + 1 /\ u.task = t.task
    <3>1. /\ u.pc = "asks" /\ u.rest = Tail(s) /\ u.place = t.place + 1 /\ u.task = t.task
          /\ u.prev = None /\ u.sent = None
      BY <1>1 DEF TellerRec
    <3>2. t.place + 1 \in Nat /\ Tail(s) \in Seq(Drivers)
      BY <1>1, <1>2 DEF TellerRec
    <3>3. u \in TellerRec
      BY <1>1, <3>2 DEF TellerRec, Touching
    <3> QED
      BY <3>1, <3>3
  <2>3. Tail(s) # <<>>
    <3>1. Len(Tail(s)) # 0 /\ Len(<<>>) = 0
      BY <1>2, <1>4
    <3> QED
      BY <3>1
  <2>4. t.task.kind \in Kinds("asks")
    BY DEF TellerFits, Kinds, Touching, Clearing
  <2>5. t.place \in Nat /\ t.place + Len(s) <= QM!Cardinality(Drivers) + 1
    BY <1>1 DEF TellerFits, TellerRec
  <2>6. QM!Cardinality(Drivers) \in Nat
    BY CardinalityQM, MessagesAssumption, FS_CardinalityType
  <2> HIDE DEF u
  <2>7. u.place >= 1 /\ u.place + Len(u.rest) <= QM!Cardinality(Drivers) + 1
    BY <1>2, <2>2, <2>5, <2>6
  <2>8. TellerFits(u)
    BY <1>2, <2>2, <2>3, <2>4, <2>7 DEF TellerFits, Kinds, Touching, Clearing
  <2> QED
    BY <1>2, <2>1, <2>2, <2>8
<1> QED
  BY <1>3, <1>4

--------------------------------------------------------------------------------
(* Types *)

LEMMA TellersKept ==
  ASSUME MessagesTyped, NEW w \in Tellers, NEW t, TellerFits(t), Goes(w, t)
  PROVE  /\ worker' \in [Tellers -> TellerRec]
         /\ \A v \in Tellers : TellerFits(worker'[v])
         /\ worker'[w] = t /\ \A v \in Tellers \ {w} : worker'[v] = worker[v]
BY DEF MessagesTyped, Goes, TellerFits

LEMMA Published ==
  ASSUME waiting \in [QM!Tasks -> Nat], NEW ts, QM!Publishes(ts)
  PROVE  /\ waiting' \in [QM!Tasks -> Nat]
         /\ \A x \in QM!Tasks : waiting'[x] >= waiting[x] /\ (x \in ts => waiting'[x] > 0)
BY DEF QM!Publishes

LEMMA MetTyped ==
  ASSUME MessagesTyped, NEW w \in Tellers, NEW t, TellerFits(t), QM!Meets(w, t)
  PROVE  astray' \subseteq Drivers
<1>1. QM!Concerns(t) \subseteq Drivers
  <2>1. QM!ToSet(t.rest) \subseteq Drivers
    BY DEF TellerFits, TellerRec, QM!ToSet
  <2>2. t.pc \in Clearing => t.task.driver \in Drivers
    BY TaskFits DEF TellerFits, TellerRec, Kinds, Clearing
  <2> QED
    BY <2>1, <2>2 DEF QM!Concerns, Clearing
<1> QED
  BY <1>1 DEF QM!Meets, MessagesTyped

\* One step of a teller, by what it writes
LEMMA TellerTyped ==
  ASSUME MessagesTyped, NEW w \in Tellers, NEW t, TellerFits(t), Goes(w, t),
         places' \in Seq(Drivers) /\ Once(places)',
         noted' \in [Drivers -> Ids \cup {None}],
         board' \in [Drivers -> [Ids -> 0 .. QM!Cardinality(Drivers)]],
         waiting' \in [QM!Tasks -> Nat],
         astray' \subseteq Drivers
  PROVE  MessagesTyped'
BY TellersKept DEF MessagesTyped

LEMMA ChangesTyped ==
  ASSUME MessagesTyped, QM!Changes
  PROVE  MessagesTyped'
<1>1. ASSUME NEW d \in Drivers, QM!Joins(d) \/ QM!Stops(d) \/ QM!Offers(d) PROVE MessagesTyped'
  <2>1. waiting' \in [QM!Tasks -> Nat]
    BY <1>1, Published DEF MessagesTyped, QM!Joins, QM!Stops, QM!Offers
  <2> QED
    BY <1>1, <2>1 DEF MessagesTyped, QM!Joins, QM!Stops, QM!Offers
<1>2. ASSUME NEW d \in Drivers, QM!Fills(d) PROVE MessagesTyped'
  <2>1. waiting' \in [QM!Tasks -> Nat]
    BY <1>2, Published DEF MessagesTyped, QM!Fills
  <2>2. places' \in Seq(Drivers) /\ Once(places)'
    BY <1>2, WithoutOne DEF MessagesTyped, QM!Fills
  <2> QED
    BY <1>2, <2>1, <2>2 DEF MessagesTyped, QM!Fills
<1>3. ASSUME QM!Untold PROVE MessagesTyped'
  <2>1. QM!ToSet(places) \subseteq Drivers
    BY DEF QM!ToSet, MessagesTyped
  <2>2. places' \in Seq(Drivers) /\ Once(places')
    <3>1. CASE \E d \in QM!ToSet(places) : places' = QM!Without(places, d)
      BY <3>1, WithoutOne DEF MessagesTyped
    <3>2. ASSUME NEW d \in QM!ToSet(places), places' = <<d>> \o QM!Without(places, d)
          PROVE  places' \in Seq(Drivers) /\ Once(places')
      <4>1. /\ QM!Without(places, d) \in Seq(Drivers) /\ Once(QM!Without(places, d))
            /\ ~QM!Contains(QM!Without(places, d), d) /\ d \in Drivers
        BY <2>1, WithoutOne DEF MessagesTyped
      <4> QED
        BY <3>2, <4>1, ConsOne
    <3>3. CASE places' = <<>>
      BY <3>3 DEF Once
    <3> QED
      BY <1>3, <3>1, <3>2, <3>3 DEF QM!Untold
  <2> QED
    BY <1>3, <2>1, <2>2 DEF MessagesTyped, QM!Untold
<1> QED
  BY <1>1, <1>2, <1>3 DEF QM!Changes

\* A message is written to a chat, or deleted
LEMMA WrittenOnce ==
  ASSUME NEW S, NEW f \in [Drivers -> [Ids -> S]], NEW d \in Drivers, NEW n \in Ids, NEW v \in S
  PROVE  /\ [f EXCEPT ![d][n] = v] \in [Drivers -> [Ids -> S]]
         /\ \A e \in Drivers, m \in Ids :
              [f EXCEPT ![d][n] = v][e][m] = IF e = d /\ m = n THEN v ELSE f[e][m]
<1> DEFINE g == [f[d] EXCEPT ![n] = v]
<1>1. g \in [Ids -> S] /\ \A m \in Ids : g[m] = IF m = n THEN v ELSE f[d][m]
  OBVIOUS
<1>2. [f EXCEPT ![d][n] = v] = [f EXCEPT ![d] = g]
  OBVIOUS
<1> HIDE DEF g
<1> QED
  BY <1>1, <1>2

LEMMA FreshFits ==
  ASSUME NEW d, Ids \ QM!Named(d) # {}
  PROVE  QM!Fresh(d) \in Ids /\ QM!Fresh(d) \notin QM!Named(d)
BY DEF QM!Fresh

LEMMA WorksTyped ==
  ASSUME MessagesTyped, NEW w \in Tellers, QM!Works(w)
  PROVE  MessagesTyped'
<1> DEFINE t == worker[w]
           d == t.task.driver
           h == Head(t.rest)
<1>0. /\ TellerFits(t) /\ t \in TellerRec
      /\ places \in Seq(Drivers) /\ Once(places)
      /\ noted \in [Drivers -> Ids \cup {None}]
      /\ board \in [Drivers -> [Ids -> 0 .. QM!Cardinality(Drivers)]]
      /\ waiting \in [QM!Tasks -> Nat] /\ astray \subseteq Drivers
      /\ QM!Cardinality(Drivers) \in Nat
  BY CardinalityQM, MessagesAssumption, FS_CardinalityType DEF MessagesTyped
<1>h. t.pc \in Touching => h \in Drivers
  BY <1>0, ToNextFits
<1>d. t.task.kind # "notify" => d \in Drivers
  BY <1>0, TaskFits DEF TellerRec
<1>k. /\ t.pc = "adds" => t.task.kind = "add"
      /\ t.pc = "removes" => t.task.kind = "remove"
      /\ t.pc \in Clearing => t.task.kind \in {"remove", "clear"}
      /\ t.pc = "reads" => t.task.kind \in {"add", "remove", "notify"}
      /\ t.pc \in Touching => t.task.kind \in {"add", "remove", "notify"}
      /\ t.pc \notin Touching => t.rest = <<>>
  BY <1>0 DEF TellerFits, Kinds, Touching, Clearing
<1>1. ASSUME NEW x \in QM!Tasks, QM!Takes(w, x) PROVE MessagesTyped'
  <2>1. PICK u : u = Start(x) /\ Goes(w, u) /\ QM!Meets(w, u)
    BY <1>1 DEF QM!Takes, QM!Goes, Goes, Start
  <2>2. TellerFits(u)
    BY <2>1, StartFits
  <2>3. waiting' \in [QM!Tasks -> Nat]
    BY <1>0, <1>1 DEF QM!Takes
  <2> QED
    BY <1>0, <1>1, <2>1, <2>2, <2>3, MetTyped, TellerTyped DEF QM!Takes
<1>2. ASSUME QM!Adds(w) PROVE MessagesTyped'
  <2> DEFINE u == [t EXCEPT !.pc = "reads"]
  <2>1. Goes(w, u) /\ t.pc = "adds"
    BY <1>2 DEF QM!Adds, QM!Goes, Goes
  <2>2. TellerFits(u)
    BY <1>0, <1>k, <2>1 DEF TellerFits, TellerRec, Kinds, Touching, Clearing
  <2>3. /\ QM!Without(places, d) \in Seq(Drivers) /\ Once(QM!Without(places, d)) /\ d \in Drivers
        /\ ~QM!Contains(QM!Without(places, d), d)
    BY <1>0, <1>d, <1>k, <2>1, WithoutOne
  <2>4. places' \in Seq(Drivers) /\ Once(places')
    BY <1>2, <2>3, AppendOne DEF QM!Adds
  <2> HIDE DEF u
  <2> QED
    BY <1>0, <1>2, <2>1, <2>2, <2>4, TellerTyped DEF QM!Adds
<1>3. ASSUME QM!Removes(w) PROVE MessagesTyped'
  <2>1. PICK u : /\ u = IF places = <<>> THEN QM!Idle ELSE [t EXCEPT !.pc = "looks"]
                 /\ Goes(w, u) /\ t.pc = "removes"
                 /\ astray' = astray \cup {d} \/ QM!Meets(w, u)
    BY <1>3 DEF QM!Removes, QM!Goes, Goes
  <2>2. TellerFits(u)
    BY <1>0, <1>k, <2>1, IdleFits DEF TellerFits, TellerRec, Kinds, Touching, Clearing
  <2>3. places' \in Seq(Drivers) /\ Once(places')
    BY <1>0, <1>3, WithoutOne DEF QM!Removes
  <2>4. astray' \subseteq Drivers
    BY <1>0, <1>d, <1>k, <2>1, <2>2, MetTyped
  <2> QED
    BY <1>0, <1>3, <2>1, <2>2, <2>3, <2>4, TellerTyped DEF QM!Removes
<1>4. ASSUME QM!Looks(w) PROVE MessagesTyped'
  <2>1. /\ t.pc = "looks" /\ t.pc \in Clearing /\ d \in Drivers
        /\ \/ Goes(w, QM!Cleared(t))
           \/ noted[d] # None /\ Goes(w, [t EXCEPT !.pc = "deletes", !.prev = noted[d]])
        /\ astray' = astray \/ astray' = astray \cup {d}
    BY <1>4, <1>d, <1>k DEF QM!Looks, QM!Goes, Goes, Clearing
  <2>2. noted[d] # None => TellerFits([t EXCEPT !.pc = "deletes", !.prev = noted[d]])
    BY <1>0, <1>k, <2>1 DEF TellerFits, TellerRec, Kinds, Touching, Clearing
  <2> QED
    BY <1>0, <1>4, <2>1, <2>2, ClearedFits, TellerTyped DEF QM!Looks
<1>5. ASSUME QM!Deletes(w) PROVE MessagesTyped'
  <2> DEFINE u == [t EXCEPT !.pc = "forgets"]
  <2>1. t.pc = "deletes" /\ Goes(w, u) /\ d \in Drivers /\ t.prev \in Ids
    BY <1>0, <1>5, <1>d, <1>k DEF QM!Deletes, QM!Goes, Goes, Clearing, TellerFits
  <2>2. TellerFits(u)
    BY <1>0, <1>k, <2>1 DEF TellerFits, TellerRec, Kinds, Touching, Clearing
  <2>3. board' \in [Drivers -> [Ids -> 0 .. QM!Cardinality(Drivers)]]
    <3>1. board' = [board EXCEPT ![d][t.prev] = 0] \/ board' = board
      BY <1>5 DEF QM!Deletes
    <3>2. 0 \in 0 .. QM!Cardinality(Drivers)
      BY <1>0
    <3>3. [board EXCEPT ![d][t.prev] = 0] \in [Drivers -> [Ids -> 0 .. QM!Cardinality(Drivers)]]
      BY <1>0, <2>1, <3>2, WrittenOnce
    <3> QED
      BY <1>0, <3>1, <3>3
  <2> HIDE DEF u
  <2> QED
    BY <1>0, <1>5, <2>1, <2>2, <2>3, TellerTyped DEF QM!Deletes
<1>6. ASSUME QM!Forgets(w) PROVE MessagesTyped'
  <2>1. t.pc = "forgets" /\ Goes(w, QM!Cleared(t)) /\ d \in Drivers /\ t.pc \in Clearing
    BY <1>6, <1>d, <1>k DEF QM!Forgets, QM!Goes, Goes, Clearing
  <2>2. noted' \in [Drivers -> Ids \cup {None}]
    BY <1>0, <1>6, <2>1 DEF QM!Forgets
  <2> QED
    BY <1>0, <1>6, <2>1, <2>2, ClearedFits, TellerTyped DEF QM!Forgets
<1>7. ASSUME QM!Reads(w) PROVE MessagesTyped'
  <2> DEFINE u == IF places = <<>> THEN QM!Idle
                  ELSE [t EXCEPT !.pc = "asks", !.rest = places, !.place = 1]
  <2>1. /\ t.pc = "reads"
        /\ \/ Goes(w, u) /\ QM!Meets(w, u)
           \/ Goes(w, QM!Idle) /\ astray' = Drivers
    BY <1>7 DEF QM!Reads, QM!Goes, Goes
  <2>2. TellerFits(u)
    <3>1. CASE places = <<>>
      BY <3>1, IdleFits
    <3>2. CASE places # <<>>
      <4>1. Len(places) \in 0 .. QM!Cardinality(Drivers)
        BY <1>0, PlacesBounded
      <4> DEFINE v == [t EXCEPT !.pc = "asks", !.rest = places, !.place = 1]
      <4>2. v \in TellerRec
        BY <1>0 DEF TellerRec, Touching
      <4>3. v.pc = "asks" /\ v.rest = places /\ v.place = 1 /\ v.task = t.task
        BY <1>0 DEF TellerRec
      <4>4. u = v
        BY <3>2
      <4> HIDE DEF u, v
      <4>5. v.place >= 1 /\ v.place + Len(v.rest) <= QM!Cardinality(Drivers) + 1
        BY <1>0, <4>1, <4>3
      <4> QED
        BY <1>0, <1>k, <2>1, <3>2, <4>2, <4>3, <4>4, <4>5
        DEF TellerFits, Kinds, Touching, Clearing
    <3> QED
      BY <3>1, <3>2
  <2> HIDE DEF u
  <2>3. astray' \subseteq Drivers
    BY <2>1, <2>2, MetTyped
  <2> QED
    BY <1>0, <1>7, <2>1, <2>2, <2>3, IdleFits, TellerTyped DEF QM!Reads
<1>8. ASSUME QM!Asks(w) PROVE MessagesTyped'
  <2>1. PICK n \in Ids \cup {None} :
          /\ t.pc = "asks" /\ h \in Drivers
          /\ Goes(w, [t EXCEPT !.pc = "sends", !.prev = n])
          /\ astray' = astray \/ astray' = astray \cup {h}
    BY <1>0, <1>8, <1>h DEF QM!Asks, QM!Goes, Goes, Touching
  <2>2. TellerFits([t EXCEPT !.pc = "sends", !.prev = n])
    BY <1>0, <1>k, <2>1 DEF TellerFits, TellerRec, Kinds, Touching, Clearing
  <2> QED
    BY <1>0, <1>8, <2>1, <2>2, TellerTyped DEF QM!Asks
<1>9. ASSUME QM!Sends(w) PROVE MessagesTyped'
  <2> DEFINE c == QM!Replaced(board, h, t.prev)
  <2>1. t.pc = "sends" /\ h \in Drivers /\ t.pc \in Touching
    BY <1>9, <1>h DEF QM!Sends, Touching
  <2>2. c \in [Drivers -> [Ids -> 0 .. QM!Cardinality(Drivers)]]
    <3>1. t.prev # None => t.prev \in Ids
      BY <1>0 DEF TellerRec
    <3> QED
      BY <1>0, <2>1, <3>1, WrittenOnce, 0 \in 0 .. QM!Cardinality(Drivers) DEF QM!Replaced
  <2> HIDE DEF c
  <2>3. CASE /\ Ids \ QM!Named(h) # {}
             /\ board' = [c EXCEPT ![h][QM!Fresh(h)] = t.place]
             /\ QM!Goes(w, [t EXCEPT !.pc = "notes", !.sent = QM!Fresh(h)])
             /\ UNCHANGED <<mishaps, astray>>
    <3>1. QM!Fresh(h) \in Ids
      BY <2>3, FreshFits
    <3>2. t.place \in 0 .. QM!Cardinality(Drivers)
      <4>1. Len(t.rest) >= 1 /\ Len(t.rest) \in Nat
        BY <1>0, <2>1, ToNextFits DEF TellerRec
      <4> QED
        BY <1>0, <2>1, <4>1 DEF TellerFits, TellerRec
    <3>3. board' \in [Drivers -> [Ids -> 0 .. QM!Cardinality(Drivers)]]
      BY <2>2, <2>3, <3>1, <3>2
    <3>4. TellerFits([t EXCEPT !.pc = "notes", !.sent = QM!Fresh(h)])
      BY <1>0, <1>k, <2>1, <3>1 DEF TellerFits, TellerRec, Kinds, Touching, Clearing
    <3> QED
      BY <1>0, <1>9, <2>3, <3>3, <3>4, TellerTyped DEF QM!Sends, QM!Goes, Goes
  <2>4. CASE /\ board' = c \/ board' = board
             /\ astray' = astray \/ astray' = astray \cup {h}
             /\ QM!Goes(w, QM!ToNext(t))
    <3>1. TellerFits(QM!ToNext(t)) /\ Goes(w, QM!ToNext(t))
      BY <1>0, <2>1, <2>4, ToNextFits DEF QM!Goes, Goes
    <3>2. places' = places /\ noted' = noted /\ waiting' = waiting
      BY <1>9 DEF QM!Sends
    <3>3. astray' \subseteq Drivers /\ board' \in [Drivers -> [Ids -> 0 .. QM!Cardinality(Drivers)]]
      BY <1>0, <2>1, <2>2, <2>4
    <3> QED
      BY <1>0, <3>1, <3>2, <3>3, TellerTyped DEF Once
  <2> QED
    BY <1>9, <2>3, <2>4 DEF QM!Sends, c
<1>10. ASSUME QM!Notes(w) PROVE MessagesTyped'
  <2>1. t.pc = "notes" /\ h \in Drivers /\ t.pc \in Touching /\ t.sent \in Ids
    BY <1>0, <1>10, <1>h DEF QM!Notes, Touching, TellerFits
  <2>2. /\ noted' \in [Drivers -> Ids \cup {None}]
        /\ astray' \subseteq Drivers
        /\ Goes(w, QM!ToNext(t))
    BY <1>0, <1>10, <2>1 DEF QM!Notes, QM!Goes, Goes
  <2> QED
    BY <1>0, <1>10, <2>1, <2>2, ToNextFits, TellerTyped DEF QM!Notes
<1> QED
  BY <1>1, <1>2, <1>3, <1>4, <1>5, <1>6, <1>7, <1>8, <1>9, <1>10 DEF QM!Works

LEMMA DiesTyped ==
  ASSUME MessagesTyped, NEW w \in Tellers, QM!Dies(w)
  PROVE  MessagesTyped'
<1> DEFINE t == worker[w]
<1>1. TellerFits(t) /\ t \in TellerRec /\ waiting \in [QM!Tasks -> Nat] /\ astray \subseteq Drivers
  BY DEF MessagesTyped
<1>2. waiting' \in [QM!Tasks -> Nat]
  BY <1>1 DEF QM!Dies, TellerRec
<1>3. astray' \subseteq Drivers
  BY <1>1, ToNextFits DEF QM!Dies, Touching
<1> QED
  BY <1>2, <1>3, IdleFits, TellerTyped DEF QM!Dies, QM!Goes, Goes, MessagesTyped

LEMMA MessagesTypedInit == QM!Init => MessagesTyped
<1> SUFFICES ASSUME QM!Init PROVE MessagesTyped
  OBVIOUS
<1>1. QM!Cardinality(Drivers) \in Nat
  BY CardinalityQM, MessagesAssumption, FS_CardinalityType
<1>2. <<>> \in Seq(Drivers) /\ Once(<<>>)
  BY DEF Once
<1> QED
  BY <1>1, <1>2, IdleFits DEF QM!Init, MessagesTyped, TellerFits

LEMMA MessagesTypedNext ==
  ASSUME MessagesTyped, [QM!Next]_QM!vars
  PROVE  MessagesTyped'
<1>1. CASE UNCHANGED QM!vars
  BY <1>1 DEF QM!vars, MessagesTyped
<1>2. CASE QM!Next
  BY <1>2, ChangesTyped, WorksTyped, DiesTyped DEF QM!Next
<1> QED
  BY <1>1, <1>2

LEMMA MessagesTypesFit == MessagesTyped => QM!TypeOK
<1> SUFFICES ASSUME MessagesTyped PROVE QM!TypeOK
  OBVIOUS
<1>1. QM!ToSet(places) \subseteq Drivers /\ QM!IsInjective(places)
  <2>1. DOMAIN places = 1 .. Len(places)
    BY DEF MessagesTyped
  <2> QED
    BY <2>1 DEF MessagesTyped, QM!ToSet, QM!IsInjective, Once
<1> QED
  BY <1>1 DEF MessagesTyped, QM!TypeOK

--------------------------------------------------------------------------------
(* What a driver sees *)

\* A message that is still to be noted tells the place it was sent with
SentAsCounted ==
  \A w \in Tellers :
    worker[w].pc = "notes" => board[Head(worker[w].rest)][worker[w].sent] \in {0, worker[w].place}

\* A teller is about to touch the message of d
Minds(t, d) == QM!Contains(t.rest, d) \/ (t.pc \in Clearing /\ t.task.driver = d)

\* A teller has sent d a message and not noted it
Sending(t, d) == t.pc = "notes" /\ Head(t.rest) = d

\* The queue will be read again
TellsNews(t) == t.pc \in {"adds", "removes", "reads"} \/ (t.pc \in Clearing /\ t.task.kind = "remove")
News ==
  \/ \E x \in QM!Tasks : x.kind # "clear" /\ waiting[x] > 0
  \/ \E w \in Tellers : TellsNews(worker[w])

\* The message of d will be taken away
TakesAway(t, d) == t.task.driver = d /\ t.pc \in {"removes", "looks", "deletes"}
Clears(d) ==
  \/ \E k \in {"remove", "clear"} : waiting[QM!Task(k, d)] > 0
  \/ \E w \in Tellers : TakesAway(worker[w], d)

InQueue(d) == QM!Contains(places, d)
Showing(d) == QM!Shown(board, d)

\* Two tellers at the message of one driver make him astray
Separate(d) == \A v, w \in Tellers : v # w => ~(Minds(worker[v], d) /\ Minds(worker[w], d))

\* The chat shows no message but the one noted, or the one just sent and to be noted
OneMessage(d) ==
  /\ \A w \in Tellers : Sending(worker[w], d) => Showing(d) \subseteq {worker[w].sent}
  /\ (\A w \in Tellers : ~Sending(worker[w], d)) => Showing(d) \subseteq {noted[d]}

\* What a teller has read of d holds until it acts on it
KnowsOf(t, d) ==
  /\ t.pc = "sends" /\ Head(t.rest) = d => t.prev = noted[d]
  /\ t.pc = "deletes" /\ t.task.driver = d => t.prev = noted[d]
  /\ t.pc = "forgets" /\ t.task.driver = d => Showing(d) = {}
Knows(d) == \A w \in Tellers : KnowsOf(worker[w], d)

\* What is shown to a driver in the queue is his place, or he will be told
TruthTold(d) ==
  \/ News
  \/ \E w \in Tellers : QM!Contains(worker[w].rest, d)
  \/ \A n \in Showing(d) : board[d][n] = QM!Place(d)
Truthful(d) == InQueue(d) => TruthTold(d)

\* A teller that counts through the list will come to d with the place he has, or the
\* queue will be read again
CountsRight(t, d) == \A i \in 1 .. Len(t.rest) : t.rest[i] = d => t.place + i - 1 = QM!Place(d)
InPlace(d) == InQueue(d) => News \/ \A w \in Tellers : CountsRight(worker[w], d)

\* Who is shown or about to be told a place and has none will be cleared
Gone(d) ==
  ~InQueue(d) /\ (Showing(d) # {} \/ \E w \in Tellers : QM!Contains(worker[w].rest, d)) => Clears(d)

\* All of it, of one driver
Followed(d) ==
  Separate(d) /\ OneMessage(d) /\ Knows(d) /\ Truthful(d) /\ InPlace(d) /\ Gone(d)

\* The inductive invariant
MessagesInv ==
  /\ MessagesTyped
  /\ SentAsCounted
  /\ \A d \in Drivers \ astray : Followed(d)

\* When the tasks are done, nothing is news, and nobody is to be told or cleared
LEMMA MessagesInvTells == MessagesInv => QM!PlaceIsTold
<1> SUFFICES ASSUME MessagesInv, QM!Running = {}, \A x \in QM!Tasks : waiting[x] = 0,
                    NEW d \in Drivers \ astray, NEW n \in QM!Shown(board, d)
             PROVE  noted[d] = n /\ board[d][n] = QM!Place(d)
  BY DEF QM!PlaceIsTold
<1>1. \A w \in Tellers : worker[w].pc = "idle" /\ TellerFits(worker[w])
  BY DEF QM!Running, MessagesInv, MessagesTyped
<1>2. \A w \in Tellers : worker[w].rest = <<>>
  BY <1>1 DEF TellerFits, Touching
<1>3. \A w \in Tellers : ~QM!Contains(worker[w].rest, d)
  <2>1. ~QM!Contains(<<>>, d)
    BY DEF QM!Contains
  <2> QED
    BY <1>2, <2>1
<1>4. ~News
  BY <1>1 DEF News, TellsNews, Clearing
<1>5. ~Clears(d)
  BY <1>1, TaskFits DEF Clears, TakesAway
<1>6. Followed(d) /\ n \in Showing(d)
  BY DEF MessagesInv, Showing
<1>7. InQueue(d)
  BY <1>5, <1>6 DEF Followed, Gone
<1>8. board[d][n] = QM!Place(d)
  BY <1>3, <1>4, <1>6, <1>7 DEF Followed, Truthful, TruthTold
<1>9. noted[d] = n
  BY <1>1, <1>6 DEF Followed, OneMessage, Sending
<1> QED
  BY <1>8, <1>9

LEMMA MessagesInvInit == QM!Init => MessagesInv
<1> SUFFICES ASSUME QM!Init PROVE MessagesInv
  OBVIOUS
<1>1. MessagesTyped
  BY MessagesTypedInit
<1>2. \A w \in Tellers : worker[w].pc = "idle" /\ \A d : ~QM!Contains(worker[w].rest, d)
  BY IdleFits DEF QM!Init
<1>3. SentAsCounted
  BY <1>2 DEF SentAsCounted
<1>4. ASSUME NEW d \in Drivers PROVE Followed(d)
  <2>1. Showing(d) = {} /\ ~InQueue(d)
    BY <1>4 DEF QM!Init, Showing, QM!Shown, InQueue, QM!Contains
  <2>2. \A w \in Tellers : ~Minds(worker[w], d) /\ ~Sending(worker[w], d) /\ KnowsOf(worker[w], d)
    BY <1>2 DEF Minds, Sending, KnowsOf, Clearing
  <2> QED
    BY <1>2, <2>1, <2>2 DEF Followed, Separate, OneMessage, Knows, Truthful, InPlace, Gone
<1> QED
  BY <1>1, <1>3, <1>4 DEF MessagesInv

LEMMA MindsIs ==
  ASSUME NEW t, TellerFits(t), NEW d \in Drivers
  PROVE  /\ d \in QM!Concerns(t) <=> Minds(t, d)
         /\ d \in QM!Touched(t) <=> Minds(t, d)
         /\ Sending(t, d) => Minds(t, d)
<1>1. DOMAIN t.rest = 1 .. Len(t.rest)
  BY DEF TellerFits, TellerRec
<1>2. d \in QM!ToSet(t.rest) <=> QM!Contains(t.rest, d)
  BY <1>1 DEF QM!ToSet, QM!Contains
<1>3. d \in QM!Concerns(t) <=> Minds(t, d)
  BY <1>2 DEF QM!Concerns, Minds, Clearing
<1>4. t.pc = "idle" => ~Minds(t, d)
  BY DEF TellerFits, Touching, Minds, Clearing, QM!Contains
<1>5. Sending(t, d) => Minds(t, d)
  BY ToNextFits DEF Sending, Minds, Touching
<1> QED
  BY <1>3, <1>4, <1>5 DEF QM!Touched

LEMMA MetApart ==
  ASSUME MessagesTyped, NEW w \in Tellers, NEW t, TellerFits(t), QM!Meets(w, t),
         NEW d \in Drivers \ astray', Minds(t, d)
  PROVE  \A v \in Tellers \ {w} : ~Minds(worker[v], d)
<1>1. \A v \in Tellers \ {w} : d \notin QM!Touched(worker[v])
  BY MindsIs DEF QM!Meets
<1> QED
  BY <1>1, MindsIs DEF MessagesTyped

--------------------------------------------------------------------------------
(* What changes the queue *)

LEMMA MoreWaiting ==
  ASSUME MessagesTyped, worker' = worker, \A x \in QM!Tasks : waiting'[x] >= waiting[x],
         waiting' \in [QM!Tasks -> Nat]
  PROVE  (News => News') /\ \A d \in Drivers : Clears(d) => Clears(d)'
<1>1. \A x \in QM!Tasks : waiting[x] > 0 => waiting'[x] > 0
  BY DEF MessagesTyped
<1>2. News => News'
  BY <1>1 DEF News
<1>3. \A d \in Drivers : Clears(d) => Clears(d)'
  BY <1>1, TaskFits DEF Clears
<1> QED
  BY <1>2, <1>3

\* The tellers stay where they are
LEMMA ChangeKeeps ==
  ASSUME NEW d \in Drivers, Followed(d), UNCHANGED <<noted, board, worker>>,
         News => News', Clears(d) => Clears(d)',
         News' \/ places' = places \/ ~InQueue(d)',
         (InQueue(d)' <=> InQueue(d)) \/ InQueue(d)' \/ Clears(d)'
  PROVE  Followed(d)'
<1>1. Separate(d)'
  BY DEF Followed, Separate
<1>2. OneMessage(d)'
  BY DEF Followed, OneMessage, Showing
<1>3. Knows(d)'
  BY DEF Followed, Knows, KnowsOf, Showing
<1>4. Truthful(d)' /\ InPlace(d)'
  <2>1. CASE News' \/ ~InQueue(d)'
    BY <2>1 DEF Truthful, TruthTold, InPlace
  <2>2. CASE places' = places
    <3>1. QM!Place(d)' = QM!Place(d) /\ (InQueue(d)' <=> InQueue(d))
      BY <2>2 DEF QM!Place, InQueue
    <3>2. Truthful(d)'
      BY <3>1 DEF Followed, Truthful, TruthTold, Showing
    <3>3. InPlace(d)'
      BY <3>1 DEF Followed, InPlace, CountsRight
    <3> QED
      BY <3>2, <3>3
  <2> QED
    BY <2>1, <2>2
<1>5. Gone(d)'
  BY DEF Followed, Gone, Showing
<1> QED
  BY <1>1, <1>2, <1>3, <1>4, <1>5 DEF Followed

LEMMA ChangesKeep ==
  ASSUME MessagesInv, QM!Changes, NEW d \in Drivers \ astray'
  PROVE  Followed(d)'
<1>1. MessagesTyped /\ (d \notin astray => Followed(d)) /\ waiting \in [QM!Tasks -> Nat]
  BY DEF MessagesInv, MessagesTyped
<1>2. ASSUME NEW e \in Drivers, QM!Joins(e) \/ QM!Stops(e) PROVE Followed(d)'
  <2>1. PICK k \in {"add", "remove"} :
          QM!Publishes({QM!Task(k, e)}) /\ UNCHANGED <<places, noted, board, worker, astray>>
    BY <1>2 DEF QM!Joins, QM!Stops
  <2>2. /\ waiting' \in [QM!Tasks -> Nat] /\ \A x \in QM!Tasks : waiting'[x] >= waiting[x]
        /\ waiting'[QM!Task(k, e)] > 0
    BY <1>1, <2>1, Published, TaskFits
  <2>3. News'
    BY <2>2, TaskFits DEF News
  <2>4. Clears(d) => Clears(d)'
    BY <1>1, <2>1, <2>2, MoreWaiting
  <2> QED
    BY <1>1, <2>1, <2>3, <2>4, ChangeKeeps DEF InQueue
<1>3. ASSUME NEW e \in Drivers, QM!Offers(e) PROVE Followed(d)'
  <2>1. /\ waiting' \in [QM!Tasks -> Nat] /\ \A x \in QM!Tasks : waiting'[x] >= waiting[x]
    BY <1>1, <1>3, Published DEF QM!Offers
  <2>2. (News => News') /\ (Clears(d) => Clears(d)')
    BY <1>1, <1>3, <2>1, MoreWaiting DEF QM!Offers
  <2> QED
    BY <1>1, <1>3, <2>2, ChangeKeeps DEF QM!Offers, InQueue
<1>4. ASSUME NEW e \in Drivers, QM!Fills(e) PROVE Followed(d)'
  <2>1. /\ waiting' \in [QM!Tasks -> Nat] /\ \A x \in QM!Tasks : waiting'[x] >= waiting[x]
        /\ waiting'[QM!Task("clear", e)] > 0 /\ waiting'[QM!Notify] > 0
    BY <1>1, <1>4, Published, TaskFits DEF QM!Fills
  <2>2. News'
    BY <2>1, TaskFits DEF News, QM!Notify, QM!Task
  <2>3. Clears(d) => Clears(d)'
    BY <1>1, <1>4, <2>1, MoreWaiting DEF QM!Fills
  <2>4. (InQueue(d)' <=> InQueue(d)) \/ Clears(d)'
    <3>1. CASE d = e
      BY <2>1, <3>1 DEF Clears
    <3>2. CASE d # e
      <4>1. InQueue(d)' <=> InQueue(d)
        BY <1>1, <1>4, <3>2, WithoutOne DEF MessagesTyped, QM!Fills, InQueue
      <4> QED
        BY <4>1
    <3> QED
      BY <3>1, <3>2
  <2> QED
    BY <1>1, <1>4, <2>2, <2>3, <2>4, ChangeKeeps DEF QM!Fills
<1>5. ASSUME QM!Untold PROVE Followed(d)'
  <2>1. d \notin QM!ToSet(places) /\ d \notin astray
    BY <1>5 DEF QM!Untold
  <2>2. DOMAIN places = 1 .. Len(places) /\ places \in Seq(Drivers) /\ Once(places)
    BY <1>1 DEF MessagesTyped
  <2>3. ~QM!Contains(places, d)
    BY <2>1, <2>2 DEF QM!ToSet, QM!Contains
  <2>4. ~QM!Contains(places', d)
    <3>1. ASSUME NEW e \in QM!ToSet(places), places' = QM!Without(places, e)
          PROVE  ~QM!Contains(places', d)
      BY <2>2, <2>3, <3>1, WithoutOne
    <3>2. ASSUME NEW e \in QM!ToSet(places), places' = <<e>> \o QM!Without(places, e)
          PROVE  ~QM!Contains(places', d)
      <4>1. e \in Drivers /\ e # d
        BY <2>1, <2>2 DEF QM!ToSet
      <4>2. /\ QM!Without(places, e) \in Seq(Drivers) /\ Once(QM!Without(places, e))
            /\ ~QM!Contains(QM!Without(places, e), e) /\ ~QM!Contains(QM!Without(places, e), d)
        BY <2>2, <2>3, <4>1, WithoutOne
      <4> QED
        BY <3>2, <4>1, <4>2, ConsOne
    <3>3. CASE places' = <<>>
      BY <3>3 DEF QM!Contains
    <3> QED
      BY <1>5, <3>1, <3>2, <3>3 DEF QM!Untold
  <2>5. (News => News') /\ (Clears(d) => Clears(d)')
    BY <1>5 DEF QM!Untold, News, Clears
  <2> QED
    BY <1>1, <1>5, <2>1, <2>3, <2>4, <2>5, ChangeKeeps DEF QM!Untold, InQueue
<1> QED
  BY <1>2, <1>3, <1>4, <1>5 DEF QM!Changes

--------------------------------------------------------------------------------
(* What a step of a teller leaves as it was.  It passes a driver by, or it *)
(* is alone with him.                                                      *)

OthersStay(w) == \A v \in Tellers \ {w} : worker'[v] = worker[v]

LEMMA NewsKept ==
  ASSUME MessagesTyped, NEW w \in Tellers, OthersStay(w), waiting' = waiting,
         TellsNews(worker[w]) => TellsNews(worker[w])'
  PROVE  News => News'
<1>1. \A v \in Tellers : TellsNews(worker[v]) => TellsNews(worker[v])'
  BY DEF OthersStay, TellsNews
<1> QED
  BY <1>1 DEF News

LEMMA ClearsKept ==
  ASSUME MessagesTyped, NEW w \in Tellers, OthersStay(w), waiting' = waiting, NEW d \in Drivers,
         TakesAway(worker[w], d) => TakesAway(worker[w], d)'
  PROVE  Clears(d) => Clears(d)'
<1>1. \A v \in Tellers : TakesAway(worker[v], d) => TakesAway(worker[v], d)'
  BY DEF OthersStay, TakesAway
<1> QED
  BY <1>1 DEF Clears

LEMMA NotMinding ==
  ASSUME NEW t, TellerFits(t), NEW d \in Drivers, ~Minds(t, d)
  PROVE  KnowsOf(t, d) /\ CountsRight(t, d) /\ ~Sending(t, d) /\ ~QM!Contains(t.rest, d)
<1>1. ~QM!Contains(t.rest, d)
  BY DEF Minds
<1>2. t.pc \in Touching => Head(t.rest) # d
  BY <1>1, ToNextFits
<1> QED
  BY <1>1, <1>2 DEF Minds, Clearing, Touching, KnowsOf, CountsRight, Sending, QM!Contains

LEMMA PassingKeeps ==
  ASSUME MessagesTyped, NEW w \in Tellers, OthersStay(w),
         NEW d \in Drivers, Followed(d),
         noted'[d] = noted[d], board'[d] = board[d],
         Minds(worker[w], d)' => Minds(worker[w], d),
         QM!Contains(worker[w].rest, d)' <=> QM!Contains(worker[w].rest, d),
         Sending(worker[w], d)' <=> Sending(worker[w], d),
         Sending(worker[w], d) => worker'[w].sent = worker[w].sent,
         KnowsOf(worker[w], d) => KnowsOf(worker[w], d)',
         places' = places /\ CountsRight(worker[w], d) => CountsRight(worker[w], d)',
         Clears(d) => Clears(d)',
         News' \/ ~InQueue(d)' \/ (places' = places /\ (News => News')),
         (InQueue(d)' <=> InQueue(d)) \/ InQueue(d)' \/ Clears(d)'
  PROVE  Followed(d)'
<1>0. \A v \in Tellers : /\ Minds(worker[v], d)' => Minds(worker[v], d)
                         /\ QM!Contains(worker[v].rest, d)' <=> QM!Contains(worker[v].rest, d)
                         /\ Sending(worker[v], d)' <=> Sending(worker[v], d)
                         /\ Sending(worker[v], d) => worker'[v].sent = worker[v].sent
  BY DEF OthersStay, Minds, Sending
<1>s. Showing(d)' = Showing(d)
  BY DEF Showing, QM!Shown
<1>1. Separate(d)'
  BY <1>0 DEF Followed, Separate
<1>2. OneMessage(d)'
  BY <1>0, <1>s DEF Followed, OneMessage
<1>3. Knows(d)'
  BY <1>s DEF Followed, Knows, OthersStay, KnowsOf
<1>4. Truthful(d)' /\ InPlace(d)'
  <2>1. CASE News' \/ ~InQueue(d)'
    BY <2>1 DEF Truthful, TruthTold, InPlace
  <2>2. CASE places' = places /\ (News => News')
    <3>1. QM!Place(d)' = QM!Place(d) /\ (InQueue(d)' <=> InQueue(d))
      BY <2>2 DEF QM!Place, InQueue
    <3>2. Truthful(d)'
      BY <1>0, <1>s, <3>1 DEF Followed, Truthful, TruthTold
    <3>3. InPlace(d)'
      <4>1. ASSUME NEW v \in Tellers, CountsRight(worker[v], d) PROVE CountsRight(worker[v], d)'
        <5>1. CASE v = w
          BY <2>2, <4>1, <5>1
        <5>2. CASE v # w
          BY <3>1, <4>1, <5>2 DEF CountsRight, OthersStay
        <5> QED
          BY <5>1, <5>2
      <4> QED
        BY <3>1, <4>1 DEF Followed, InPlace
    <3> QED
      BY <3>2, <3>3
  <2> QED
    BY <2>1, <2>2
<1>5. Gone(d)'
  BY <1>0, <1>s DEF Followed, Gone
<1> QED
  BY <1>1, <1>2, <1>3, <1>4, <1>5 DEF Followed

\* The teller has nothing to do with d, before and after
LEMMA AsideKeeps ==
  ASSUME MessagesTyped, MessagesTyped', NEW w \in Tellers, OthersStay(w),
         NEW d \in Drivers, Followed(d),
         noted'[d] = noted[d], board'[d] = board[d],
         ~Minds(worker[w], d), ~Minds(worker[w], d)',
         Clears(d) => Clears(d)',
         News' \/ ~InQueue(d)' \/ (places' = places /\ (News => News')),
         (InQueue(d)' <=> InQueue(d)) \/ InQueue(d)' \/ Clears(d)'
  PROVE  Followed(d)'
<1>1. ~Sending(worker[w], d) /\ ~QM!Contains(worker[w].rest, d)
  BY NotMinding DEF MessagesTyped
<1>2. TellerFits(worker'[w])
  BY DEF MessagesTyped
<1> DEFINE u == worker'[w]
<1>3. ~Minds(u, d)
  BY DEF Minds
<1>4. ~Sending(u, d) /\ ~QM!Contains(u.rest, d)
  BY <1>2, <1>3, NotMinding
<1>5. KnowsOf(worker[w], d)' /\ CountsRight(worker[w], d)'
  <2>1. ~QM!Contains(u.rest, d) /\ (u.pc \in Touching => Head(u.rest) # d)
    BY <1>2, <1>3, <1>4, ToNextFits
  <2> QED
    BY <1>3, <2>1 DEF Minds, Clearing, Touching, KnowsOf, CountsRight, QM!Contains
<1>6. ~Sending(worker[w], d)' /\ ~QM!Contains(worker[w].rest, d)'
  BY <1>4 DEF Sending
<1> QED
  BY <1>1, <1>5, <1>6, PassingKeeps

\* Nobody else has anything to do with d
AloneWith(w, d) == \A v \in Tellers \ {w} : ~Minds(worker[v], d)

LEMMA AloneTells ==
  ASSUME MessagesTyped, NEW w \in Tellers, NEW d \in Drivers, Followed(d), AloneWith(w, d)
  PROVE  /\ ~Sending(worker[w], d) => Showing(d) \subseteq {noted[d]}
         /\ ~QM!Contains(worker[w].rest, d) =>
               \A v \in Tellers : ~QM!Contains(worker[v].rest, d)
<1>1. \A v \in Tellers \ {w} : ~Sending(worker[v], d) /\ ~QM!Contains(worker[v].rest, d)
  BY NotMinding DEF AloneWith, MessagesTyped
<1> QED
  BY <1>1 DEF Followed, OneMessage

LEMMA AloneKeeps ==
  ASSUME MessagesTyped, NEW w \in Tellers, OthersStay(w), NEW d \in Drivers, AloneWith(w, d),
         Sending(worker[w], d)' => Showing(d)' \subseteq {worker'[w].sent},
         ~Sending(worker[w], d)' => Showing(d)' \subseteq {noted'[d]},
         KnowsOf(worker[w], d)',
         InQueue(d)' => \/ News' \/ QM!Contains(worker[w].rest, d)'
                        \/ \A n \in Showing(d)' : board'[d][n] = QM!Place(d)',
         InQueue(d)' => News' \/ CountsRight(worker[w], d)',
         ~InQueue(d)' /\ (Showing(d)' # {} \/ QM!Contains(worker[w].rest, d)') => Clears(d)'
  PROVE  Followed(d)'
<1>1. \A v \in Tellers \ {w} :
        /\ ~Minds(worker[v], d)' /\ ~Sending(worker[v], d)'
        /\ ~QM!Contains(worker[v].rest, d)'
        /\ worker'[v] = worker[v] /\ KnowsOf(worker[v], d)' /\ CountsRight(worker[v], d)'
  <2> SUFFICES ASSUME NEW v \in Tellers \ {w}
               PROVE  /\ ~Minds(worker[v], d)' /\ ~Sending(worker[v], d)'
                      /\ ~QM!Contains(worker[v].rest, d)'
                      /\ worker'[v] = worker[v] /\ KnowsOf(worker[v], d)'
                      /\ CountsRight(worker[v], d)'
    OBVIOUS
  <2>1. worker'[v] = worker[v] /\ ~Minds(worker[v], d) /\ TellerFits(worker[v])
    BY DEF OthersStay, AloneWith, MessagesTyped
  <2>2. ~Sending(worker[v], d) /\ ~QM!Contains(worker[v].rest, d)
    BY <2>1, NotMinding
  <2>3. worker[v].pc \in Touching => Head(worker[v].rest) # d
    BY <2>1, <2>2, ToNextFits
  <2>4. ~Minds(worker[v], d)' /\ ~Sending(worker[v], d)' /\ ~QM!Contains(worker[v].rest, d)'
    BY <2>1, <2>2 DEF Minds, Sending
  <2>5. KnowsOf(worker[v], d)'
    BY <2>1, <2>3 DEF KnowsOf, Minds, Clearing, Touching
  <2>6. CountsRight(worker[v], d)'
    BY <2>1, <2>2 DEF CountsRight, QM!Contains
  <2> QED
    BY <2>1, <2>4, <2>5, <2>6
<1>2. Separate(d)'
  BY <1>1 DEF Separate
<1>3. OneMessage(d)'
  BY <1>1 DEF OneMessage
<1>4. Knows(d)'
  BY <1>1 DEF Knows
<1>5. Truthful(d)'
  BY DEF Truthful, TruthTold
<1>6. InPlace(d)'
  BY <1>1 DEF InPlace
<1>7. Gone(d)'
  BY <1>1 DEF Gone
<1> QED
  BY <1>2, <1>3, <1>4, <1>5, <1>6, <1>7 DEF Followed

--------------------------------------------------------------------------------
(* The steps of a teller *)

LEMMA Going ==
  ASSUME MessagesTyped, NEW w \in Tellers, NEW u, QM!Goes(w, u)
  PROVE  worker'[w] = u /\ OthersStay(w)
BY DEF QM!Goes, OthersStay, MessagesTyped

LEMMA EmptyList == \A d : ~QM!Contains(<<>>, d)
BY DEF QM!Contains

LEMMA TakesKeep ==
  ASSUME MessagesInv, MessagesTyped', NEW w \in Tellers, NEW x \in QM!Tasks, QM!Takes(w, x),
         NEW d \in Drivers \ astray'
  PROVE  Followed(d)'
<1>0. MessagesTyped
  BY DEF MessagesInv
<1>1. PICK u : u = Start(x) /\ QM!Goes(w, u) /\ QM!Meets(w, u)
  BY DEF QM!Takes, Start
<1>2. /\ TellerFits(u) /\ u.rest = <<>> /\ u.task = x
      /\ x.kind = "add" => u.pc = "adds"
      /\ x.kind = "remove" => u.pc = "removes"
      /\ x.kind = "clear" => u.pc = "looks"
      /\ x.kind = "notify" => u.pc = "reads"
  BY <1>1, StartFits
<1>3. worker'[w] = u /\ OthersStay(w)
  BY <1>0, <1>1, Going
<1>4. worker[w].pc = "idle" /\ worker[w].rest = <<>>
  <2>1. w \notin QM!Running /\ TellerFits(worker[w])
    BY <1>0 DEF QM!Takes, MessagesTyped
  <2> QED
    BY <2>1 DEF QM!Running, TellerFits, Touching
<1>5. ~Minds(worker[w], d) /\ ~Sending(worker[w], d)
  BY <1>4, EmptyList DEF Minds, Clearing, Sending
<1>6. Followed(d)
  BY <1>1 DEF MessagesInv, QM!Meets
<1>7. /\ waiting[x] > 0 /\ waiting \in [QM!Tasks -> Nat]
      /\ \A y \in QM!Tasks : y # x => waiting'[y] = waiting[y]
      /\ UNCHANGED <<places, noted, board>>
  BY <1>0 DEF QM!Takes, MessagesTyped
<1>8. News => News'
  <2>1. CASE TellsNews(u)
    BY <1>3, <2>1 DEF News, TellsNews
  <2>2. CASE ~TellsNews(u)
    <3>1. x.kind = "clear"
      BY <1>2, <2>2, TaskFits DEF TellsNews
    <3>2. ~TellsNews(worker[w])
      BY <1>4 DEF TellsNews, Clearing
    <3>3. \A v \in Tellers : TellsNews(worker[v]) => TellsNews(worker[v])'
      BY <1>3, <3>2 DEF OthersStay, TellsNews
    <3> QED
      BY <1>7, <3>1, <3>3 DEF News
  <2> QED
    BY <2>1, <2>2
<1>9. Clears(d) => Clears(d)'
  <2>1. CASE TakesAway(u, d)
    BY <1>3, <2>1 DEF Clears, TakesAway
  <2>2. CASE ~TakesAway(u, d)
    <3>1. \A k \in {"remove", "clear"} : x # QM!Task(k, d)
      BY <1>2, <2>2, TaskFits DEF TakesAway
    <3>2. ~TakesAway(worker[w], d)
      BY <1>4 DEF TakesAway
    <3>3. \A v \in Tellers : TakesAway(worker[v], d) => TakesAway(worker[v], d)'
      BY <1>3, <3>2 DEF OthersStay, TakesAway
    <3>4. \A k \in {"remove", "clear"} : waiting'[QM!Task(k, d)] = waiting[QM!Task(k, d)]
      BY <1>7, <3>1, TaskFits
    <3> QED
      BY <3>3, <3>4 DEF Clears
  <2> QED
    BY <2>1, <2>2
<1>10. CASE Minds(u, d)
  <2>1. AloneWith(w, d)
    BY <1>0, <1>1, <1>2, <1>10, MetApart DEF AloneWith
  <2>2. u.pc = "looks" /\ ~QM!Contains(u.rest, d)
    BY <1>2, <1>10, TaskFits, EmptyList DEF Minds, Clearing
  <2>3. /\ Showing(d) \subseteq {noted[d]}
        /\ \A v \in Tellers : ~QM!Contains(worker[v].rest, d)
    BY <1>0, <1>4, <1>5, <1>6, <2>1, AloneTells, EmptyList
  <2>4. Showing(d)' = Showing(d) /\ QM!Place(d)' = QM!Place(d) /\ (InQueue(d)' <=> InQueue(d))
    BY <1>7 DEF Showing, QM!Shown, QM!Place, InQueue
  <2>5. ~Sending(worker[w], d)' /\ KnowsOf(worker[w], d)' /\ CountsRight(worker[w], d)'
    BY <1>3, <2>2 DEF Sending, KnowsOf, CountsRight, QM!Contains
  <2>6. InQueue(d) => News \/ \A n \in Showing(d) : board[d][n] = QM!Place(d)
    BY <1>6, <2>3 DEF Followed, Truthful, TruthTold
  <2>7. ~InQueue(d) /\ Showing(d) # {} => Clears(d)
    BY <1>6 DEF Followed, Gone
  <2>8. ~QM!Contains(worker[w].rest, d)'
    BY <1>3, <2>2
  <2> QED
    BY <1>0, <1>3, <1>7, <1>8, <1>9, <2>1, <2>3, <2>4, <2>5, <2>6, <2>7, <2>8, AloneKeeps
<1>11. CASE ~Minds(u, d)
  <2>1. ~Minds(worker[w], d)'
    BY <1>3, <1>11 DEF Minds
  <2>2. (InQueue(d)' <=> InQueue(d)) /\ places' = places /\ noted'[d] = noted[d] /\ board'[d] = board[d]
    BY <1>7 DEF InQueue
  <2> QED
    BY <1>0, <1>3, <1>5, <1>6, <1>8, <1>9, <2>1, <2>2, AsideKeeps
<1> QED
  BY <1>10, <1>11

LEMMA AddsKeep ==
  ASSUME MessagesInv, MessagesTyped', NEW w \in Tellers, QM!Adds(w), NEW d \in Drivers \ astray'
  PROVE  Followed(d)'
<1> DEFINE t == worker[w]
           e == t.task.driver
<1>0. MessagesTyped /\ TellerFits(t) /\ t \in TellerRec /\ t.pc = "adds"
  BY DEF MessagesInv, MessagesTyped, QM!Adds
<1>1. PICK u : u = [t EXCEPT !.pc = "reads"] /\ QM!Goes(w, u)
  BY DEF QM!Adds
<1>2. u.pc = "reads" /\ u.rest = t.rest /\ t.rest = <<>> /\ e \in Drivers
  BY <1>0, <1>1, TaskFits DEF TellerRec, TellerFits, Touching, Clearing, Kinds
<1>3. worker'[w] = u /\ OthersStay(w)
  BY <1>0, <1>1, Going
<1>4. ~Minds(t, d) /\ ~Minds(worker[w], d)'
  BY <1>0, <1>2, <1>3, EmptyList DEF Minds, Clearing
<1>5. News'
  BY <1>2, <1>3 DEF News, TellsNews
<1>6. Clears(d) => Clears(d)'
  BY <1>0, <1>3, ClearsKept DEF QM!Adds, TakesAway
<1>7. InQueue(d)' \/ (InQueue(d)' <=> InQueue(d))
  <2>1. /\ QM!Without(places, e) \in Seq(Drivers) /\ Once(QM!Without(places, e))
        /\ ~QM!Contains(QM!Without(places, e), e)
        /\ d # e => (QM!Contains(QM!Without(places, e), d) <=> QM!Contains(places, d))
    BY <1>0, <1>2, WithoutOne DEF MessagesTyped
  <2> QED
    BY <1>2, <2>1, AppendOne DEF QM!Adds, InQueue
<1>8. Followed(d) /\ noted'[d] = noted[d] /\ board'[d] = board[d]
  BY DEF MessagesInv, QM!Adds
<1> QED
  BY <1>0, <1>3, <1>4, <1>5, <1>6, <1>7, <1>8, AsideKeeps

LEMMA RemovesKeep ==
  ASSUME MessagesInv, MessagesTyped', NEW w \in Tellers, QM!Removes(w), NEW d \in Drivers \ astray'
  PROVE  Followed(d)'
<1> DEFINE t == worker[w]
           e == t.task.driver
<1>0. MessagesTyped /\ TellerFits(t) /\ t \in TellerRec /\ t.pc = "removes"
  BY DEF MessagesInv, MessagesTyped, QM!Removes
<1>1. /\ t.rest = <<>> /\ e \in Drivers /\ t.task.kind = "remove"
  BY <1>0, TaskFits DEF TellerRec, TellerFits, Touching, Clearing, Kinds
<1>2. ~Minds(t, d) /\ ~Sending(t, d)
  BY <1>0, <1>1, EmptyList DEF Minds, Clearing, Sending
<1>3. d # e => (InQueue(d)' <=> InQueue(d))
  BY <1>0, <1>1, WithoutOne DEF QM!Removes, InQueue, MessagesTyped
<1>4. UNCHANGED <<noted, board, waiting>> /\ astray \subseteq astray' /\ Followed(d)
  BY DEF MessagesInv, QM!Removes, QM!Meets
<1>5. CASE places = <<>>
  <2>1. QM!Goes(w, QM!Idle) /\ d # e
    BY <1>5 DEF QM!Removes
  <2>2. worker'[w] = QM!Idle /\ OthersStay(w)
    BY <1>0, <2>1, Going
  <2>3. ~Minds(worker[w], d)'
    BY <2>2, IdleFits DEF Minds, Clearing
  <2>4. ~InQueue(d)'
    BY <1>3, <1>5, <2>1, EmptyList DEF InQueue
  <2>5. Clears(d) => Clears(d)'
    BY <1>0, <1>4, <2>1, <2>2, ClearsKept DEF TakesAway
  <2> QED
    BY <1>0, <1>2, <1>3, <1>4, <2>1, <2>2, <2>3, <2>4, <2>5, AsideKeeps
<1>6. CASE places # <<>>
  <2>1. PICK u : u = [t EXCEPT !.pc = "looks"] /\ QM!Goes(w, u) /\ QM!Meets(w, u)
    <3>1. QM!Idle # [t EXCEPT !.pc = "looks"]
      BY <1>0, IdleFits DEF TellerRec
    <3> QED
      BY <1>6, <3>1 DEF QM!Removes
  <2>2. u.pc = "looks" /\ u.rest = <<>> /\ u.task = t.task
    BY <1>0, <1>1, <2>1 DEF TellerRec
  <2>3. worker'[w] = u /\ OthersStay(w)
    BY <1>0, <2>1, Going
  <2>4. TellerFits(u)
    BY <2>3 DEF MessagesTyped
  <2>5. News'
    BY <1>1, <2>2, <2>3 DEF News, TellsNews, Clearing
  <2>6. Clears(d) => Clears(d)'
    BY <1>0, <1>4, <2>2, <2>3, ClearsKept DEF TakesAway
  <2>7. CASE d # e
    <3>1. ~Minds(worker[w], d)'
      BY <2>2, <2>3, <2>7, EmptyList DEF Minds
    <3> QED
      BY <1>0, <1>2, <1>3, <1>4, <2>3, <2>5, <2>6, <2>7, <3>1, AsideKeeps
  <2>8. CASE d = e
    <3>1. Clears(d)'
      BY <2>2, <2>3, <2>8 DEF Clears, TakesAway
    <3>2. AloneWith(w, d)
      BY <1>0, <2>1, <2>2, <2>4, <2>8, MetApart DEF AloneWith, Minds, Clearing
    <3>3. Showing(d) \subseteq {noted[d]} /\ Showing(d)' = Showing(d)
      BY <1>0, <1>2, <1>4, <3>2, AloneTells DEF Showing, QM!Shown
    <3>4. ~Sending(worker[w], d)' /\ KnowsOf(worker[w], d)'
      BY <2>2, <2>3 DEF Sending, KnowsOf
    <3> QED
      BY <1>0, <1>4, <2>3, <2>5, <3>1, <3>2, <3>3, <3>4, AloneKeeps
  <2> QED
    BY <2>7, <2>8
<1> QED
  BY <1>5, <1>6

\* A teller that clears the message of e has nothing else to do
LEMMA ClearingAlone ==
  ASSUME MessagesInv, NEW w \in Tellers, worker[w].pc \in Clearing
  PROVE  /\ worker[w].rest = <<>> /\ worker[w].task.driver \in Drivers
         /\ worker[w].task.kind \in {"remove", "clear"}
         /\ \A d \in Drivers :
              /\ ~Sending(worker[w], d)
              /\ d # worker[w].task.driver => ~Minds(worker[w], d)
              /\ d = worker[w].task.driver /\ d \notin astray => AloneWith(w, d)
<1> DEFINE t == worker[w]
<1>1. TellerFits(t) /\ t \in TellerRec
  BY DEF MessagesInv, MessagesTyped
<1>2. t.rest = <<>> /\ t.task.kind \in {"remove", "clear"}
  BY <1>1 DEF TellerFits, Kinds, Touching, Clearing
<1>3. t.task.driver \in Drivers
  BY <1>1, <1>2, TaskFits DEF TellerRec
<1>4. ASSUME NEW d \in Drivers
      PROVE  /\ ~Sending(t, d)
             /\ d # t.task.driver => ~Minds(t, d)
             /\ d = t.task.driver /\ d \notin astray => AloneWith(w, d)
  <2>1. ~Sending(t, d)
    BY DEF Sending, Clearing
  <2>2. d # t.task.driver => ~Minds(t, d)
    BY <1>2, EmptyList DEF Minds
  <2>3. d = t.task.driver /\ d \notin astray => AloneWith(w, d)
    BY DEF MessagesInv, Followed, Separate, AloneWith, Minds
  <2> QED
    BY <2>1, <2>2, <2>3
<1> QED
  BY <1>2, <1>3, <1>4

\* What comes of clearing the message of a driver who sees none
LEMMA ClearedKeeps ==
  ASSUME MessagesInv, MessagesTyped', NEW w \in Tellers, worker[w].pc \in Clearing,
         QM!Goes(w, QM!Cleared(worker[w])), UNCHANGED <<places, board, waiting>>,
         NEW d \in Drivers \ astray, noted'[d] = noted[d] \/ d = worker[w].task.driver,
         d = worker[w].task.driver => Showing(d) = {}
  PROVE  Followed(d)'
<1> DEFINE t == worker[w]
           u == QM!Cleared(t)
<1>0. MessagesTyped /\ TellerFits(t) /\ Followed(d)
  BY DEF MessagesInv, MessagesTyped
<1>1. worker'[w] = u /\ OthersStay(w)
  BY <1>0, Going
<1>2. /\ u.rest = <<>> /\ u.pc \in {"reads", "idle"}
      /\ t.task.kind = "remove" => u.pc = "reads"
  BY <1>0, ClearedFits, IdleFits
<1>3. ~Minds(worker[w], d)' /\ ~Sending(worker[w], d)' /\ ~QM!Contains(worker[w].rest, d)'
  BY <1>1, <1>2, EmptyList DEF Minds, Clearing, Sending
<1>4. News => News'
  BY <1>0, <1>1, <1>2, NewsKept DEF TellsNews, Clearing
<1>5. CASE d # t.task.driver
  <2>1. Clears(d) => Clears(d)'
    BY <1>0, <1>1, <1>5, ClearsKept DEF TakesAway
  <2>2. (InQueue(d)' <=> InQueue(d)) /\ ~Minds(t, d)
    BY <1>5, ClearingAlone DEF InQueue
  <2> QED
    BY <1>0, <1>1, <1>3, <1>4, <1>5, <2>1, <2>2, AsideKeeps
<1>6. CASE d = t.task.driver
  <2>1. AloneWith(w, d)
    BY <1>6, ClearingAlone
  <2>2. Showing(d)' = {}
    BY <1>6 DEF Showing, QM!Shown
  <2>3. KnowsOf(worker[w], d)' /\ CountsRight(worker[w], d)'
    BY <1>1, <1>2 DEF KnowsOf, CountsRight
  <2> QED
    BY <1>0, <1>1, <1>3, <2>1, <2>2, <2>3, AloneKeeps
<1> QED
  BY <1>5, <1>6

LEMMA LooksKeep ==
  ASSUME MessagesInv, MessagesTyped', NEW w \in Tellers, QM!Looks(w), NEW d \in Drivers \ astray'
  PROVE  Followed(d)'
<1> DEFINE t == worker[w]
           e == t.task.driver
<1>0. /\ MessagesTyped /\ TellerFits(t) /\ t \in TellerRec /\ t.pc = "looks" /\ t.pc \in Clearing
      /\ UNCHANGED <<places, noted, board, waiting>> /\ d \notin astray /\ Followed(d)
  BY DEF MessagesInv, MessagesTyped, QM!Looks, Clearing
<1>1. ASSUME noted[e] = None \/ d # e, QM!Goes(w, QM!Cleared(t)) PROVE Followed(d)'
  <2>1. ASSUME d = e PROVE Showing(d) = {}
    <3>1. Showing(d) \subseteq {noted[d]}
      BY <1>0, <2>1, ClearingAlone, AloneTells
    <3> QED
      BY <1>1, <2>1, <3>1, MessagesAssumption DEF Showing, QM!Shown
  <2> QED
    BY <1>0, <1>1, <2>1, ClearedKeeps
<1>2. CASE noted[e] # None /\ QM!Goes(w, [t EXCEPT !.pc = "deletes", !.prev = noted[e]])
  <2>1. PICK u : u = [t EXCEPT !.pc = "deletes", !.prev = noted[e]] /\ QM!Goes(w, u)
    BY <1>2
  <2>2. u.pc = "deletes" /\ u.prev = noted[e] /\ u.rest = t.rest /\ u.task = t.task
    BY <1>0, <2>1 DEF TellerRec
  <2>3. worker'[w] = u /\ OthersStay(w)
    BY <1>0, <2>1, Going
  <2>4. News => News'
    BY <1>0, <2>2, <2>3, NewsKept DEF TellsNews, Clearing
  <2>5. Clears(d) => Clears(d)'
    BY <1>0, <2>2, <2>3, ClearsKept DEF TakesAway
  <2>6. /\ Minds(worker[w], d)' => Minds(worker[w], d)
        /\ QM!Contains(worker[w].rest, d)' <=> QM!Contains(worker[w].rest, d)
        /\ ~Sending(worker[w], d)' /\ ~Sending(worker[w], d)
        /\ KnowsOf(worker[w], d)'
        /\ places' = places /\ CountsRight(worker[w], d) => CountsRight(worker[w], d)'
    <3>1. Minds(worker[w], d)' => Minds(worker[w], d)
      BY <1>0, <2>2, <2>3 DEF Minds
    <3>2. ~Sending(worker[w], d)' /\ ~Sending(worker[w], d)
      BY <1>0, <2>2, <2>3 DEF Sending
    <3>3. KnowsOf(worker[w], d)'
      BY <1>0, <2>2, <2>3 DEF KnowsOf
    <3>4. CountsRight(worker[w], d)'
      BY <1>0, <2>2, <2>3, ClearingAlone DEF CountsRight
    <3> QED
      BY <2>2, <2>3, <3>1, <3>2, <3>3, <3>4
  <2>7. noted'[d] = noted[d] /\ board'[d] = board[d] /\ (InQueue(d)' <=> InQueue(d))
    BY <1>0 DEF InQueue
  <2> QED
    BY <1>0, <2>3, <2>4, <2>5, <2>6, <2>7, PassingKeeps
<1> QED
  BY <1>1, <1>2 DEF QM!Looks

LEMMA DeletesKeep ==
  ASSUME MessagesInv, MessagesTyped', NEW w \in Tellers, QM!Deletes(w), NEW d \in Drivers \ astray'
  PROVE  Followed(d)'
<1> DEFINE t == worker[w]
           e == t.task.driver
<1>0. /\ MessagesTyped /\ TellerFits(t) /\ t \in TellerRec /\ t.pc = "deletes" /\ t.pc \in Clearing
      /\ UNCHANGED <<places, noted, waiting>> /\ d \notin astray /\ Followed(d)
      /\ board \in [Drivers -> [Ids -> 0 .. QM!Cardinality(Drivers)]]
      /\ t.prev \in Ids /\ e \in Drivers
  BY ClearingAlone DEF MessagesInv, MessagesTyped, QM!Deletes, Clearing, TellerFits
<1>1. PICK u : u = [t EXCEPT !.pc = "forgets"] /\ QM!Goes(w, u)
  BY DEF QM!Deletes
<1>2. u.pc = "forgets" /\ u.rest = t.rest /\ u.task = t.task /\ t.rest = <<>>
  BY <1>0, <1>1, ClearingAlone DEF TellerRec
<1>3. worker'[w] = u /\ OthersStay(w)
  BY <1>0, <1>1, Going
<1>4. News => News'
  BY <1>0, <1>2, <1>3, NewsKept DEF TellsNews, Clearing
<1>5. CASE d # e
  <2>1. Clears(d) => Clears(d)'
    BY <1>0, <1>2, <1>3, <1>5, ClearsKept DEF TakesAway
  <2>2. ~Minds(worker[w], d) /\ ~Minds(worker[w], d)'
    BY <1>0, <1>2, <1>3, <1>5, EmptyList DEF Minds
  <2>3. noted'[d] = noted[d] /\ board'[d] = board[d] /\ (InQueue(d)' <=> InQueue(d))
    BY <1>0, <1>5 DEF InQueue, QM!Deletes
  <2> QED
    BY <1>0, <1>3, <1>4, <2>1, <2>2, <2>3, AsideKeeps
<1>6. CASE d = e
  <2>1. AloneWith(w, d) /\ ~Sending(worker[w], d)
    BY <1>0, <1>6, ClearingAlone
  <2>2. Showing(d) \subseteq {t.prev}
    <3>1. t.prev = noted[d]
      BY <1>0, <1>6 DEF Followed, Knows, KnowsOf
    <3> QED
      BY <1>0, <2>1, <3>1, AloneTells
  <2>3. Showing(d)' = {}
    <3>1. board' = [board EXCEPT ![e][t.prev] = 0]
      BY <1>0, <1>6 DEF QM!Deletes
    <3>2. 0 \in 0 .. QM!Cardinality(Drivers)
      BY CardinalityQM, MessagesAssumption, FS_CardinalityType
    <3>3. \A n \in Ids : board'[d][n] = IF n = t.prev THEN 0 ELSE board[d][n]
      BY <1>0, <1>6, <3>1, <3>2, WrittenOnce
    <3> QED
      BY <2>2, <3>3 DEF Showing, QM!Shown
  <2>4. ~Sending(worker[w], d)' /\ KnowsOf(worker[w], d)' /\ CountsRight(worker[w], d)'
        /\ ~QM!Contains(worker[w].rest, d)'
    BY <1>2, <1>3, <2>3, EmptyList DEF Sending, KnowsOf, CountsRight
  <2> QED
    BY <1>0, <1>3, <2>1, <2>3, <2>4, AloneKeeps
<1> QED
  BY <1>5, <1>6

LEMMA ForgetsKeep ==
  ASSUME MessagesInv, MessagesTyped', NEW w \in Tellers, QM!Forgets(w), NEW d \in Drivers \ astray'
  PROVE  Followed(d)'
<1> DEFINE t == worker[w]
           e == t.task.driver
<1>0. /\ MessagesTyped /\ t.pc = "forgets" /\ t.pc \in Clearing
      /\ UNCHANGED <<places, board, waiting, astray>> /\ d \notin astray /\ Followed(d)
      /\ QM!Goes(w, QM!Cleared(t))
  BY DEF MessagesInv, QM!Forgets, Clearing
<1>1. noted'[d] = noted[d] \/ d = e
  BY <1>0 DEF QM!Forgets, MessagesTyped
<1>2. d = e => Showing(d) = {}
  BY <1>0 DEF Followed, Knows, KnowsOf
<1> QED
  BY <1>0, <1>1, <1>2, ClearedKeeps

LEMMA ReadsKeep ==
  ASSUME MessagesInv, MessagesTyped', NEW w \in Tellers, QM!Reads(w), NEW d \in Drivers \ astray'
  PROVE  Followed(d)'
<1> DEFINE t == worker[w]
<1>0. /\ MessagesTyped /\ TellerFits(t) /\ t \in TellerRec /\ t.pc = "reads"
      /\ UNCHANGED <<places, noted, board, waiting>>
      /\ places \in Seq(Drivers) /\ Once(places)
  BY DEF MessagesInv, MessagesTyped, QM!Reads
<1>1. PICK u : /\ u = IF places = <<>> THEN QM!Idle
                      ELSE [t EXCEPT !.pc = "asks", !.rest = places, !.place = 1]
               /\ QM!Goes(w, u) /\ QM!Meets(w, u)
  BY DEF QM!Reads
<1>2. worker'[w] = u /\ OthersStay(w)
  BY <1>0, <1>1, Going
<1>3. TellerFits(u) /\ d \notin astray /\ Followed(d)
  BY <1>1, <1>2 DEF MessagesTyped, MessagesInv, QM!Meets
<1>4. t.rest = <<>> /\ ~Minds(t, d) /\ ~Sending(t, d) /\ ~QM!Contains(t.rest, d)
  BY <1>0, EmptyList DEF TellerFits, Touching, Minds, Clearing, Sending
<1>5. Clears(d) => Clears(d)'
  BY <1>0, <1>2, ClearsKept DEF TakesAway
<1>6. u.rest = places /\ u.pc \in {"idle", "asks"} /\ (InQueue(d) => u.place = 1)
  <2>1. CASE places = <<>>
    BY <1>1, <2>1, IdleFits, EmptyList DEF InQueue
  <2>2. CASE places # <<>>
    BY <1>0, <1>1, <2>2 DEF TellerRec
  <2> QED
    BY <2>1, <2>2
<1>7. CASE ~InQueue(d)
  <2>1. ~Minds(worker[w], d)' /\ ~InQueue(d)'
    BY <1>0, <1>2, <1>6, <1>7 DEF InQueue, Minds, Clearing
  <2> QED
    BY <1>0, <1>2, <1>3, <1>4, <1>5, <1>7, <2>1, AsideKeeps
<1>8. CASE InQueue(d)
  <2>1. QM!Contains(u.rest, d) /\ Minds(u, d)
    BY <1>6, <1>8 DEF InQueue, Minds
  <2>2. AloneWith(w, d)
    BY <1>0, <1>1, <1>3, <2>1, MetApart DEF AloneWith
  <2>3. Showing(d)' = Showing(d) /\ Showing(d) \subseteq {noted[d]}
    BY <1>0, <1>3, <1>4, <2>2, AloneTells DEF Showing, QM!Shown
  <2>4. CountsRight(worker[w], d)'
    <3>1. QM!Place(d)' = QM!Place(d)
      BY <1>0 DEF QM!Place
    <3>2. \A i \in 1 .. Len(places) : places[i] = d => QM!Place(d) = i
      BY <1>0, PlaceFound
    <3>3. \A i \in 1 .. Len(places) : 1 + i - 1 = i
      BY <1>0
    <3> QED
      BY <1>2, <1>6, <1>8, <3>1, <3>2, <3>3 DEF CountsRight
  <2>5. ~Sending(worker[w], d)' /\ KnowsOf(worker[w], d)'
    BY <1>2, <1>6 DEF Sending, KnowsOf
  <2>6. QM!Contains(worker[w].rest, d)' /\ InQueue(d)'
    BY <1>0, <1>2, <1>8, <2>1 DEF InQueue
  <2> QED
    BY <1>0, <1>2, <2>2, <2>3, <2>4, <2>5, <2>6, AloneKeeps
<1> QED
  BY <1>7, <1>8

\* A teller whose turn has come to the driver at the head of its list
LEMMA TouchingHead ==
  ASSUME MessagesInv, NEW w \in Tellers, worker[w].pc \in Touching
  PROVE  /\ Head(worker[w].rest) \in Drivers /\ QM!Contains(worker[w].rest, Head(worker[w].rest))
         /\ Head(worker[w].rest) \notin astray =>
              AloneWith(w, Head(worker[w].rest)) /\ Followed(Head(worker[w].rest))
         /\ ~TellsNews(worker[w]) /\ \A d : ~TakesAway(worker[w], d)
<1> DEFINE t == worker[w]
           h == Head(t.rest)
<1>1. TellerFits(t)
  BY DEF MessagesInv, MessagesTyped
<1>2. h \in Drivers /\ QM!Contains(t.rest, h)
  BY <1>1, ToNextFits
<1>3. h \notin astray => AloneWith(w, h) /\ Followed(h)
  BY <1>2 DEF MessagesInv, Followed, Separate, AloneWith, Minds
<1>4. ~TellsNews(t) /\ \A d : ~TakesAway(t, d)
  BY DEF TellsNews, TakesAway, Touching, Clearing
<1> QED
  BY <1>2, <1>3, <1>4

LEMMA TouchingNews ==
  ASSUME MessagesInv, NEW w \in Tellers, worker[w].pc \in Touching, OthersStay(w), waiting' = waiting
  PROVE  (News => News') /\ \A d \in Drivers : Clears(d) => Clears(d)'
<1>0. MessagesTyped
  BY DEF MessagesInv
<1>1. ~TellsNews(worker[w]) /\ \A d : ~TakesAway(worker[w], d)
  BY TouchingHead
<1>2. News => News'
  BY <1>0, <1>1, NewsKept
<1>3. ASSUME NEW d \in Drivers PROVE Clears(d) => Clears(d)'
  BY <1>0, <1>1, ClearsKept
<1> QED
  BY <1>2, <1>3

LEMMA AsksKeep ==
  ASSUME MessagesInv, MessagesTyped', NEW w \in Tellers, QM!Asks(w), NEW d \in Drivers \ astray'
  PROVE  Followed(d)'
<1> DEFINE t == worker[w]
           h == Head(t.rest)
<1>0. /\ MessagesTyped /\ t \in TellerRec /\ t.pc = "asks" /\ t.pc \in Touching
      /\ UNCHANGED <<places, noted, board, waiting>> /\ d \notin astray /\ Followed(d)
  BY DEF MessagesInv, MessagesTyped, QM!Asks, Touching
<1>1. PICK n : /\ n = noted[h] \/ d # h
               /\ QM!Goes(w, [t EXCEPT !.pc = "sends", !.prev = n])
  BY DEF QM!Asks
<1>2. PICK u : u = [t EXCEPT !.pc = "sends", !.prev = n] /\ QM!Goes(w, u)
  BY <1>1
<1>3. u.pc = "sends" /\ u.prev = n /\ u.rest = t.rest /\ u.place = t.place
  BY <1>0, <1>2 DEF TellerRec
<1>4. worker'[w] = u /\ OthersStay(w)
  BY <1>0, <1>2, Going
<1>5. (News => News') /\ (Clears(d) => Clears(d)')
  BY <1>0, <1>4, TouchingNews
<1>6. /\ Minds(worker[w], d)' => Minds(worker[w], d)
      /\ QM!Contains(worker[w].rest, d)' <=> QM!Contains(worker[w].rest, d)
      /\ ~Sending(worker[w], d)' /\ ~Sending(worker[w], d)
  BY <1>0, <1>3, <1>4 DEF Minds, Clearing, Sending
<1>7. KnowsOf(worker[w], d)'
  BY <1>0, <1>1, <1>3, <1>4 DEF KnowsOf
<1>8. CountsRight(worker[w], d) => CountsRight(worker[w], d)'
  <2>1. QM!Place(d)' = QM!Place(d)
    BY <1>0 DEF QM!Place
  <2> QED
    BY <1>3, <1>4, <2>1 DEF CountsRight
<1>9. noted'[d] = noted[d] /\ board'[d] = board[d] /\ (InQueue(d)' <=> InQueue(d))
  BY <1>0 DEF InQueue
<1> QED
  BY <1>0, <1>4, <1>5, <1>6, <1>7, <1>8, <1>9, PassingKeeps

\* A teller goes on, and with it the list and the count of the places
LEMMA GoesOnPast ==
  ASSUME MessagesInv, NEW w \in Tellers, worker[w].pc \in Touching,
         QM!Goes(w, QM!ToNext(worker[w])), UNCHANGED <<places, waiting>>,
         NEW d \in Drivers \ astray, d # Head(worker[w].rest),
         noted'[d] = noted[d], board'[d] = board[d]
  PROVE  Followed(d)'
<1> DEFINE t == worker[w]
<1>0. MessagesTyped /\ TellerFits(t) /\ t \in TellerRec /\ Followed(d)
  BY DEF MessagesInv, MessagesTyped
<1>1. PICK u : u = QM!ToNext(t) /\ QM!Goes(w, u)
  OBVIOUS
<1>2. worker'[w] = u /\ OthersStay(w)
  BY <1>0, <1>1, Going
<1>3. /\ TellerFits(u) /\ u.pc \in {"idle", "asks"}
      /\ QM!Contains(u.rest, d) <=> QM!Contains(t.rest, d)
      /\ \A i \in 1 .. Len(u.rest) : /\ i + 1 \in 1 .. Len(t.rest) /\ u.rest[i] = t.rest[i + 1]
                                     /\ u.place = t.place + 1
  BY <1>0, <1>1, ToNextFits
<1>4. (News => News') /\ (Clears(d) => Clears(d)')
  BY <1>2, TouchingNews
<1>5. /\ Minds(worker[w], d)' => Minds(worker[w], d)
      /\ QM!Contains(worker[w].rest, d)' <=> QM!Contains(worker[w].rest, d)
      /\ ~Sending(worker[w], d)' /\ ~Sending(worker[w], d)
      /\ KnowsOf(worker[w], d)'
  BY <1>2, <1>3 DEF Minds, Clearing, Sending, KnowsOf
<1>6. CountsRight(worker[w], d) => CountsRight(worker[w], d)'
  <2> SUFFICES ASSUME CountsRight(t, d), NEW i \in 1 .. Len(u.rest), u.rest[i] = d
               PROVE  u.place + i - 1 = QM!Place(d)
    <3>1. QM!Place(d)' = QM!Place(d)
      BY DEF QM!Place
    <3> QED
      BY <1>2, <3>1 DEF CountsRight
  <2>1. t.place + (i + 1) - 1 = QM!Place(d)
    BY <1>3 DEF CountsRight
  <2>2. u.place = t.place + 1 /\ t.place \in Nat
    BY <1>0, <1>3 DEF TellerRec
  <2> QED
    BY <2>1, <2>2
<1>7. InQueue(d)' <=> InQueue(d)
  BY DEF InQueue
<1> QED
  BY <1>0, <1>2, <1>4, <1>5, <1>6, <1>7, PassingKeeps

LEMMA ReplacedOnce ==
  ASSUME MessagesTyped, NEW d \in Drivers, NEW n \in Ids \cup {None}
  PROVE  /\ QM!Replaced(board, d, n) \in [Drivers -> [Ids -> 0 .. QM!Cardinality(Drivers)]]
         /\ \A e \in Drivers, m \in Ids :
              QM!Replaced(board, d, n)[e][m] = IF e = d /\ m = n THEN 0 ELSE board[e][m]
<1>1. 0 \in 0 .. QM!Cardinality(Drivers)
  BY CardinalityQM, MessagesAssumption, FS_CardinalityType
<1>2. board \in [Drivers -> [Ids -> 0 .. QM!Cardinality(Drivers)]]
  BY DEF MessagesTyped
<1>3. CASE n = None
  BY <1>2, <1>3, MessagesAssumption DEF QM!Replaced
<1>4. CASE n # None
  BY <1>1, <1>2, <1>4, WrittenOnce DEF QM!Replaced
<1> QED
  BY <1>3, <1>4

LEMMA SendsWrites ==
  ASSUME MessagesInv, NEW w \in Tellers, worker[w].pc = "sends",
         LET h == Head(worker[w].rest) IN
           /\ Ids \ QM!Named(h) # {}
           /\ board' = [QM!Replaced(board, h, worker[w].prev) EXCEPT
                          ![h][QM!Fresh(h)] = worker[w].place]
  PROVE  LET h == Head(worker[w].rest) IN
         \A e \in Drivers, m \in Ids :
           board'[e][m] = IF e = h /\ m = QM!Fresh(h) THEN worker[w].place
                          ELSE IF e = h /\ m = worker[w].prev THEN 0 ELSE board[e][m]
<1> DEFINE t == worker[w]
           h == Head(t.rest)
           c == QM!Replaced(board, h, t.prev)
           S == 0 .. QM!Cardinality(Drivers)
<1>0. MessagesTyped /\ TellerFits(t) /\ t \in TellerRec /\ t.pc \in Touching
  BY DEF MessagesInv, MessagesTyped, Touching
<1>1. h \in Drivers /\ t.prev \in Ids \cup {None} /\ QM!Fresh(h) \in Ids
  BY <1>0, FreshFits, TouchingHead DEF TellerRec
<1>2. c \in [Drivers -> [Ids -> S]]
  BY <1>0, <1>1, ReplacedOnce
<1>3. \A e \in Drivers, m \in Ids : c[e][m] = IF e = h /\ m = t.prev THEN 0 ELSE board[e][m]
  BY <1>0, <1>1, ReplacedOnce
<1>4. t.place \in S
  <2>1. Len(t.rest) >= 1 /\ Len(t.rest) \in Nat /\ QM!Cardinality(Drivers) \in Nat
    BY <1>0, ToNextFits, CardinalityQM, MessagesAssumption, FS_CardinalityType DEF TellerRec
  <2> QED
    BY <1>0, <2>1 DEF TellerFits, TellerRec
<1> HIDE DEF c, S
<1>5. \A e \in Drivers, m \in Ids :
        [c EXCEPT ![h][QM!Fresh(h)] = t.place][e][m]
          = IF e = h /\ m = QM!Fresh(h) THEN t.place ELSE c[e][m]
  BY <1>1, <1>2, <1>4, WrittenOnce
<1> QED
  BY <1>3, <1>5 DEF c

LEMMA SendsKeep ==
  ASSUME MessagesInv, MessagesTyped', NEW w \in Tellers, QM!Sends(w), NEW d \in Drivers \ astray'
  PROVE  Followed(d)'
<1> DEFINE t == worker[w]
           h == Head(t.rest)
<1>0. /\ MessagesTyped /\ TellerFits(t) /\ t \in TellerRec /\ t.pc = "sends" /\ t.pc \in Touching
      /\ UNCHANGED <<places, noted, waiting>> /\ astray \subseteq astray'
      /\ d \notin astray /\ Followed(d)
  BY DEF MessagesInv, MessagesTyped, QM!Sends, Touching
<1>1. /\ h \in Drivers /\ QM!Contains(t.rest, h) /\ t.prev \in Ids \cup {None}
      /\ board \in [Drivers -> [Ids -> 0 .. QM!Cardinality(Drivers)]]
      /\ board' \in [Drivers -> [Ids -> 0 .. QM!Cardinality(Drivers)]]
  BY <1>0, TouchingHead DEF TellerRec, MessagesTyped
<1>2. (InQueue(d)' <=> InQueue(d)) /\ QM!Place(d)' = QM!Place(d) /\ noted'[d] = noted[d]
  BY <1>0 DEF InQueue, QM!Place
<1>3. ~Sending(t, d)
  BY <1>0 DEF Sending
<1>4. d = h => AloneWith(w, d) /\ Showing(d) \subseteq {t.prev}
  <2>1. d = h => AloneWith(w, d)
    BY <1>0, TouchingHead
  <2>2. d = h => t.prev = noted[d]
    BY <1>0 DEF Followed, Knows, KnowsOf
  <2> QED
    BY <1>0, <1>3, <2>1, <2>2, AloneTells
<1>5. CASE /\ Ids \ QM!Named(h) # {}
           /\ board' = [QM!Replaced(board, h, t.prev) EXCEPT ![h][QM!Fresh(h)] = t.place]
           /\ QM!Goes(w, [t EXCEPT !.pc = "notes", !.sent = QM!Fresh(h)])
  <2>1. PICK u : u = [t EXCEPT !.pc = "notes", !.sent = QM!Fresh(h)] /\ QM!Goes(w, u)
    BY <1>5
  <2>2. u.pc = "notes" /\ u.sent = QM!Fresh(h) /\ u.rest = t.rest /\ u.place = t.place
    BY <1>0, <2>1 DEF TellerRec
  <2>3. worker'[w] = u /\ OthersStay(w)
    BY <1>0, <2>1, Going
  <2>4. (News => News') /\ (Clears(d) => Clears(d)')
    BY <1>0, <2>3, TouchingNews
  <2>5. \A e \in Drivers, m \in Ids :
           board'[e][m] = IF e = h /\ m = QM!Fresh(h) THEN t.place
                          ELSE IF e = h /\ m = t.prev THEN 0 ELSE board[e][m]
    BY <1>0, <1>5, SendsWrites
  <2>6. /\ Minds(worker[w], d)' => Minds(worker[w], d)
        /\ QM!Contains(worker[w].rest, d)' <=> QM!Contains(worker[w].rest, d)
        /\ KnowsOf(worker[w], d)'
        /\ CountsRight(worker[w], d) => CountsRight(worker[w], d)'
    <3>1. Minds(worker[w], d)' => Minds(worker[w], d)
      BY <2>2, <2>3 DEF Minds, Clearing
    <3>2. KnowsOf(worker[w], d)'
      BY <2>2, <2>3 DEF KnowsOf
    <3>3. CountsRight(worker[w], d) => CountsRight(worker[w], d)'
      BY <1>2, <2>2, <2>3 DEF CountsRight
    <3> QED
      BY <2>2, <2>3, <3>1, <3>2, <3>3
  <2>7. CASE d # h
    <3>1. board'[d] = board[d]
      <4>1. \A m \in Ids : board'[d][m] = board[d][m]
        BY <2>5, <2>7
      <4>2. board'[d] \in [Ids -> 0 .. QM!Cardinality(Drivers)] /\ board[d] \in [Ids -> 0 .. QM!Cardinality(Drivers)]
        BY <1>1
      <4> QED
        BY <4>1, <4>2
    <3>2. ~Sending(worker[w], d)'
      BY <2>2, <2>3, <2>7 DEF Sending
    <3> QED
      BY <1>0, <1>2, <1>3, <2>3, <2>4, <2>6, <3>1, <3>2, PassingKeeps
  <2>8. CASE d = h
    <3>1. AloneWith(w, d) /\ Showing(d) \subseteq {t.prev}
      BY <1>4, <2>8
    <3>2. Showing(d)' \subseteq {u.sent}
      BY <2>2, <2>5, <2>8, <3>1 DEF Showing, QM!Shown
    <3>3. Sending(worker[w], d)' /\ QM!Contains(worker[w].rest, d)' /\ QM!Contains(t.rest, d)
      BY <1>1, <2>2, <2>3, <2>8 DEF Sending
    <3>4. InQueue(d) => News \/ CountsRight(worker[w], d)
      BY <1>0 DEF Followed, InPlace
    <3>5. ~InQueue(d) => Clears(d)
      BY <1>0, <3>3 DEF Followed, Gone
    <3> QED
      BY <1>0, <1>2, <2>3, <2>4, <2>6, <3>1, <3>2, <3>3, <3>4, <3>5, AloneKeeps
  <2> QED
    BY <2>7, <2>8
<1>6. CASE /\ QM!Goes(w, QM!ToNext(t))
           /\ board' = QM!Replaced(board, h, t.prev) \/ (board' = board /\ d # h)
  <2>1. \A e \in Drivers, m \in Ids :
          QM!Replaced(board, h, t.prev)[e][m] = IF e = h /\ m = t.prev THEN 0 ELSE board[e][m]
    BY <1>0, <1>1, ReplacedOnce
  <2>2. CASE d # h
    <3>1. board'[d] = board[d]
      <4>1. \A m \in Ids : board'[d][m] = board[d][m]
        BY <1>6, <2>1, <2>2
      <4>2. board'[d] \in [Ids -> 0 .. QM!Cardinality(Drivers)] /\ board[d] \in [Ids -> 0 .. QM!Cardinality(Drivers)]
        BY <1>1
      <4> QED
        BY <4>1, <4>2
    <3> QED
      BY <1>0, <1>2, <1>6, <2>2, <3>1, GoesOnPast
  <2>3. CASE d = h
    <3>1. PICK u : u = QM!ToNext(t) /\ QM!Goes(w, u)
      BY <1>6
    <3>2. worker'[w] = u /\ OthersStay(w)
      BY <1>0, <3>1, Going
    <3>3. /\ u.pc \in {"idle", "asks"} /\ ~QM!Contains(u.rest, d)
      BY <1>0, <2>3, <3>1, ToNextFits
    <3>4. Showing(d)' = {}
      BY <1>4, <1>6, <2>1, <2>3 DEF Showing, QM!Shown
    <3>5. ~Sending(worker[w], d)' /\ KnowsOf(worker[w], d)' /\ ~QM!Contains(worker[w].rest, d)'
      BY <3>2, <3>3 DEF Sending, KnowsOf
    <3>6. CountsRight(worker[w], d)'
      BY <3>2, <3>3 DEF CountsRight, QM!Contains
    <3> QED
      BY <1>0, <1>4, <2>3, <3>2, <3>4, <3>5, <3>6, AloneKeeps
  <2> QED
    BY <2>2, <2>3
<1> QED
  BY <1>5, <1>6 DEF QM!Sends

LEMMA NotesKeep ==
  ASSUME MessagesInv, MessagesTyped', NEW w \in Tellers, QM!Notes(w), NEW d \in Drivers \ astray'
  PROVE  Followed(d)'
<1> DEFINE t == worker[w]
           h == Head(t.rest)
<1>0. /\ MessagesTyped /\ TellerFits(t) /\ t \in TellerRec /\ t.pc = "notes" /\ t.pc \in Touching
      /\ UNCHANGED <<places, board, waiting>> /\ QM!Goes(w, QM!ToNext(t))
      /\ noted \in [Drivers -> Ids \cup {None}]
      /\ board[h][t.sent] \in {0, t.place}
  BY DEF MessagesInv, MessagesTyped, QM!Notes, Touching, SentAsCounted
<1>1. h \in Drivers /\ QM!Contains(t.rest, h)
  BY <1>0, TouchingHead
<1>2. CASE d # h
  <2>1. noted'[d] = noted[d] /\ d \notin astray
    BY <1>0, <1>1, <1>2 DEF QM!Notes
  <2> QED
    BY <1>0, <1>2, <2>1, GoesOnPast
<1>3. CASE d = h
  <2>1. /\ noted'[d] = t.sent
        /\ d \in astray => QM!Shown(board, h) = {t.sent} /\ QM!Place(h) = t.place /\ QM!Running = {w}
    BY <1>0, <1>3 DEF QM!Notes
  <2>2. PICK u : u = QM!ToNext(t) /\ QM!Goes(w, u)
    BY <1>0
  <2>3. worker'[w] = u /\ OthersStay(w)
    BY <1>0, <2>2, Going
  <2>4. u.pc \in {"idle", "asks"} /\ ~QM!Contains(u.rest, d)
    BY <1>0, <1>3, <2>2, ToNextFits
  <2>5. (News => News') /\ (Clears(d) => Clears(d)')
    BY <1>0, <2>3, TouchingNews
  <2>6. Showing(d)' = Showing(d) /\ QM!Place(d)' = QM!Place(d) /\ (InQueue(d)' <=> InQueue(d))
    BY <1>0 DEF Showing, QM!Shown, QM!Place, InQueue
  <2>7. ~Sending(worker[w], d)' /\ KnowsOf(worker[w], d)' /\ ~QM!Contains(worker[w].rest, d)'
    BY <2>3, <2>4 DEF Sending, KnowsOf
  <2>8. CountsRight(worker[w], d)'
    BY <2>3, <2>4 DEF CountsRight, QM!Contains
  <2>9. AloneWith(w, d)
    <3>1. CASE d \notin astray
      BY <1>0, <1>3, <3>1, TouchingHead
    <3>2. CASE d \in astray
      <4>1. ASSUME NEW v \in Tellers \ {w} PROVE ~Minds(worker[v], d)
        <5>1. worker[v].pc = "idle" /\ TellerFits(worker[v])
          BY <1>0, <2>1, <3>2 DEF QM!Running, MessagesTyped
        <5> QED
          BY <5>1, EmptyList DEF TellerFits, Touching, Minds, Clearing
      <4> QED
        BY <4>1 DEF AloneWith
    <3> QED
      BY <3>1, <3>2
  <2>10. Showing(d) \subseteq {t.sent}
    <3>1. CASE d \notin astray
      BY <1>0, <1>3, <3>1 DEF MessagesInv, Followed, OneMessage, Sending
    <3>2. CASE d \in astray
      BY <1>3, <2>1, <3>2 DEF Showing
    <3> QED
      BY <3>1, <3>2
  <2>11. InQueue(d) => News \/ QM!Place(d) = t.place
    <3>1. CASE d \notin astray
      <4>1. InQueue(d) => News \/ CountsRight(t, d)
        BY <3>1 DEF MessagesInv, Followed, InPlace
      <4>2. t.rest[1] = d /\ 1 \in 1 .. Len(t.rest) /\ t.place \in Nat
        BY <1>0, <1>3, ToNextFits DEF TellerRec
      <4>3. CountsRight(t, d) => t.place + 1 - 1 = QM!Place(d)
        BY <4>2 DEF CountsRight
      <4> QED
        BY <4>1, <4>2, <4>3
    <3>2. CASE d \in astray
      BY <1>3, <2>1, <3>2
    <3> QED
      BY <3>1, <3>2
  <2>12. \A n \in Showing(d) : board[d][n] = t.place
    BY <1>0, <1>3, <2>10 DEF Showing, QM!Shown
  <2>13. ~InQueue(d) => Clears(d)
    <3>1. CASE d \notin astray
      BY <1>1, <1>3, <3>1 DEF MessagesInv, Followed, Gone
    <3>2. CASE d \in astray
      <4>1. QM!Place(d) # 0
        BY <1>0, <1>3, <2>1, <3>2 DEF TellerFits, TellerRec
      <4> QED
        BY <1>0, <4>1, PlaceFound DEF InQueue, MessagesTyped
    <3> QED
      BY <3>1, <3>2
  <2>14. /\ Showing(d)' \subseteq {noted'[d]}
         /\ InQueue(d)' => News' \/ \A n \in Showing(d)' : board'[d][n] = QM!Place(d)'
    BY <1>0, <2>1, <2>5, <2>6, <2>10, <2>11, <2>12
  <2> QED
    BY <1>0, <2>3, <2>5, <2>6, <2>7, <2>8, <2>9, <2>13, <2>14, AloneKeeps
<1> QED
  BY <1>2, <1>3

LEMMA DiesKeep ==
  ASSUME MessagesInv, MessagesTyped', NEW w \in Tellers, QM!Dies(w), NEW d \in Drivers \ astray'
  PROVE  Followed(d)'
<1> DEFINE t == worker[w]
<1>0. /\ MessagesTyped /\ TellerFits(t) /\ t \in TellerRec /\ QM!Goes(w, QM!Idle)
      /\ UNCHANGED <<places, noted, board>> /\ d \notin astray /\ Followed(d)
      /\ waiting \in [QM!Tasks -> Nat]
  BY DEF MessagesInv, MessagesTyped, QM!Dies
<1>1. worker'[w] = QM!Idle /\ OthersStay(w)
  BY <1>0, Going
<1>2. ~Sending(t, d)
  BY DEF QM!Dies, Sending
<1>3. /\ t.task \in QM!Tasks /\ waiting'[t.task] > 0
      /\ \A x \in QM!Tasks : waiting'[x] >= waiting[x]
  BY <1>0 DEF QM!Dies, TellerRec
<1>4. ~Minds(worker[w], d)' /\ ~Sending(worker[w], d)' /\ ~QM!Contains(worker[w].rest, d)'
  BY <1>1, IdleFits DEF Minds, Clearing, Sending
<1>5. \A v \in Tellers : /\ Minds(worker[v], d)' => Minds(worker[v], d)
                         /\ Sending(worker[v], d)' <=> Sending(worker[v], d)
                         /\ QM!Contains(worker[v].rest, d)' => QM!Contains(worker[v].rest, d)
                         /\ v # w => worker'[v] = worker[v]
  BY <1>1, <1>2, <1>4 DEF OthersStay, Minds, Sending
<1>6. t.task.kind # "clear" => News'
  BY <1>3 DEF News
<1>7. TellsNews(t) \/ QM!Contains(t.rest, d) => News'
  <2>1. TellsNews(t) => t.task.kind # "clear"
    BY <1>0 DEF TellsNews, TellerFits, Kinds, Touching, Clearing
  <2>2. QM!Contains(t.rest, d) => t.task.kind # "clear"
    BY <1>0, EmptyList DEF TellerFits, Kinds, Touching, Clearing
  <2> QED
    BY <1>6, <2>1, <2>2
<1>8. News => News'
  <2>1. ASSUME NEW v \in Tellers, TellsNews(worker[v]) PROVE News'
    <3>1. CASE v = w
      BY <1>7, <2>1, <3>1
    <3>2. CASE v # w
      BY <1>1, <2>1, <3>2 DEF OthersStay, News, TellsNews
    <3> QED
      BY <3>1, <3>2
  <2>2. ASSUME NEW x \in QM!Tasks, x.kind # "clear", waiting[x] > 0 PROVE News'
    <3>1. waiting'[x] > 0
      <4>1. waiting[x] \in Nat /\ waiting'[x] >= waiting[x] /\ waiting'[x] \in Nat
        BY <1>0, <1>3 DEF MessagesTyped
      <4> QED
        BY <2>2, <4>1
    <3> QED
      BY <2>2, <3>1 DEF News
  <2> QED
    BY <2>1, <2>2 DEF News
<1>9. Clears(d) => Clears(d)'
  <2>1. ASSUME NEW v \in Tellers, TakesAway(worker[v], d) PROVE Clears(d)'
    <3>1. CASE v = w
      <4>1. t.task.kind \in {"remove", "clear"}
        BY <1>0, <2>1, <3>1 DEF TakesAway, TellerFits, Kinds, Touching, Clearing
      <4>2. t.task = QM!Task(t.task.kind, d)
        BY <1>3, <2>1, <3>1, <4>1, TaskFits DEF TakesAway
      <4> QED
        BY <1>3, <4>1, <4>2 DEF Clears
    <3>2. CASE v # w
      BY <1>1, <2>1, <3>2 DEF OthersStay, Clears, TakesAway
    <3> QED
      BY <3>1, <3>2
  <2>2. ASSUME NEW k \in {"remove", "clear"}, waiting[QM!Task(k, d)] > 0 PROVE Clears(d)'
    <3>1. waiting'[QM!Task(k, d)] > 0
      <4>1. QM!Task(k, d) \in QM!Tasks
        BY TaskFits
      <4>2. /\ waiting[QM!Task(k, d)] \in Nat /\ waiting'[QM!Task(k, d)] \in Nat
            /\ waiting'[QM!Task(k, d)] >= waiting[QM!Task(k, d)]
        BY <1>0, <1>3, <4>1 DEF MessagesTyped
      <4> QED
        BY <2>2, <4>2
    <3> QED
      BY <3>1 DEF Clears
  <2> QED
    BY <2>1, <2>2 DEF Clears
<1>10. Showing(d)' = Showing(d) /\ QM!Place(d)' = QM!Place(d) /\ (InQueue(d)' <=> InQueue(d))
  BY <1>0 DEF Showing, QM!Shown, QM!Place, InQueue
<1>11. Separate(d)'
  BY <1>0, <1>5 DEF Followed, Separate
<1>12. OneMessage(d)'
  BY <1>0, <1>2, <1>5, <1>10 DEF Followed, OneMessage
<1>13. Knows(d)'
  <2>1. KnowsOf(worker[w], d)'
    BY <1>1, IdleFits DEF KnowsOf
  <2>2. ASSUME NEW v \in Tellers \ {w} PROVE KnowsOf(worker[v], d)'
    BY <1>0, <1>5, <1>10 DEF Followed, Knows, KnowsOf
  <2> QED
    BY <2>1, <2>2 DEF Knows
<1>14. Truthful(d)'
  <2>1. ASSUME NEW v \in Tellers, QM!Contains(worker[v].rest, d), ~News'
        PROVE  \E z \in Tellers : QM!Contains(worker[z].rest, d)'
    <3>1. v # w
      BY <1>7, <2>1
    <3> QED
      BY <1>5, <2>1, <3>1
  <2> QED
    BY <1>0, <1>8, <1>10, <2>1 DEF Followed, Truthful, TruthTold
<1>15. InPlace(d)'
  <2>1. CountsRight(worker[w], d)'
    BY <1>1, IdleFits DEF CountsRight, QM!Contains
  <2>2. ASSUME NEW v \in Tellers \ {w}, CountsRight(worker[v], d) PROVE CountsRight(worker[v], d)'
    BY <1>5, <1>10, <2>2 DEF CountsRight
  <2> QED
    BY <1>0, <1>8, <1>10, <2>1, <2>2 DEF Followed, InPlace
<1>16. Gone(d)'
  BY <1>0, <1>5, <1>9, <1>10 DEF Followed, Gone
<1> QED
  BY <1>11, <1>12, <1>13, <1>14, <1>15, <1>16 DEF Followed

--------------------------------------------------------------------------------
(* The invariant *)

\* The id of a message that is sent and not noted is not given again
LEMMA SentIsNamed ==
  ASSUME MessagesTyped, NEW v \in Tellers, worker[v].pc = "notes"
  PROVE  worker[v].sent \in QM!Named(Head(worker[v].rest))
<1>1. v \in QM!Running /\ worker[v].rest # <<>>
  BY DEF QM!Running, MessagesTyped, TellerFits, Touching
<1>2. QM!Of(worker[v]) = Head(worker[v].rest)
  BY <1>1 DEF QM!Of
<1> QED
  BY <1>1, <1>2 DEF QM!Named

LEMMA SentKept ==
  ASSUME MessagesInv, MessagesTyped', [QM!Next]_QM!vars
  PROVE  SentAsCounted'
<1> SUFFICES ASSUME NEW v \in Tellers, worker'[v].pc = "notes"
             PROVE  board'[Head(worker'[v].rest)][worker'[v].sent] \in {0, worker'[v].place}
  BY DEF SentAsCounted
<1> DEFINE t == worker[v]
           g == Head(t.rest)
<1>0. /\ MessagesTyped /\ SentAsCounted /\ TellerFits(t) /\ t \in TellerRec
      /\ board \in [Drivers -> [Ids -> 0 .. QM!Cardinality(Drivers)]]
  BY DEF MessagesInv, MessagesTyped
<1>1. ASSUME t.pc = "notes" PROVE g \in Drivers /\ t.sent \in Ids /\ board[g][t.sent] \in {0, t.place}
  BY <1>0, <1>1, TouchingHead DEF SentAsCounted, TellerFits, Touching
<1>2. CASE worker' = worker /\ board' = board
  BY <1>0, <1>2 DEF SentAsCounted
<1>3. ASSUME NEW w \in Tellers, NEW u, QM!Goes(w, u), u.pc # "notes", board' = board
      PROVE  board'[Head(worker'[v].rest)][worker'[v].sent] \in {0, worker'[v].place}
  <2>1. worker'[v] = t
    BY <1>0, <1>3, Going DEF OthersStay
  <2> QED
    BY <1>0, <1>3, <2>1 DEF SentAsCounted
<1>4. ASSUME NEW w \in Tellers, QM!Deletes(w)
      PROVE  board'[Head(worker'[v].rest)][worker'[v].sent] \in {0, worker'[v].place}
  <2>1. PICK u : u = [worker[w] EXCEPT !.pc = "forgets"] /\ QM!Goes(w, u)
    BY <1>4 DEF QM!Deletes
  <2>2. worker[w] \in TellerRec /\ worker[w].task.driver \in Drivers /\ worker[w].prev \in Ids
    <3>1. worker[w].pc = "deletes" /\ worker[w].pc \in Clearing
      BY <1>4 DEF QM!Deletes, Clearing
    <3>2. worker[w] \in TellerRec /\ worker[w].prev \in Ids
      BY <1>0, <3>1 DEF MessagesTyped, TellerFits
    <3> QED
      BY <3>1, <3>2, ClearingAlone
  <2>3. u.pc = "forgets" /\ worker'[v] = t
    <3>1. u.pc = "forgets"
      BY <2>1, <2>2 DEF TellerRec
    <3> QED
      BY <1>0, <2>1, <3>1, Going DEF OthersStay
  <2>4. 0 \in 0 .. QM!Cardinality(Drivers)
    BY CardinalityQM, MessagesAssumption, FS_CardinalityType
  <2>5. board' = board \/ \A e \in Drivers, m \in Ids :
          board'[e][m] = IF e = worker[w].task.driver /\ m = worker[w].prev THEN 0 ELSE board[e][m]
    <3> DEFINE c == [board EXCEPT ![worker[w].task.driver][worker[w].prev] = 0]
    <3>1. board' = board \/ board' = c
      BY <1>4 DEF QM!Deletes
    <3>2. \A e \in Drivers, m \in Ids :
            c[e][m] = IF e = worker[w].task.driver /\ m = worker[w].prev THEN 0 ELSE board[e][m]
      BY <1>0, <2>2, <2>4, WrittenOnce
    <3> HIDE DEF c
    <3> QED
      BY <3>1, <3>2
  <2> QED
    BY <1>1, <2>3, <2>5
<1>5. ASSUME NEW w \in Tellers, QM!Sends(w)
      PROVE  board'[Head(worker'[v].rest)][worker'[v].sent] \in {0, worker'[v].place}
  <2> DEFINE s == worker[w]
             h == Head(s.rest)
  <2>1. s.pc = "sends" /\ s \in TellerRec /\ TellerFits(s) /\ h \in Drivers /\ s.pc \in Touching
    BY <1>0, <1>5, TouchingHead DEF QM!Sends, MessagesTyped, Touching
  <2>2. CASE /\ Ids \ QM!Named(h) # {}
             /\ board' = [QM!Replaced(board, h, s.prev) EXCEPT ![h][QM!Fresh(h)] = s.place]
             /\ QM!Goes(w, [s EXCEPT !.pc = "notes", !.sent = QM!Fresh(h)])
    <3>1. \A e \in Drivers, m \in Ids :
             board'[e][m] = IF e = h /\ m = QM!Fresh(h) THEN s.place
                            ELSE IF e = h /\ m = s.prev THEN 0 ELSE board[e][m]
      BY <2>1, <2>2, SendsWrites
    <3>2. QM!Fresh(h) \in Ids /\ QM!Fresh(h) \notin QM!Named(h)
      BY <2>2, FreshFits
    <3>3. PICK u : u = [s EXCEPT !.pc = "notes", !.sent = QM!Fresh(h)] /\ QM!Goes(w, u)
      BY <2>2
    <3>4. u.sent = QM!Fresh(h) /\ u.rest = s.rest /\ u.place = s.place
      BY <2>1, <3>3 DEF TellerRec
    <3>5. worker'[w] = u /\ OthersStay(w)
      BY <1>0, <3>3, Going
    <3>6. CASE v = w
      BY <2>1, <3>1, <3>2, <3>4, <3>5, <3>6
    <3>7. CASE v # w
      <4>1. worker'[v] = t /\ t.pc = "notes"
        BY <3>5, <3>7 DEF OthersStay
      <4>2. g = h => t.sent # QM!Fresh(h)
        BY <1>0, <3>2, <4>1, SentIsNamed
      <4> QED
        BY <1>1, <3>1, <4>1, <4>2
    <3> QED
      BY <3>6, <3>7
  <2>3. CASE /\ QM!Goes(w, QM!ToNext(s))
             /\ board' = QM!Replaced(board, h, s.prev) \/ board' = board
    <3>1. worker'[w].pc # "notes" /\ OthersStay(w)
      BY <1>0, <2>1, <2>3, Going, ToNextFits
    <3>2. worker'[v] = t
      BY <3>1 DEF OthersStay
    <3>3. s.prev \in Ids \cup {None}
      BY <2>1 DEF TellerRec
    <3>4. \A e \in Drivers, m \in Ids : board'[e][m] \in {0, board[e][m]}
      BY <1>0, <2>1, <2>3, <3>3, ReplacedOnce
    <3> QED
      BY <1>1, <3>2, <3>4
  <2> QED
    BY <1>5, <2>2, <2>3 DEF QM!Sends
<1>6. CASE QM!Changes
  BY <1>2, <1>6 DEF QM!Changes, QM!Joins, QM!Stops, QM!Fills, QM!Offers, QM!Untold
<1>7. ASSUME NEW w \in Tellers, QM!Works(w) \/ QM!Dies(w)
      PROVE  board'[Head(worker'[v].rest)][worker'[v].sent] \in {0, worker'[v].place}
  <2> DEFINE s == worker[w]
  <2>0. s \in TellerRec /\ TellerFits(s)
    BY <1>0 DEF MessagesTyped
  <2>1. ASSUME NEW x \in QM!Tasks, QM!Takes(w, x)
        PROVE  \E u : QM!Goes(w, u) /\ u.pc # "notes" /\ board' = board
    <3>1. QM!Goes(w, Start(x)) /\ board' = board
      BY <2>1 DEF QM!Takes, Start
    <3>2. Start(x).pc # "notes"
      BY StartFits, TaskFits
    <3> QED
      BY <3>1, <3>2
  <2>2. ASSUME QM!Adds(w) PROVE \E u : QM!Goes(w, u) /\ u.pc # "notes" /\ board' = board
    <3>1. [s EXCEPT !.pc = "reads"].pc = "reads"
      BY <2>0 DEF TellerRec
    <3> QED
      BY <2>2, <3>1 DEF QM!Adds
  <2>3. ASSUME QM!Removes(w) PROVE \E u : QM!Goes(w, u) /\ u.pc # "notes" /\ board' = board
    <3>1. [s EXCEPT !.pc = "looks"].pc = "looks"
      BY <2>0 DEF TellerRec
    <3> QED
      BY <2>3, <3>1, IdleFits DEF QM!Removes
  <2>4. ASSUME QM!Looks(w) \/ QM!Forgets(w)
        PROVE  \E u : QM!Goes(w, u) /\ u.pc # "notes" /\ board' = board
    <3>1. s.pc \in Clearing => QM!Cleared(s).pc # "notes"
      BY <2>0, ClearedFits, IdleFits DEF TellerFits, Kinds, Touching, Clearing
    <3>2. [s EXCEPT !.pc = "deletes", !.prev = noted[s.task.driver]].pc = "deletes"
      BY <2>0 DEF TellerRec
    <3> QED
      BY <2>4, <3>1, <3>2 DEF QM!Looks, QM!Forgets, Clearing
  <2>5. ASSUME QM!Reads(w) PROVE \E u : QM!Goes(w, u) /\ u.pc # "notes" /\ board' = board
    <3>1. [s EXCEPT !.pc = "asks", !.rest = places, !.place = 1].pc = "asks"
      BY <2>0 DEF TellerRec
    <3> QED
      BY <2>5, <3>1, IdleFits DEF QM!Reads
  <2>6. ASSUME QM!Asks(w) PROVE \E u : QM!Goes(w, u) /\ u.pc # "notes" /\ board' = board
    <3>1. \A n : [s EXCEPT !.pc = "sends", !.prev = n].pc = "sends"
      BY <2>0 DEF TellerRec
    <3> QED
      BY <2>6, <3>1 DEF QM!Asks
  <2>7. ASSUME QM!Notes(w) PROVE \E u : QM!Goes(w, u) /\ u.pc # "notes" /\ board' = board
    <3>1. s.pc = "notes" /\ QM!ToNext(s).pc # "notes"
      BY <2>0, <2>7, ToNextFits DEF QM!Notes, Touching
    <3> QED
      BY <2>7, <3>1 DEF QM!Notes
  <2>8. ASSUME QM!Dies(w) PROVE \E u : QM!Goes(w, u) /\ u.pc # "notes" /\ board' = board
    BY <2>8, IdleFits DEF QM!Dies
  <2> QED
    BY <1>3, <1>4, <1>5, <1>7, <2>1, <2>2, <2>3, <2>4, <2>5, <2>6, <2>7, <2>8 DEF QM!Works
<1>8. CASE UNCHANGED QM!vars
  BY <1>2, <1>8 DEF QM!vars
<1> QED
  BY <1>6, <1>7, <1>8 DEF QM!Next

LEMMA MessagesInvNext ==
  ASSUME MessagesInv, [QM!Next]_QM!vars
  PROVE  MessagesInv'
<1>1. MessagesTyped'
  BY MessagesTypedNext DEF MessagesInv
<1>2. SentAsCounted'
  BY <1>1, SentKept
<1>3. ASSUME NEW d \in Drivers \ astray' PROVE Followed(d)'
  <2>1. CASE QM!Changes
    BY <2>1, ChangesKeep
  <2>2. ASSUME NEW w \in Tellers, QM!Works(w) PROVE Followed(d)'
    BY <1>1, <2>2, TakesKeep, AddsKeep, RemovesKeep, LooksKeep, DeletesKeep, ForgetsKeep,
       ReadsKeep, AsksKeep, SendsKeep, NotesKeep DEF QM!Works
  <2>3. ASSUME NEW w \in Tellers, QM!Dies(w) PROVE Followed(d)'
    BY <1>1, <2>3, DiesKeep
  <2>4. CASE UNCHANGED QM!vars
    <3>1. UNCHANGED <<places, noted, board, waiting, worker, astray>>
      BY <2>4 DEF QM!vars
    <3>2. Followed(d) /\ (News <=> News') /\ (Clears(d) <=> Clears(d)')
      BY <3>1 DEF MessagesInv, News, Clears
    <3> QED
      BY <3>1, <3>2, ChangeKeeps DEF InQueue
  <2> QED
    BY <2>1, <2>2, <2>3, <2>4 DEF QM!Next
<1> QED
  BY <1>1, <1>2, <1>3 DEF MessagesInv

--------------------------------------------------------------------------------
(* The theorems *)

\* The invariant holds always: the two parts of it that no handler checks, that an
\* active order names the driver of its trip and that a completion keeps its order
\* until it commits, support each other in every step.
THEOREM Invariance == Spec => []Inv
  <1>1. Init => Inv BY InitHolds
  <1>2. Inv /\ [Next]_vars => Inv' BY StepHolds
  <1> QED BY <1>1, <1>2, PTL DEF Spec

\* An order that is accepted or in progress rides in a trip of the driver it names
\* (start_trip, auto_start_trip_task and auto_complete_trip_task rely on it).
THEOREM RidesTogether == Spec => []RidesWithItsDriver
  <1>1. Inv => RidesWithItsDriver BY DEF Inv
  <1> QED BY <1>1, Invariance, PTL

\* No order is started that was not accepted, or completed that was not in progress,
\* however starts, completions and cancellations interleave.
THEOREM Forward == Spec => StatusMovesForward
  <1>1. Inv /\ [Next]_vars => [MovesForward]_vars BY StepHolds
  <1> QED BY <1>1, Invariance, PTL DEF Spec, StatusMovesForward

\* Types.  What needs an argument is that a trip's count of timer messages is never
\* short: a worker takes a message off when it is done with it (auto_complete_trip_task
\* is acknowledged late), so there are as many messages as workers on the trip.
THEOREM TripTypes == Spec => []TypeOK
  <1>1. Spec => []TypesInv BY TypesInvInit, TypesInvNext, PTL DEF Spec
  <1> QED BY <1>1, TypesFit, PTL

\* What the tasks of matching.py keep of the queue's messages: the invariant below,
\* for every driver no unannounced change, crossing of two tasks or failure concerned.
MessagesHold == part = "messages" => MessagesInv

\* _notify_queue_positions reads the queue and then writes to one chat after another;
\* meanwhile the queue changes and more tasks are sent.  The invariant holds in every
\* step between: what a chat shows is noted or about to be, a place that is no longer
\* right is news to a task that waits, and who left is about to be cleared.
THEOREM MessagesInvariance == PartsSpec => []MessagesHold
  <1>1. PartsInit => MessagesHold
    BY MessagesInvInit DEF PartsInit, MessagesHold
  <1>2. MessagesHold /\ [PartsNext]_allVars => MessagesHold'
    <2> SUFFICES ASSUME MessagesHold, [PartsNext]_allVars, part' = "messages" PROVE MessagesInv'
      BY DEF MessagesHold
    <2>1. part = "messages" /\ [QM!Next]_QM!vars
      BY DEF PartsNext, WithinPart, allVars, messages, QM!vars
    <2> QED
      BY <2>1, MessagesInvNext DEF MessagesHold
  <1> QED
    BY <1>1, <1>2, PTL DEF PartsSpec

\* When the tasks of the queue are done, a chat that has a message of a place has one,
\* the one noted in Redis, and it tells the place the driver has: that is what
\* _notify_queue_positions and _clear_queue_message_for_driver send and delete it for.
THEOREM PlaceTold == PartsSpec => []PlaceIsTold
  <1>1. MessagesHold => PlaceIsTold
    BY MessagesInvTells DEF MessagesHold, PlaceIsTold
  <1> QED
    BY <1>1, MessagesInvariance, PTL

\* The types of trips and messages side by side: orders, trips, calls and timers of
\* start_trip and auto_complete_trip_task, and the queue, notes and chats of matching.py.
THEOREM PartsTypes == PartsSpec => []PartsTypeOK
  <1>1. PartsInit => TypesInv
    BY TypesInvInit DEF PartsInit
  <1>2. TypesInv /\ [PartsNext]_allVars => TypesInv'
    <2> SUFFICES ASSUME TypesInv, [PartsNext]_allVars PROVE TypesInv'
      OBVIOUS
    <2>1. [Next]_vars
      BY DEF PartsNext, allVars
    <2> QED
      BY <2>1, TypesInvNext
  <1>3. TypesInv /\ MessagesHold => PartsTypeOK
    BY TypesFit, MessagesTypesFit DEF MessagesHold, MessagesInv, PartsTypeOK
  <1> QED
    BY <1>1, <1>2, <1>3, MessagesInvariance, PTL DEF PartsSpec
================================================================================
