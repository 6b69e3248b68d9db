------------------------- MODULE OrderAcceptanceProofs -------------------------
(***************************************************************************)
(* Proofs about OrderAcceptance for every set of orders, drivers, calls    *)
(* and trips: types, one winner per order, one active trip per driver, the *)
(* key left to its holder, and the refinement of OrderClaim.               *)
(***************************************************************************)
EXTENDS OrderAcceptance, FiniteSetTheorems, TLAPS

\* The conjuncts of Inv that relate calls, row locks and rows
Guards ==
  /\ CallBound /\ OrderRowHeld /\ DriverRowHeld /\ TripReserved /\ TripOfOrder
  /\ CommittedTripsUsed /\ AcceptedSettled /\ OneWinner /\ OneOpenTrip

\* Assigning a record of the right type to one call keeps the type of call.
LEMMA GoType ==
  ASSUME TypeOK, NEW c \in Calls, NEW r \in CallRec, Go(c, r)
  PROVE  /\ call' \in [Calls -> CallRec]
         /\ call'[c] = r
         /\ \A b \in Calls : b # c => call'[b] = call[b]
BY DEF TypeOK, Go

\* The record of a returning call is a call record.
LEMMA ReturnType ==
  ASSUME TypeOK, NEW c \in Calls, Return(c)
  PROVE  \E r \in CallRec :
           /\ Go(c, r) /\ r.pc = "done"
           /\ r.accepted => /\ call[c].accepted
                            /\ r.driver = call[c].driver /\ r.order = call[c].order
<1>1. call[c] \in CallRec
  BY DEF TypeOK
<1>2. Idle("done") \in CallRec
  BY ConstantsAssumption DEF Idle, CallRec, PC
<1>3. CASE call[c].accepted
  <2>1. [call[c] EXCEPT !.pc = "done"] \in CallRec
    BY <1>1 DEF CallRec, PC
  <2> QED
    BY <1>1, <1>3, <2>1 DEF Return, CallRec
<1>4. CASE ~call[c].accepted
  <2>1. Go(c, Idle("done"))
    BY <1>4 DEF Return
  <2>2. Idle("done").pc = "done" /\ ~Idle("done").accepted
    BY DEF Idle
  <2> QED
    BY <1>2, <2>1, <2>2
<1> QED
  BY <1>3, <1>4

\* Ending a transaction keeps the types of the row locks, and the rows that
\* other calls hold.
LEMMA FreeRowsType ==
  ASSUME TypeOK, NEW c \in Calls, FreeRows(c)
  PROVE  /\ orderRow' \in [Orders -> Calls \cup {None}]
         /\ driverRow' \in [Drivers -> Calls \cup {None}]
         /\ \A b \in Calls \ {c} :
              /\ \A o \in Orders : orderRow[o] = b => orderRow'[o] = b
              /\ \A d \in Drivers : driverRow[d] = b => driverRow'[d] = b
BY DEF TypeOK, FreeRows

\* A call that stays or ends outside its transaction disturbs no other call, as
\* long as it writes no row but a driver's on_trip flag.
LEMMA OutsideKeepsGuards ==
  ASSUME TypeOK, Guards, NEW c \in Calls, NEW r \in CallRec, Go(c, r),
         r.pc \notin InTransaction,
         r.pc # "done" => r.driver \in Drivers /\ r.order \in Orders,
         r.accepted => /\ r.pc \in {"release", "done"}
                       /\ call[c].accepted
                       /\ r.driver = call[c].driver /\ r.order = call[c].order,
         \A b \in Calls \ {c} :
            /\ \A o \in Orders : orderRow[o] = b => orderRow'[o] = b
            /\ \A d \in Drivers : driverRow[d] = b => driverRow'[d] = b,
         \A d \in Drivers : /\ driver'[d].seats = driver[d].seats
                            /\ driver'[d].balance = driver[d].balance,
         UNCHANGED <<order, trip, usedTrips>>
  PROVE  Guards'
<1>1. /\ call'[c] = r
      /\ \A b \in Calls : b # c => call'[b] = call[b]
  BY GoType
<1>8. CallBound'
  BY <1>1 DEF Guards, CallBound
<1>2. OrderRowHeld'
  BY <1>1, <1>8 DEF Guards, CallBound, OrderRowHeld, InTransaction
<1>3. DriverRowHeld'
  BY <1>1, <1>8 DEF Guards, CallBound, DriverRowHeld, InTransaction
<1>4. TripReserved'
  BY <1>1 DEF Guards, TripReserved, InTransaction, OpenTrips
<1>5. TripOfOrder' /\ CommittedTripsUsed' /\ OneOpenTrip'
  BY DEF Guards, TripOfOrder, CommittedTripsUsed, OneOpenTrip, OpenTrips
<1>6. AcceptedSettled'
  BY <1>1 DEF Guards, AcceptedSettled
<1>7. OneWinner'
  BY <1>1 DEF Guards, OneWinner, Owner
<1> QED
  BY <1>2, <1>3, <1>4, <1>5, <1>6, <1>7, <1>8 DEF Guards

\* A call that stays inside its transaction, holding the rows it read, disturbs no
\* other call, as long as no row is written.
LEMMA InsideKeepsGuards ==
  ASSUME TypeOK, Guards, NEW c \in Calls, NEW r \in CallRec, Go(c, r),
         r.pc \in InTransaction, ~r.accepted,
         r.driver \in Drivers, r.order \in Orders,
         orderRow'[r.order] = c, order[r.order].status = "PENDING",
         r.pc # "order" => /\ driverRow'[r.driver] = c
                           /\ driver[r.driver].seats >= PassengerCount[r.order]
                           /\ driver[r.driver].balance >= Commission,
         r.pc = "prepared" =>
           /\ r.trip \in Trips /\ r.trip \in usedTrips'
           /\ \/ trip[r.trip].driver = r.driver
              \/ trip[r.trip].driver = None /\ OpenTrips(r.driver) = {}
           /\ \A b \in Calls \ {c} : call[b].pc = "prepared" => call[b].trip # r.trip,
         \A b \in Calls \ {c} :
            /\ \A o \in Orders : orderRow[o] = b => orderRow'[o] = b
            /\ \A d \in Drivers : driverRow[d] = b => driverRow'[d] = b,
         usedTrips \subseteq usedTrips',
         UNCHANGED <<order, driver, trip>>
  PROVE  Guards'
<1>1. call'[c] = r /\ (\A b \in Calls : b # c => call'[b] = call[b])
  BY GoType
<1>2. (\A o : Owner(o)' = Owner(o)) /\ (\A d : OpenTrips(d)' = OpenTrips(d))
  BY DEF Owner, OpenTrips
<1>3. CallBound'
  BY <1>1 DEF Guards, CallBound
<1>4. OrderRowHeld'
  <2> SUFFICES ASSUME NEW b \in Calls, call'[b].pc \in InTransaction
               PROVE  /\ orderRow'[call'[b].order] = b
                      /\ order[call'[b].order].status = "PENDING"
    BY DEF OrderRowHeld
  <2>1. CASE b = c
    BY <1>1, <2>1
  <2>2. CASE b # c
    BY <1>1, <2>2 DEF Guards, OrderRowHeld, CallBound, InTransaction
  <2> QED
    BY <2>1, <2>2
<1>5. DriverRowHeld'
  <2> SUFFICES ASSUME NEW b \in Calls, call'[b].pc \in {"driver", "prepared"}
               PROVE  /\ driverRow'[call'[b].driver] = b
                      /\ driver[call'[b].driver].seats >= PassengerCount[call'[b].order]
                      /\ driver[call'[b].driver].balance >= Commission
    BY DEF DriverRowHeld
  <2>1. CASE b = c
    BY <1>1, <2>1
  <2>2. CASE b # c
    BY <1>1, <2>2 DEF Guards, DriverRowHeld, CallBound
  <2> QED
    BY <2>1, <2>2
<1>6. TripReserved'
  <2> SUFFICES ASSUME NEW b \in Calls, call'[b].pc = "prepared"
               PROVE  /\ call'[b].trip \in Trips /\ call'[b].trip \in usedTrips'
                      /\ \/ trip[call'[b].trip].driver = call'[b].driver
                         \/ /\ trip[call'[b].trip].driver = None
                            /\ OpenTrips(call'[b].driver) = {}
                      /\ \A a \in Calls : call'[a].pc = "prepared"
                                          /\ call'[a].trip = call'[b].trip => a = b
    BY <1>2 DEF TripReserved
  <2>1. CASE b = c
    BY <1>1, <2>1
  <2>2. CASE b # c
    BY <1>1, <2>2 DEF Guards, TripReserved
  <2> QED
    BY <2>1, <2>2
<1>7. TripOfOrder' /\ OneOpenTrip'
  BY <1>2 DEF Guards, TripOfOrder, OneOpenTrip
<1>8. CommittedTripsUsed'
  BY DEF Guards, CommittedTripsUsed
<1>9. \A b \in Calls : call'[b].accepted => call'[b] = call[b]
  BY <1>1
<1>10. AcceptedSettled'
  BY <1>9 DEF Guards, AcceptedSettled
<1>11. OneWinner'
  BY <1>2, <1>9 DEF Guards, OneWinner
<1> QED
  BY <1>3, <1>4, <1>5, <1>6, <1>7, <1>8, <1>10, <1>11 DEF Guards

\* Steps of other tasks: they move no call and no row lock, and of the rows they
\* leave alone whether an order is pending, its trip, the driver of every trip,
\* and every driver's seats and balance.
LEMMA TasksKeepGuards ==
  ASSUME TypeOK, Guards, UNCHANGED <<call, orderRow, driverRow, usedTrips>>,
         \A o \in Orders :
            /\ order'[o].trip = order[o].trip
            /\ order'[o].status = "PENDING" <=> order[o].status = "PENDING",
         \A t \in Trips : trip'[t].driver = trip[t].driver,
         \A d \in Drivers : /\ driver'[d].seats = driver[d].seats
                            /\ driver'[d].balance = driver[d].balance
  PROVE  Guards'
<1>1. CallBound'
  BY DEF Guards, CallBound
<1>2. OrderRowHeld'
  BY DEF Guards, CallBound, OrderRowHeld, InTransaction
<1>3. DriverRowHeld'
  BY DEF Guards, CallBound, DriverRowHeld
<1>4. \A d : OpenTrips(d)' = OpenTrips(d)
  BY DEF OpenTrips
<1>5. TripReserved'
  <2> SUFFICES ASSUME NEW b \in Calls, call'[b].pc = "prepared"
               PROVE  /\ call'[b].trip \in Trips /\ call'[b].trip \in usedTrips'
                      /\ \/ trip'[call'[b].trip].driver = call'[b].driver
                         \/ /\ trip'[call'[b].trip].driver = None
                            /\ \A s \in Trips : trip'[s].driver # call'[b].driver
                      /\ \A a \in Calls : call'[a].pc = "prepared"
                                          /\ call'[a].trip = call'[b].trip => a = b
    BY DEF TripReserved, OpenTrips
  <2> QED
    BY DEF Guards, TripReserved, OpenTrips
<1>6. TripOfOrder' /\ CommittedTripsUsed'
  BY DEF Guards, TripOfOrder, CommittedTripsUsed
<1>7. AcceptedSettled'
  BY DEF Guards, AcceptedSettled
<1>8. OneOpenTrip'
  BY <1>4 DEF Guards, OneOpenTrip
<1>9. \A o \in Orders : Owner(o)' = Owner(o)
  BY DEF Owner, Guards, TripOfOrder
<1>10. OneWinner'
  BY <1>9 DEF Guards, OneWinner, AcceptedSettled
<1> QED
  BY <1>1, <1>2, <1>3, <1>5, <1>6, <1>7, <1>8, <1>10 DEF Guards

LEMMA InvSplit == (Inv <=> TypeOK /\ Guards) /\ (Inv' <=> TypeOK' /\ Guards')
BY DEF Inv, Guards

--------------------------------------------------------------------------------
(* acquire_order_lock *)

LEMMA BeginInv ==
  ASSUME Inv, NEW c \in Calls, NEW d \in Drivers, NEW o \in Orders, Begin(c, d, o)
  PROVE  Inv'
<1> DEFINE r == [call[c] EXCEPT !.pc = "locking", !.driver = d, !.order = o]
<1>1. TypeOK /\ Guards
  BY InvSplit
<1>2. /\ r \in CallRec /\ r.pc = "locking" /\ r.accepted = call[c].accepted
      /\ r.driver = d /\ r.order = o
  BY <1>1 DEF TypeOK, CallRec, PC
<1>3. Go(c, r) /\ call[c].pc = "new"
  BY DEF Begin
<1>4. ~call[c].accepted
  BY <1>1, <1>3 DEF Guards, AcceptedSettled
<1>5. TypeOK'
  BY <1>1, <1>2, <1>3, GoType DEF TypeOK, Begin, rows
<1>6. Guards'
  BY <1>1, <1>2, <1>3, <1>4, OutsideKeepsGuards DEF Begin, rows, InTransaction
<1> QED
  BY <1>5, <1>6, InvSplit

LEMMA SetLockInv ==
  ASSUME Inv, NEW c \in Calls, SetLock(c)
  PROVE  Inv'
<1> DEFINE r == [call[c] EXCEPT !.pc = "locked", !.tries = 0]
<1>1. TypeOK /\ Guards
  BY InvSplit
<1>2. /\ r \in CallRec /\ r.pc = "locked" /\ r.accepted = call[c].accepted
      /\ r.driver = call[c].driver /\ r.order = call[c].order
  <2>1. call[c] \in CallRec /\ 0 \in 0..MaxRetries
    BY <1>1, ConstantsAssumption DEF TypeOK
  <2> QED
    BY <2>1 DEF CallRec, PC
<1>3. Go(c, r) /\ call[c].pc = "locking"
  BY DEF SetLock
<1>4. /\ ~call[c].accepted
      /\ call[c].driver \in Drivers /\ call[c].order \in Orders
  BY <1>1, <1>3 DEF Guards, AcceptedSettled, CallBound
<1>5. lock' \in [Orders -> Calls \cup {None}]
  BY <1>1 DEF TypeOK, SetLock
<1>6. TypeOK'
  BY <1>1, <1>2, <1>3, <1>5, GoType DEF TypeOK, SetLock, rows
<1>7. Guards'
  BY <1>1, <1>2, <1>3, <1>4, OutsideKeepsGuards DEF SetLock, rows, InTransaction
<1> QED
  BY <1>6, <1>7, InvSplit

\* A call that returns, without writing rows or row locks, keeps Inv.
LEMMA ReturnInv ==
  ASSUME Inv, NEW c \in Calls, Return(c),
         lock' \in [Orders -> Calls \cup {None}],
         UNCHANGED <<orderRow, driverRow, rows, usedTrips, queue, autoStart, finder>>
  PROVE  Inv'
<1>1. TypeOK /\ Guards
  BY InvSplit
<1>2. PICK r \in CallRec :
        /\ Go(c, r) /\ r.pc = "done"
        /\ r.accepted => /\ call[c].accepted
                         /\ r.driver = call[c].driver /\ r.order = call[c].order
  BY <1>1, ReturnType
<1>3. TypeOK'
  BY <1>1, <1>2, GoType DEF TypeOK, rows
<1>4. Guards'
  BY <1>1, <1>2, OutsideKeepsGuards DEF rows, InTransaction
<1> QED
  BY <1>3, <1>4, InvSplit

\* A call whose SET answered False keeps Inv, whatever became of the key.
LEMMA NotLockedInv ==
  ASSUME Inv, NEW c \in Calls, call[c].pc = "locking", NotLocked(c),
         lock' \in [Orders -> Calls \cup {None}],
         UNCHANGED <<orderRow, driverRow, rows, usedTrips, queue, autoStart, finder>>
  PROVE  Inv'
<1> DEFINE r == [call[c] EXCEPT !.tries = @ + 1]
<1>1. TypeOK /\ Guards
  BY InvSplit
<1>2. CASE call[c].tries < MaxRetries - 1
  <2>1. call[c] \in CallRec
    BY <1>1 DEF TypeOK
  <2>2. call[c].tries + 1 \in 0..MaxRetries
    BY <1>2, <2>1, ConstantsAssumption DEF CallRec
  <2>3. /\ r \in CallRec /\ r.pc = "locking" /\ r.accepted = call[c].accepted
        /\ r.driver = call[c].driver /\ r.order = call[c].order
    BY <2>1, <2>2 DEF CallRec, PC
  <2>4. Go(c, r)
    BY <1>2 DEF NotLocked
  <2>5. /\ ~call[c].accepted
        /\ call[c].driver \in Drivers /\ call[c].order \in Orders
    BY <1>1, <2>1 DEF Guards, AcceptedSettled, CallBound
  <2>6. TypeOK'
    BY <1>1, <2>3, <2>4, GoType DEF TypeOK, rows
  <2>7. Guards'
    BY <1>1, <2>3, <2>4, <2>5, OutsideKeepsGuards DEF rows, InTransaction
  <2> QED
    BY <2>6, <2>7, InvSplit
<1>3. CASE ~(call[c].tries < MaxRetries - 1)
  BY <1>3, ReturnInv DEF NotLocked
<1> QED
  BY <1>2, <1>3

LEMMA LockBusyInv ==
  ASSUME Inv, NEW c \in Calls, LockBusy(c)
  PROVE  Inv'
BY NotLockedInv DEF LockBusy, Inv, TypeOK

LEMMA LockErrorInv ==
  ASSUME Inv, NEW c \in Calls, LockError(c)
  PROVE  Inv'
<1>1. lock' \in [Orders -> Calls \cup {None}]
  BY DEF Inv, TypeOK, LockError
<1> QED
  BY <1>1, NotLockedInv DEF LockError

LEMMA ReleaseLockInv ==
  ASSUME Inv, NEW c \in Calls, ReleaseLock(c)
  PROVE  Inv'
<1>1. lock' \in [Orders -> Calls \cup {None}]
  BY DEF Inv, TypeOK, ReleaseLock, KeyAfterRelease
<1> QED
  BY <1>1, ReturnInv DEF ReleaseLock

LEMMA ReleaseErrorInv ==
  ASSUME Inv, NEW c \in Calls, ReleaseError(c)
  PROVE  Inv'
BY ReturnInv DEF ReleaseError, Inv, TypeOK

LEMMA LockExpiresInv ==
  ASSUME Inv, NEW o \in Orders, LockExpires(o)
  PROVE  Inv'
<1>1. TypeOK'
  BY DEF Inv, TypeOK, LockExpires, rows
<1>2. Guards'
  BY InvSplit, TasksKeepGuards DEF LockExpires, rows
<1> QED
  BY <1>1, <1>2, InvSplit

--------------------------------------------------------------------------------
(* The transaction: the steps that take row locks or give them back *)

LEMMA ReadOrderInv ==
  ASSUME Inv, NEW c \in Calls, ReadOrder(c)
  PROVE  Inv'
<1> DEFINE o == call[c].order
<1>1. TypeOK /\ Guards /\ call[c] \in CallRec /\ call[c].pc = "locked"
  BY InvSplit DEF TypeOK, ReadOrder
<1>2. ~call[c].accepted /\ call[c].driver \in Drivers /\ o \in Orders
  BY <1>1 DEF Guards, AcceptedSettled, CallBound
<1>5. /\ driverRow' = driverRow /\ order' = order /\ driver' = driver
      /\ trip' = trip /\ usedTrips' = usedTrips
  BY DEF ReadOrder, rows
<1>3. CASE order[o].status = "PENDING"
  <2> DEFINE r == [call[c] EXCEPT !.pc = "order"]
  <2>1. /\ r \in CallRec /\ r.pc = "order" /\ r.accepted = call[c].accepted
        /\ r.driver = call[c].driver /\ r.order = o /\ r.trip = call[c].trip
    BY <1>1 DEF CallRec, PC
  <2>2. Go(c, r) /\ orderRow[o] = None /\ orderRow' = [orderRow EXCEPT ![o] = c]
    BY <1>3 DEF ReadOrder, RowFree
  <2>3. /\ orderRow' \in [Orders -> Calls \cup {None}] /\ orderRow'[o] = c
        /\ \A x \in Orders : x # o => orderRow'[x] = orderRow[x]
    BY <1>1, <1>2, <2>2 DEF TypeOK
  <2>4. TypeOK'
    BY <1>1, <2>1, <2>2, <2>3, GoType DEF TypeOK, ReadOrder, rows
  <2>5. Guards'
    <3>1. \A b \in Calls \ {c} :
            /\ \A x \in Orders : orderRow[x] = b => orderRow'[x] = b
            /\ \A d \in Drivers : driverRow[d] = b => driverRow'[d] = b
      BY <1>5, <2>2, <2>3, ConstantsAssumption
    <3>2. /\ r.pc \in InTransaction /\ r.pc = "order" /\ ~r.accepted
          /\ orderRow'[r.order] = c /\ order[r.order].status = "PENDING"
          /\ r.driver \in Drivers /\ r.order \in Orders
      BY <1>2, <1>3, <2>1, <2>3 DEF InTransaction
    <3> HIDE DEF r
    <3> QED
      BY <1>1, <1>5, <2>1, <2>2, <3>1, <3>2, InsideKeepsGuards
  <2> QED
    BY <2>4, <2>5, InvSplit
<1>4. CASE ~(order[o].status = "PENDING")
  <2> DEFINE r == [call[c] EXCEPT !.pc = "release"]
  <2>1. /\ r \in CallRec /\ r.pc = "release" /\ r.accepted = call[c].accepted
        /\ r.driver = call[c].driver /\ r.order = o
    BY <1>1 DEF CallRec, PC
  <2>2. Go(c, r) /\ orderRow' = orderRow
    BY <1>4 DEF ReadOrder
  <2>3. TypeOK'
    BY <1>1, <2>1, <2>2, GoType DEF TypeOK, ReadOrder, rows
  <2>4. Guards'
    BY <1>1, <1>2, <2>1, <2>2, OutsideKeepsGuards DEF ReadOrder, rows, InTransaction
  <2> QED
    BY <2>3, <2>4, InvSplit
<1> QED
  BY <1>3, <1>4

LEMMA ReadDriverInv ==
  ASSUME Inv, NEW c \in Calls, ReadDriver(c)
  PROVE  Inv'
<1> DEFINE o == call[c].order
           d == call[c].driver
           r == [call[c] EXCEPT !.pc = "driver"]
<1>1. TypeOK /\ Guards /\ call[c] \in CallRec /\ call[c].pc = "order"
  BY InvSplit DEF TypeOK, ReadDriver
<1>2. /\ ~call[c].accepted /\ d \in Drivers /\ o \in Orders
      /\ orderRow[o] = c /\ order[o].status = "PENDING"
  BY <1>1 DEF Guards, AcceptedSettled, CallBound, OrderRowHeld, InTransaction
<1>3. /\ r \in CallRec /\ r.pc = "driver" /\ r.accepted = call[c].accepted
      /\ r.driver = d /\ r.order = o
  BY <1>1 DEF CallRec, PC
<1>4. /\ Go(c, r) /\ driverRow[d] = None /\ driverRow' = [driverRow EXCEPT ![d] = c]
      /\ driver[d].balance >= Commission /\ driver[d].seats >= PassengerCount[o]
  BY DEF ReadDriver, DriverRowFree, CanAccept
<1>5. /\ orderRow' = orderRow /\ order' = order /\ driver' = driver
      /\ trip' = trip /\ usedTrips' = usedTrips
  BY DEF ReadDriver, rows
<1>6. /\ driverRow' \in [Drivers -> Calls \cup {None}] /\ driverRow'[d] = c
      /\ \A x \in Drivers : x # d => driverRow'[x] = driverRow[x]
  BY <1>1, <1>2, <1>4 DEF TypeOK
<1>7. TypeOK'
  BY <1>1, <1>3, <1>4, <1>6, GoType DEF TypeOK, ReadDriver, rows
<1>8. Guards'
  <2>1. \A b \in Calls \ {c} :
          /\ \A x \in Orders : orderRow[x] = b => orderRow'[x] = b
          /\ \A x \in Drivers : driverRow[x] = b => driverRow'[x] = b
    BY <1>4, <1>5, <1>6, ConstantsAssumption
  <2>2. /\ r.pc \in InTransaction /\ r.pc # "prepared" /\ ~r.accepted
        /\ orderRow'[r.order] = c /\ order[r.order].status = "PENDING"
        /\ driverRow'[r.driver] = c /\ driver[r.driver].balance >= Commission
        /\ driver[r.driver].seats >= PassengerCount[r.order]
        /\ r.driver \in Drivers /\ r.order \in Orders
    BY <1>2, <1>3, <1>4, <1>5, <1>6 DEF InTransaction
  <2> HIDE DEF r
  <2> QED
    BY <1>1, <1>3, <1>4, <1>5, <2>1, <2>2, InsideKeepsGuards
<1> QED
  BY <1>7, <1>8, InvSplit

LEMMA JoinTripInv ==
  ASSUME Inv, NEW c \in Calls, JoinTrip(c)
  PROVE  Inv'
<1> DEFINE o == call[c].order
           d == call[c].driver
<1>1. TypeOK /\ Guards /\ call[c] \in CallRec /\ call[c].pc = "driver"
  BY InvSplit DEF TypeOK, JoinTrip
<1>2. /\ ~call[c].accepted /\ d \in Drivers /\ o \in Orders
      /\ orderRow[o] = c /\ order[o].status = "PENDING" /\ driverRow[d] = c
      /\ driver[d].balance >= Commission /\ driver[d].seats >= PassengerCount[o]
  BY <1>1 DEF Guards, AcceptedSettled, CallBound, OrderRowHeld, DriverRowHeld, InTransaction
<1>3. PICK t \in (IF OpenTrips(d) = {} THEN Trips \ usedTrips ELSE OpenTrips(d)) :
        /\ usedTrips' = usedTrips \cup {t}
        /\ Go(c, [call[c] EXCEPT !.pc = "prepared", !.trip = t])
        /\ autoStart' = autoStart \/ autoStart' = autoStart \cup {<<t, d>>}
  BY DEF JoinTrip
<1> DEFINE r == [call[c] EXCEPT !.pc = "prepared", !.trip = t]
<1>4. t \in Trips
  BY <1>3 DEF OpenTrips
<1>5. /\ r \in CallRec /\ r.pc = "prepared" /\ r.accepted = call[c].accepted
      /\ r.driver = d /\ r.order = o /\ r.trip = t
  BY <1>1, <1>4 DEF CallRec, PC
<1>6. /\ orderRow' = orderRow /\ driverRow' = driverRow /\ order' = order
      /\ driver' = driver /\ trip' = trip
  BY DEF JoinTrip, rows
<1>7. TypeOK'
  <2>1. call' \in [Calls -> CallRec]
    BY <1>1, <1>3, <1>5, GoType
  <2>2. usedTrips' \subseteq Trips /\ autoStart' \subseteq Trips \X Drivers
    BY <1>1, <1>2, <1>3, <1>4 DEF TypeOK
  <2>3. queue' \subseteq Drivers
    BY <1>1 DEF TypeOK, JoinTrip
  <2> QED
    BY <1>1, <1>6, <2>1, <2>2, <2>3 DEF TypeOK, JoinTrip
<1>8. \/ trip[t].driver = d
      \/ trip[t].driver = None /\ OpenTrips(d) = {}
  BY <1>1, <1>3 DEF OpenTrips, Guards, CommittedTripsUsed
<1>9. ASSUME NEW b \in Calls \ {c}, call[b].pc = "prepared", call[b].trip = t
      PROVE  FALSE
  <2>1. t \in usedTrips /\ driverRow[call[b].driver] = b
    BY <1>1, <1>9 DEF Guards, TripReserved, DriverRowHeld
  <2>2. OpenTrips(d) # {} /\ trip[t].driver = d
    BY <1>3, <2>1 DEF OpenTrips
  <2>3. call[b].driver = d
    BY <1>1, <1>2, <1>9, <2>2, ConstantsAssumption DEF Guards, TripReserved
  <2> QED
    BY <1>2, <1>9, <2>1, <2>3
<1>10. Guards'
  <2>1. /\ r.pc \in InTransaction /\ r.pc = "prepared" /\ ~r.accepted
        /\ orderRow'[r.order] = c /\ order[r.order].status = "PENDING"
        /\ driverRow'[r.driver] = c /\ driver[r.driver].balance >= Commission
        /\ driver[r.driver].seats >= PassengerCount[r.order]
        /\ r.driver \in Drivers /\ r.order \in Orders
    BY <1>2, <1>5, <1>6 DEF InTransaction
  <2>2. /\ r.trip \in Trips /\ r.trip \in usedTrips' /\ usedTrips \subseteq usedTrips'
        /\ \/ trip[r.trip].driver = r.driver
           \/ trip[r.trip].driver = None /\ OpenTrips(r.driver) = {}
        /\ \A b \in Calls \ {c} : call[b].pc = "prepared" => call[b].trip # r.trip
    BY <1>3, <1>4, <1>5, <1>8, <1>9
  <2>3. Go(c, r) /\ r \in CallRec
    BY <1>3, <1>5
  <2> HIDE DEF r
  <2> QED
    BY <1>1, <1>6, <2>1, <2>2, <2>3, InsideKeepsGuards
<1> QED
  BY <1>7, <1>10, InvSplit

LEMMA RefuseDriverInv ==
  ASSUME Inv, NEW c \in Calls, RefuseDriver(c)
  PROVE  Inv'
<1> DEFINE d == call[c].driver
           r == [call[c] EXCEPT !.pc = "release"]
<1>1. TypeOK /\ Guards /\ call[c] \in CallRec /\ call[c].pc = "order"
  BY InvSplit DEF TypeOK, RefuseDriver
<1>2. ~call[c].accepted /\ d \in Drivers /\ call[c].order \in Orders
  BY <1>1 DEF Guards, AcceptedSettled, CallBound
<1>3. /\ r \in CallRec /\ r.pc = "release" /\ r.accepted = call[c].accepted
      /\ r.driver = d /\ r.order = call[c].order
  BY <1>1 DEF CallRec, PC
<1>4. Go(c, r) /\ FreeRows(c)
  BY DEF RefuseDriver
<1>5. /\ driver' \in [Drivers -> DriverRec]
      /\ \A x \in Drivers : /\ driver'[x].seats = driver[x].seats
                            /\ driver'[x].balance = driver[x].balance
  <2>1. \/ driver' = driver
        \/ driver' = [driver EXCEPT ![d].onTrip = FALSE]
    BY DEF RefuseDriver
  <2>2. driver \in [Drivers -> DriverRec]
    BY <1>1 DEF TypeOK
  <2>3. CASE driver' = driver
    BY <2>2, <2>3
  <2>4. CASE driver' = [driver EXCEPT ![d].onTrip = FALSE]
    <3>1. [driver[d] EXCEPT !.onTrip = FALSE] \in DriverRec
      BY <1>2, <2>2 DEF DriverRec
    <3>2. driver' = [driver EXCEPT ![d] = [driver[d] EXCEPT !.onTrip = FALSE]]
      BY <2>4
    <3>3. driver' \in [Drivers -> DriverRec]
      BY <2>2, <3>1, <3>2
    <3>4. driver'[d] = [driver[d] EXCEPT !.onTrip = FALSE]
          /\ \A x \in Drivers : x # d => driver'[x] = driver[x]
      BY <1>2, <2>2, <3>2
    <3>5. driver'[d].seats = driver[d].seats /\ driver'[d].balance = driver[d].balance
      BY <1>2, <2>2, <3>4 DEF DriverRec
    <3> QED
      BY <3>3, <3>4, <3>5
  <2> QED
    BY <2>1, <2>3, <2>4
<1>6. /\ lock' = lock /\ order' = order /\ trip' = trip /\ usedTrips' = usedTrips
      /\ queue' = queue /\ autoStart' = autoStart /\ finder' = finder
  BY DEF RefuseDriver
<1>7. TypeOK'
  BY <1>1, <1>3, <1>4, <1>5, <1>6, GoType, FreeRowsType DEF TypeOK
<1>8. Guards'
  BY <1>1, <1>2, <1>3, <1>4, <1>5, <1>6, FreeRowsType, OutsideKeepsGuards DEF InTransaction
<1> QED
  BY <1>7, <1>8, InvSplit

LEMMA RollbackInv ==
  ASSUME Inv, NEW c \in Calls, Rollback(c)
  PROVE  Inv'
<1> DEFINE r == [call[c] EXCEPT !.pc = "release", !.trip = None]
<1>1. TypeOK /\ Guards /\ call[c] \in CallRec /\ call[c].pc \in InTransaction
  BY InvSplit DEF TypeOK, Rollback, InTransaction
<1>2. ~call[c].accepted /\ call[c].driver \in Drivers /\ call[c].order \in Orders
  BY <1>1 DEF Guards, AcceptedSettled, CallBound, InTransaction
<1>3. /\ r \in CallRec /\ r.pc = "release" /\ r.accepted = call[c].accepted
      /\ r.driver = call[c].driver /\ r.order = call[c].order
  BY <1>1 DEF CallRec, PC
<1>4. Go(c, r) /\ FreeRows(c)
  BY DEF Rollback
<1>5. TypeOK'
  BY <1>1, <1>3, <1>4, GoType, FreeRowsType DEF TypeOK, Rollback, rows
<1>6. Guards'
  BY <1>1, <1>2, <1>3, <1>4, FreeRowsType, OutsideKeepsGuards
  DEF InTransaction, Rollback, rows
<1> QED
  BY <1>5, <1>6, InvSplit

LEMMA CrashInv ==
  ASSUME Inv, NEW c \in Calls, Crash(c)
  PROVE  Inv'
<1>1. TypeOK /\ Guards
  BY InvSplit
<1>2. /\ Idle("done") \in CallRec /\ Idle("done").pc = "done"
      /\ ~Idle("done").accepted
  BY ConstantsAssumption DEF Idle, CallRec, PC
<1>3. Go(c, Idle("done")) /\ FreeRows(c)
  BY DEF Crash
<1>4. TypeOK'
  BY <1>1, <1>2, <1>3, GoType, FreeRowsType DEF TypeOK, Crash, rows
<1>5. Guards'
  BY <1>1, <1>2, <1>3, FreeRowsType, OutsideKeepsGuards DEF InTransaction, Crash, rows
<1> QED
  BY <1>4, <1>5, InvSplit

LEMMA CommitInv ==
  ASSUME Inv, NEW c \in Calls, Commit(c)
  PROVE  Inv'
<1>0. PICK o, d, t : o = call[c].order /\ d = call[c].driver /\ t = call[c].trip
  OBVIOUS
<1> DEFINE r == [call[c] EXCEPT !.pc = "release", !.trip = None, !.accepted = TRUE]
<1>1. /\ TypeOK /\ Guards /\ call[c] \in CallRec /\ call[c].pc = "prepared"
  BY InvSplit DEF TypeOK, Commit
<1>2. /\ d \in Drivers /\ o \in Orders /\ d # None
      /\ orderRow[o] = c /\ order[o].status = "PENDING" /\ driverRow[d] = c
      /\ driver[d].balance >= Commission /\ driver[d].seats >= PassengerCount[o]
  BY <1>0, <1>1, ConstantsAssumption
  DEF Guards, CallBound, OrderRowHeld, DriverRowHeld, InTransaction
<1>3. /\ t \in Trips /\ t \in usedTrips
      /\ trip[t].driver = d \/ (trip[t].driver = None /\ OpenTrips(d) = {})
      /\ \A b \in Calls \ {c} : call[b].pc = "prepared" => call[b].trip # t
  BY <1>0, <1>1 DEF Guards, TripReserved
<1>4. r \in CallRec /\ r.pc = "release" /\ r.accepted /\ r.driver = d /\ r.order = o
  BY <1>0, <1>1, ConstantsAssumption DEF CallRec, PC
<1>5. Go(c, r) /\ FreeRows(c) /\ usedTrips' = usedTrips
  BY DEF Commit
<1> HIDE DEF r
<1>6. call'[c] = r /\ (\A b \in Calls : b # c => call'[b] = call[b])
  BY <1>1, <1>4, <1>5, GoType
<1>7. /\ order'[o] = [status |-> "ACCEPTED", driver |-> d, trip |-> t]
      /\ \A x \in Orders : x # o => order'[x] = order[x]
      /\ order' \in [Orders -> OrderRec]
  BY <1>0, <1>1, <1>2, <1>3 DEF Commit, TypeOK, OrderRec
<1>8. /\ \A x \in Drivers : x # d => driver'[x] = driver[x]
      /\ driver' \in [Drivers -> DriverRec]
  <2>1. driver \in [Drivers -> DriverRec] /\ driver[d] \in DriverRec
    BY <1>1, <1>2 DEF TypeOK
  <2>2. driver[d].seats - PassengerCount[o] \in Nat /\ driver[d].balance - Commission \in Nat
    BY <1>2, <2>1, ConstantsAssumption DEF DriverRec
  <2>3. DriverAfter(d, o) \in DriverRec
    BY <2>1, <2>2 DEF DriverRec, DriverAfter
  <2>4. driver' = [driver EXCEPT ![d] = DriverAfter(d, o)]
    BY <1>0 DEF Commit
  <2> QED
    BY <1>2, <2>1, <2>3, <2>4
<1>9. /\ trip'[t].driver = d
      /\ \A x \in Trips : x # t => trip'[x] = trip[x]
      /\ trip' \in [Trips -> TripRec]
  <2>1. trip \in [Trips -> TripRec] /\ trip[t] \in TripRec /\ driver[d] \in DriverRec
    BY <1>1, <1>2, <1>3 DEF TypeOK
  <2>2. PassengerCount[o] \in Nat
    BY <1>2, ConstantsAssumption
  <2>3. TripAfter(t, d, o) \in TripRec /\ TripAfter(t, d, o).driver = d
    <3>1. CASE trip[t].driver = None
      BY <1>2, <2>1, <2>2, <3>1 DEF TripAfter, TripRec, DriverRec
    <3>2. CASE trip[t].driver # None
      BY <1>3, <2>1, <2>2, <3>2 DEF TripAfter, TripRec
    <3> QED
      BY <3>1, <3>2
  <2>4. trip' = [trip EXCEPT ![t] = TripAfter(t, d, o)]
    BY <1>0 DEF Commit
  <2> QED
    BY <1>3, <2>1, <2>3, <2>4
<1>10. TypeOK'
  BY <1>1, <1>4, <1>5, <1>7, <1>8, <1>9, GoType, FreeRowsType DEF TypeOK, Commit
<1>11. \A x \in Orders : x # o => Owner(x)' = Owner(x)
  <2> TAKE x \in Orders
  <2> HAVE x # o
  <2>1. order'[x].trip = order[x].trip
    BY <1>7
  <2>2. CASE order[x].trip = None
    BY <2>1, <2>2 DEF Owner
  <2>3. CASE order[x].trip # None
    <3>1. order[x].trip \in Trips /\ trip[order[x].trip].driver # None
      BY <1>1, <2>3 DEF Guards, TripOfOrder
    <3>2. trip'[order[x].trip].driver = trip[order[x].trip].driver
      BY <1>3, <1>9, <3>1
    <3> QED
      BY <2>1, <3>2 DEF Owner
  <2> QED
    BY <2>2, <2>3
<1>12. Owner(o)' = d
  BY <1>3, <1>7, <1>9, ConstantsAssumption DEF Owner
<1>13. \A b \in Calls : b # c /\ call[b].pc \in {"driver", "prepared"} => call[b].driver # d
  BY <1>1, <1>2 DEF Guards, DriverRowHeld
<1>15. CallBound'
  BY <1>1, <1>2, <1>4, <1>6 DEF Guards, CallBound
<1>16. OrderRowHeld'
  <2> SUFFICES ASSUME NEW b \in Calls, call'[b].pc \in InTransaction
               PROVE  /\ orderRow'[call'[b].order] = b
                      /\ order'[call'[b].order].status = "PENDING"
    BY DEF OrderRowHeld
  <2>1. b # c /\ call'[b] = call[b]
    BY <1>4, <1>6 DEF InTransaction
  <2>2. /\ call[b].order \in Orders /\ orderRow[call[b].order] = b
        /\ order[call[b].order].status = "PENDING"
    BY <1>1, <2>1 DEF Guards, OrderRowHeld, CallBound, InTransaction
  <2> QED
    BY <1>1, <1>2, <1>5, <1>7, <2>1, <2>2, FreeRowsType
<1>17. DriverRowHeld'
  <2> SUFFICES ASSUME NEW b \in Calls, call'[b].pc \in {"driver", "prepared"}
               PROVE  /\ driverRow'[call'[b].driver] = b
                      /\ driver'[call'[b].driver].seats >= PassengerCount[call'[b].order]
                      /\ driver'[call'[b].driver].balance >= Commission
    BY DEF DriverRowHeld
  <2>1. b # c /\ call'[b] = call[b]
    BY <1>4, <1>6
  <2>2. /\ call[b].driver \in Drivers /\ driverRow[call[b].driver] = b
        /\ driver[call[b].driver].seats >= PassengerCount[call[b].order]
        /\ driver[call[b].driver].balance >= Commission
    BY <1>1, <2>1 DEF Guards, DriverRowHeld, CallBound
  <2>3. driver'[call[b].driver] = driver[call[b].driver]
    BY <1>8, <1>13, <2>1, <2>2
  <2>4. driverRow'[call[b].driver] = b
    BY <1>1, <1>5, <2>1, <2>2, FreeRowsType
  <2> QED
    BY <2>1, <2>2, <2>3, <2>4
<1>18. TripReserved'
  <2> SUFFICES ASSUME NEW b \in Calls, call'[b].pc = "prepared"
               PROVE  /\ call'[b].trip \in Trips /\ call'[b].trip \in usedTrips'
                      /\ \/ trip'[call'[b].trip].driver = call'[b].driver
                         \/ /\ trip'[call'[b].trip].driver = None
                            /\ \A s \in Trips : trip'[s].driver # call'[b].driver
                      /\ \A a \in Calls : call'[a].pc = "prepared"
                                          /\ call'[a].trip = call'[b].trip => a = b
    BY DEF TripReserved, OpenTrips
  <2>1. b # c /\ call'[b] = call[b]
    BY <1>4, <1>6
  <2>2. call[b].trip # t /\ call[b].driver # d /\ call[b].driver \in Drivers
    BY <1>1, <1>3, <1>13, <2>1 DEF Guards, CallBound
  <2>3. /\ call[b].trip \in Trips /\ call[b].trip \in usedTrips
        /\ \/ trip[call[b].trip].driver = call[b].driver
           \/ trip[call[b].trip].driver = None /\ OpenTrips(call[b].driver) = {}
        /\ \A a \in Calls : call[a].pc = "prepared" /\ call[a].trip = call[b].trip => a = b
    BY <1>1, <2>1 DEF Guards, TripReserved
  <2>4. trip'[call[b].trip] = trip[call[b].trip]
    BY <1>9, <2>2, <2>3
  <2>5. OpenTrips(call[b].driver) = {} =>
          \A s \in Trips : trip'[s].driver # call[b].driver
    BY <1>9, <2>2 DEF OpenTrips
  <2>6. \A a \in Calls : call'[a].pc = "prepared" => call'[a] = call[a]
    BY <1>4, <1>6
  <2> QED
    BY <1>5, <2>1, <2>3, <2>4, <2>5, <2>6
<1>19. TripOfOrder'
  <2> SUFFICES ASSUME NEW x \in Orders
               PROVE  IF order'[x].status = "PENDING" THEN order'[x].trip = None
                      ELSE order'[x].trip \in Trips /\ trip'[order'[x].trip].driver # None
    BY DEF TripOfOrder
  <2>1. CASE x = o
    BY <1>2, <1>3, <1>7, <1>9, <2>1
  <2>2. CASE x # o
    BY <1>1, <1>2, <1>7, <1>9, <2>2 DEF Guards, TripOfOrder
  <2> QED
    BY <2>1, <2>2
<1>20. CommittedTripsUsed'
  BY <1>1, <1>3, <1>5, <1>9 DEF Guards, CommittedTripsUsed
<1>21. \A b \in Calls : b # c /\ call[b].accepted =>
          /\ call'[b] = call[b] /\ call[b].order \in Orders /\ call[b].order # o
  BY <1>1, <1>2, <1>6 DEF Guards, AcceptedSettled
<1>22. AcceptedSettled'
  <2> SUFFICES ASSUME NEW b \in Calls, call'[b].accepted
               PROVE  /\ call'[b].pc \in {"release", "done"}
                      /\ call'[b].order \in Orders
                      /\ order'[call'[b].order].status # "PENDING"
    BY DEF AcceptedSettled
  <2>1. CASE b = c
    BY <1>2, <1>4, <1>6, <1>7, <2>1
  <2>2. CASE b # c
    BY <1>1, <1>6, <1>7, <1>21, <2>2 DEF Guards, AcceptedSettled
  <2> QED
    BY <2>1, <2>2
<1>23. OneWinner'
  <2>1. ASSUME NEW b \in Calls, NEW x, call'[b].accepted, x = call'[b].order
        PROVE  Owner(x)' = call'[b].driver
    <3>1. CASE b = c
      BY <1>4, <1>6, <1>12, <2>1, <3>1
    <3>2. CASE b # c
      <4>1. call'[b] = call[b] /\ x \in Orders /\ x # o
        BY <1>6, <1>21, <2>1, <3>2
      <4>2. Owner(x) = call[b].driver
        BY <1>1, <2>1, <4>1 DEF Guards, OneWinner
      <4> QED
        BY <1>11, <4>1, <4>2
    <3> QED
      BY <3>1, <3>2
  <2>2. ASSUME NEW a \in Calls, NEW b \in Calls, call'[a].accepted, call'[b].accepted,
               call'[a].order = call'[b].order
        PROVE  a = b
    BY <1>1, <1>4, <1>6, <1>21, <2>2 DEF Guards, OneWinner
  <2> QED
    BY <2>1, <2>2 DEF OneWinner
<1>24. OneOpenTrip'
  BY <1>1, <1>2, <1>3, <1>9 DEF Guards, OneOpenTrip, OpenTrips
<1> QED
  BY <1>10, <1>15, <1>16, <1>17, <1>18, <1>19, <1>20, <1>22, <1>23, <1>24, InvSplit
  DEF Guards

--------------------------------------------------------------------------------
(* Celery tasks *)

LEMMA AutoStartInv ==
  ASSUME Inv, NEW t \in Trips, NEW d \in Drivers, AutoStart(t, d)
  PROVE  Inv'
<1>1. TypeOK /\ Guards
  BY InvSplit
<1>2. /\ order' \in [Orders -> OrderRec]
      /\ \A o \in Orders :
           /\ order'[o].trip = order[o].trip
           /\ order'[o].status = "PENDING" <=> order[o].status = "PENDING"
  <2>1. order' = [o \in Orders |-> IF order[o].trip = t /\ order[o].status = "ACCEPTED"
                                     THEN [order[o] EXCEPT !.status = "IN_PROGRESS"]
                                     ELSE order[o]]
    BY DEF AutoStart
  <2>2. \A o \in Orders : order[o] \in OrderRec
    BY <1>1 DEF TypeOK
  <2>3. \A o \in Orders : [order[o] EXCEPT !.status = "IN_PROGRESS"] \in OrderRec
    BY <2>2 DEF OrderRec
  <2>4. order' \in [Orders -> OrderRec]
    BY <2>1, <2>2, <2>3
  <2>5. ASSUME NEW o \in Orders
        PROVE  /\ order'[o].trip = order[o].trip
               /\ order'[o].status = "PENDING" <=> order[o].status = "PENDING"
    <3>1. CASE order[o].trip = t /\ order[o].status = "ACCEPTED"
      <4>1. order'[o] = [order[o] EXCEPT !.status = "IN_PROGRESS"]
        BY <2>1, <3>1
      <4> QED
        BY <2>2, <3>1, <4>1 DEF OrderRec
    <3>2. CASE ~(order[o].trip = t /\ order[o].status = "ACCEPTED")
      BY <2>1, <3>2
    <3> QED
      BY <3>1, <3>2
  <2> QED
    BY <2>4, <2>5
<1>3. /\ driver' \in [Drivers -> DriverRec]
      /\ \A x \in Drivers : /\ driver'[x].seats = driver[x].seats
                            /\ driver'[x].balance = driver[x].balance
  BY <1>1 DEF AutoStart, TypeOK, DriverRec
<1>4. /\ trip' \in [Trips -> TripRec]
      /\ \A s \in Trips : trip'[s].driver = trip[s].driver
  <2>1. trip \in [Trips -> TripRec]
    BY <1>1 DEF TypeOK
  <2>2. PICK r : r = [trip[t] EXCEPT !.started = TRUE]
    OBVIOUS
  <2>3. r \in TripRec /\ r.driver = trip[t].driver
    BY <2>1, <2>2 DEF TripRec
  <2>4. trip' = trip \/ trip' = [trip EXCEPT ![t] = r]
    BY <2>2 DEF AutoStart
  <2> QED
    BY <2>1, <2>3, <2>4
<1>5. /\ UNCHANGED <<lock, call, orderRow, driverRow, usedTrips, queue, finder>>
      /\ autoStart' \subseteq autoStart
  BY DEF AutoStart
<1>6. TypeOK'
  BY <1>1, <1>2, <1>3, <1>4, <1>5 DEF TypeOK
<1>7. Guards'
  BY <1>1, <1>2, <1>3, <1>4, <1>5, TasksKeepGuards
<1> QED
  BY <1>6, <1>7, InvSplit

LEMMA AutoStartFailsInv ==
  ASSUME Inv, NEW t \in Trips, NEW d \in Drivers, AutoStartFails(t, d)
  PROVE  Inv'
<1>1. TypeOK /\ Guards
  BY InvSplit
<1>2. TypeOK'
  BY <1>1 DEF TypeOK, AutoStartFails, rows
<1>3. Guards'
  BY <1>1, TasksKeepGuards DEF AutoStartFails, rows
<1> QED
  BY <1>2, <1>3, InvSplit

LEMMA FindInv ==
  ASSUME Inv, NEW o \in Orders, FindReads(o) \/ FindGivesUp(o)
  PROVE  Inv'
<1>1. TypeOK /\ Guards
  BY InvSplit
<1>2. TypeOK'
  BY <1>1 DEF TypeOK, FindReads, FindGivesUp, rows
<1>3. Guards'
  BY <1>1, TasksKeepGuards DEF FindReads, FindGivesUp, rows
<1> QED
  BY <1>2, <1>3, InvSplit

LEMMA FindOffersInv ==
  ASSUME Inv, NEW o \in Orders, NEW d \in Drivers, FindOffers(o, d)
  PROVE  Inv'
<1>1. TypeOK /\ Guards
  BY InvSplit
<1>2. /\ order' \in [Orders -> OrderRec]
      /\ \A x \in Orders : /\ order'[x].trip = order[x].trip
                           /\ order'[x].status = "PENDING" <=> order[x].status = "PENDING"
  BY <1>1 DEF FindOffers, TypeOK, OrderRec
<1>3. TypeOK'
  BY <1>1, <1>2 DEF TypeOK, FindOffers
<1>4. Guards'
  BY <1>1, <1>2, TasksKeepGuards DEF FindOffers
<1> QED
  BY <1>3, <1>4, InvSplit

--------------------------------------------------------------------------------
(* The invariant *)

LEMMA InitInv == Init => Inv
<1> SUFFICES ASSUME Init PROVE Inv
  OBVIOUS
<1>1. TypeOK
  BY ConstantsAssumption
  DEF Init, TypeOK, Idle, CallRec, PC, OrderRec, DriverRec, TripRec, NoTrip
<1>2. Guards
  BY ConstantsAssumption
  DEF Init, Idle, NoTrip, Guards, CallBound, OrderRowHeld, DriverRowHeld, TripReserved,
      TripOfOrder, CommittedTripsUsed, AcceptedSettled, OneWinner, OneOpenTrip,
      OpenTrips, Owner, InTransaction
<1> QED
  BY <1>1, <1>2, InvSplit

LEMMA StepInv == Inv /\ [Next]_vars => Inv'
<1> SUFFICES ASSUME Inv, [Next]_vars PROVE Inv'
  OBVIOUS
<1>1. CASE UNCHANGED vars
  <2>1. TypeOK'
    BY <1>1 DEF Inv, TypeOK, vars, rows
  <2>2. Guards'
    BY <1>1, InvSplit, TasksKeepGuards DEF vars, rows
  <2> QED
    BY <2>1, <2>2, InvSplit
<1>2. CASE \E c \in Calls, d \in Drivers, o \in Orders : Begin(c, d, o)
  BY <1>2, BeginInv
<1>3. CASE \E c \in Calls : CallStep(c)
  BY <1>3, SetLockInv, LockBusyInv, ReleaseLockInv, ReadOrderInv, ReadDriverInv,
     RefuseDriverInv, JoinTripInv, CommitInv DEF CallStep
<1>4. CASE \E c \in Calls : CallFails(c)
  BY <1>4, LockErrorInv, ReleaseErrorInv, RollbackInv, CrashInv DEF CallFails
<1>5. CASE \E o \in Orders : LockExpires(o) \/ FindReads(o) \/ FindGivesUp(o)
  BY <1>5, LockExpiresInv, FindInv
<1>6. CASE \E o \in Orders, d \in Drivers : FindOffers(o, d)
  BY <1>6, FindOffersInv
<1>7. CASE \E t \in Trips, d \in Drivers : AutoStart(t, d) \/ AutoStartFails(t, d)
  BY <1>7, AutoStartInv, AutoStartFailsInv
<1> QED
  BY <1>1, <1>2, <1>3, <1>4, <1>5, <1>6, <1>7 DEF Next

\* In every reachable state the row locks, the calls and the committed rows agree.
THEOREM Invariance == Spec => []Inv
BY InitInv, StepInv, PTL DEF Spec

\* Every variable keeps its type, whatever calls race, fail or crash.
THEOREM TypeCorrect == Spec => []TypeOK
<1>1. Inv => TypeOK
  BY DEF Inv
<1> QED
  BY <1>1, Invariance, PTL

\* For any number of drivers and calls, an order has at most one winner, and it
\* lies in the winner's trip.
THEOREM WinnerIsUnique == Spec => []OneWinner
<1>1. Inv => OneWinner
  BY DEF Inv
<1> QED
  BY <1>1, Invariance, PTL

\* Concurrent accepts of one driver never leave that driver with two active trips.
THEOREM TripIsUnique == Spec => []OneOpenTrip
<1>1. Inv => OneOpenTrip
  BY DEF Inv
<1> QED
  BY <1>1, Invariance, PTL

--------------------------------------------------------------------------------
(* Steps *)

\* No call deletes the Redis key of another: it expires, or its own holder's
\* compare-and-delete removes it.
THEOREM KeyIsItsHolders == Spec => KeyLeftToItsHolder
<1>1. ASSUME Inv, [Next]_vars PROVE [KeyStep]_vars
  <2>1. lock \in [Orders -> Calls \cup {None}]
    BY <1>1 DEF Inv, TypeOK
  <2>2. CASE lock' = lock
    BY <2>2 DEF KeyStep
  <2>3. ASSUME NEW c \in Calls, SetLock(c) \/ LockError(c) PROVE KeyStep
    BY <2>1, <2>3 DEF SetLock, LockError, KeyStep
  <2>4. ASSUME NEW c \in Calls, ReleaseLock(c) PROVE KeyStep
    BY <2>1, <2>4 DEF ReleaseLock, KeyAfterRelease, KeyStep
  <2>5. ASSUME NEW o \in Orders, LockExpires(o) PROVE KeyStep
    BY <2>1, <2>5 DEF LockExpires, KeyStep
  <2>6. \/ lock' = lock
        \/ \E c \in Calls : SetLock(c) \/ LockError(c) \/ ReleaseLock(c)
        \/ \E o \in Orders : LockExpires(o)
    BY <1>1 DEF Next, CallStep, CallFails, Begin, LockBusy, ReleaseError, ReadOrder,
       ReadDriver, RefuseDriver, JoinTrip, Commit, Rollback, Crash, AutoStart, AutoStartFails,
       FindReads, FindOffers, FindGivesUp, vars
  <2> QED
    BY <2>2, <2>3, <2>4, <2>5, <2>6
<1> QED
  BY <1>1, Invariance, PTL DEF Spec, KeyLeftToItsHolder

--------------------------------------------------------------------------------
(* Refinement *)

\* The steps under which the abstract state stutters
SameClaims ==
  /\ \A o \in Orders : Owner(o)' = Owner(o)
  /\ \A d \in Drivers : /\ driver'[d].seats = driver[d].seats
                        /\ driver'[d].balance = driver[d].balance

LEMMA OnlyCommitClaims ==
  ASSUME Inv, [Next]_vars, \A c \in Calls : ~Commit(c)
  PROVE  SameClaims
<1>1. TypeOK /\ Guards
  BY InvSplit
<1>2. CASE UNCHANGED rows
  BY <1>2 DEF rows, SameClaims, Owner
<1>3. ASSUME NEW c \in Calls, RefuseDriver(c) PROVE SameClaims
  <2>1. \/ driver' = driver
        \/ driver' = [driver EXCEPT ![call[c].driver].onTrip = FALSE]
    BY <1>3 DEF RefuseDriver
  <2>2. driver \in [Drivers -> DriverRec]
    BY <1>1 DEF TypeOK
  <2>3. \A d \in Drivers : /\ driver'[d].seats = driver[d].seats
                           /\ driver'[d].balance = driver[d].balance
    BY <2>1, <2>2 DEF DriverRec
  <2> QED
    BY <1>3, <2>3 DEF RefuseDriver, SameClaims, Owner
<1>4. ASSUME NEW t \in Trips, NEW d \in Drivers, AutoStart(t, d) PROVE SameClaims
  <2>1. \A o \in Orders : order'[o].trip = order[o].trip
    BY <1>1, <1>4 DEF AutoStart, TypeOK, OrderRec
  <2>2. \A s \in Trips : trip'[s].driver = trip[s].driver
    BY <1>1, <1>4 DEF AutoStart, TypeOK, TripRec
  <2>3. \A x \in Drivers : /\ driver'[x].seats = driver[x].seats
                           /\ driver'[x].balance = driver[x].balance
    BY <1>1, <1>4 DEF AutoStart, TypeOK, DriverRec
  <2>4. \A o \in Orders : order[o].trip \in Trips \cup {None}
    BY <1>1 DEF TypeOK, OrderRec
  <2> QED
    BY <2>1, <2>2, <2>3, <2>4 DEF SameClaims, Owner
<1>5. ASSUME NEW o \in Orders, NEW d \in Drivers, FindOffers(o, d) PROVE SameClaims
  <2>1. \A x \in Orders : order'[x].trip = order[x].trip
    BY <1>1, <1>5 DEF FindOffers, TypeOK, OrderRec
  <2> QED
    BY <1>5, <2>1 DEF FindOffers, SameClaims, Owner
<1>6. \/ UNCHANGED rows
      \/ \E c \in Calls : Commit(c) \/ RefuseDriver(c)
      \/ \E t \in Trips, d \in Drivers : AutoStart(t, d)
      \/ \E o \in Orders, d \in Drivers : FindOffers(o, d)
  BY DEF Next, CallStep, CallFails, Begin, SetLock, LockBusy, LockError, LockExpires,
     ReleaseLock, ReleaseError, ReadOrder, ReadDriver, JoinTrip, Rollback, Crash,
     AutoStartFails, FindReads, FindGivesUp, vars, rows
<1> QED
  BY <1>2, <1>3, <1>4, <1>5, <1>6

LEMMA CommitClaims ==
  ASSUME Inv, NEW c \in Calls, Commit(c)
  PROVE  \E o \in Orders, d \in Drivers : Abstract!Claim(o, d)
<1>0. PICK o, d, t : o = call[c].order /\ d = call[c].driver /\ t = call[c].trip
  OBVIOUS
<1>1. TypeOK /\ Guards /\ call[c].pc = "prepared"
  BY InvSplit DEF Commit
<1>2. /\ o \in Orders /\ d \in Drivers /\ d # None /\ order[o].status = "PENDING"
      /\ driver[d].seats >= PassengerCount[o] /\ driver[d].balance >= Commission
      /\ t \in Trips /\ t # None /\ trip[t].driver \in {d, None}
  BY <1>0, <1>1, ConstantsAssumption
  DEF Guards, CallBound, OrderRowHeld, DriverRowHeld, TripReserved, InTransaction
<1>3. Owner(o) = None
  BY <1>1, <1>2 DEF Guards, TripOfOrder, Owner
<1>4. /\ order'[o] = [status |-> "ACCEPTED", driver |-> d, trip |-> t]
      /\ \A x \in Orders : x # o => order'[x] = order[x]
  BY <1>0, <1>1, <1>2 DEF Commit, TypeOK
<1>5. /\ trip'[t] = TripAfter(t, d, o) /\ TripAfter(t, d, o).driver = d
      /\ \A s \in Trips : s # t => trip'[s] = trip[s]
  <2>1. trip \in [Trips -> TripRec] /\ trip[t] \in TripRec
    BY <1>1, <1>2 DEF TypeOK
  <2>2. TripAfter(t, d, o).driver = d
    BY <1>2, <2>1 DEF TripAfter, TripRec
  <2>3. trip' = [trip EXCEPT ![t] = TripAfter(t, d, o)]
    BY <1>0 DEF Commit
  <2> QED
    BY <1>2, <2>1, <2>2, <2>3
<1>6. /\ driver'[d].seats = driver[d].seats - PassengerCount[o]
      /\ driver'[d].balance = driver[d].balance - Commission
      /\ \A x \in Drivers : x # d => driver'[x] = driver[x]
  <2>1. driver \in [Drivers -> DriverRec] /\ driver[d] \in DriverRec
    BY <1>1, <1>2 DEF TypeOK
  <2>2. driver' = [driver EXCEPT ![d] = DriverAfter(d, o)]
    BY <1>0 DEF Commit
  <2>3. /\ DriverAfter(d, o).seats = driver[d].seats - PassengerCount[o]
        /\ DriverAfter(d, o).balance = driver[d].balance - Commission
    BY <2>1 DEF DriverAfter, DriverRec
  <2> QED
    BY <1>2, <2>1, <2>2, <2>3
<1>7. Owner(o)' = d
  BY <1>2, <1>4, <1>5 DEF Owner
<1>8. ASSUME NEW x \in Orders, x # o PROVE Owner(x)' = Owner(x)
  <2>1. order'[x].trip = order[x].trip
    BY <1>4, <1>8
  <2>2. order[x].trip # None => /\ order[x].trip \in Trips
                                /\ trip[order[x].trip].driver # None
    BY <1>1, <1>8 DEF Guards, TripOfOrder
  <2>3. order[x].trip # None => trip'[order[x].trip].driver = trip[order[x].trip].driver
    BY <1>2, <1>5, <2>2
  <2> QED
    BY <2>1, <2>3 DEF Owner
<1>9. [x \in Orders |-> Owner(x)]' = [[x \in Orders |-> Owner(x)] EXCEPT ![o] = d]
  BY <1>2, <1>7, <1>8
<1>10. [x \in Drivers |-> driver[x].seats]' =
         [[x \in Drivers |-> driver[x].seats] EXCEPT ![d] = @ - PassengerCount[o]]
  BY <1>2, <1>6
<1>11. [x \in Drivers |-> driver[x].balance]' =
         [[x \in Drivers |-> driver[x].balance] EXCEPT ![d] = @ - Commission]
  BY <1>2, <1>6
<1>12. Abstract!Claim(o, d)
  BY <1>2, <1>3, <1>9, <1>10, <1>11 DEF Abstract!Claim
<1> QED
  BY <1>2, <1>12

\* For every number of concurrent, failing and crashing calls, accepting an order is
\* indivisible: each step is a claim of OrderClaim or changes nothing a driver owns.
THEOREM Refinement == Spec => ClaimsAtomically
<1>1. Init => Abstract!Init
  <2> SUFFICES ASSUME Init PROVE Abstract!Init
    OBVIOUS
  <2>1. [o \in Orders |-> Owner(o)] = [o \in Orders |-> None]
    BY DEF Init, Owner
  <2>2. /\ [d \in Drivers |-> driver[d].seats] \in [Drivers -> Nat]
        /\ [d \in Drivers |-> driver[d].balance] \in [Drivers -> Nat]
    BY ConstantsAssumption DEF Init
  <2> QED
    BY <2>1, <2>2 DEF Abstract!Init
<1>2. Inv /\ [Next]_vars => [Abstract!Next]_(Abstract!claimVars)
  <2> SUFFICES ASSUME Inv, [Next]_vars PROVE [Abstract!Next]_(Abstract!claimVars)
    OBVIOUS
  <2>1. CASE \E c \in Calls : Commit(c)
    BY <2>1, CommitClaims DEF Abstract!Next
  <2>2. CASE \A c \in Calls : ~Commit(c)
    <3>1. SameClaims
      BY <2>2, OnlyCommitClaims
    <3>2. /\ [o \in Orders |-> Owner(o)]' = [o \in Orders |-> Owner(o)]
          /\ [d \in Drivers |-> driver[d].seats]' = [d \in Drivers |-> driver[d].seats]
          /\ [d \in Drivers |-> driver[d].balance]' = [d \in Drivers |-> driver[d].balance]
      BY <3>1 DEF SameClaims
    <3> QED
      BY <3>2 DEF Abstract!claimVars
  <2> QED
    BY <2>1, <2>2
<1> QED
  BY <1>1, <1>2, Invariance, PTL DEF Spec, ClaimsAtomically, Abstract!Spec

--------------------------------------------------------------------------------
(* The seats of a trip *)

\* A sum over the orders of a trip is the number of its riders, who are finitely many
\* because they come with one commit after the other
SeatsAddUp == TripSeatsMatch /\ \A t \in Trips : IsFiniteSet(Riders(t))

LEMMA RidersOfOne ==
  ASSUME NEW o \in Orders
  PROVE  /\ IsFiniteSet({o} \X (1 .. PassengerCount[o]))
         /\ Cardinality({o} \X (1 .. PassengerCount[o])) = PassengerCount[o]
<1>1. PassengerCount[o] \in Nat
  BY ConstantsAssumption
<1>2. IsFiniteSet({o}) /\ Cardinality({o}) = 1
  BY FS_Singleton
<1>3. \A n \in Nat : IsFiniteSet(1 .. n) /\ Cardinality(1 .. n) = n
  BY FS_Interval
<1>4. PICK n \in Nat : n = PassengerCount[o]
  BY <1>1
<1>5. /\ IsFiniteSet({o} \X (1 .. n))
      /\ Cardinality({o} \X (1 .. n)) = Cardinality({o}) * Cardinality(1 .. n)
  BY <1>2, <1>3, FS_Product
<1> QED
  BY <1>2, <1>3, <1>4, <1>5

\* What no commit changes: who is in which trip, and the seats of the trips
SameRides ==
  /\ \A o \in Orders : order'[o].trip = order[o].trip
  /\ \A t \in Trips : trip'[t].total = trip[t].total /\ trip'[t].available = trip[t].available

LEMMA OnlyCommitRides ==
  ASSUME Inv, [Next]_vars, \A c \in Calls : ~Commit(c)
  PROVE  SameRides
<1>1. TypeOK
  BY InvSplit
<1>2. CASE UNCHANGED <<order, trip>>
  BY <1>2 DEF SameRides
<1>3. ASSUME NEW t \in Trips, NEW d \in Drivers, AutoStart(t, d) PROVE SameRides
  BY <1>1, <1>3 DEF AutoStart, TypeOK, OrderRec, TripRec, SameRides
<1>4. ASSUME NEW o \in Orders, NEW d \in Drivers, FindOffers(o, d) PROVE SameRides
  BY <1>1, <1>4 DEF FindOffers, TypeOK, OrderRec, SameRides
<1>5. \/ UNCHANGED <<order, trip>>
      \/ \E c \in Calls : Commit(c)
      \/ \E t \in Trips, d \in Drivers : AutoStart(t, d)
      \/ \E o \in Orders, d \in Drivers : FindOffers(o, d)
  <2>1. CASE \E c \in Calls, d \in Drivers, o \in Orders : Begin(c, d, o)
    BY <2>1 DEF Begin, rows
  <2>2. CASE \E c \in Calls : CallStep(c)
    <3> PICK c \in Calls : CallStep(c)
      BY <2>2
    <3>1. CASE SetLock(c) \/ LockBusy(c) \/ ReleaseLock(c) \/ ReadOrder(c) \/ ReadDriver(c)
      BY <3>1 DEF SetLock, LockBusy, ReleaseLock, ReadOrder, ReadDriver, rows
    <3>2. CASE RefuseDriver(c)
      BY <3>2 DEF RefuseDriver
    <3>3. CASE JoinTrip(c)
      BY <3>3 DEF JoinTrip, rows
    <3> QED
      BY <2>2, <3>1, <3>2, <3>3 DEF CallStep
  <2>3. CASE \E c \in Calls : CallFails(c)
    BY <2>3 DEF CallFails, LockError, ReleaseError, Rollback, Crash, rows
  <2>4. CASE \E o \in Orders : LockExpires(o) \/ FindReads(o) \/ FindGivesUp(o)
    BY <2>4 DEF LockExpires, FindReads, FindGivesUp, rows
  <2>5. CASE \E t \in Trips, d \in Drivers : AutoStartFails(t, d)
    BY <2>5 DEF AutoStartFails, rows
  <2>6. CASE UNCHANGED vars
    BY <2>6 DEF vars, rows
  <2> QED
    BY <2>1, <2>2, <2>3, <2>4, <2>5, <2>6 DEF Next
<1> QED
  BY <1>2, <1>3, <1>4, <1>5

LEMMA CommitSeats ==
  ASSUME Inv, SeatsAddUp, NEW c \in Calls, Commit(c)
  PROVE  SeatsAddUp'
<1>0. PICK o, d, t : o = call[c].order /\ d = call[c].driver /\ t = call[c].trip
  OBVIOUS
<1>1. TypeOK /\ Guards /\ call[c].pc = "prepared"
  BY InvSplit DEF Commit
<1>2. /\ o \in Orders /\ d \in Drivers /\ order[o].status = "PENDING" /\ t \in Trips
      /\ PassengerCount[o] \in Nat /\ order[o].trip = None /\ None \notin Trips
  BY <1>0, <1>1, ConstantsAssumption
  DEF Guards, CallBound, OrderRowHeld, TripReserved, TripOfOrder, InTransaction
<1>3. order'[o].trip = t /\ \A x \in Orders \ {o} : order'[x] = order[x]
  BY <1>0, <1>1, <1>2 DEF Commit, TypeOK
<1>4. trip'[t] = TripAfter(t, d, o) /\ \A s \in Trips \ {t} : trip'[s] = trip[s]
  BY <1>0, <1>1, <1>2 DEF Commit, TypeOK
<1>5. ASSUME NEW s \in Trips \ {t} PROVE Riders(s)' = Riders(s)
  BY <1>2, <1>3, <1>5 DEF Riders
<1>6. Riders(t)' = Riders(t) \cup ({o} \X (1 .. PassengerCount[o]))
  <2>1. {p \in Orders : order'[p].trip = t} = {p \in Orders : order[p].trip = t} \cup {o}
    BY <1>2, <1>3
  <2> QED
    BY <2>1 DEF Riders
<1>7. Riders(t) \cap ({o} \X (1 .. PassengerCount[o])) = {}
  BY <1>2 DEF Riders
<1>8. IsFiniteSet(Riders(t)) /\ Cardinality(Riders(t)) \in Nat
  BY <1>2, FS_CardinalityType DEF SeatsAddUp
<1>9. /\ IsFiniteSet(Riders(t)')
      /\ Cardinality(Riders(t)') = Cardinality(Riders(t)) + PassengerCount[o]
  <2> DEFINE N == {o} \X (1 .. PassengerCount[o])
             R == Riders(t)
  <2>1. IsFiniteSet(N) /\ Cardinality(N) = PassengerCount[o]
    BY <1>2, RidersOfOne
  <2>2. R \cap N = {} /\ Riders(t)' = R \cup N
    BY <1>6, <1>7
  <2>3. Cardinality({}) = 0
    BY FS_EmptySet
  <2>4. IsFiniteSet(R) /\ Cardinality(R) \in Nat
    BY <1>8
  <2> HIDE DEF N, R
  <2>5. /\ IsFiniteSet(R \cup N)
        /\ Cardinality(R \cup N) = Cardinality(R) + Cardinality(N) - Cardinality(R \cap N)
    BY <2>1, <2>4, FS_Union
  <2>6. IsFiniteSet(Riders(t)') /\ Cardinality(Riders(t)') = Cardinality(R) + Cardinality(N)
    <3>1. Cardinality(R \cap N) = 0
      BY <2>2, <2>3
    <3>2. Cardinality(N) \in Nat
      BY <1>2, <2>1
    <3> QED
      BY <2>2, <2>4, <2>5, <3>1, <3>2
  <2> QED
    BY <2>1, <2>6 DEF R
<1>10. trip[t].driver = None => Riders(t) = {}
  BY <1>1, <1>2 DEF Guards, TripOfOrder, Riders
<1>11. /\ trip[t].total \in Int /\ trip[t].available \in Int /\ driver[d].seats \in Int
       /\ trip[t] \in TripRec
  BY <1>1, <1>2 DEF TypeOK, TripRec, DriverRec
<1>12. trip'[t].total - trip'[t].available = Cardinality(Riders(t)')
  <2>1. CASE trip[t].driver = None
    <3>1. trip'[t].total - trip'[t].available = PassengerCount[o]
      BY <1>2, <1>4, <1>11, <2>1 DEF TripAfter
    <3>2. Cardinality(Riders(t)) = 0
      BY <1>10, <2>1, FS_EmptySet
    <3> QED
      BY <1>2, <1>9, <3>1, <3>2
  <2>2. CASE trip[t].driver # None
    <3>1. /\ trip'[t].total = trip[t].total
          /\ trip'[t].available = trip[t].available - PassengerCount[o]
      BY <1>4, <1>11, <2>2 DEF TripAfter, TripRec
    <3>2. trip[t].total - trip[t].available = Cardinality(Riders(t))
      BY <1>2 DEF SeatsAddUp, TripSeatsMatch
    <3> QED
      BY <1>2, <1>8, <1>9, <1>11, <3>1, <3>2
  <2> QED
    BY <2>1, <2>2
<1> QED
  BY <1>4, <1>5, <1>9, <1>12 DEF SeatsAddUp, TripSeatsMatch

\* The seats of a trip that are taken are those of its orders' passengers, for every
\* number of accepts at once: a commit adds its order and subtracts its seats together,
\* from the row as it is then, and a row that is inserted has no order yet.
THEOREM SeatsMatch == Spec => []TripSeatsMatch
<1>1. Init => SeatsAddUp
  <2> SUFFICES ASSUME Init PROVE SeatsAddUp
    OBVIOUS
  <2>1. \A t \in Trips : Riders(t) = {} /\ trip[t].total = 0 /\ trip[t].available = 0
    BY ConstantsAssumption DEF Init, Riders, NoTrip
  <2> QED
    BY <2>1, FS_EmptySet DEF SeatsAddUp, TripSeatsMatch
<1>2. Inv /\ SeatsAddUp /\ [Next]_vars => SeatsAddUp'
  <2> SUFFICES ASSUME Inv, SeatsAddUp, [Next]_vars PROVE SeatsAddUp'
    OBVIOUS
  <2>1. CASE \A c \in Calls : ~Commit(c)
    <3>1. SameRides
      BY <2>1, OnlyCommitRides
    <3>2. \A t \in Trips : Riders(t)' = Riders(t)
      BY <3>1 DEF SameRides, Riders
    <3> QED
      BY <3>1, <3>2 DEF SameRides, SeatsAddUp, TripSeatsMatch
  <2> QED
    BY <2>1, CommitSeats
<1>3. SeatsAddUp => TripSeatsMatch
  BY DEF SeatsAddUp
<1> QED
  BY <1>1, <1>2, <1>3, Invariance, PTL DEF Spec

--------------------------------------------------------------------------------
(* The auto-start of a full car *)

\* A call about to take the last seat has its auto-start message on its way
Scheduled ==
  \A c \in Calls : call[c].pc = "prepared" /\ NoSeatLeft(call[c].driver, call[c].order) =>
    <<call[c].trip, call[c].driver>> \in autoStart

LEMMA JoinTripGoes ==
  ASSUME call \in [Calls -> CallRec], NEW c \in Calls, JoinTrip(c)
  PROVE  /\ \A b \in Calls \ {c} : call'[b] = call[b]
         /\ call'[c].driver = call[c].driver /\ call'[c].order = call[c].order
         /\ NoSeatLeft(call[c].driver, call[c].order)
              => <<call'[c].trip, call[c].driver>> \in autoStart'
<1> DEFINE o == call[c].order
           d == call[c].driver
<1>1. PICK t \in (IF OpenTrips(d) = {} THEN Trips \ usedTrips ELSE OpenTrips(d)) :
        /\ Go(c, [call[c] EXCEPT !.pc = "prepared", !.trip = t])
        /\ NoSeatLeft(d, o) => autoStart' = autoStart \cup {<<t, d>>}
  BY Zenon DEF JoinTrip
<1>2. PICK r : r = [call[c] EXCEPT !.pc = "prepared", !.trip = t]
  OBVIOUS
<1>3. r.driver = d /\ r.order = o /\ r.trip = t
  BY <1>2 DEF CallRec
<1>4. call' = [call EXCEPT ![c] = r]
  BY <1>1, <1>2 DEF Go
<1>5. call'[c] = r /\ \A b \in Calls \ {c} : call'[b] = call[b]
  BY <1>4
<1> QED
  BY <1>1, <1>3, <1>5

\* Only JoinTrip prepares a call
LEMMA OnlyJoinPrepares ==
  ASSUME Inv, [Next]_vars, NEW b \in Calls, call'[b].pc = "prepared", ~JoinTrip(b)
  PROVE  call'[b] = call[b]
<1> /\ call \in [Calls -> CallRec] /\ \A c \in Calls : call[c] \in CallRec
  BY DEF Inv, TypeOK
<1>1. CASE UNCHANGED call
  BY <1>1
<1>2. ASSUME NEW c \in Calls, \E r : Go(c, r) /\ (r.pc = "prepared" => b # c)
      PROVE  call'[b] = call[b]
  BY <1>2 DEF Go
<1>3. ASSUME NEW c \in Calls, Return(c)
      PROVE  \E r : Go(c, r) /\ (r.pc = "prepared" => b # c)
  BY <1>3, ReturnType DEF Inv
<1>4. ASSUME NEW c \in Calls, NotLocked(c), call[c].pc = "locking"
      PROVE  \E r : Go(c, r) /\ (r.pc = "prepared" => b # c)
  <2>1. CASE call[c].tries < MaxRetries - 1
    <3>1. PICK r : r = [call[c] EXCEPT !.tries = @ + 1]
      OBVIOUS
    <3>2. r.pc = "locking" /\ Go(c, r)
      BY <1>4, <2>1, <3>1 DEF NotLocked, CallRec
    <3> QED
      BY <3>2
  <2>2. CASE ~(call[c].tries < MaxRetries - 1)
    BY <1>3, <1>4, <2>2 DEF NotLocked
  <2> QED
    BY <2>1, <2>2
<1>5. ASSUME NEW c \in Calls,
             SetLock(c) \/ ReadOrder(c) \/ ReadDriver(c) \/ RefuseDriver(c) \/ Commit(c)
             \/ Rollback(c) \/ Crash(c)
      PROVE  call'[c].pc # "prepared"
  <2>1. CASE SetLock(c) \/ ReadOrder(c)
    BY <2>1 DEF SetLock, ReadOrder, Go, CallRec
  <2>2. CASE ReadDriver(c) \/ RefuseDriver(c)
    BY <2>2 DEF ReadDriver, RefuseDriver, Go, CallRec
  <2>3. CASE Commit(c)
    BY <2>3 DEF Commit, Go, CallRec
  <2>4. CASE Rollback(c)
    BY <2>4 DEF Rollback, Go, CallRec
  <2>5. CASE Crash(c)
    BY <2>5 DEF Crash, Go, Idle
  <2> QED
    BY <1>5, <2>1, <2>2, <2>3, <2>4, <2>5
<1>6. ASSUME NEW c \in Calls, NEW d \in Drivers, NEW o \in Orders, Begin(c, d, o)
       PROVE  call'[b] = call[b]
  BY <1>6 DEF Begin, Go, CallRec
<1>7. ASSUME NEW c \in Calls,
              SetLock(c) \/ ReadOrder(c) \/ ReadDriver(c) \/ RefuseDriver(c) \/ Commit(c)
              \/ Rollback(c) \/ Crash(c)
       PROVE  call'[b] = call[b]
  <2>1. b # c
    BY <1>5, <1>7
  <2> QED
    BY <1>7, <2>1 DEF SetLock, ReadOrder, ReadDriver, RefuseDriver, Commit, Rollback, Crash, Go
<1>8. ASSUME NEW c \in Calls, JoinTrip(c)
      PROVE  call'[b] = call[b]
  BY <1>8, JoinTripGoes
<1>9. ASSUME NEW c \in Calls, CallStep(c) \/ CallFails(c)
      PROVE  call'[b] = call[b]
  BY <1>2, <1>3, <1>4, <1>7, <1>8, <1>9
     DEF CallStep, CallFails, LockBusy, LockError, ReleaseLock, ReleaseError
<1>10. ASSUME NEW o \in Orders, NEW d \in Drivers,
              LockExpires(o) \/ FindReads(o) \/ FindGivesUp(o) \/ FindOffers(o, d)
       PROVE  UNCHANGED call
  BY <1>10 DEF LockExpires, FindReads, FindGivesUp, FindOffers
<1>11. ASSUME NEW t \in Trips, NEW d \in Drivers, AutoStart(t, d) \/ AutoStartFails(t, d)
       PROVE  UNCHANGED call
  BY <1>11 DEF AutoStart, AutoStartFails
<1>12. CASE UNCHANGED vars
  BY <1>1, <1>12 DEF vars
<1>13. CASE Next
  <2>1. \/ \E c \in Calls, d \in Drivers, o \in Orders : Begin(c, d, o)
        \/ \E c \in Calls : CallStep(c) \/ CallFails(c)
        \/ UNCHANGED call
    <3>1. \A o \in Orders : LockExpires(o) \/ FindReads(o) \/ FindGivesUp(o) => UNCHANGED call
      BY DEF LockExpires, FindReads, FindGivesUp
    <3> QED
      BY <1>10, <1>11, <1>13, <3>1 DEF Next
  <2> QED
    BY <1>1, <1>6, <1>9, <2>1
<1> QED
  BY <1>12, <1>13

\* The message of a call outlives every step before its commit: the countdown waits
LEMMA MessagesStay ==
  ASSUME Inv, [Next]_vars, NEW b \in Calls, call[b].pc = "prepared", call'[b].pc = "prepared",
         <<call[b].trip, call[b].driver>> \in autoStart
  PROVE  <<call[b].trip, call[b].driver>> \in autoStart'
<1>1. autoStart \subseteq autoStart'
      \/ \E t \in Trips, d \in Drivers : CountdownOver(t) /\ autoStart \ {<<t, d>>} \subseteq autoStart'
  <2>1. ASSUME NEW c \in Calls, CallStep(c) \/ CallFails(c)
        PROVE  autoStart \subseteq autoStart'
    <3>1. CASE JoinTrip(c)
      BY <3>1 DEF JoinTrip
    <3>2. CASE ~JoinTrip(c)
      BY <2>1, <3>2 DEF CallStep, CallFails, SetLock, LockBusy, LockError, ReleaseLock, ReleaseError,
                        ReadOrder, ReadDriver, RefuseDriver, Commit, Rollback, Crash
    <3> QED
      BY <3>1, <3>2
  <2>2. ASSUME NEW t \in Trips, NEW d \in Drivers, AutoStart(t, d) \/ AutoStartFails(t, d)
        PROVE  CountdownOver(t) /\ autoStart \ {<<t, d>>} \subseteq autoStart'
    BY <2>2 DEF AutoStart, AutoStartFails
  <2>3. ASSUME NEW c \in Calls, NEW d \in Drivers, NEW o \in Orders,
               Begin(c, d, o) \/ LockExpires(o) \/ FindReads(o) \/ FindGivesUp(o) \/ FindOffers(o, d)
        PROVE  UNCHANGED autoStart
    BY <2>3 DEF Begin, LockExpires, FindReads, FindGivesUp, FindOffers
  <2>4. b \in Calls /\ call[b].driver \in Drivers
    BY DEF Inv, CallBound
  <2>5. CASE UNCHANGED vars
    BY <2>5 DEF vars
  <2> QED
    BY <2>1, <2>2, <2>3, <2>4, <2>5 DEF Next
<1> QED
  BY <1>1 DEF CountdownOver

\* Whose row a call holds loses no seats to another
LEMMA SeatsAreHeld ==
  ASSUME Inv, [Next]_vars, NEW b \in Calls, call[b].pc = "prepared", call'[b] = call[b]
  PROVE  driver'[call[b].driver].seats = driver[call[b].driver].seats
<1>1. call[b].driver \in Drivers /\ driverRow[call[b].driver] = b
  BY DEF Inv, CallBound, DriverRowHeld
<1>2. CASE \A c \in Calls : ~Commit(c)
  BY <1>1, <1>2, OnlyCommitClaims DEF SameClaims
<1>3. ASSUME NEW c \in Calls, Commit(c)
      PROVE  driver'[call[b].driver].seats = driver[call[b].driver].seats
  <2>1. c # b
    <3>1. call[c] \in CallRec /\ call'[c].pc = "release"
      BY <1>3 DEF Commit, Go, CallRec, Inv, TypeOK
    <3> QED
      BY <3>1
  <2>2. driverRow[call[c].driver] = c
    BY <1>3 DEF Commit, Inv, DriverRowHeld
  <2> QED
    BY <1>1, <1>3, <2>1, <2>2 DEF Commit, Inv, TypeOK
<1> QED
  BY <1>2, <1>3

LEMMA ScheduledStep ==
  ASSUME Inv, Scheduled, [Next]_vars
  PROVE  Scheduled'
<1> SUFFICES ASSUME NEW b \in Calls, call'[b].pc = "prepared",
                    driver'[call'[b].driver].seats - PassengerCount[call'[b].order] < 1
             PROVE  <<call'[b].trip, call'[b].driver>> \in autoStart'
  BY DEF Scheduled, NoSeatLeft
<1>1. CASE JoinTrip(b)
  <2>1. /\ call'[b].driver = call[b].driver /\ call'[b].order = call[b].order
        /\ NoSeatLeft(call[b].driver, call[b].order)
             => <<call'[b].trip, call[b].driver>> \in autoStart'
    BY <1>1, JoinTripGoes DEF Inv, TypeOK
  <2>2. UNCHANGED driver
    BY <1>1 DEF JoinTrip, rows
  <2> QED
    BY <2>1, <2>2 DEF NoSeatLeft
<1>2. CASE ~JoinTrip(b)
  <2>1. call'[b] = call[b] /\ call[b].pc = "prepared"
    BY <1>2, OnlyJoinPrepares
  <2>2. driver'[call[b].driver].seats = driver[call[b].driver].seats
    BY <2>1, SeatsAreHeld
  <2>3. NoSeatLeft(call[b].driver, call[b].order)
    BY <2>1, <2>2 DEF NoSeatLeft
  <2> QED
    BY <2>1, <2>3, MessagesStay DEF Scheduled
<1> QED
  BY <1>1, <1>2

\* What the step of FullCarScheduled says
Schedules(o) ==
  order[o].status = "PENDING" /\ Active(o)' =>
    LET t == order'[o].trip
        d == trip'[t].driver
    IN driver'[d].seats < 1 => <<t, d>> \in autoStart'

LEMMA CommitSchedules ==
  ASSUME Inv, Scheduled, NEW c \in Calls, Commit(c), NEW o \in Orders
  PROVE  Schedules(o)
<1>0. PICK q, d, t : q = call[c].order /\ d = call[c].driver /\ t = call[c].trip
  OBVIOUS
<1>1. call[c].pc = "prepared" /\ q \in Orders /\ d \in Drivers /\ t \in Trips
      /\ trip[t].driver \in {d, None}
  BY <1>0 DEF Commit, Inv, CallBound, TripReserved
<1>2. o # q => order'[o] = order[o]
  BY <1>0 DEF Commit, Inv, TypeOK
<1>3. order'[q].trip = t
  <2>1. order' = [order EXCEPT ![q] = [status |-> "ACCEPTED", driver |-> d, trip |-> t]]
    BY <1>0 DEF Commit
  <2> QED
    BY <1>1, <2>1 DEF Inv, TypeOK
<1>4. trip'[t].driver = d
  <2>1. trip' = [trip EXCEPT ![t] = TripAfter(t, d, q)] /\ trip[t] \in TripRec
    BY <1>0, <1>1 DEF Commit, Inv, TypeOK
  <2>2. TripAfter(t, d, q).driver = d
    BY <1>1, <2>1 DEF TripAfter, TripRec
  <2> QED
    BY <1>1, <2>1, <2>2 DEF Inv, TypeOK
<1>5. driver'[d].seats = driver[d].seats - PassengerCount[q]
  <2>1. driver' = [driver EXCEPT ![d] = DriverAfter(d, q)] /\ driver[d] \in DriverRec
    BY <1>0, <1>1 DEF Commit, Inv, TypeOK
  <2>2. DriverAfter(d, q).seats = driver[d].seats - PassengerCount[q]
    BY <2>1 DEF DriverAfter, DriverRec
  <2> QED
    BY <1>1, <2>1, <2>2 DEF Inv, TypeOK
<1>6. driver'[d].seats < 1 => <<t, d>> \in autoStart'
  BY <1>0, <1>1, <1>5 DEF Scheduled, NoSeatLeft, Commit
<1> QED
  BY <1>2, <1>3, <1>4, <1>6 DEF Schedules, Active

\* Nothing else makes a pending order active
LEMMA OthersSchedule ==
  ASSUME Inv, [Next]_vars, \A c \in Calls : ~Commit(c), NEW o \in Orders
  PROVE  Schedules(o)
<1> order \in [Orders -> OrderRec]
  BY DEF Inv, TypeOK
<1>1. order[o].status = "PENDING" => order'[o].status = "PENDING"
  <2>1. CASE UNCHANGED order
    BY <2>1
  <2>2. ASSUME NEW t \in Trips, NEW d \in Drivers, AutoStart(t, d)
        PROVE  order[o].status = "PENDING" => order'[o].status = "PENDING"
    BY <2>2 DEF AutoStart
  <2>3. ASSUME NEW q \in Orders, NEW d \in Drivers, FindOffers(q, d)
        PROVE  order[o].status = "PENDING" => order'[o].status = "PENDING"
    BY <2>3 DEF FindOffers, OrderRec
  <2>4. \/ UNCHANGED order
        \/ \E t \in Trips, d \in Drivers : AutoStart(t, d)
        \/ \E q \in Orders, d \in Drivers : FindOffers(q, d)
    <3>1. ASSUME NEW c \in Calls, CallStep(c) \/ CallFails(c)
          PROVE  UNCHANGED order
      <4>1. CASE JoinTrip(c)
        BY <4>1 DEF JoinTrip, rows
      <4>2. CASE ~JoinTrip(c)
        BY <3>1, <4>2 DEF CallStep, CallFails, SetLock, LockBusy, LockError, ReleaseLock,
                          ReleaseError, ReadOrder, ReadDriver, RefuseDriver, Rollback, Crash, rows
      <4> QED
        BY <4>1, <4>2
    <3>2. ASSUME NEW c \in Calls, NEW d \in Drivers, NEW q \in Orders, Begin(c, d, q)
          PROVE  UNCHANGED order
      BY <3>2 DEF Begin, rows
    <3>3. ASSUME NEW q \in Orders, LockExpires(q) \/ FindReads(q) \/ FindGivesUp(q)
          PROVE  UNCHANGED order
      BY <3>3 DEF LockExpires, FindReads, FindGivesUp, rows
    <3>4. ASSUME NEW t \in Trips, NEW d \in Drivers, AutoStartFails(t, d)
          PROVE  UNCHANGED order
      BY <3>4 DEF AutoStartFails, rows
    <3>5. CASE UNCHANGED vars
      BY <3>5 DEF vars
    <3> QED
      BY <3>1, <3>2, <3>3, <3>4, <3>5 DEF Next
  <2> QED
    BY <2>1, <2>2, <2>3, <2>4
<1> QED
  BY <1>1 DEF Schedules, Active

\* The acceptance that takes a driver's last seat has published the auto-start of his
\* trip, although the seats are subtracted two awaits later (accept_order_by_driver,
\* _auto_start_trip_if_full) and other calls and the timer's task come in between
THEOREM FullCarsStart == Spec => FullCarScheduled
<1>1. Init => Scheduled
  BY DEF Init, Idle, Scheduled
<1>2. Inv /\ Scheduled /\ [Next]_vars => Scheduled'
  BY ScheduledStep
<1>3. Inv /\ Scheduled /\ [Next]_vars =>
        [\A o \in Orders : order[o].status = "PENDING" /\ Active(o)' =>
           LET t == order'[o].trip
               d == trip'[t].driver
           IN driver'[d].seats < 1 => <<t, d>> \in autoStart']_vars
  BY CommitSchedules, OthersSchedule DEF Schedules
<1> QED
  BY <1>1, <1>2, <1>3, Invariance, PTL DEF Spec, FullCarScheduled
================================================================================
