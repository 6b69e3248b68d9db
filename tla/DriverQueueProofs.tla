--------------------------- MODULE DriverQueueProofs ----------------------------
(***************************************************************************)
(* Proofs about DriverQueue: its types, and that a driver's row and his    *)
(* place in the queues agree, but for what the code does not follow up.    *)
(***************************************************************************)
EXTENDS MCDriverQueue, TLAPS

--------------------------------------------------------------------------------
(* Types *)

\* Every task that is put off again has cost an event
FewTasks ==
  \A d \in Drivers : /\ removals[d] \in Nat /\ removals[d] <= MaxCopies + events
                     /\ \A r \in Routes : adds[d][r] \in Nat /\ adds[d][r] <= MaxCopies + events

\* A priority request that goes on knows its driver and his route, and the score it writes
ToggleFits ==
  /\ toggle \in ToggleRec
  /\ toggle.pc = "idle" => toggle.driver = None
  /\ toggle.pc # "idle" => toggle.driver \in Drivers /\ toggle.route \in Routes
  /\ toggle.pc = "writing" => toggle.score \in Scores

RowsTyped ==
  /\ driver \in [Drivers -> DriverRec]
  /\ rides \in [Drivers -> SUBSET Routes]
  /\ timers \subseteq Drivers /\ choosing \subseteq Drivers /\ apart \subseteq Drivers

QueuesTyped ==
  /\ queue \in [Routes -> [Drivers -> Scores \cup {None}]]
  /\ offered \in [Drivers -> Routes \cup {None}]
  /\ reset \subseteq Routes

TasksTyped ==
  /\ adds \in [Drivers -> [Routes -> Nat]]
  /\ removals \in [Drivers -> Nat]
  /\ adding \subseteq AddRec /\ removing \subseteq RemovalRec
  /\ events \in 0 .. MaxEvents
  /\ FewTasks

\* Who fills his car does so with an order, which has a route
OpenFits ==
  /\ open \in [Drivers -> OpenRec] /\ panel \in PanelRec
  /\ \A d \in Drivers : open[d].does = "fills" => open[d].route \in Routes

Typed == RowsTyped /\ QueuesTyped /\ TasksTyped /\ ToggleFits /\ OpenFits

LEMMA TypedImplies ==
  ASSUME Typed
  PROVE  TypeOK
<1>1. \A d \in Drivers : \A r \in Routes : adds[d][r] \in 0 .. MaxCopies + MaxEvents
  BY ConstantsAssumption DEF Typed, TasksTyped, FewTasks
<1>2. \A d \in Drivers : removals[d] \in 0 .. MaxCopies + MaxEvents
  BY ConstantsAssumption DEF Typed, TasksTyped, FewTasks
<1>3. adds \in [Drivers -> [Routes -> 0 .. MaxCopies + MaxEvents]]
  BY <1>1 DEF Typed, TasksTyped
<1>4. removals \in [Drivers -> 0 .. MaxCopies + MaxEvents]
  BY <1>2 DEF Typed, TasksTyped
<1> QED
  BY <1>3, <1>4 DEF Typed, RowsTyped, QueuesTyped, TasksTyped, ToggleFits, OpenFits, TypeOK

LEMMA EventCounted ==
  ASSUME TasksTyped, events' = events \/ Event
  PROVE  events' \in 0 .. MaxEvents /\ events <= events'
  BY ConstantsAssumption DEF TasksTyped, Event

LEMMA TasksStay ==
  ASSUME TasksTyped, UNCHANGED tasks, events' = events \/ Event
  PROVE  TasksTyped'
<1>1. events' \in 0 .. MaxEvents /\ events <= events'
  BY EventCounted
<1>2. FewTasks'
  BY <1>1, ConstantsAssumption DEF TasksTyped, FewTasks, tasks
<1> QED
  BY <1>1, <1>2 DEF TasksTyped, tasks

LEMMA QueuesStay ==
  ASSUME QueuesTyped, UNCHANGED redis, UNCHANGED reset
  PROVE  QueuesTyped'
  BY DEF QueuesTyped, redis

LEMMA RowsStay ==
  ASSUME RowsTyped, UNCHANGED rows, apart' \subseteq Drivers
  PROVE  RowsTyped'
  BY DEF RowsTyped, rows

LEMMA WithoutTyped ==
  ASSUME QueuesTyped, NEW d \in Drivers, NEW r \in Routes
  PROVE  Without(d, r) \in [Routes -> [Drivers -> Scores \cup {None}]]
  BY DEF QueuesTyped, Without

LEMMA RowSet ==
  ASSUME NEW f \in [Drivers -> DriverRec], NEW d \in Drivers,
         NEW b \in BOOLEAN, NEW r \in Routes \cup {None}
  PROVE  /\ [f EXCEPT ![d].active = b]   \in [Drivers -> DriverRec]
         /\ [f EXCEPT ![d].onTrip = b]   \in [Drivers -> DriverRec]
         /\ [f EXCEPT ![d].blocked = b]  \in [Drivers -> DriverRec]
         /\ [f EXCEPT ![d].priority = b] \in [Drivers -> DriverRec]
         /\ [f EXCEPT ![d].free = b]     \in [Drivers -> DriverRec]
         /\ [f EXCEPT ![d].route = r]    \in [Drivers -> DriverRec]
  BY DEF DriverRec

LEMMA ApartTyped ==
  ASSUME RowsTyped, NEW d \in Drivers, NEW event, ApartIf(d, event)
  PROVE  apart' \subseteq Drivers
  BY DEF RowsTyped, ApartIf

LEMMA ToggleStays ==
  ASSUME ToggleFits, UNCHANGED toggle
  PROVE  ToggleFits'
  BY DEF ToggleFits

LEMMA OpenStays ==
  ASSUME OpenFits, UNCHANGED <<open, panel>>
  PROVE  OpenFits'
  BY DEF OpenFits

LEMMA Opens ==
  ASSUME OpenFits, NEW d \in Drivers, NEW does \in {"nothing", "joins", "stops", "fills", "goes"},
         NEW r \in Routes \cup {None}, does = "fills" => r \in Routes,
         open' = [open EXCEPT ![d] = [does |-> does, route |-> r]], panel' \in PanelRec
  PROVE  OpenFits'
<1>1. open' \in [Drivers -> OpenRec]
  BY DEF OpenFits, OpenRec
<1>2. ASSUME NEW e \in Drivers, open'[e].does = "fills"
      PROVE  open'[e].route \in Routes
  <2>1. CASE e = d
    <3>1. open'[e] = [does |-> does, route |-> r]
      BY <2>1 DEF OpenFits
    <3> QED
      BY <1>2, <3>1
  <2>2. CASE e # d
    <3>1. open'[e] = open[e]
      BY <2>2 DEF OpenFits
    <3> QED
      BY <1>2, <3>1 DEF OpenFits
  <2> QED
    BY <2>1, <2>2
<1> QED
  BY <1>1, <1>2 DEF OpenFits

LEMMA Closes ==
  ASSUME OpenFits, NEW d \in Drivers, open' = [open EXCEPT ![d] = Nothing], UNCHANGED panel
  PROVE  OpenFits'
  BY Opens DEF OpenFits, Nothing

--------------------------------------------------------------------------------

LEMMA AddedTyped ==
  ASSUME TasksTyped, NEW d \in Drivers, NEW r \in Routes, AddPublished(d, r) = adds',
         UNCHANGED removals, events' = events \/ Event,
         adds[d][r] < MaxCopies \/ Event, adding' \subseteq AddRec, removing' \subseteq RemovalRec
  PROVE  TasksTyped'
<1>1. events' \in 0 .. MaxEvents /\ events <= events'
  BY EventCounted
<1>2. adds' \in [Drivers -> [Routes -> Nat]]
  BY DEF AddPublished, TasksTyped
<1>3. adds[d][r] + 1 <= MaxCopies + events'
  BY <1>1, ConstantsAssumption DEF TasksTyped, FewTasks, Event
<1>4. \A e \in Drivers, q \in Routes :
        adds'[e][q] = IF e = d /\ q = r THEN adds[d][r] + 1 ELSE adds[e][q]
  BY DEF AddPublished, TasksTyped
<1>5. \A e \in Drivers, q \in Routes : adds[e][q] <= MaxCopies + events'
  BY <1>1, ConstantsAssumption DEF TasksTyped, FewTasks
<1>6. \A e \in Drivers : removals[e] <= MaxCopies + events'
  BY <1>1, ConstantsAssumption DEF TasksTyped, FewTasks
<1>7. FewTasks'
  BY <1>2, <1>3, <1>4, <1>5, <1>6 DEF TasksTyped, FewTasks
<1> QED
  BY <1>1, <1>2, <1>7 DEF TasksTyped

LEMMA RemovalAddedTyped ==
  ASSUME TasksTyped, NEW d \in Drivers, RemovalPublished(d) = removals',
         UNCHANGED adds, events' = events \/ Event,
         removals[d] < MaxCopies \/ Event, adding' \subseteq AddRec, removing' \subseteq RemovalRec
  PROVE  TasksTyped'
<1>1. events' \in 0 .. MaxEvents /\ events <= events'
  BY EventCounted
<1>2. removals' \in [Drivers -> Nat]
  BY DEF RemovalPublished, TasksTyped
<1>3. removals[d] + 1 <= MaxCopies + events'
  BY <1>1, ConstantsAssumption DEF TasksTyped, FewTasks, Event
<1>4. \A e \in Drivers : removals'[e] = IF e = d THEN removals[d] + 1 ELSE removals[e]
  BY DEF RemovalPublished, TasksTyped
<1>5. \A e \in Drivers, q \in Routes : adds[e][q] <= MaxCopies + events'
  BY <1>1, ConstantsAssumption DEF TasksTyped, FewTasks
<1>6. \A e \in Drivers : removals[e] <= MaxCopies + events'
  BY <1>1, ConstantsAssumption DEF TasksTyped, FewTasks
<1>7. FewTasks'
  BY <1>2, <1>3, <1>4, <1>5, <1>6 DEF TasksTyped, FewTasks
<1> QED
  BY <1>1, <1>2, <1>7 DEF TasksTyped

\* Fewer tasks, with the same bounds
LEMMA FewerTyped ==
  ASSUME TasksTyped, events' = events \/ Event,
         adds' \in [Drivers -> [Routes -> Nat]], removals' \in [Drivers -> Nat],
         \A e \in Drivers : /\ removals'[e] <= removals[e]
                            /\ \A q \in Routes : adds'[e][q] <= adds[e][q],
         adding' \subseteq AddRec, removing' \subseteq RemovalRec
  PROVE  TasksTyped'
<1>1. events' \in 0 .. MaxEvents /\ events <= events'
  BY EventCounted
<1>2. \A e \in Drivers, q \in Routes : adds[e][q] \in Nat /\ adds[e][q] <= MaxCopies + events'
  BY <1>1, ConstantsAssumption DEF TasksTyped, FewTasks
<1>3. \A e \in Drivers : removals[e] \in Nat /\ removals[e] <= MaxCopies + events'
  BY <1>1, ConstantsAssumption DEF TasksTyped, FewTasks
<1>4. FewTasks'
  BY <1>1, <1>2, <1>3, ConstantsAssumption DEF FewTasks, TasksTyped
<1> QED
  BY <1>1, <1>4 DEF TasksTyped

LEMMA SameTyped ==
  ASSUME TasksTyped, events' = events \/ Event, UNCHANGED <<adds, removals>>,
         adding' \subseteq AddRec, removing' \subseteq RemovalRec
  PROVE  TasksTyped'
<1>1. \A e \in Drivers : /\ removals[e] <= removals[e]
                         /\ \A q \in Routes : adds[e][q] <= adds[e][q]
  BY DEF TasksTyped, FewTasks
<1> QED
  BY <1>1, FewerTyped DEF TasksTyped

--------------------------------------------------------------------------------

LEMMA PressesTyped ==
  ASSUME Typed, Presses
  PROVE  Typed'
<1> /\ RowsTyped /\ QueuesTyped /\ TasksTyped /\ ToggleFits /\ OpenFits
    /\ driver \in [Drivers -> DriverRec]
  BY DEF Typed, RowsTyped
<1>1. ASSUME NEW d \in Drivers, StartAccepting(d)
      PROVE  Typed'
  <2>1. driver' \in [Drivers -> DriverRec]
    BY <1>1 DEF StartAccepting, RowsTyped, DriverRec, Offline
  <2>2. RowsTyped'
    BY <1>1, <2>1 DEF StartAccepting, RowsTyped
  <2> QED
    BY <1>1, <2>2, QueuesStay, TasksStay, ToggleStays, OpenStays DEF StartAccepting, Typed, admin
<1>2. ASSUME NEW d \in Drivers, NEW r \in Routes, SeatsSelected(d, r)
      PROVE  Typed'
  <2>1. OpenFits'
    BY <1>2, Opens DEF SeatsSelected, admin, OpenFits
  <2>2. TasksTyped'
    BY <1>2, AddedTyped DEF SeatsSelected, TasksTyped
  <2> QED
    BY <1>2, <2>1, <2>2, RowsStay, QueuesStay, ToggleStays
       DEF SeatsSelected, Typed, RowsTyped, admin
<1>3. ASSUME NEW d \in Drivers, Joins(d)
      PROVE  Typed'
  <2>1. open[d].route \in Routes \cup {None}
    BY DEF OpenFits, OpenRec
  <2>2. driver' \in [Drivers -> DriverRec]
    <3>1. driver' = [driver EXCEPT ![d].active = TRUE, ![d].free = TRUE,
                                   ![d].route = open[d].route]
      BY <1>3 DEF Joins
    <3> QED
      BY <2>1, <3>1, RowSet
  <2>3. RowsTyped'
    BY <1>3, <2>2 DEF Joins, RowsTyped
  <2> QED
    BY <1>3, <2>3, QueuesStay, TasksStay, ToggleStays, Closes DEF Joins, Typed, admin
<1>4. ASSUME NEW d \in Drivers, Stop(d)
      PROVE  Typed'
  <2>1. OpenFits'
    BY <1>4, Opens DEF Stop, admin, OpenFits
  <2>2. TasksTyped'
    BY <1>4, RemovalAddedTyped DEF Stop, TasksTyped
  <2>3. apart' \subseteq Drivers
    BY <1>4 DEF Stop, RowsTyped
  <2> QED
    BY <1>4, <2>1, <2>2, <2>3, RowsStay, QueuesStay, ToggleStays DEF Stop, Typed, admin
<1>5. ASSUME NEW d \in Drivers, Stops(d)
      PROVE  Typed'
  <2>1. driver' \in [Drivers -> DriverRec]
    <3>1. driver' = [driver EXCEPT ![d].active = FALSE, ![d].free = FALSE]
      BY <1>5 DEF Stops
    <3> QED
      BY <3>1, RowSet
  <2>2. RowsTyped'
    BY <1>5, <2>1 DEF Stops, RowsTyped
  <2> QED
    BY <1>5, <2>2, QueuesStay, TasksStay, ToggleStays, Closes DEF Stops, Typed, admin
<1>6. ASSUME NEW d \in Drivers, RollsBack(d)
      PROVE  Typed'
  <2>1. apart' \subseteq Drivers
    BY <1>6, ApartTyped DEF RollsBack
  <2> QED
    BY <1>6, <2>1, RowsStay, QueuesStay, TasksStay, ToggleStays, Closes
       DEF RollsBack, Typed, admin
<1> QED
  BY <1>1, <1>2, <1>3, <1>4, <1>5, <1>6 DEF Presses

LEMMA WorksTyped ==
  ASSUME Typed, Works
  PROVE  Typed'
<1> /\ RowsTyped /\ QueuesTyped /\ TasksTyped /\ ToggleFits /\ OpenFits
    /\ driver \in [Drivers -> DriverRec]
  BY DEF Typed, RowsTyped
<1>1. ASSUME NEW d \in Drivers, RemovalStarts(d)
      PROVE  Typed'
  <2>1. PICK left \in Scanned :
          removing' = removing \cup {[driver |-> d, left |-> left]}
    BY <1>1 DEF RemovalStarts
  <2>2. removing' \subseteq RemovalRec
    BY <2>1 DEF TasksTyped, RemovalRec, Scanned
  <2>3. /\ removals' \in [Drivers -> Nat]
        /\ \A e \in Drivers : removals'[e] <= removals[e]
    BY <1>1 DEF RemovalStarts, TasksTyped
  <2>4. TasksTyped'
    BY <1>1, <2>2, <2>3, FewerTyped DEF RemovalStarts, TasksTyped
  <2> QED
    BY <1>1, <2>4, RowsStay, QueuesStay, ToggleStays, OpenStays DEF RemovalStarts, Typed, RowsTyped, admin
<1>2. ASSUME NEW d \in Drivers, NEW r \in Routes, AddReads(d, r)
      PROVE  Typed'
  <2>1. PICK n \in Scores, first \in {driver[d].priority, FALSE} :
          /\ n = (IF first THEN 1 ELSE 0)
          /\ adding' = adding \cup {[driver |-> d, route |-> r, score |-> n]}
          /\ events' = events \/ Event
    BY <1>2 DEF AddReads, Scores
  <2>2. adding' \subseteq AddRec
    BY <2>1 DEF TasksTyped, AddRec
  <2>3. /\ adds' \in [Drivers -> [Routes -> Nat]]
        /\ \A e \in Drivers : \A q \in Routes : adds'[e][q] <= adds[e][q]
    BY <1>2 DEF AddReads, TasksTyped
  <2>4. TasksTyped'
    BY <1>2, <2>1, <2>2, <2>3, FewerTyped DEF AddReads, TasksTyped
  <2> QED
    BY <1>2, <2>4, RowsStay, QueuesStay, ToggleStays, OpenStays DEF AddReads, Typed, RowsTyped, admin
<1>3. ASSUME NEW t \in adding, AddWrites(t)
      PROVE  Typed'
  <2>1. t.driver \in Drivers /\ t.route \in Routes /\ t.score \in Scores
    BY DEF TasksTyped, AddRec
  <2>2. PICK written \in BOOLEAN, again \in BOOLEAN :
          /\ queue' = IF written THEN [queue EXCEPT ![t.route][t.driver] = t.score] ELSE queue
          /\ adds' = IF again THEN AddPublished(t.driver, t.route) ELSE adds
          /\ IF written /\ ~again THEN UNCHANGED events ELSE Event
          /\ ApartIf(t.driver, IF written THEN Stray(t.driver, t.route) ELSE ~again)
    BY <1>3 DEF AddWrites
  <2>3. QueuesTyped'
    BY <1>3, <2>1, <2>2 DEF AddWrites, QueuesTyped, admin
  <2>4. adding' \subseteq AddRec
    BY <1>3 DEF AddWrites, TasksTyped
  <2>5. TasksTyped'
    <3>1. CASE again
      BY <1>3, <2>1, <2>2, <2>4, <3>1, AddedTyped DEF AddWrites, TasksTyped
    <3>2. CASE ~again
      <4>1. UNCHANGED <<adds, removals, removing>>
        BY <1>3, <2>2, <3>2 DEF AddWrites
      <4> QED
        BY <2>2, <2>4, <4>1, SameTyped DEF TasksTyped
    <3> QED
      BY <3>1, <3>2
  <2>6. apart' \subseteq Drivers
    BY <2>1, <2>2, ApartTyped
  <2> QED
    BY <1>3, <2>3, <2>5, <2>6, RowsStay, ToggleStays, OpenStays DEF AddWrites, Typed, admin
<1>4. ASSUME NEW t \in removing, NEW r \in Routes, RemovalStep(t, r)
      PROVE  Typed'
  <2>1. t.driver \in Drivers /\ t.left \subseteq Routes
    BY DEF TasksTyped, RemovalRec
  <2>2. PICK u : u = [t EXCEPT !.left = @ \ {r}] /\ removing' = (removing \ {t}) \cup {u}
    BY <1>4 DEF RemovalStep
  <2>3. u \in RemovalRec
    BY <2>1, <2>2 DEF TasksTyped, RemovalRec
  <2>4. TasksTyped'
    BY <1>4, <2>2, <2>3, SameTyped DEF RemovalStep, TasksTyped
  <2>5. QueuesTyped'
    BY <1>4, <2>1, WithoutTyped DEF RemovalStep, QueuesTyped, admin
  <2>6. apart' \subseteq Drivers
    BY <1>4, <2>1, ApartTyped DEF RemovalStep
  <2> QED
    BY <1>4, <2>4, <2>5, <2>6, RowsStay, ToggleStays, OpenStays DEF RemovalStep, Typed, admin
<1>5. ASSUME NEW t \in removing, RemovalEnds(t)
      PROVE  Typed'
  <2>1. t.driver \in Drivers
    BY DEF TasksTyped, RemovalRec
  <2>2. removing' \subseteq RemovalRec
    BY <1>5 DEF RemovalEnds, TasksTyped
  <2>3. apart' \subseteq Drivers
    BY <1>5, <2>1, ApartTyped DEF RemovalEnds, RowsTyped
  <2>4. TasksTyped'
    <3>1. CASE UNCHANGED removals
      BY <1>5, <2>2, <3>1, SameTyped DEF RemovalEnds, TasksTyped
    <3>2. CASE Event /\ removals' = RemovalPublished(t.driver)
      BY <1>5, <2>1, <2>2, <3>2, RemovalAddedTyped DEF RemovalEnds, TasksTyped
    <3> QED
      BY <1>5, <3>1, <3>2 DEF RemovalEnds
  <2> QED
    BY <1>5, <2>3, <2>4, RowsStay, QueuesStay, ToggleStays, OpenStays DEF RemovalEnds, Typed, admin
<1> QED
  BY <1>1, <1>2, <1>3, <1>4, <1>5 DEF Works

LEMMA RidesTyped ==
  ASSUME Typed, Searches \/ Rides
  PROVE  Typed'
<1> /\ RowsTyped /\ QueuesTyped /\ TasksTyped /\ ToggleFits /\ OpenFits
    /\ driver \in [Drivers -> DriverRec]
  BY DEF Typed, RowsTyped
<1>1. ASSUME NEW d \in Drivers, NEW r \in Routes, Offers(d, r)
      PROVE  Typed'
  <2>1. QueuesTyped'
    BY <1>1 DEF Offers, QueuesTyped, admin
  <2> QED
    BY <1>1, <2>1, RowsStay, TasksStay, ToggleStays, OpenStays DEF Offers, Typed, RowsTyped, admin
<1>2. ASSUME NEW d \in Drivers, Declines(d)
      PROVE  Typed'
  <2>1. QueuesTyped'
    BY <1>2 DEF Declines, QueuesTyped, admin
  <2> QED
    BY <1>2, <2>1, RowsStay, TasksStay, ToggleStays, OpenStays DEF Declines, Typed, RowsTyped, admin
<1>3. ASSUME NEW d \in Drivers, StruckOut(d)
      PROVE  Typed'
  <2>1. QueuesTyped'
    BY <1>3, WithoutTyped DEF StruckOut, QueuesTyped, admin
  <2> QED
    BY <1>3, <2>1, ApartTyped, RowsStay, TasksStay, ToggleStays, OpenStays DEF StruckOut, Typed, admin
<1>4. ASSUME NEW d \in Drivers, Accept(d)
      PROVE  Typed'
  <2>1. offered[d] \in Routes
    BY <1>4 DEF Accept, QueuesTyped
  <2>2. rides' \in [Drivers -> SUBSET Routes]
    BY <1>4, <2>1 DEF Accept, RowsTyped
  <2>3. offered' \in [Drivers -> Routes \cup {None}]
    BY <1>4 DEF Accept, QueuesTyped
  <2> QED
    BY <1>4, <2>2, <2>3, TasksStay, ToggleStays, OpenStays
       DEF Accept, Typed, RowsTyped, QueuesTyped, admin
<1>10. ASSUME NEW d \in Drivers, AcceptFills(d)
       PROVE  Typed'
  <2>1. offered[d] \in Routes
    BY <1>10 DEF AcceptFills, QueuesTyped
  <2>2. QueuesTyped'
    <3>1. queue' = queue \/ queue' = Without(d, offered[d])
      BY <1>10 DEF AcceptFills, QueueWhenFull
    <3> QED
      BY <1>10, <2>1, <3>1, WithoutTyped DEF AcceptFills, QueuesTyped, admin
  <2>3. OpenFits'
    BY <1>10, <2>1, Opens DEF AcceptFills, admin, OpenFits
  <2>4. apart' \subseteq Drivers
    BY <1>10, ApartTyped DEF AcceptFills, RowsTyped
  <2> QED
    BY <1>10, <2>2, <2>3, <2>4, RowsStay, TasksStay, ToggleStays, OpenStays
       DEF AcceptFills, Typed, admin
<1>11. ASSUME NEW d \in Drivers, Fills(d)
       PROVE  Typed'
  <2>1. open[d].route \in Routes
    BY <1>11 DEF Fills, OpenFits
  <2>2. driver' \in [Drivers -> DriverRec]
    <3>1. driver' = [driver EXCEPT ![d].free = FALSE]
      BY <1>11 DEF Fills
    <3> QED
      BY <3>1, RowSet
  <2>3. rides' \in [Drivers -> SUBSET Routes] /\ timers' \subseteq Drivers
    BY <1>11, <2>1 DEF Fills, RowsTyped
  <2>4. offered' \in [Drivers -> Routes \cup {None}]
    BY <1>11 DEF Fills, QueuesTyped
  <2> QED
    BY <1>11, <2>2, <2>3, <2>4, TasksStay, ToggleStays, Closes
       DEF Fills, Typed, RowsTyped, QueuesTyped, admin
<1>5. ASSUME NEW d \in Drivers, AutoStart(d)
      PROVE  Typed'
  <2>1. driver' \in [Drivers -> DriverRec]
    <3>1. driver' = [driver EXCEPT ![d].onTrip = TRUE, ![d].active = FALSE]
      BY <1>5 DEF AutoStart
    <3> QED
      BY <3>1, RowSet
  <2> QED
    BY <1>5, <2>1, ApartTyped, QueuesStay, TasksStay, ToggleStays, OpenStays
       DEF AutoStart, Typed, RowsTyped, admin
<1>6. ASSUME NEW d \in Drivers, NEW r \in Routes, StartTrip(d, r)
      PROVE  Typed'
  <2>1. driver' \in [Drivers -> DriverRec]
    <3>1. driver' = [driver EXCEPT ![d].onTrip = TRUE]
      BY <1>6 DEF StartTrip
    <3> QED
      BY <3>1, RowSet
  <2>2. QueuesTyped'
    BY <1>6, WithoutTyped DEF StartTrip, QueuesTyped, admin
  <2> QED
    BY <1>6, <2>1, <2>2, ApartTyped, TasksStay, ToggleStays, OpenStays DEF StartTrip, Typed, RowsTyped, admin
<1>7. ASSUME NEW d \in Drivers, NEW r \in Routes, HandsBack(d, r)
      PROVE  Typed'
  <2>1. driver' \in [Drivers -> DriverRec]
    <3>1. driver' = [driver EXCEPT ![d].free = TRUE, ![d].onTrip = FALSE]
      BY <1>7 DEF HandsBack
    <3> QED
      BY <3>1, RowSet
  <2>2. rides' \in [Drivers -> SUBSET Routes]
    BY <1>7 DEF HandsBack, RowsTyped
  <2> QED
    BY <1>7, <2>1, <2>2, ApartTyped, QueuesStay, TasksStay, ToggleStays, OpenStays
       DEF HandsBack, Typed, RowsTyped, admin
<1>8. ASSUME NEW d \in Drivers, Completes(d)
      PROVE  Typed'
  <2>1. driver' \in [Drivers -> DriverRec]
    <3>1. \/ driver' = [driver EXCEPT ![d].active = FALSE, ![d].onTrip = FALSE, ![d].free = TRUE]
          \/ driver' = [driver EXCEPT ![d].free = TRUE]
      BY <1>8 DEF Completes
    <3>2. CASE driver' = [driver EXCEPT ![d].active = FALSE, ![d].onTrip = FALSE, ![d].free = TRUE]
      BY <3>2, RowSet
    <3>3. CASE driver' = [driver EXCEPT ![d].free = TRUE]
      BY <3>3, RowSet
    <3> QED
      BY <3>1, <3>2, <3>3
  <2>2. rides' \in [Drivers -> SUBSET Routes]
    BY <1>8 DEF Completes, RowsTyped
  <2>3. apart' \subseteq Drivers
    BY <1>8, ApartTyped DEF Completes
  <2> QED
    BY <1>8, <2>1, <2>2, <2>3, QueuesStay, TasksStay, ToggleStays, OpenStays
       DEF Completes, Typed, RowsTyped, admin
<1>9. ASSUME NEW d \in Drivers, CancelsAll(d)
      PROVE  Typed'
  <2>1. driver' \in [Drivers -> DriverRec]
    BY <1>9 DEF CancelsAll, RowsTyped, DriverRec, Offline
  <2>2. rides' \in [Drivers -> SUBSET Routes] /\ choosing' \subseteq Drivers
    BY <1>9 DEF CancelsAll, RowsTyped
  <2> QED
    BY <1>9, <2>1, <2>2, ApartTyped, QueuesStay, TasksStay, ToggleStays, OpenStays
       DEF CancelsAll, Typed, RowsTyped, admin
<1> QED
  BY <1>1, <1>2, <1>3, <1>4, <1>5, <1>6, <1>7, <1>8, <1>9, <1>10, <1>11
     DEF Searches, Rides

LEMMA AdministersTyped ==
  ASSUME Typed, Administers
  PROVE  Typed'
<1> /\ RowsTyped /\ QueuesTyped /\ TasksTyped /\ ToggleFits /\ OpenFits
    /\ driver \in [Drivers -> DriverRec]
  BY DEF Typed, RowsTyped
<1>1. ASSUME NEW d \in Drivers, NEW on \in BOOLEAN, ToggleCommits(d, on)
      PROVE  Typed'
  <2>1. driver' \in [Drivers -> DriverRec]
    <3>1. driver' = [driver EXCEPT ![d].priority = on]
      BY <1>1 DEF ToggleCommits
    <3> QED
      BY <3>1, RowSet
  <2>2. driver[d].route \in Routes \cup {None}
    BY DEF RowsTyped, DriverRec
  <2>3. ToggleFits'
    <3>1. CASE driver[d].route = None
      BY <1>1, <3>1 DEF ToggleCommits, ToggleFits
    <3>2. CASE driver[d].route # None
      <4>1. PICK u : /\ u = [pc |-> "reading", driver |-> d, route |-> driver[d].route,
                             on |-> on, score |-> None]
                     /\ toggle' = u
        BY <1>1, <3>2 DEF ToggleCommits
      <4>2. /\ u \in ToggleRec /\ u.pc = "reading" /\ u.driver = d /\ u.route \in Routes
        BY <2>2, <3>2, <4>1 DEF ToggleRec
      <4> QED
        BY <4>1, <4>2 DEF ToggleFits
    <3> QED
      BY <3>1, <3>2
  <2> QED
    BY <1>1, <2>1, <2>3, ApartTyped, QueuesStay, TasksStay, OpenStays
       DEF ToggleCommits, Typed, RowsTyped
<1>2. CASE ToggleReads
  <2>1. toggle.driver \in Drivers /\ toggle.route \in Routes
    BY <1>2 DEF ToggleReads, ToggleFits
  <2>2. PICK score : score = queue[toggle.route][toggle.driver]
    OBVIOUS
  <2>3. ToggleFits'
    <3>1. CASE score = None
      BY <1>2, <2>2, <3>1 DEF ToggleReads, ToggleFits, NoToggle, ToggleRec
    <3>2. CASE score # None
      <4>1. PICK n : n = Shifted(score, toggle.on)
        OBVIOUS
      <4>2. score \in Scores
        BY <2>1, <2>2, <3>2 DEF QueuesTyped
      <4>3. n \in Scores
        BY <4>1, <4>2 DEF Shifted, Negative, Scores
      <4>4. toggle' = [toggle EXCEPT !.pc = "writing", !.score = n]
        BY <1>2, <2>2, <3>2, <4>1 DEF ToggleReads
      <4>5. /\ toggle' \in ToggleRec /\ toggle'.pc = "writing" /\ toggle'.score = n
            /\ toggle'.driver = toggle.driver /\ toggle'.route = toggle.route
        BY <4>3, <4>4 DEF ToggleFits, ToggleRec
      <4> QED
        BY <2>1, <4>3, <4>5 DEF ToggleFits
    <3> QED
      BY <3>1, <3>2
  <2> QED
    BY <1>2, <2>3, QueuesStay, RowsStay, TasksStay, OpenStays DEF ToggleReads, Typed, RowsTyped
<1>3. CASE ToggleWrites
  <2>1. toggle.driver \in Drivers /\ toggle.route \in Routes /\ toggle.score \in Scores
    BY <1>3 DEF ToggleWrites, ToggleFits
  <2>2. QueuesTyped'
    BY <1>3, <2>1 DEF ToggleWrites, QueuesTyped
  <2>3. ToggleFits'
    BY <1>3 DEF ToggleWrites, ToggleFits, NoToggle, ToggleRec
  <2>4. apart' \subseteq Drivers
    BY <1>3, <2>1, ApartTyped DEF ToggleWrites
  <2> QED
    BY <1>3, <2>2, <2>3, <2>4, RowsStay, TasksStay, OpenStays DEF ToggleWrites, Typed
<1>4. ASSUME NEW d \in Drivers, Block(d)
      PROVE  Typed'
  <2>1. driver' \in [Drivers -> DriverRec]
    <3>1. driver' = [driver EXCEPT ![d].blocked = TRUE, ![d].active = FALSE]
      BY <1>4 DEF Block
    <3> QED
      BY <3>1, RowSet
  <2> QED
    BY <1>4, <2>1, ApartTyped, QueuesStay, TasksStay, ToggleStays, OpenStays
       DEF Block, Typed, RowsTyped, admin
<1>5. ASSUME NEW d \in Drivers, Unblock(d)
      PROVE  Typed'
  <2>1. driver' \in [Drivers -> DriverRec]
    <3>1. driver' = [driver EXCEPT ![d].blocked = FALSE]
      BY <1>5 DEF Unblock
    <3> QED
      BY <3>1, RowSet
  <2> QED
    BY <1>5, <2>1, QueuesStay, TasksStay, ToggleStays, OpenStays
       DEF Unblock, Typed, RowsTyped, admin
<1>6. ASSUME NEW d \in Drivers, AdminOff(d)
      PROVE  Typed'
  <2>1. panel.route \in Routes \cup {None} /\ NoPanel \in PanelRec
    BY DEF OpenFits, PanelRec, NoPanel
  <2>2. QueuesTyped'
    BY <1>6, <2>1, WithoutTyped DEF AdminOff, QueuesTyped
  <2>3. OpenFits'
    BY <1>6, <2>1, Opens DEF AdminOff
  <2>4. apart' \subseteq Drivers
    BY <1>6, ApartTyped DEF AdminOff
  <2> QED
    BY <1>6, <2>2, <2>3, <2>4, RowsStay, TasksStay, ToggleStays DEF AdminOff, Typed
<1>7. ASSUME NEW d \in Drivers, NEW r \in Routes, AdminOn(d, r)
      PROVE  Typed'
  <2>1. driver' \in [Drivers -> DriverRec]
    <3>1. driver' = [driver EXCEPT ![d].active = TRUE, ![d].route = r, ![d].free = TRUE]
      BY <1>7 DEF AdminOn
    <3> QED
      BY <3>1, RowSet
  <2>2. OpenFits'
    BY <1>7 DEF AdminOn, OpenFits, PanelRec, NoPanel
  <2> QED
    BY <1>7, <2>1, <2>2, ApartTyped, QueuesStay, TasksStay, ToggleStays
       DEF AdminOn, Typed, RowsTyped
<1>8. CASE ResetRows
  <2>1. driver' \in [Drivers -> DriverRec]
    BY <1>8 DEF ResetRows, RowsTyped, DriverRec, Offline
  <2>2. reset' \subseteq Routes
    BY <1>8 DEF ResetRows, Scanned
  <2> QED
    BY <1>8, <2>1, <2>2, TasksStay, ToggleStays, OpenStays
       DEF ResetRows, Typed, RowsTyped, QueuesTyped, redis
<1>9. ASSUME NEW r \in Routes, ResetDeletes(r)
      PROVE  Typed'
  <2>1. QueuesTyped' /\ apart' \subseteq Drivers
    BY <1>9 DEF ResetDeletes, QueuesTyped, RowsTyped
  <2> QED
    BY <1>9, <2>1, RowsStay, TasksStay, ToggleStays, OpenStays DEF ResetDeletes, Typed
<1>10. CASE ResetFails
  <2>1. QueuesTyped' /\ apart' \subseteq Drivers
    BY <1>10 DEF ResetFails, QueuesTyped, RowsTyped, redis
  <2> QED
    BY <1>10, <2>1, RowsStay, TasksStay, ToggleStays, OpenStays DEF ResetFails, Typed
<1>11. ASSUME NEW d \in Drivers, AdminReads(d)
       PROVE  Typed'
  <2>1. driver[d].route \in Routes \cup {None}
    BY DEF RowsTyped, DriverRec
  <2>2. OpenFits'
    BY <1>11, <2>1 DEF AdminReads, OpenFits, PanelRec
  <2> QED
    BY <1>11, <2>2, RowsStay, QueuesStay, TasksStay, ToggleStays DEF AdminReads, Typed, RowsTyped
<1>12. ASSUME NEW d \in Drivers, Goes(d)
       PROVE  Typed'
  <2>1. driver' \in [Drivers -> DriverRec]
    BY <1>12 DEF Goes, RowsTyped, DriverRec, Offline
  <2>2. rides' \in [Drivers -> SUBSET Routes]
    BY <1>12 DEF Goes, RowsTyped
  <2> QED
    BY <1>12, <2>1, <2>2, QueuesStay, TasksStay, ToggleStays, Closes
       DEF Goes, Typed, RowsTyped, admin
<1> QED
  BY <1>1, <1>2, <1>3, <1>4, <1>5, <1>6, <1>7, <1>8, <1>9, <1>10, <1>11, <1>12
     DEF Administers

LEMMA InitTyped ==
  ASSUME Init
  PROVE  Typed
<1>1. RowsTyped
  BY DEF Init, RowsTyped, DriverRec
<1>2. QueuesTyped
  BY DEF Init, QueuesTyped
<1>3. TasksTyped
  BY ConstantsAssumption DEF Init, TasksTyped, FewTasks
<1>4. ToggleFits
  BY DEF Init, ToggleFits, NoToggle, ToggleRec
<1>5. OpenFits
  BY DEF Init, OpenFits, OpenRec, Nothing, PanelRec, NoPanel
<1> QED
  BY <1>1, <1>2, <1>3, <1>4, <1>5 DEF Typed

LEMMA StepTyped ==
  ASSUME Typed, [Next]_vars
  PROVE  Typed'
<1>1. CASE UNCHANGED vars
  BY <1>1, RowsStay, QueuesStay, TasksStay, ToggleStays, OpenStays
     DEF Typed, vars, RowsTyped, admin
<1>2. CASE Next
  BY <1>2, PressesTyped, WorksTyped, RidesTyped, AdministersTyped DEF Next
<1> QED
  BY <1>1, <1>2

--------------------------------------------------------------------------------

(* Rows and places *)

\* Who has a place, or will have, stands in the queue or will be put there; who stands in a
\* queue has a place, or will be taken out of it.  It says of a driver on a trip what
\* WaitingIsQueued says of one who waits: the trip may end with him waiting again.
Placing(d) ==
  \A r \in Routes : /\ Placed(d, r) => InQueue(d, r) \/ AddDue(d, r)
                    /\ InQueue(d, r) => Placed(d, r) \/ RemovalDue(d, r)

\* Nobody is online who is asked for his seats, but for one who is going offline again
ChoosesOffline(d) ==
  /\ d \in choosing /\ open[d].does # "stops" => ~driver[d].active
  /\ open[d].does = "joins" => ~driver[d].active

Settled(d) == Placing(d) /\ ChoosesOffline(d)

RowsMatch == \A d \in Drivers \ apart : Settled(d)

LEMMA RowsMatchImplies ==
  ASSUME RowsMatch
  PROVE  WaitingIsQueued /\ QueuedIsOnline
<1>1. WaitingIsQueued
  BY DEF RowsMatch, Settled, Placing, Placed, WaitingIsQueued, Waits
<1>2. QueuedIsOnline
  BY DEF RowsMatch, Settled, Placing, Placed, QueuedIsOnline
<1> QED
  BY <1>1, <1>2

\* Row and transaction of e say what they said, or that he is offline as before: a place
\* he keeps, or is put in, or loses while a task will put him back
LEMMA Untouched ==
  ASSUME NEW e \in Drivers, Settled(e), UNCHANGED open,
         driver'[e].active => driver[e].active,
         e \in choosing' => e \in choosing \/ ~driver'[e].active,
         \A r \in Routes :
           /\ Placed(e, r)' <=> Placed(e, r)
           /\ Placed(e, r) /\ InQueue(e, r) => InQueue(e, r)' \/ AddDue(e, r)'
           /\ AddDue(e, r) => InQueue(e, r)' \/ AddDue(e, r)' \/ ~Placed(e, r)
           /\ InQueue(e, r)' => \/ Placed(e, r)'
                                \/ RemovalDue(e, r)'
                                \/ InQueue(e, r) /\ (RemovalDue(e, r) => RemovalDue(e, r)')
  PROVE  Settled(e)'
<1>1. Placing(e)'
  BY DEF Settled, Placing
<1>2. ChoosesOffline(e)'
  BY DEF Settled, ChoosesOffline
<1> QED
  BY <1>1, <1>2 DEF Settled

\* The row says the same of his place
LEMMA SamePlaced ==
  ASSUME NEW e \in Drivers, UNCHANGED open, driver'[e] = driver[e]
  PROVE  \A r \in Routes : Placed(e, r)' <=> Placed(e, r)
  BY DEF Placed, Joining, Leaving

\* Who is in which queue once d has been taken out of that of r
LEMMA OutOfQueue ==
  ASSUME QueuesTyped, NEW d \in Drivers, NEW r \in Routes, queue' = Without(d, r)
  PROVE  /\ \A e \in Drivers \ {d}, q \in Routes : InQueue(e, q)' <=> InQueue(e, q)
         /\ \A q \in Routes : InQueue(d, q)' <=> InQueue(d, q) /\ q # r
  BY DEF QueuesTyped, InQueue, Without

LEMMA SameDue ==
  ASSUME UNCHANGED tasks, UNCHANGED reset
  PROVE  \A e \in Drivers, r \in Routes : /\ AddDue(e, r)' <=> AddDue(e, r)
                                          /\ RemovalDue(e, r)' <=> RemovalDue(e, r)
  BY DEF AddDue, RemovalDue, tasks

\* A step that leaves the tasks alone, and all drivers but d
LEMMA OnlyHis ==
  ASSUME Typed, RowsMatch, NEW d \in Drivers,
         UNCHANGED tasks, UNCHANGED reset,
         \A e \in Drivers \ {d} : driver'[e] = driver[e] /\ open'[e] = open[e],
         choosing' \subseteq choosing \cup {d},
         queue' = queue \/ (\E r \in Routes : queue' = Without(d, r)),
         apart' = apart \/ apart' = apart \cup {d},
         d \notin apart' => Settled(d)'
  PROVE  RowsMatch'
<1> SUFFICES ASSUME NEW e \in Drivers, e \notin apart', e # d
             PROVE  Settled(e)'
  BY DEF RowsMatch
<1>1. /\ Settled(e) /\ driver'[e] = driver[e] /\ open'[e] = open[e]
      /\ (e \in choosing' => e \in choosing)
  BY DEF RowsMatch
<1>2. \A q \in Routes : InQueue(e, q)' <=> InQueue(e, q)
  <2>1. CASE queue' = queue
    BY <2>1 DEF InQueue
  <2>2. CASE \E r \in Routes : queue' = Without(d, r)
    BY <2>2, OutOfQueue DEF Typed
  <2> QED
    BY <2>1, <2>2
<1>3. \A q \in Routes : Placed(e, q)' <=> Placed(e, q)
  BY <1>1 DEF Placed, Joining, Leaving
<1>4. Placing(e)'
  BY <1>1, <1>2, <1>3, SameDue DEF Settled, Placing
<1>5. ChoosesOffline(e)'
  BY <1>1 DEF Settled, ChoosesOffline
<1> QED
  BY <1>4, <1>5 DEF Settled

\* What counts in his row is as it was
LEMMA SameRow ==
  ASSUME NEW d \in Drivers, Settled(d), UNCHANGED tasks, UNCHANGED <<open, reset, queue>>,
         driver'[d].active = driver[d].active, driver'[d].free = driver[d].free,
         driver'[d].route = driver[d].route, d \in choosing' => d \in choosing
  PROVE  Settled(d)'
<1>1. \A r \in Routes : /\ Placed(d, r)' <=> Placed(d, r)
                        /\ InQueue(d, r)' <=> InQueue(d, r)
  BY DEF Placed, Joining, Leaving, InQueue
<1> QED
  BY <1>1, SameDue, Untouched

\* Offline or full, and free of transactions, he has no place, and is offline now
LEMMA GoesOffQuietly ==
  ASSUME NEW d \in Drivers, Settled(d), UNCHANGED tasks, UNCHANGED <<open, reset, queue>>,
         Free(d), ~driver[d].active \/ ~driver[d].free, ~driver'[d].active
  PROVE  Settled(d)'
<1>0. open[d].does = "nothing"
  BY DEF Free, Nothing
<1>1. \A r \in Routes : /\ ~Placed(d, r) /\ ~Placed(d, r)'
                        /\ InQueue(d, r)' <=> InQueue(d, r)
  BY <1>0 DEF Placed, Joining, InQueue
<1> QED
  BY <1>1, SameDue, Untouched

\* A transaction opens which takes him out of the queues: he is in none for good
LEMMA Leaves ==
  ASSUME NEW d \in Drivers, driver'[d] = driver[d],
         open'[d].does \in {"stops", "fills", "goes"},
         \A r \in Routes : InQueue(d, r)' => RemovalDue(d, r)',
         d \in choosing' /\ open'[d].does # "stops" => ~driver[d].active
  PROVE  Settled(d)'
<1>1. \A r \in Routes : ~Placed(d, r)'
  BY DEF Placed, Joining, Leaving
<1>2. ChoosesOffline(d)'
  BY DEF ChoosesOffline
<1> QED
  BY <1>1, <1>2 DEF Settled, Placing

\* It is committed
LEMMA HasLeft ==
  ASSUME NEW d \in Drivers, Settled(d), Leaving(d), UNCHANGED tasks,
         UNCHANGED <<reset, queue>>, open'[d] = Nothing,
         ~driver'[d].active \/ ~driver'[d].free,
         d \in choosing' => ~driver'[d].active
  PROVE  Settled(d)'
<1>0. open'[d].does = "nothing"
  BY DEF Nothing
<1>1. \A r \in Routes : /\ ~Placed(d, r) /\ ~Placed(d, r)'
                        /\ InQueue(d, r)' <=> InQueue(d, r)
  BY <1>0 DEF Placed, Joining, Leaving, InQueue
<1>2. Placing(d)'
  BY <1>1, SameDue DEF Settled, Placing
<1>3. ChoosesOffline(d)'
  BY <1>0 DEF ChoosesOffline
<1> QED
  BY <1>2, <1>3 DEF Settled

--------------------------------------------------------------------------------

LEMMA RidesMatch ==
  ASSUME Typed, RowsMatch, Searches \/ Rides
  PROVE  RowsMatch'
<1> /\ driver \in [Drivers -> DriverRec] /\ open \in [Drivers -> OpenRec]
  BY DEF Typed, RowsTyped, OpenFits
<1>0. \A d \in Drivers : d \notin apart => Settled(d)
  BY DEF RowsMatch
<1>1. ASSUME NEW d \in Drivers,
             (\E r \in Routes : Offers(d, r)) \/ Declines(d) \/ Accept(d)
      PROVE  RowsMatch'
  <2>1. /\ UNCHANGED <<driver, choosing, open, queue, reset, apart>> /\ UNCHANGED tasks
    BY <1>1 DEF Offers, Declines, Accept, rows, admin
  <2>2. d \notin apart' => Settled(d)'
    BY <1>0, <2>1, SameRow
  <2> QED
    BY <2>1, <2>2, OnlyHis
<1>2. ASSUME NEW d \in Drivers, StruckOut(d)
      PROVE  RowsMatch'
  <2>1. offered[d] \in Routes
    BY <1>2 DEF StruckOut, Typed, QueuesTyped
  <2> QED
    BY <1>2, <2>1, OnlyHis DEF StruckOut, ApartIf, rows, admin
<1>3. ASSUME NEW d \in Drivers, AcceptFills(d)
      PROVE  RowsMatch'
  <2> DEFINE r == offered[d]
  <2>1. r \in Routes
    BY <1>3 DEF AcceptFills, Typed, QueuesTyped
  <2>2. /\ UNCHANGED tasks /\ UNCHANGED <<reset, driver, choosing>>
        /\ apart' = apart \/ apart' = apart \cup {d}
        /\ queue' = queue \/ queue' = Without(d, r)
        /\ open' = [open EXCEPT ![d] = [does |-> "fills", route |-> r]]
    BY <1>3 DEF AcceptFills, ApartIf, QueueWhenFull, rows, admin
  <2>3. /\ open'[d].does = "fills"
        /\ \A e \in Drivers \ {d} : open'[e] = open[e]
    <3>1. open'[d] = [does |-> "fills", route |-> r]
      BY <2>2
    <3> QED
      BY <2>2, <3>1
  <2>4. ASSUME d \notin apart'
        PROVE  Settled(d)'
    <3>1. r = driver[d].route /\ queue' = Without(d, r) /\ d \notin apart
      BY <1>3, <2>4 DEF AcceptFills, ApartIf, QueueWhenFull
    <3>2. Settled(d) /\ open[d].does = "nothing"
      BY <1>0, <1>3, <3>1 DEF AcceptFills, Free, Nothing
    <3>3. \A q \in Routes : InQueue(d, q) => q = r \/ RemovalDue(d, q)
      BY <3>1, <3>2 DEF Settled, Placing, Placed, Joining
    <3>4. \A q \in Routes : InQueue(d, q)' => RemovalDue(d, q)'
      BY <2>1, <2>2, <3>1, <3>3, OutOfQueue, SameDue DEF Typed
    <3>5. d \in choosing => ~driver[d].active
      BY <3>2 DEF Settled, ChoosesOffline
    <3> QED
      BY <2>2, <2>3, <3>4, <3>5, Leaves
  <2> QED
    BY <2>1, <2>2, <2>3, <2>4, OnlyHis
<1>4. ASSUME NEW d \in Drivers, Fills(d)
      PROVE  RowsMatch'
  <2>1. /\ UNCHANGED tasks /\ UNCHANGED <<reset, choosing, queue, apart>>
        /\ open' = [open EXCEPT ![d] = Nothing] /\ open[d].does = "fills"
        /\ driver' = [driver EXCEPT ![d].free = FALSE]
    BY <1>4 DEF Fills, admin
  <2>2. /\ open'[d] = Nothing /\ ~driver'[d].free
        /\ driver'[d].active = driver[d].active
        /\ \A e \in Drivers \ {d} : driver'[e] = driver[e] /\ open'[e] = open[e]
    BY <2>1 DEF DriverRec
  <2>3. ASSUME d \notin apart'
        PROVE  Settled(d)'
    <3>1. Settled(d) /\ Leaving(d)
      BY <1>0, <2>1, <2>3 DEF Leaving
    <3>2. d \in choosing' => ~driver'[d].active
      BY <2>1, <2>2, <3>1 DEF Settled, ChoosesOffline
    <3> QED
      BY <2>1, <2>2, <3>1, <3>2, HasLeft
  <2> QED
    BY <2>1, <2>2, <2>3, OnlyHis
\* The driver goes offline, and had no place any more
<1>5. ASSUME NEW d \in Drivers, UNCHANGED tasks, UNCHANGED <<queue, reset, open>>, Free(d),
             choosing' \subseteq choosing,
             \A e \in Drivers \ {d} : driver'[e] = driver[e],
             ~driver'[d].active, ApartIf(d, driver[d].active /\ driver[d].free)
      PROVE  RowsMatch'
  <2>1. d \notin apart' => d \notin apart /\ (~driver[d].active \/ ~driver[d].free)
    BY <1>5 DEF ApartIf
  <2>2. d \notin apart' => Settled(d)'
    BY <1>0, <1>5, <2>1, GoesOffQuietly
  <2> QED
    BY <1>5, <2>2, OnlyHis DEF ApartIf
<1>6. ASSUME NEW d \in Drivers, AutoStart(d)
      PROVE  RowsMatch'
  <2>1. /\ ~driver'[d].active
        /\ \A e \in Drivers \ {d} : driver'[e] = driver[e]
    BY <1>6 DEF AutoStart, DriverRec
  <2> QED
    BY <1>5, <1>6, <2>1 DEF AutoStart, redis, admin
<1>7. ASSUME NEW d \in Drivers, NEW r \in Routes, StartTrip(d, r)
      PROVE  RowsMatch'
  <2>1. /\ driver'[d].active = driver[d].active /\ driver'[d].free = driver[d].free
        /\ driver'[d].route = driver[d].route
        /\ \A e \in Drivers \ {d} : driver'[e] = driver[e]
    BY <1>7 DEF StartTrip, DriverRec
  <2>2. /\ UNCHANGED tasks /\ UNCHANGED <<reset, choosing, open, apart>>
        /\ open[d].does = "nothing"
    BY <1>7 DEF StartTrip, admin, Free, Nothing
  <2>3. ASSUME d \notin apart'
        PROVE  Settled(d)'
    <3>1. Settled(d)
      BY <1>0, <2>2, <2>3
    <3>2. CASE driver[d].free
      BY <1>7, <2>1, <2>2, <3>1, <3>2, SameRow DEF StartTrip
    <3>3. CASE ~driver[d].free
      <4>1. \A q \in Routes : ~Placed(d, q) /\ ~Placed(d, q)'
        BY <2>1, <2>2, <3>3 DEF Placed, Joining, DriverRec
      <4>2. \A q \in Routes : InQueue(d, q)' => InQueue(d, q)
        BY <1>7, <3>3, OutOfQueue DEF StartTrip, Typed
      <4> QED
        BY <2>1, <2>2, <3>1, <4>1, <4>2, SameDue, Untouched
    <3> QED
      BY <3>2, <3>3
  <2>4. queue' = queue \/ queue' = Without(d, r)
    BY <1>7 DEF StartTrip
  <2> QED
    BY <2>1, <2>2, <2>3, <2>4, OnlyHis
\* Seats come back: to somebody who is offline, or who had some
<1>8. ASSUME NEW d \in Drivers, UNCHANGED tasks, UNCHANGED <<choosing, queue, reset, open>>,
             Free(d), \A e \in Drivers \ {d} : driver'[e] = driver[e],
             driver'[d].active = driver[d].active, driver'[d].free = TRUE,
             driver'[d].route = driver[d].route,
             ApartIf(d, driver[d].active /\ ~driver[d].free)
      PROVE  RowsMatch'
  <2>1. d \notin apart' => d \notin apart /\ (~driver[d].active \/ driver[d].free)
    BY <1>8 DEF ApartIf
  <2>2. driver[d].free \in BOOLEAN
    BY DEF DriverRec
  <2>3. ASSUME d \notin apart'
        PROVE  Settled(d)'
    <3>1. CASE driver[d].free
      <4>1. driver'[d].free = driver[d].free
        BY <1>8, <2>2, <3>1
      <4> QED
        BY <1>0, <1>8, <2>1, <2>3, <4>1, SameRow
    <3>2. CASE ~driver[d].active
      BY <1>0, <1>8, <2>1, <2>3, <3>2, GoesOffQuietly
    <3> QED
      BY <2>1, <2>3, <3>1, <3>2
  <2> QED
    BY <1>8, <2>3, OnlyHis DEF ApartIf
<1>9. ASSUME NEW d \in Drivers, NEW r \in Routes, HandsBack(d, r)
      PROVE  RowsMatch'
  <2>1. /\ driver'[d].active = driver[d].active /\ driver'[d].free = TRUE
        /\ driver'[d].route = driver[d].route
        /\ \A e \in Drivers \ {d} : driver'[e] = driver[e]
    BY <1>9 DEF HandsBack, DriverRec
  <2> QED
    BY <1>8, <1>9, <2>1 DEF HandsBack, redis, admin
<1>10. ASSUME NEW d \in Drivers, Completes(d)
       PROVE  RowsMatch'
  <2>0. UNCHANGED tasks /\ UNCHANGED <<choosing, queue, reset, open>> /\ Free(d)
    BY <1>10 DEF Completes, redis, admin
  <2>1. CASE /\ driver' = [driver EXCEPT ![d].active = FALSE, ![d].onTrip = FALSE, ![d].free = TRUE]
             /\ ApartIf(d, driver[d].active /\ driver[d].free)
    <3>1. /\ ~driver'[d].active
          /\ \A e \in Drivers \ {d} : driver'[e] = driver[e]
      BY <2>1 DEF DriverRec
    <3> QED
      BY <1>5, <2>0, <2>1, <3>1
  <2>2. CASE /\ driver' = [driver EXCEPT ![d].free = TRUE]
             /\ ApartIf(d, driver[d].active /\ ~driver[d].free)
    <3>1. /\ driver'[d].active = driver[d].active /\ driver'[d].free = TRUE
          /\ driver'[d].route = driver[d].route
          /\ \A e \in Drivers \ {d} : driver'[e] = driver[e]
      BY <2>2 DEF DriverRec
    <3> QED
      BY <1>8, <2>0, <2>2, <3>1
  <2> QED
    BY <1>10, <2>1, <2>2 DEF Completes
<1>11. ASSUME NEW d \in Drivers, CancelsAll(d)
       PROVE  RowsMatch'
  <2>1. /\ ~driver'[d].active
        /\ \A e \in Drivers \ {d} : driver'[e] = driver[e]
    BY <1>11 DEF CancelsAll, DriverRec, Offline
  <2> QED
    BY <1>5, <1>11, <2>1 DEF CancelsAll, redis, admin
<1> QED
  BY <1>1, <1>2, <1>3, <1>4, <1>6, <1>7, <1>9, <1>10, <1>11 DEF Searches, Rides

--------------------------------------------------------------------------------

LEMMA PressesMatch ==
  ASSUME Typed, RowsMatch, Presses
  PROVE  RowsMatch'
<1> /\ driver \in [Drivers -> DriverRec] /\ open \in [Drivers -> OpenRec]
    /\ adds \in [Drivers -> [Routes -> Nat]] /\ removals \in [Drivers -> Nat]
  BY DEF Typed, RowsTyped, OpenFits, TasksTyped
<1>0. \A d \in Drivers : d \notin apart => Settled(d)
  BY DEF RowsMatch
<1>1. ASSUME NEW d \in Drivers, StartAccepting(d)
      PROVE  RowsMatch'
  <2>1. /\ ~driver[d].active /\ ~driver'[d].active
        /\ \A e \in Drivers \ {d} : driver'[e] = driver[e]
    BY <1>1 DEF StartAccepting, DriverRec, Offline
  <2>2. UNCHANGED tasks /\ UNCHANGED <<open, reset, queue, apart>>
    BY <1>1 DEF StartAccepting, redis, admin
  <2>3. ASSUME d \notin apart'
        PROVE  Settled(d)'
    <3>1. Settled(d)
      BY <1>0, <2>2, <2>3
    <3>2. CASE driver[d].onTrip
      BY <1>1, <2>1, <2>2, <3>1, <3>2, GoesOffQuietly DEF StartAccepting
    \* The row is left alone, whatever transaction is open
    <3>3. CASE ~driver[d].onTrip
      <4>1. driver'[d] = driver[d]
        BY <1>1, <3>3 DEF StartAccepting
      <4>2. \A r \in Routes : /\ Placed(d, r)' <=> Placed(d, r)
                              /\ InQueue(d, r)' <=> InQueue(d, r)
        BY <2>2, <4>1, SamePlaced DEF InQueue
      <4> QED
        BY <2>1, <2>2, <3>1, <4>1, <4>2, SameDue, Untouched
    <3> QED
      BY <3>2, <3>3
  <2> QED
    BY <1>1, <2>1, <2>2, <2>3, OnlyHis DEF StartAccepting
\* A worker may have run the task before the row is committed: he has his place from here
<1>2. ASSUME NEW d \in Drivers, NEW r \in Routes, SeatsSelected(d, r)
      PROVE  RowsMatch'
  <2>1. /\ adds' = [adds EXCEPT ![d][r] = @ + 1]
        /\ open' = [open EXCEPT ![d] = [does |-> "joins", route |-> r]]
        /\ UNCHANGED <<driver, choosing, queue, adding, removals, removing, reset, apart>>
        /\ d \in choosing /\ open[d].does = "nothing"
    BY <1>2 DEF SeatsSelected, AddPublished, rows, redis, admin, Free, Nothing
  <2>2. /\ open'[d].does = "joins" /\ open'[d].route = r
        /\ \A e \in Drivers \ {d} : open'[e] = open[e]
    <3>1. open'[d] = [does |-> "joins", route |-> r]
      BY <2>1
    <3> QED
      BY <2>1, <3>1
  <2>3. /\ AddDue(d, r)'
        /\ \A e \in Drivers, q \in Routes :
             /\ AddDue(e, q) => AddDue(e, q)'
             /\ RemovalDue(e, q)' <=> RemovalDue(e, q)
             /\ InQueue(e, q)' <=> InQueue(e, q)
    BY <2>1 DEF AddDue, RemovalDue, InQueue
  <2> SUFFICES ASSUME NEW e \in Drivers, e \notin apart'
               PROVE  Settled(e)'
    BY DEF RowsMatch
  <2>4. Settled(e)
    BY <1>0, <2>1
  <2>5. CASE e # d
    <3>1. \A q \in Routes : Placed(e, q)' <=> Placed(e, q)
      BY <2>1, <2>2, <2>5 DEF Placed, Joining, Leaving
    <3>2. Placing(e)'
      BY <2>3, <2>4, <3>1 DEF Settled, Placing
    <3>3. ChoosesOffline(e)'
      BY <2>1, <2>2, <2>4, <2>5 DEF Settled, ChoosesOffline
    <3> QED
      BY <3>2, <3>3 DEF Settled
  <2>6. CASE e = d
    <3>1. ~driver[d].active
      BY <2>1, <2>4, <2>6 DEF Settled, ChoosesOffline
    <3>2. \A q \in Routes : ~Placed(d, q) /\ (Placed(d, q)' <=> q = r)
      BY <2>1, <2>2, <3>1 DEF Placed, Joining
    <3>3. Placing(d)'
      BY <2>3, <2>4, <2>6, <3>2 DEF Settled, Placing
    <3>4. ChoosesOffline(d)'
      BY <2>1, <3>1 DEF ChoosesOffline
    <3> QED
      BY <2>6, <3>3, <3>4 DEF Settled
  <2> QED
    BY <2>5, <2>6
<1>3. ASSUME NEW d \in Drivers, Joins(d)
      PROVE  RowsMatch'
  <2>1. /\ UNCHANGED tasks /\ UNCHANGED <<reset, queue, apart>>
        /\ driver' = [driver EXCEPT ![d].active = TRUE, ![d].free = TRUE,
                                    ![d].route = open[d].route]
        /\ choosing' = choosing \ {d}
        /\ open' = [open EXCEPT ![d] = Nothing] /\ open[d].does = "joins"
    BY <1>3 DEF Joins, redis, admin
  <2>2. /\ driver'[d].active /\ driver'[d].free /\ driver'[d].route = open[d].route
        /\ open'[d].does = "nothing"
        /\ \A e \in Drivers \ {d} : driver'[e] = driver[e] /\ open'[e] = open[e]
    BY <2>1 DEF DriverRec, Nothing
  <2>3. ASSUME d \notin apart'
        PROVE  Settled(d)'
    <3>1. Settled(d) /\ ~driver[d].active
      BY <1>0, <2>1, <2>3 DEF Settled, ChoosesOffline
    <3>2. \A q \in Routes : /\ Placed(d, q)' <=> Placed(d, q)
                            /\ InQueue(d, q)' <=> InQueue(d, q)
      BY <2>1, <2>2, <3>1 DEF Placed, Joining, Leaving, InQueue
    <3>3. Placing(d)'
      BY <2>1, <3>1, <3>2, SameDue DEF Settled, Placing
    <3>4. ChoosesOffline(d)'
      BY <2>1, <2>2 DEF ChoosesOffline
    <3> QED
      BY <3>3, <3>4 DEF Settled
  <2> QED
    BY <2>1, <2>2, <2>3, OnlyHis
\* Whatever has come between his row and his place, he is going to be taken out of every
\* queue
<1>4. ASSUME NEW d \in Drivers, Stop(d)
      PROVE  RowsMatch'
  <2>1. /\ removals' = [removals EXCEPT ![d] = @ + 1]
        /\ open' = [open EXCEPT ![d] = [does |-> "stops", route |-> None]]
        /\ UNCHANGED <<driver, choosing, queue, adds, adding, removing, reset>>
        /\ apart' = apart \ {d}
    BY <1>4 DEF Stop, RemovalPublished, rows, redis, admin
  <2>2. /\ open'[d].does = "stops"
        /\ \A e \in Drivers \ {d} : open'[e] = open[e]
    <3>1. open'[d] = [does |-> "stops", route |-> None]
      BY <2>1
    <3> QED
      BY <2>1, <3>1
  <2>3. /\ \A q \in Routes : RemovalDue(d, q)'
        /\ \A e \in Drivers, q \in Routes :
             /\ AddDue(e, q)' <=> AddDue(e, q)
             /\ RemovalDue(e, q) => RemovalDue(e, q)'
             /\ InQueue(e, q)' <=> InQueue(e, q)
    BY <2>1 DEF AddDue, RemovalDue, InQueue
  <2> SUFFICES ASSUME NEW e \in Drivers, e \notin apart'
               PROVE  Settled(e)'
    BY DEF RowsMatch
  <2>4. CASE e # d
    <3>0. Settled(e)
      BY <1>0, <2>1, <2>4
    <3>1. \A q \in Routes : Placed(e, q)' <=> Placed(e, q)
      BY <2>1, <2>2, <2>4 DEF Placed, Joining, Leaving
    <3>2. Placing(e)'
      BY <2>3, <3>0, <3>1 DEF Settled, Placing
    <3>3. ChoosesOffline(e)'
      BY <2>1, <2>2, <2>4, <3>0 DEF Settled, ChoosesOffline
    <3> QED
      BY <3>2, <3>3 DEF Settled
  <2>5. CASE e = d
    BY <2>1, <2>2, <2>3, <2>5, Leaves
  <2> QED
    BY <2>4, <2>5
<1>5. ASSUME NEW d \in Drivers, Stops(d)
      PROVE  RowsMatch'
  <2>1. /\ UNCHANGED tasks /\ UNCHANGED <<reset, queue, apart>>
        /\ driver' = [driver EXCEPT ![d].active = FALSE, ![d].free = FALSE]
        /\ choosing' = choosing \ {d}
        /\ open' = [open EXCEPT ![d] = Nothing] /\ open[d].does = "stops"
    BY <1>5 DEF Stops, redis, admin
  <2>2. /\ ~driver'[d].active /\ open'[d] = Nothing
        /\ \A e \in Drivers \ {d} : driver'[e] = driver[e] /\ open'[e] = open[e]
    BY <2>1 DEF DriverRec
  <2>3. d \notin apart' => Settled(d)'
    BY <1>0, <2>1, <2>2, HasLeft DEF Leaving
  <2> QED
    BY <2>1, <2>2, <2>3, OnlyHis
<1>6. ASSUME NEW d \in Drivers, RollsBack(d)
      PROVE  RowsMatch'
  <2>1. \A e \in Drivers \ {d} : open'[e] = open[e]
    BY <1>6 DEF RollsBack
  <2> QED
    BY <1>6, <2>1, OnlyHis DEF RollsBack, ApartIf, rows, redis, admin
<1> QED
  BY <1>1, <1>2, <1>3, <1>4, <1>5, <1>6 DEF Presses

--------------------------------------------------------------------------------

LEMMA WorksMatch ==
  ASSUME Typed, RowsMatch, Works
  PROVE  RowsMatch'
<1> TasksTyped /\ QueuesTyped
  BY DEF Typed
<1>0. \A d \in Drivers : d \notin apart => Settled(d)
  BY DEF RowsMatch
\* Rows and queues stay: a task goes on or comes back
<1>1. ASSUME UNCHANGED <<driver, open, choosing, queue>>, apart \subseteq apart',
             \A e \in Drivers \ apart', r \in Routes :
               /\ AddDue(e, r) => AddDue(e, r)'
               /\ InQueue(e, r) /\ RemovalDue(e, r) => RemovalDue(e, r)'
      PROVE  RowsMatch'
  <2> SUFFICES ASSUME NEW e \in Drivers, e \notin apart'
               PROVE  Settled(e)'
    BY DEF RowsMatch
  <2>1. Settled(e)
    BY <1>0, <1>1
  <2>2. \A r \in Routes : /\ InQueue(e, r)' <=> InQueue(e, r)
                          /\ Placed(e, r)' <=> Placed(e, r)
    BY <1>1, SamePlaced DEF InQueue
  <2> QED
    BY <1>1, <2>1, <2>2, Untouched
<1>2. ASSUME NEW d \in Drivers, NEW r \in Routes, AddReads(d, r)
      PROVE  RowsMatch'
  <2>1. PICK n : adding' = adding \cup {[driver |-> d, route |-> r, score |-> n]}
    BY <1>2 DEF AddReads
  <2>2. PICK u : /\ adding' = adding \cup {u}
                 /\ u.driver = d /\ u.route = r
    <3>1. LET u == [driver |-> d, route |-> r, score |-> n] IN u.driver = d /\ u.route = r
      OBVIOUS
    <3> QED
      BY <2>1, <3>1
  <2>3. /\ \A e \in Drivers, q \in Routes : e # d \/ q # r => adds'[e][q] = adds[e][q]
        /\ UNCHANGED <<driver, open, choosing, queue, removals, removing, reset, apart>>
    BY <1>2 DEF AddReads, TasksTyped, rows, redis, admin
  <2>4. \A e \in Drivers, q \in Routes : /\ AddDue(e, q) => AddDue(e, q)'
                                         /\ RemovalDue(e, q) => RemovalDue(e, q)'
    BY <2>2, <2>3 DEF AddDue, RemovalDue
  <2> QED
    BY <1>1, <2>3, <2>4
<1>3. ASSUME NEW t \in adding, AddWrites(t)
      PROVE  RowsMatch'
  <2> DEFINE d == t.driver
             r == t.route
  <2>1. d \in Drivers /\ r \in Routes /\ t.score \in Scores /\ t.score # None
    BY ConstantsAssumption DEF TasksTyped, AddRec, Scores
  <2>2. PICK written \in BOOLEAN, again \in BOOLEAN :
          /\ queue' = IF written THEN [queue EXCEPT ![r][d] = t.score] ELSE queue
          /\ adds' = IF again THEN AddPublished(d, r) ELSE adds
          /\ ApartIf(d, IF written THEN Stray(d, r) ELSE ~again)
    BY <1>3 DEF AddWrites
  <2>3. /\ UNCHANGED <<driver, open, choosing, removals, removing, reset>>
        /\ adding' = adding \ {t} /\ adds \in [Drivers -> [Routes -> Nat]]
    BY <1>3 DEF AddWrites, rows, admin, TasksTyped
  <2>4. \A e \in Drivers, q \in Routes :
          /\ (e # d \/ q # r) /\ AddDue(e, q) => AddDue(e, q)'
          /\ RemovalDue(e, q)' <=> RemovalDue(e, q)
          /\ Placed(e, q)' <=> Placed(e, q)
    <3>1. \A e \in Drivers, q \in Routes : e # d \/ q # r => adds'[e][q] = adds[e][q]
      BY <2>1, <2>2, <2>3 DEF AddPublished
    <3>2. \A e \in Drivers, q \in Routes : (e # d \/ q # r) /\ AddDue(e, q) => AddDue(e, q)'
      BY <2>3, <3>1 DEF AddDue
    <3>3. \A e \in Drivers, q \in Routes : RemovalDue(e, q)' <=> RemovalDue(e, q)
      BY <2>3 DEF RemovalDue
    <3>4. \A e \in Drivers, q \in Routes : Placed(e, q)' <=> Placed(e, q)
      BY <2>3, SamePlaced
    <3> QED
      BY <3>2, <3>3, <3>4
  <2>5. again => AddDue(d, r)'
    <3>1. again => adds'[d][r] = adds[d][r] + 1 /\ adds[d][r] \in Nat
      BY <2>1, <2>2, <2>3 DEF AddPublished
    <3> QED
      BY <3>1 DEF AddDue
  <2>6. /\ \A e \in Drivers, q \in Routes :
             e # d \/ q # r => (InQueue(e, q)' <=> InQueue(e, q))
        /\ InQueue(d, r) \/ written => InQueue(d, r)'
        /\ ~written => (InQueue(d, r)' <=> InQueue(d, r))
    <3>1. CASE written
      BY <2>1, <2>2, <3>1 DEF InQueue, QueuesTyped
    <3>2. CASE ~written
      BY <2>2, <3>2 DEF InQueue
    <3> QED
      BY <3>1, <3>2
  <2> SUFFICES ASSUME NEW e \in Drivers, e \notin apart'
               PROVE  Settled(e)'
    BY DEF RowsMatch
  <2>7. Settled(e) /\ (e = d => (written /\ ~Stray(d, r)) \/ (~written /\ again))
    BY <1>0, <2>2 DEF ApartIf
  <2>8. ASSUME NEW q \in Routes
        PROVE  /\ InQueue(e, q) => InQueue(e, q)'
               /\ AddDue(e, q) => InQueue(e, q)' \/ AddDue(e, q)'
               /\ InQueue(e, q)' => InQueue(e, q) \/ Placed(e, q) \/ RemovalDue(e, q)
    BY <2>4, <2>5, <2>6, <2>7 DEF Stray
  <2> QED
    BY <2>3, <2>4, <2>7, <2>8, Untouched
<1>5. ASSUME NEW d \in Drivers, RemovalStarts(d)
      PROVE  RowsMatch'
  <2>1. PICK left \in Scanned : removing' = removing \cup {[driver |-> d, left |-> left]}
    BY <1>5 DEF RemovalStarts
  <2>2. PICK u : u.driver = d /\ u.left = left /\ removing' = removing \cup {u}
    <3>1. LET u == [driver |-> d, left |-> left] IN u.driver = d /\ u.left = left
      OBVIOUS
    <3> QED
      BY <2>1, <3>1
  <2>3. /\ \A e \in Drivers \ {d} : removals'[e] = removals[e]
        /\ UNCHANGED <<driver, open, choosing, queue, adds, adding, reset, apart>>
    BY <1>5 DEF RemovalStarts, rows, redis, admin
  <2>4. \A r \in Routes : InQueue(d, r) => r \in left
    BY DEF Scanned
  <2>5. \A e \in Drivers, r \in Routes :
          /\ AddDue(e, r) => AddDue(e, r)'
          /\ InQueue(e, r) /\ RemovalDue(e, r) => RemovalDue(e, r)'
    BY <2>2, <2>3, <2>4 DEF AddDue, RemovalDue
  <2> QED
    BY <1>1, <2>3, <2>5
<1>6. ASSUME NEW t \in removing, RemovalEnds(t)
      PROVE  RowsMatch'
  <2>1. t.driver \in Drivers /\ removals \in [Drivers -> Nat]
    BY DEF TasksTyped, RemovalRec
  <2>2. /\ removing' = removing \ {t}
        /\ UNCHANGED <<driver, open, choosing, queue, adds, adding, reset>>
        /\ apart \subseteq apart'
    BY <1>6 DEF RemovalEnds, ApartIf, rows, redis, admin
  <2>3. \A e \in Drivers \ apart', r \in Routes :
          InQueue(e, r) /\ RemovalDue(e, r) => RemovalDue(e, r)'
    <3>1. CASE t.left = {} /\ UNCHANGED removals
      BY <2>2, <3>1 DEF RemovalDue
    <3>2. CASE ApartIf(t.driver, TRUE) /\ UNCHANGED removals
      BY <2>2, <3>2 DEF RemovalDue, ApartIf
    <3>3. CASE removals' = RemovalPublished(t.driver)
      <4>1. /\ removals'[t.driver] > 0
            /\ \A e \in Drivers \ {t.driver} : removals'[e] = removals[e]
        BY <2>1, <3>3 DEF RemovalPublished
      <4> QED
        BY <2>2, <4>1 DEF RemovalDue
    <3> QED
      BY <1>6, <3>1, <3>2, <3>3 DEF RemovalEnds
  <2>4. \A e \in Drivers, r \in Routes : AddDue(e, r) => AddDue(e, r)'
    BY <2>2 DEF AddDue
  <2> QED
    BY <1>1, <2>2, <2>3, <2>4
\* The place it takes is one he no longer has, or will get again, or he is apart
<1>7. ASSUME NEW t \in removing, NEW r \in Routes, RemovalStep(t, r)
      PROVE  RowsMatch'
  <2> DEFINE d == t.driver
  <2>1. d \in Drivers /\ t.left \subseteq Routes /\ t \in RemovalRec
    BY DEF TasksTyped, RemovalRec
  <2>2. PICK u : /\ u = [t EXCEPT !.left = @ \ {r}]
                 /\ removing' = (removing \ {t}) \cup {u}
    BY <1>7 DEF RemovalStep
  <2>3. u.driver = d /\ u.left = t.left \ {r}
    BY <2>1, <2>2 DEF RemovalRec
  <2>4. /\ UNCHANGED <<driver, open, choosing, adds, adding, removals, reset>>
        /\ queue' = Without(d, r) /\ ApartIf(d, Belongs(d, r))
    BY <1>7 DEF RemovalStep, rows, admin
  <2>5. /\ \A e \in Drivers \ {d}, q \in Routes : InQueue(e, q)' <=> InQueue(e, q)
        /\ \A q \in Routes : InQueue(d, q)' <=> InQueue(d, q) /\ q # r
    BY <2>1, <2>4, OutOfQueue
  <2>6. \A e \in Drivers, q \in Routes :
          /\ AddDue(e, q)' <=> AddDue(e, q)
          /\ e # d \/ q # r => (RemovalDue(e, q)' <=> RemovalDue(e, q))
          /\ Placed(e, q)' <=> Placed(e, q)
    <3>1. \A e \in Drivers, q \in Routes :
            /\ AddDue(e, q)' <=> AddDue(e, q)
            /\ e # d \/ q # r => (RemovalDue(e, q)' <=> RemovalDue(e, q))
      BY <2>2, <2>3, <2>4 DEF AddDue, RemovalDue
    <3>2. \A e \in Drivers, q \in Routes : Placed(e, q)' <=> Placed(e, q)
      BY <2>4, SamePlaced
    <3> QED
      BY <3>1, <3>2
  <2> SUFFICES ASSUME NEW e \in Drivers, e \notin apart'
               PROVE  Settled(e)'
    BY DEF RowsMatch
  <2>7. Settled(e) /\ (e = d => ~Belongs(d, r))
    BY <1>0, <2>4 DEF ApartIf
  <2>8. \A q \in Routes : Placed(e, q) /\ InQueue(e, q) => InQueue(e, q)' \/ AddDue(e, q)'
    BY <2>5, <2>6, <2>7 DEF Belongs
  <2>9. \A q \in Routes : InQueue(e, q)' => /\ InQueue(e, q)
                                            /\ RemovalDue(e, q) => RemovalDue(e, q)'
    BY <2>5, <2>6
  <2> QED
    BY <2>4, <2>6, <2>7, <2>8, <2>9, Untouched
<1> QED
  BY <1>2, <1>3, <1>5, <1>6, <1>7 DEF Works

--------------------------------------------------------------------------------

LEMMA AdministersMatch ==
  ASSUME Typed, RowsMatch, Administers
  PROVE  RowsMatch'
<1> /\ driver \in [Drivers -> DriverRec] /\ open \in [Drivers -> OpenRec]
    /\ QueuesTyped /\ ToggleFits /\ OpenFits
  BY DEF Typed, RowsTyped, OpenFits
<1>0. \A d \in Drivers : d \notin apart => Settled(d)
  BY DEF RowsMatch
\* What counts in the rows, and all else that counts, stays
<1>1. ASSUME NEW d \in Drivers, UNCHANGED tasks,
             UNCHANGED <<open, choosing, queue, reset, apart>>,
             \A e \in Drivers \ {d} : driver'[e] = driver[e],
             driver'[d].active = driver[d].active, driver'[d].free = driver[d].free,
             driver'[d].route = driver[d].route
      PROVE  RowsMatch'
  <2>1. d \notin apart' => Settled(d)'
    BY <1>0, <1>1, SameRow
  <2> QED
    BY <1>1, <2>1, OnlyHis
<1>2. ASSUME NEW d \in Drivers,
             \/ \E on \in BOOLEAN : ToggleCommits(d, on)
             \/ Unblock(d) \/ AdminReads(d)
      PROVE  RowsMatch'
  <2>1. UNCHANGED tasks /\ UNCHANGED <<open, choosing, queue, reset, apart>>
    BY <1>2 DEF ToggleCommits, Unblock, AdminReads, rows, redis, admin
  <2>2. \/ driver' = driver
        \/ \E on \in BOOLEAN : driver' = [driver EXCEPT ![d].priority = on]
        \/ driver' = [driver EXCEPT ![d].blocked = FALSE]
    BY <1>2 DEF ToggleCommits, Unblock, AdminReads, rows
  <2>3. /\ \A e \in Drivers \ {d} : driver'[e] = driver[e]
        /\ driver'[d].active = driver[d].active /\ driver'[d].free = driver[d].free
        /\ driver'[d].route = driver[d].route
    BY <2>2 DEF DriverRec
  <2> QED
    BY <1>1, <2>1, <2>3
<1>3. CASE ToggleReads
  <2>1. toggle.driver \in Drivers
    BY <1>3 DEF ToggleReads, ToggleFits
  <2>2. UNCHANGED tasks /\ UNCHANGED <<driver, open, choosing, queue, reset, apart>>
    BY <1>3 DEF ToggleReads, rows, redis
  <2> QED
    BY <1>1, <2>1, <2>2
\* The score is written over another, or puts him back where he has a place or is about to
\* lose it, or he is apart
<1>4. CASE ToggleWrites
  <2>1. PICK d \in Drivers, r \in Routes, n \in Scores :
          /\ d = toggle.driver /\ r = toggle.route /\ n # None
          /\ queue' = [queue EXCEPT ![r][d] = n]
          /\ ApartIf(d, ~InQueue(d, r) /\ Stray(d, r))
    <3>1. /\ toggle.driver \in Drivers /\ toggle.route \in Routes /\ toggle.score \in Scores
          /\ queue' = [queue EXCEPT ![toggle.route][toggle.driver] = toggle.score]
          /\ ApartIf(toggle.driver, /\ ~InQueue(toggle.driver, toggle.route)
                                    /\ Stray(toggle.driver, toggle.route))
      BY <1>4 DEF ToggleWrites, ToggleFits
    <3>2. toggle.score # None
      BY <3>1, ConstantsAssumption DEF Scores
    <3> QED
      BY <3>1, <3>2
  <2>2. UNCHANGED <<driver, choosing, open, reset>> /\ UNCHANGED tasks
    BY <1>4 DEF ToggleWrites, rows
  <2> SUFFICES ASSUME NEW e \in Drivers, e \notin apart'
               PROVE  Settled(e)'
    BY DEF RowsMatch
  <2>3. Settled(e) /\ (e = d => InQueue(d, r) \/ ~Stray(d, r))
    BY <1>0, <2>1 DEF ApartIf
  <2>4. /\ \A q \in Routes : e # d \/ q # r => (InQueue(e, q)' <=> InQueue(e, q))
        /\ \A q \in Routes : InQueue(e, q) => InQueue(e, q)'
    BY <2>1 DEF InQueue, QueuesTyped
  <2>5. \A q \in Routes : InQueue(e, q)' => InQueue(e, q) \/ Placed(e, q) \/ RemovalDue(e, q)
    BY <2>3, <2>4 DEF Stray
  <2>6. \A q \in Routes : Placed(e, q)' <=> Placed(e, q)
    BY <2>2, SamePlaced
  <2> QED
    BY <2>2, <2>3, <2>4, <2>5, <2>6, SameDue, Untouched
<1>5. ASSUME NEW d \in Drivers, Block(d)
      PROVE  RowsMatch'
  <2>1. /\ ~driver'[d].active
        /\ \A e \in Drivers \ {d} : driver'[e] = driver[e]
    BY <1>5 DEF Block, DriverRec
  <2>2. UNCHANGED tasks /\ UNCHANGED <<open, choosing, queue, reset>> /\ Free(d)
    BY <1>5 DEF Block, redis, admin
  <2>3. d \notin apart' => d \notin apart /\ ~driver[d].active
    BY <1>5 DEF Block, ApartIf
  <2>4. d \notin apart' => Settled(d)'
    BY <1>0, <2>1, <2>2, <2>3, GoesOffQuietly
  <2> QED
    BY <1>5, <2>1, <2>2, <2>4, OnlyHis DEF Block, ApartIf
<1>6. ASSUME NEW d \in Drivers, AdminOff(d)
      PROVE  RowsMatch'
  <2>1. /\ UNCHANGED tasks /\ UNCHANGED <<driver, choosing, reset>>
        /\ queue' = IF panel.route = None THEN queue ELSE Without(d, panel.route)
        /\ ApartIf(d, panel.route # driver[d].route)
        /\ open' = [open EXCEPT ![d] = [does |-> "goes", route |-> None]]
        /\ open[d].does = "nothing"
    BY <1>6 DEF AdminOff, rows, Free, Nothing
  <2>2. /\ open'[d].does = "goes"
        /\ \A e \in Drivers \ {d} : open'[e] = open[e]
    <3>1. open'[d] = [does |-> "goes", route |-> None]
      BY <2>1
    <3> QED
      BY <2>1, <3>1
  <2>3. panel.route \in Routes \cup {None}
    BY DEF OpenFits, PanelRec
  <2>4. queue' = queue \/ \E r \in Routes : queue' = Without(d, r)
    BY <2>1, <2>3
  <2>5. ASSUME d \notin apart'
        PROVE  Settled(d)'
    <3>1. Settled(d) /\ panel.route = driver[d].route
      BY <1>0, <2>1, <2>5 DEF ApartIf
    \* The only queue he can be in for good is that of his route
    <3>2. \A q \in Routes : InQueue(d, q) => driver[d].route = q \/ RemovalDue(d, q)
      BY <2>1, <3>1 DEF Settled, Placing, Placed, Joining
    <3>3. \A q \in Routes : InQueue(d, q)' => RemovalDue(d, q)
      <4>1. CASE panel.route = None
        BY <2>1, <3>1, <3>2, <4>1, ConstantsAssumption DEF InQueue
      <4>2. CASE panel.route \in Routes
        <5>1. queue' = Without(d, panel.route)
          BY <2>1, <4>2, ConstantsAssumption
        <5> QED
          BY <3>1, <3>2, <4>2, <5>1, OutOfQueue
      <4> QED
        BY <2>3, <4>1, <4>2
    <3>4. d \in choosing' => ~driver[d].active
      BY <2>1, <3>1 DEF Settled, ChoosesOffline
    <3>5. \A q \in Routes : InQueue(d, q)' => RemovalDue(d, q)'
      BY <2>1, <3>3, SameDue
    <3> QED
      BY <2>1, <2>2, <3>4, <3>5, Leaves
  <2> QED
    BY <2>1, <2>2, <2>4, <2>5, OnlyHis DEF ApartIf
<1>7. ASSUME NEW d \in Drivers, Goes(d)
      PROVE  RowsMatch'
  <2>1. /\ UNCHANGED tasks /\ UNCHANGED <<reset, choosing, queue, apart>>
        /\ open' = [open EXCEPT ![d] = Nothing] /\ open[d].does = "goes"
        /\ driver' = [driver EXCEPT ![d] = [Offline(@) EXCEPT !.route = None]]
    BY <1>7 DEF Goes, redis, admin
  <2>2. /\ open'[d] = Nothing /\ ~driver'[d].active
        /\ \A e \in Drivers \ {d} : driver'[e] = driver[e] /\ open'[e] = open[e]
    BY <2>1 DEF DriverRec, Offline
  <2>3. d \notin apart' => Settled(d)'
    BY <1>0, <2>1, <2>2, HasLeft DEF Leaving
  <2> QED
    BY <2>1, <2>2, <2>3, OnlyHis
<1>8. ASSUME NEW d \in Drivers, NEW r \in Routes, AdminOn(d, r)
      PROVE  RowsMatch'
  <2>1. \A e \in Drivers \ {d} : driver'[e] = driver[e]
    BY <1>8 DEF AdminOn
  <2> QED
    BY <1>8, <2>1, OnlyHis DEF AdminOn, ApartIf, redis
\* Who is put offline is in queues that are still to be deleted
<1>9. CASE ResetRows
  <2>1. /\ UNCHANGED <<choosing, queue, open, apart>> /\ UNCHANGED tasks
        /\ reset = {} /\ reset' \in Scanned
    BY <1>9 DEF ResetRows, redis
  <2> SUFFICES ASSUME NEW e \in Drivers, e \notin apart'
               PROVE  Settled(e)'
    BY DEF RowsMatch
  <2>2. Settled(e)
    BY <1>0, <2>1
  <2>3. \A q \in Routes : /\ InQueue(e, q)' <=> InQueue(e, q)
                          /\ AddDue(e, q)' <=> AddDue(e, q)
                          /\ RemovalDue(e, q) => RemovalDue(e, q)'
                          /\ InQueue(e, q) => RemovalDue(e, q)'
    BY <2>1 DEF InQueue, AddDue, RemovalDue, tasks, Scanned
  <2>4. CASE driver'[e] = driver[e]
    <3>1. \A q \in Routes : Placed(e, q)' <=> Placed(e, q)
      BY <2>1, <2>4, SamePlaced
    <3> QED
      BY <2>1, <2>2, <2>3, <2>4, <3>1, Untouched
  <2>5. CASE driver'[e] # driver[e]
    <3>1. Free(e) /\ ~driver'[e].active
      <4>1. /\ driver[e].active /\ ~driver[e].onTrip /\ Free(e)
            /\ driver'[e] = [Offline(driver[e]) EXCEPT !.route = None]
        BY <1>9, <2>5 DEF ResetRows
      <4> QED
        BY <4>1 DEF Offline, DriverRec
    <3>2. open'[e].does = "nothing"
      BY <2>1, <3>1 DEF Free, Nothing
    <3>3. \A q \in Routes : ~Placed(e, q)'
      BY <3>1, <3>2 DEF Placed, Joining
    <3>4. Placing(e)' /\ ChoosesOffline(e)'
      BY <2>3, <3>1, <3>3 DEF Placing, ChoosesOffline
    <3> QED
      BY <3>4 DEF Settled
  <2> QED
    BY <2>4, <2>5
\* Who loses a place he should have is apart
<1>10. ASSUME NEW r \in Routes, ResetDeletes(r)
       PROVE  RowsMatch'
  <2>1. /\ UNCHANGED <<driver, choosing, open>> /\ UNCHANGED tasks
        /\ r \in reset /\ reset' = reset \ {r}
        /\ apart' = apart \cup {e \in Drivers : Belongs(e, r)}
    BY <1>10 DEF ResetDeletes, rows
  <2>2. \A e \in Drivers, q \in Routes : InQueue(e, q)' <=> InQueue(e, q) /\ q # r
    BY <1>10 DEF ResetDeletes, QueuesTyped, InQueue
  <2> SUFFICES ASSUME NEW e \in Drivers, e \notin apart'
               PROVE  Settled(e)'
    BY DEF RowsMatch
  <2>3. Settled(e) /\ ~Belongs(e, r)
    BY <1>0, <2>1
  <2>4. \A q \in Routes : /\ AddDue(e, q)' <=> AddDue(e, q)
                          /\ q # r => (RemovalDue(e, q)' <=> RemovalDue(e, q))
                          /\ Placed(e, q)' <=> Placed(e, q)
    <3>1. \A q \in Routes : /\ AddDue(e, q)' <=> AddDue(e, q)
                            /\ q # r => (RemovalDue(e, q)' <=> RemovalDue(e, q))
      BY <2>1 DEF AddDue, RemovalDue, tasks
    <3>2. \A q \in Routes : Placed(e, q)' <=> Placed(e, q)
      BY <2>1, SamePlaced
    <3> QED
      BY <3>1, <3>2
  <2>5. \A q \in Routes : Placed(e, q) /\ InQueue(e, q) => InQueue(e, q)' \/ AddDue(e, q)'
    BY <2>2, <2>3, <2>4 DEF Belongs
  <2> QED
    BY <2>1, <2>2, <2>3, <2>4, <2>5, Untouched
<1>11. CASE ResetFails
  <2>1. /\ UNCHANGED <<driver, choosing, open, queue>> /\ UNCHANGED tasks
        /\ reset' = {}
        /\ apart' = apart \cup {e \in Drivers : \E r \in reset : InQueue(e, r)}
    BY <1>11 DEF ResetFails, rows, redis
  <2> SUFFICES ASSUME NEW e \in Drivers, e \notin apart'
               PROVE  Settled(e)'
    BY DEF RowsMatch
  <2>2. Settled(e) /\ \A q \in reset : ~InQueue(e, q)
    BY <1>0, <2>1
  <2>3. \A q \in Routes : /\ AddDue(e, q)' <=> AddDue(e, q)
                          /\ InQueue(e, q)' <=> InQueue(e, q)
                          /\ InQueue(e, q) /\ RemovalDue(e, q) => RemovalDue(e, q)'
    BY <2>1, <2>2 DEF AddDue, RemovalDue, InQueue, tasks
  <2>4. \A q \in Routes : Placed(e, q)' <=> Placed(e, q)
    BY <2>1, SamePlaced
  <2> QED
    BY <2>1, <2>2, <2>3, <2>4, Untouched
<1> QED
  BY <1>2, <1>3, <1>4, <1>5, <1>6, <1>7, <1>8, <1>9, <1>10, <1>11 DEF Administers

--------------------------------------------------------------------------------

LEMMA InitMatch ==
  ASSUME Init
  PROVE  RowsMatch
<1> SUFFICES ASSUME NEW d \in Drivers
             PROVE  Settled(d)
  BY DEF RowsMatch
<1>1. ~driver[d].active /\ d \notin choosing /\ open[d].does = "nothing"
  BY DEF Init, Nothing
<1>2. \A r \in Routes : ~Placed(d, r) /\ ~InQueue(d, r)
  BY <1>1 DEF Init, Placed, Joining, InQueue
<1> QED
  BY <1>1, <1>2 DEF Settled, Placing, ChoosesOffline

LEMMA StepMatch ==
  ASSUME Typed, RowsMatch, [Next]_vars
  PROVE  RowsMatch'
<1>1. CASE UNCHANGED vars
  <2>1. UNCHANGED tasks /\ UNCHANGED <<driver, choosing, open, queue, reset, apart>>
    BY <1>1 DEF vars, rows, redis, admin
  <2> SUFFICES ASSUME NEW e \in Drivers, e \notin apart'
               PROVE  Settled(e)'
    BY DEF RowsMatch
  <2> QED
    BY <2>1, SameRow DEF RowsMatch
<1>2. CASE Next
  BY <1>2, PressesMatch, WorksMatch, RidesMatch, AdministersMatch DEF Next
<1> QED
  BY <1>1, <1>2

--------------------------------------------------------------------------------

\* Rows, queues and tasks keep to their types whatever handlers, tasks and admins do at
\* the same time; in particular the priority offset is never in a score twice, though
\* toggle_driver_priority reads the score and writes it in two steps.
THEOREM TypeCorrect == Spec => []TypeOK
<1>1. Typed /\ [Next]_vars => Typed'
  BY StepTyped
<1> QED
  BY InitTyped, TypedImplies, <1>1, PTL DEF Spec

LEMMA AlwaysMatch == Spec => []RowsMatch
<1>1. Init => Typed /\ RowsMatch
  BY InitTyped, InitMatch
<1>2. (Typed /\ RowsMatch) /\ [Next]_vars => (Typed /\ RowsMatch)'
  BY StepTyped, StepMatch
<1> QED
  BY <1>1, <1>2, PTL DEF Spec

\* The driver whom seats_selected has put online is in the queue of his route, or
\* add_driver_to_queue_task will put him there, though workers run the tasks in any order
\* and before the handler that has published them commits, and acceptances, trips, admins
\* and the nightly reset write his row and his place meanwhile: but for those to whom one
\* of the things has happened that ApartIf names, until they stop.
THEOREM WaitingAreQueued == Spec => []WaitingIsQueued
<1>1. RowsMatch => WaitingIsQueued
  BY RowsMatchImplies
<1> QED
  BY AlwaysMatch, <1>1, PTL

\* Who stands in a queue is active on its route and has a seat, or
\* remove_driver_from_queue_task or the nightly reset is still to reach that queue, or his
\* row is about to be committed, with the same exception: no step of a trip, no acceptance
\* that fills his car and no edit of an admin leaves him there without a seat.
THEOREM QueuedAreOnline == Spec => []QueuedIsOnline
<1>1. RowsMatch => QueuedIsOnline
  BY RowsMatchImplies
<1> QED
  BY AlwaysMatch, <1>1, PTL

--------------------------------------------------------------------------------
(* Booking, which the run has beside the queues: what BookingProofs shows of it, *)
(* for the run's catalogue                                                       *)

BP == INSTANCE BookingProofs WITH Way <- OneWay

Booked == BP!Fits /\ BP!Kept /\ BP!NoDanglingRoute

LEMMA SameInit == BK!Init => BP!Init
  BY DEF BK!Init, BP!Init, BK!Offered, BP!Offered, BK!Rows, BP!Rows, BK!Empty, BP!Empty,
         BK!Idle, BP!Idle, BK!NoOrder, BP!NoOrder

LEMMA SameNext == BK!Next => BP!Next
  BY DEF BK!talk, BK!store, BK!driver, BK!vars, BK!Born, BK!Rows, BK!Offered,
         BK!Empty, BK!Idle, BK!NoOrder, BK!At, BK!Goes, BK!Ends, BK!Clears, BK!Fault,
         BK!Works, BK!Meets, BK!StartBooking, BK!Updates, BK!Arrives,
         BK!RouteSelected, BK!LocationReceived, BK!DescriptionReceived,
         BK!CountSelected, BK!Writes, BK!Asks, BK!Leaves, BK!Fresh, BK!Draws,
         BK!Misses, BK!Finalizes, BK!KeepsKey, BK!AnyRoute, BK!RouteThere, BK!Inserts,
         BK!Commits, BK!Publishes, BK!RecordsOrder, BK!Tells, BK!ClearsData, BK!Crash,
         BK!Chats, BK!DriverStarts, BK!DriverLocates, BK!DriverChooses,
         BK!DriverTakesSeats, BK!DriverStops, BK!Change, BK!CreateRoute,
         BK!ToggleRoute, BK!UnsetRoute, BK!DeleteRoute, BK!Talks, BK!Passenger,
         BK!Driver, BK!Office, BK!Next, BP!talk, BP!store, BP!driver, BP!vars,
         BP!Born, BP!Rows, BP!Offered, BP!Empty, BP!Idle, BP!NoOrder, BP!At, BP!Goes,
         BP!Ends, BP!Clears, BP!Fault, BP!Works, BP!Meets, BP!StartBooking,
         BP!Updates, BP!Arrives, BP!RouteSelected, BP!LocationReceived,
         BP!DescriptionReceived, BP!CountSelected, BP!Writes, BP!Asks, BP!Leaves,
         BP!Fresh, BP!Draws, BP!Misses, BP!Finalizes, BP!KeepsKey, BP!AnyRoute,
         BP!RouteThere, BP!Inserts, BP!Commits, BP!Publishes, BP!RecordsOrder,
         BP!Tells, BP!ClearsData, BP!Crash, BP!Chats, BP!DriverStarts,
         BP!DriverLocates, BP!DriverChooses, BP!DriverTakesSeats, BP!DriverStops,
         BP!Change, BP!CreateRoute, BP!ToggleRoute, BP!UnsetRoute, BP!DeleteRoute,
         BP!Talks, BP!Passenger, BP!Driver, BP!Office, BP!Next

LEMMA SameProperties ==
  ASSUME BP!ConstantsFit, Booked
  PROVE  BK!TypeOK /\ BK!OneOrderPerDialogue /\ BK!NoDanglingRoute
<1>1. BP!TypeOK /\ BP!OneOrderPerDialogue /\ BP!NoDanglingRoute
  BY BP!FitsImplies, BP!KeptImplies DEF Booked
<1>2. BK!TypeOK
  BY <1>1 DEF BK!TypeOK, BP!TypeOK
<1>3. BK!OneOrderPerDialogue
  BY <1>1 DEF BK!OneOrderPerDialogue, BP!OneOrderPerDialogue
<1>4. BK!NoDanglingRoute
  BY <1>1 DEF BK!NoDanglingRoute, BP!NoDanglingRoute, BK!Rows, BP!Rows
<1> QED
  BY <1>2, <1>3, <1>4

LEMMA BookedAlways ==
  ASSUME BP!ConstantsFit
  PROVE  PartsSpec => [](part # "queue" => Booked)
<1>1. PartsInit => (part # "queue" => Booked)
  BY SameInit, BP!InitFits, BP!InitKept DEF PartsInit, Booked
<1>2. (part # "queue" => Booked) /\ [PartsNext]_allVars => (part # "queue" => Booked)'
  <2> SUFFICES ASSUME part' # "queue", part # "queue" => Booked, [PartsNext]_allVars
               PROVE  Booked'
    OBVIOUS
  <2>1. part # "queue" /\ (BP!Next \/ UNCHANGED BP!vars)
    <3>1. CASE PartsNext
      BY <3>1, SameNext DEF PartsNext, BK!Next
    <3>2. CASE UNCHANGED allVars
      BY <3>2 DEF allVars, booking, BP!vars, BP!talk, BP!store, BP!driver
    <3> QED
      BY <3>1, <3>2
  <2>2. [BP!Next]_(BP!vars)
    BY <2>1
  <2> QED
    BY <2>1, <2>2, BP!StepFits, BP!StepKept, BP!OrdersOnRoutes, BP!DriverOnRoute
       DEF Booked, BP!NoDanglingRoute
<1> QED
  BY <1>1, <1>2, PTL DEF PartsSpec

--------------------------------------------------------------------------------
(* Theorems about the run *)

\* The queues and the dialogues that choose a route keep their types, each in its part
THEOREM PartsTypeCorrect ==
  ASSUME BP!ConstantsFit
  PROVE  PartsSpec => []PartsTypeOK
<1>1. PartsInit => Init
  BY DEF PartsInit
<1>2. [PartsNext]_allVars => [Next]_vars
  BY DEF PartsNext, allVars
<1>3. PartsSpec => Spec
  BY <1>1, <1>2, PTL DEF PartsSpec, Spec
<1>4. TypeOK /\ (part # "queue" => Booked) => PartsTypeOK
  BY SameProperties DEF PartsTypeOK
<1> QED
  BY <1>3, <1>4, TypeCorrect, BookedAlways, PTL

\* One dialogue stores one order, however often its last answer is pressed again after an
\* error, a cancelled conversation or a restart, unless two of its messages were handled
\* at once (BookingProofs, for any catalogue)
THEOREM OneOrder ==
  ASSUME BP!ConstantsFit
  PROVE  PartsSpec => []OneOrderPerDialogue
<1>1. (part # "queue" => Booked) => OneOrderPerDialogue
  BY SameProperties DEF OneOrderPerDialogue
<1> QED
  BY <1>1, BookedAlways, PTL

\* A stored order and an online driver are on a route that exists, whatever the office
\* deletes while they choose, but for a driver whose route was deleted under him
\* (BookingProofs, for any catalogue)
THEOREM RoutesAreThere ==
  ASSUME BP!ConstantsFit
  PROVE  PartsSpec => []NoDanglingRoute
<1>1. (part # "queue" => Booked) => NoDanglingRoute
  BY SameProperties DEF NoDanglingRoute
<1> QED
  BY <1>1, BookedAlways, PTL
================================================================================
