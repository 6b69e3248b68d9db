----------------------------- MODULE MatchingProofs -----------------------------
(***************************************************************************)
(* Proofs about Matching: its types, that the search for a driver does not *)
(* lose an order, and that it does not take an accepted order away.        *)
(***************************************************************************)
EXTENDS Matching, TLAPS

--------------------------------------------------------------------------------
(* Tasks in the bag *)

\* What Becomes does to the set of tasks: t may have further copies
LEMMA TaskReplaced ==
  ASSUME IsABag(tasks), NEW t \in BagToSet(tasks), NEW S, Becomes(t, S)
  PROVE  /\ IsABag(tasks')
         /\ BagToSet(tasks') \subseteq BagToSet(tasks) \cup S
         /\ S \subseteq BagToSet(tasks')
         /\ BagToSet(tasks) \ {t} \subseteq BagToSet(tasks')
<1>1. tasks \in [DOMAIN tasks -> {n \in Nat : n > 0}] /\ t \in DOMAIN tasks
  BY DEF IsABag, BagToSet
<1>2. PICK B : B = tasks (-) SetToBag({t})
  OBVIOUS
<1>3. /\ DOMAIN tasks \ {t} \subseteq DOMAIN B /\ DOMAIN B \subseteq DOMAIN tasks
      /\ B \in [DOMAIN B -> {n \in Nat : n > 0}]
  BY <1>1, <1>2 DEF (-), SetToBag
<1>4. tasks' = [e \in DOMAIN B \cup S |->
                  (IF e \in DOMAIN B THEN B[e] ELSE 0) + (IF e \in S THEN 1 ELSE 0)]
  BY <1>2 DEF Becomes, (+), SetToBag
<1>5. DOMAIN tasks' = DOMAIN B \cup S
  BY <1>4
<1>6. tasks' \in [DOMAIN tasks' -> {n \in Nat : n > 0}]
  BY <1>3, <1>4
<1> QED
  BY <1>3, <1>5, <1>6 DEF IsABag, BagToSet

\* Tasks that are published
LEMMA TaskAdded ==
  ASSUME IsABag(tasks), NEW S, tasks' = tasks (+) SetToBag(S)
  PROVE  IsABag(tasks') /\ BagToSet(tasks') = BagToSet(tasks) \cup S
<1>1. tasks \in [DOMAIN tasks -> {n \in Nat : n > 0}]
  BY DEF IsABag
<1>2. tasks' = [e \in DOMAIN tasks \cup S |->
                  (IF e \in DOMAIN tasks THEN tasks[e] ELSE 0) + (IF e \in S THEN 1 ELSE 0)]
  BY DEF (+), SetToBag
<1>3. DOMAIN tasks' = DOMAIN tasks \cup S
  BY <1>2
<1>4. tasks' \in [DOMAIN tasks' -> {n \in Nat : n > 0}]
  BY <1>1, <1>2
<1> QED
  BY <1>3, <1>4 DEF IsABag, BagToSet

--------------------------------------------------------------------------------
(* Types *)

\* Every task that is to write to a driver, or about him, names one
DriverNamed(t) ==
  t.kind \in {"notify", "autoReject"} \/ t.pc \in {"picked", "locked", "published"}
    => t.driver \in Drivers

GoodTasks  == {t \in TaskSet : DriverNamed(t)}
TasksTyped == IsABag(tasks) /\ BagToSet(tasks) \subseteq GoodTasks

\* A day's rejects are counted by the one handler that found them below the limit
RejectsLeft ==
  \A d \in Drivers : /\ answering[d].step # "idle" => answering[d].order \in Orders
                     /\ answering[d].step = "unlocked" => rejects[d] < MaxRejects

\* The types of everything but the tasks
RowsTyped ==
  /\ status \in [Orders -> {"PENDING", "ACCEPTED", "CANCELLED"}]
  /\ holder \in [Orders -> Drivers \cup {None}]
  /\ seats \in [Drivers -> Nat]
  /\ queue \subseteq Drivers
  /\ offered \in [Drivers -> Orders \cup {None}]
  /\ skips \subseteq Drivers \X Orders
  /\ strikes \in [Drivers -> Nat]
  /\ rejects \in [Drivers -> 0..MaxRejects]
  /\ shown \subseteq Drivers \X Orders
  /\ answering \in [Drivers -> [order: Orders \cup {None},
                                step: {"idle", "accepted", "unlocked", "skipped"}]]
  /\ blocked \subseteq MayBlock
  /\ lost \subseteq Orders
  /\ faults \in 0..MaxFaults
  /\ RejectsLeft

Typed == RowsTyped /\ TasksTyped

LEMMA TypedImplies ==
  ASSUME Typed
  PROVE  TypeOK
  BY DEF Typed, RowsTyped, TasksTyped, GoodTasks, TypeOK

\* A step that writes nothing but what went wrong
LEMMA OnlyErrors ==
  ASSUME RowsTyped, UNCHANGED <<db, redis, chat>>, lost' \subseteq Orders,
         faults' \in 0..MaxFaults
  PROVE  RowsTyped'
  BY DEF RowsTyped, RejectsLeft, db, redis, chat

LEMMA RowsStay ==
  ASSUME RowsTyped, UNCHANGED <<db, redis, chat, lost, faults>>
  PROVE  RowsTyped'
<1>1. lost' \subseteq Orders /\ faults' \in 0..MaxFaults
  BY DEF RowsTyped
<1> QED
  BY <1>1, OnlyErrors

LEMMA TasksStayTyped ==
  ASSUME TasksTyped, NEW t \in BagToSet(tasks), NEW S \in SUBSET GoodTasks, Becomes(t, S)
  PROVE  TasksTyped'
  BY TaskReplaced DEF TasksTyped

\* An error costs one of the faults that are left
LEMMA FaultCounted ==
  ASSUME RowsTyped, Fault
  PROVE  faults' \in 0..MaxFaults
  BY ConstantsAssumption DEF Fault, RowsTyped

LEMMA ErrorTyped ==
  ASSUME Typed, NEW t \in BagToSet(tasks), EndsInError(t), Fault \/ UNCHANGED faults
  PROVE  Typed'
<1>1. t.order \in Orders /\ lost \subseteq Orders
  BY DEF Typed, TasksTyped, GoodTasks, TaskSet, RowsTyped
<1>2. RowsTyped'
  BY <1>1, OnlyErrors, FaultCounted DEF EndsInError, Typed, RowsTyped
<1>3. TasksTyped'
  BY TasksStayTyped DEF EndsInError, Typed
<1> QED
  BY <1>2, <1>3 DEF Typed

Pcs == {"queued", "reading", "picked", "locked", "published", "sent", "struck"}

LEMMA NewTasks ==
  /\ \A o \in Orders : /\ \A n \in 0..(MaxRetries + MaxSends) : Find(o, n) \in GoodTasks
                       /\ NoDriver(o) \in GoodTasks
                       /\ \A d \in Drivers : /\ Notify(d, o) \in GoodTasks
                                             /\ AutoReject(d, o) \in GoodTasks
<1>1. 0 \in 0..(MaxRetries + MaxSends)
  BY ConstantsAssumption
<1> QED
  BY <1>1 DEF Find, NoDriver, Notify, AutoReject, Task, TaskSet, GoodTasks, DriverNamed

\* A task goes on to its next step, for a driver if it has to know one
LEMMA TaskMoved ==
  ASSUME NEW t \in TaskSet, NEW p \in Pcs, NEW d \in Drivers \cup {None},
         \/ d \in Drivers
         \/ t.kind \notin {"notify", "autoReject"} /\ p \notin {"picked", "locked", "published"}
  PROVE  /\ [t EXCEPT !.pc = p, !.driver = d] \in GoodTasks
         /\ d = t.driver => [t EXCEPT !.pc = p] \in GoodTasks
<1>1. PICK s : s = [t EXCEPT !.pc = p, !.driver = d]
  OBVIOUS
<1>2. s \in TaskSet /\ s.kind = t.kind /\ s.pc = p /\ s.driver = d
  BY <1>1 DEF TaskSet, Pcs
<1>3. d = t.driver => s = [t EXCEPT !.pc = p]
  BY <1>1 DEF TaskSet
<1> QED
  BY <1>1, <1>2, <1>3 DEF GoodTasks, DriverNamed

LEMMA NextTryTyped ==
  ASSUME NEW o \in Orders, NEW n \in 0..(MaxRetries + MaxSends)
  PROVE  NextTry(o, n) \in SUBSET GoodTasks
<1>1. n + 1 >= MaxRetries \/ n + 1 \in 0..(MaxRetries + MaxSends)
  BY ConstantsAssumption
<1> QED
  BY <1>1, NewTasks DEF NextTry

--------------------------------------------------------------------------------
(* The find task *)

\* What is known of a task in the bag
LEMMA TaskFacts ==
  ASSUME TasksTyped, NEW t \in BagToSet(tasks)
  PROVE  /\ t \in TaskSet /\ t.order \in Orders /\ t.driver \in Drivers \cup {None}
         /\ t.tries \in 0..(MaxRetries + MaxSends)
         /\ DriverNamed(t)
  BY DEF TasksTyped, GoodTasks, TaskSet

LEMMA FindTyped ==
  ASSUME Typed, NEW t \in BagToSet(tasks), FindStep(t)
  PROVE  Typed'
<1> RowsTyped /\ TasksTyped
  BY DEF Typed
<1>1. /\ t \in TaskSet /\ t.order \in Orders /\ t.driver \in Drivers \cup {None}
      /\ t.tries \in 0..(MaxRetries + MaxSends)
      /\ DriverNamed(t)
  BY TaskFacts
<1>2. Becomes(t, {}) => TasksTyped'
  BY TasksStayTyped
<1>3. Becomes(t, NextTry(t.order, t.tries)) => TasksTyped'
  BY <1>1, NextTryTyped, TasksStayTyped
<1>4. CASE FindStarts(t)
  <2>1. t.kind = "find" /\ [t EXCEPT !.pc = "reading"] \in GoodTasks
    BY <1>1, <1>4, TaskMoved DEF FindStarts, At, Pcs
  <2>2. TasksTyped'
    BY <1>2, <1>4, <2>1, TasksStayTyped DEF FindStarts, MovesTo
  <2> QED
    BY <1>4, <2>2, RowsStay DEF FindStarts, Typed
<1>5. ASSUME NEW d \in Drivers, FindPicks(t, d)
      PROVE  Typed'
  <2>1. [t EXCEPT !.pc = "picked", !.driver = d] \in GoodTasks
    BY <1>1, TaskMoved DEF Pcs
  <2>2. TasksTyped'
    BY <1>5, <2>1, TasksStayTyped DEF FindPicks
  <2> QED
    BY <1>5, <2>2, RowsStay DEF FindPicks, Typed
<1>6. CASE FindLocks(t)
  <2>1. t.driver \in Drivers /\ [t EXCEPT !.pc = "locked"] \in GoodTasks
    BY <1>1, <1>6, TaskMoved DEF FindLocks, At, DriverNamed, Pcs
  <2>2. TasksTyped'
    BY <1>6, <2>1, TasksStayTyped DEF FindLocks, MovesTo
  <2>3. offered' \in [Drivers -> Orders \cup {None}]
    BY <1>1, <1>6 DEF FindLocks, RowsTyped
  <2> QED
    BY <1>6, <2>2, <2>3 DEF FindLocks, Typed, RowsTyped, RejectsLeft, db, chat
<1>7. CASE FindLosesRace(t)
  <2>1. t.kind = "find" /\ [t EXCEPT !.pc = "reading", !.driver = None] \in GoodTasks
    BY <1>1, <1>7, TaskMoved DEF FindLosesRace, At, Pcs
  <2>2. TasksTyped'
    BY <1>3, <1>7, <2>1, TasksStayTyped DEF FindLosesRace
  <2> QED
    BY <1>7, <2>2, RowsStay DEF FindLosesRace, Typed
<1>8. CASE FindFails(t)
  <2>1. RowsTyped'
    BY <1>8, OnlyErrors, FaultCounted DEF FindFails, RowsTyped
  <2> QED
    BY <1>3, <1>8, <2>1 DEF FindFails, Typed
<1>9. CASE FindPublishes(t)
  <2>1. t.driver \in Drivers /\ [t EXCEPT !.pc = "published"] \in GoodTasks
    BY <1>1, <1>9, TaskMoved DEF FindPublishes, At, DriverNamed, Pcs
  <2>2. Notify(t.driver, t.order) \in GoodTasks
    BY <1>1, <2>1, NewTasks
  <2>3. TasksTyped'
    BY <1>9, <2>1, <2>2, TasksStayTyped DEF FindPublishes
  <2> QED
    BY <1>9, <2>3, RowsStay DEF FindPublishes, Typed
<1>10. CASE FindCommits(t)
  <2>1. holder' \in [Orders -> Drivers \cup {None}]
    BY <1>1, <1>10 DEF FindCommits, RowsTyped
  <2>2. TasksTyped'
    BY <1>2, <1>10 DEF FindCommits
  <2> QED
    BY <1>10, <2>1, <2>2 DEF FindCommits, Typed, RowsTyped, RejectsLeft, redis, chat
<1> QED
  BY <1>4, <1>5, <1>6, <1>7, <1>8, <1>9, <1>10 DEF FindStep

--------------------------------------------------------------------------------
(* The other tasks *)

LEMMA OtherTasksTyped ==
  ASSUME Typed, NEW t \in BagToSet(tasks),
         \/ NotifySends(t) \/ NotifyStartsTimer(t) \/ NotifyForbidden(t) \/ NotifyRetries(t)
         \/ AutoRejectReads(t) \/ AutoRejectStrikes(t) \/ AutoRejectMovesOn(t)
         \/ NoDriverReads(t) \/ NoDriverCancels(t) \/ NoDriverFails(t) \/ WorkerDies(t)
         \/ TaskFails(t)
  PROVE  Typed'
<1> RowsTyped /\ TasksTyped
  BY DEF Typed
<1>1. /\ t \in TaskSet /\ t.order \in Orders /\ t.driver \in Drivers \cup {None}
      /\ t.tries \in 0..(MaxRetries + MaxSends)
      /\ DriverNamed(t)
  BY TaskFacts
<1>2. Becomes(t, {}) => TasksTyped'
  BY TasksStayTyped
<1>3. t.kind \in {"notify", "autoReject"} => t.driver \in Drivers
  BY <1>1 DEF DriverNamed
<1>4. CASE NotifySends(t)
  <2>1. t.driver \in Drivers /\ [t EXCEPT !.pc = "sent"] \in GoodTasks
    BY <1>1, <1>3, <1>4, TaskMoved DEF NotifySends, At, Pcs
  <2>2. TasksTyped'
    BY <1>4, <2>1, TasksStayTyped DEF NotifySends, MovesTo
  <2>3. shown' \subseteq Drivers \X Orders
    BY <1>1, <1>4, <2>1 DEF NotifySends, RowsTyped
  <2> QED
    BY <1>4, <2>2, <2>3 DEF NotifySends, Typed, RowsTyped, RejectsLeft, db, redis
<1>5. CASE NotifyStartsTimer(t)
  <2>1. AutoReject(t.driver, t.order) \in GoodTasks
    BY <1>1, <1>3, <1>5, NewTasks DEF NotifyStartsTimer, At
  <2>2. TasksTyped'
    BY <1>5, <2>1, TasksStayTyped DEF NotifyStartsTimer
  <2> QED
    BY <1>5, <2>2, RowsStay DEF NotifyStartsTimer, Typed
<1>6. CASE NotifyForbidden(t)
  BY <1>6, ErrorTyped DEF NotifyForbidden
<1>7. CASE NotifyRetries(t)
  <2>1. t.kind = "notify" /\ t.tries + 1 \in 0..(MaxRetries + MaxSends)
    BY <1>1, <1>7, ConstantsAssumption DEF NotifyRetries, At
  <2>2. [t EXCEPT !.pc = "queued", !.tries = @ + 1] \in GoodTasks
    BY <1>1, <1>3, <2>1 DEF TaskSet, GoodTasks, DriverNamed
  <2>3. TasksTyped'
    BY <1>7, <2>2, TasksStayTyped DEF NotifyRetries
  <2>4. faults' \in 0..MaxFaults
    BY <1>7, ConstantsAssumption DEF NotifyRetries, Fault, RowsTyped
  <2> QED
    BY <1>7, <2>3, <2>4 DEF NotifyRetries, Typed, RowsTyped, RejectsLeft, db, redis, chat
<1>8. CASE AutoRejectReads(t)
  <2>1. [t EXCEPT !.pc = "reading"] \in GoodTasks
    BY <1>1, <1>3, <1>8, TaskMoved DEF AutoRejectReads, At, Pcs
  <2>2. TasksTyped'
    BY <1>2, <1>8, <2>1, TasksStayTyped DEF AutoRejectReads, MovesTo
  <2> QED
    BY <1>8, <2>2, RowsStay DEF AutoRejectReads, Typed
<1>9. CASE AutoRejectStrikes(t)
  <2>1. t.driver \in Drivers /\ [t EXCEPT !.pc = "struck"] \in GoodTasks
    BY <1>1, <1>3, <1>9, TaskMoved DEF AutoRejectStrikes, At, Pcs
  <2>2. TasksTyped'
    BY <1>9, <2>1, TasksStayTyped DEF AutoRejectStrikes, MovesTo
  <2>3. strikes' \in [Drivers -> Nat] /\ queue' \subseteq Drivers
    BY <1>9, <2>1 DEF AutoRejectStrikes, RowsTyped
  <2> QED
    BY <1>9, <2>2, <2>3 DEF AutoRejectStrikes, Typed, RowsTyped, RejectsLeft, db, chat
<1>10. CASE AutoRejectMovesOn(t)
  <2>1. t.driver \in Drivers /\ NextSearch(t) \in SUBSET GoodTasks
    <3>1. 0 \in 0..(MaxRetries + MaxSends)
      BY ConstantsAssumption
    <3> QED
      BY <1>1, <1>3, <1>10, <3>1, NewTasks DEF AutoRejectMovesOn, At, NextSearch
  <2>2. TasksTyped'
    BY <1>10, <2>1, TasksStayTyped DEF AutoRejectMovesOn
  <2>3. skips' \subseteq Drivers \X Orders
    BY <1>1, <1>10, <2>1 DEF AutoRejectMovesOn, RowsTyped
  <2> QED
    BY <1>10, <2>2, <2>3 DEF AutoRejectMovesOn, Typed, RowsTyped, RejectsLeft, db, chat
<1>11. CASE NoDriverReads(t)
  <2>1. [t EXCEPT !.pc = "reading"] \in GoodTasks
    BY <1>1, <1>11, TaskMoved DEF NoDriverReads, At, Pcs
  <2>2. TasksTyped'
    BY <1>2, <1>11, <2>1, TasksStayTyped DEF NoDriverReads, MovesTo
  <2> QED
    BY <1>11, <2>2, RowsStay DEF NoDriverReads, Typed
<1>12. CASE NoDriverCancels(t)
  <2>1. status' \in [Orders -> {"PENDING", "ACCEPTED", "CANCELLED"}] /\ TasksTyped'
    BY <1>2, <1>12 DEF NoDriverCancels, RowsTyped
  <2> QED
    BY <1>12, <2>1 DEF NoDriverCancels, Typed, RowsTyped, RejectsLeft, redis, chat
<1>13. CASE NoDriverFails(t) \/ TaskFails(t)
  BY <1>13, ErrorTyped DEF NoDriverFails, TaskFails
<1>14. CASE WorkerDies(t)
  <2>1. PICK s : /\ s = [t EXCEPT !.pc = "queued",
                                  !.driver = IF t.kind = "find" THEN None ELSE @]
                 /\ Becomes(t, {s})
    BY <1>14 DEF WorkerDies
  <2>2. s \in GoodTasks
    <3>1. /\ s.kind = t.kind /\ s.order = t.order /\ s.tries = t.tries /\ s.pc = "queued"
          /\ s.driver = IF t.kind = "find" THEN None ELSE t.driver
          /\ s \in TaskSet
      BY <1>1, <2>1 DEF TaskSet
    <3> QED
      BY <1>3, <3>1 DEF GoodTasks, DriverNamed
  <2>3. TasksTyped'
    BY <2>1, <2>2, TasksStayTyped
  <2>4. faults' \in 0..MaxFaults
    BY <1>14, ConstantsAssumption DEF WorkerDies, Fault, RowsTyped
  <2> QED
    BY <1>14, <2>3, <2>4 DEF WorkerDies, Typed, RowsTyped, RejectsLeft, db, redis, chat
<1> QED
  BY <1>4, <1>5, <1>6, <1>7, <1>8, <1>9, <1>10, <1>11, <1>12, <1>13, <1>14

--------------------------------------------------------------------------------
(* The buttons and the rest of the world *)

LEMMA TasksUntouched ==
  ASSUME TasksTyped, UNCHANGED tasks
  PROVE  TasksTyped'
  BY DEF TasksTyped

LEMMA PressesTyped ==
  ASSUME Typed, NEW d \in Drivers, NEW o \in Orders, Presses(d, o)
  PROVE  Typed'
<1> RowsTyped /\ TasksTyped
  BY DEF Typed
<1>1. UNCHANGED tasks => TasksTyped'
  BY TasksUntouched
<1>2. CASE Accepts(d, o)
  <2>1. CASE status[o] = "PENDING" /\ seats[d] > 0
    <3>1. /\ status' \in [Orders -> {"PENDING", "ACCEPTED", "CANCELLED"}]
          /\ holder' \in [Orders -> Drivers \cup {None}]
          /\ seats' \in [Drivers -> Nat]
          /\ queue' \subseteq Drivers
      <4>1. seats[d] - 1 \in Nat
        BY <2>1 DEF RowsTyped
      <4>2. seats' = [seats EXCEPT ![d] = seats[d] - 1]
        BY <1>2, <2>1 DEF Accepts
      <4>3. seats' \in [Drivers -> Nat]
        BY <4>1, <4>2 DEF RowsTyped
      <4>4. /\ status' \in [Orders -> {"PENDING", "ACCEPTED", "CANCELLED"}]
            /\ holder' \in [Orders -> Drivers \cup {None}]
        BY <1>2, <2>1 DEF Accepts, RowsTyped
      <4>5. queue' \subseteq Drivers
        BY <1>2, <2>1 DEF Accepts, RowsTyped
      <4> QED
        BY <4>3, <4>4, <4>5
    <3>2. PICK a : /\ a = [order |-> o, step |-> "accepted"]
                   /\ answering' = [answering EXCEPT ![d] = a]
      BY <1>2, <2>1 DEF Accepts
    <3>3. /\ answering' \in [Drivers -> [order: Orders \cup {None},
                                         step: {"idle", "accepted", "unlocked", "skipped"}]]
          /\ RejectsLeft'
      BY <1>2, <3>2 DEF Accepts, RowsTyped, RejectsLeft
    <3> QED
      BY <1>1, <1>2, <3>1, <3>3 DEF Accepts, Typed, RowsTyped
  <2>2. CASE ~(status[o] = "PENDING" /\ seats[d] > 0)
    BY <1>1, <1>2, <2>2 DEF Accepts, Typed, RowsTyped, RejectsLeft, db
  <2> QED
    BY <2>1, <2>2
<1>3. CASE RejectUnlocks(d, o)
  <2>1. PICK a : /\ a = [order |-> o, step |-> "unlocked"]
                 /\ answering' = [answering EXCEPT ![d] = a]
    BY <1>3 DEF RejectUnlocks
  <2>2. rejects[d] < MaxRejects
    BY <1>3, ConstantsAssumption DEF RejectUnlocks, DayLimitReached, RowsTyped
  <2>3. /\ answering' \in [Drivers -> [order: Orders \cup {None},
                                       step: {"idle", "accepted", "unlocked", "skipped"}]]
        /\ RejectsLeft'
    BY <1>3, <2>1, <2>2 DEF RejectUnlocks, RowsTyped, RejectsLeft
  <2> QED
    BY <1>1, <1>3, <2>3 DEF RejectUnlocks, Typed, RowsTyped, db
<1>4. CASE RejectRefused(d, o)
  BY <1>1, <1>4 DEF RejectRefused, Typed, RowsTyped, RejectsLeft, db, redis
<1> QED
  BY <1>2, <1>3, <1>4 DEF Presses

LEMMA GoesIdle ==
  ASSUME RowsTyped, NEW d \in Drivers, answering' = [answering EXCEPT ![d] = Idle],
         \A e \in Drivers : e # d => rejects'[e] = rejects[e]
  PROVE  /\ answering' \in [Drivers -> [order: Orders \cup {None},
                                        step: {"idle", "accepted", "unlocked", "skipped"}]]
         /\ RejectsLeft'
  BY DEF RowsTyped, RejectsLeft, Idle

LEMMA HandlerTyped ==
  ASSUME Typed, NEW d \in Drivers, HandlerStep(d) \/ HandlerDies(d)
  PROVE  Typed'
<1> RowsTyped /\ TasksTyped
  BY DEF Typed
<1>1. UNCHANGED tasks => TasksTyped'
  BY TasksUntouched
<1>2. CASE AcceptUnlocks(d)
  <2>1. /\ answering' \in [Drivers -> [order: Orders \cup {None},
                                       step: {"idle", "accepted", "unlocked", "skipped"}]]
        /\ RejectsLeft'
    BY <1>2, GoesIdle DEF AcceptUnlocks
  <2>2. strikes' \in [Drivers -> Nat] /\ offered' \in [Drivers -> Orders \cup {None}]
    BY <1>2 DEF AcceptUnlocks, RowsTyped
  <2> QED
    BY <1>1, <1>2, <2>1, <2>2 DEF AcceptUnlocks, Typed, RowsTyped, db
<1>3. CASE RejectSkips(d)
  <2>1. answering[d].order \in Orders /\ rejects[d] < MaxRejects
    BY <1>3 DEF RejectSkips, RowsTyped, RejectsLeft
  <2>2. /\ rejects' \in [Drivers -> 0..MaxRejects]
        /\ skips' \subseteq Drivers \X Orders
        /\ strikes' \in [Drivers -> Nat]
    BY <1>3, <2>1, ConstantsAssumption DEF RejectSkips, RowsTyped
  <2>3. PICK a : /\ a = [answering[d] EXCEPT !.step = "skipped"]
                 /\ answering' = [answering EXCEPT ![d] = a]
    BY <1>3 DEF RejectSkips
  <2>4. a \in [order: Orders, step: {"skipped"}]
    BY <2>1, <2>3 DEF RowsTyped
  <2>5. /\ answering' \in [Drivers -> [order: Orders \cup {None},
                                       step: {"idle", "accepted", "unlocked", "skipped"}]]
        /\ RejectsLeft'
    BY <1>3, <2>3, <2>4 DEF RejectSkips, RowsTyped, RejectsLeft
  <2> QED
    BY <1>1, <1>3, <2>2, <2>5 DEF RejectSkips, Typed, RowsTyped, db
<1>4. CASE RejectRequeues(d)
  <2> DEFINE o == answering[d].order
  <2>1. o \in Orders
    BY <1>4 DEF RejectRequeues, RowsTyped, RejectsLeft
  <2>2. holder' \in [Orders -> Drivers \cup {None}]
    BY <1>4 DEF RejectRequeues, RowsTyped
  <2>3. Find(o, 0) \in GoodTasks
    <3>1. 0 \in 0..(MaxRetries + MaxSends)
      BY ConstantsAssumption
    <3> QED
      BY <2>1, <3>1, NewTasks
  <2>4. TasksTyped'
    <3>1. CASE tasks' = tasks (+) SetToBag({Find(o, 0)})
      BY <2>3, <3>1, TaskAdded DEF TasksTyped
    <3>2. CASE UNCHANGED tasks
      BY <1>1, <3>2
    <3> QED
      BY <1>4, <3>1, <3>2 DEF RejectRequeues
  <2>5. /\ answering' \in [Drivers -> [order: Orders \cup {None},
                                       step: {"idle", "accepted", "unlocked", "skipped"}]]
        /\ RejectsLeft'
    BY <1>4, GoesIdle DEF RejectRequeues, redis
  <2> QED
    BY <1>4, <2>2, <2>4, <2>5 DEF RejectRequeues, Typed, RowsTyped, redis
<1>5. CASE HandlerDies(d)
  <2>1. /\ answering' \in [Drivers -> [order: Orders \cup {None},
                                       step: {"idle", "accepted", "unlocked", "skipped"}]]
        /\ RejectsLeft'
    BY <1>5, GoesIdle DEF HandlerDies, redis
  <2>2. faults' \in 0..MaxFaults
    BY <1>5, ConstantsAssumption DEF HandlerDies, Fault, RowsTyped
  <2> QED
    BY <1>1, <1>5, <2>1, <2>2 DEF HandlerDies, Typed, RowsTyped, db, redis
<1> QED
  BY <1>2, <1>3, <1>4, <1>5 DEF HandlerStep

LEMMA WorldTyped ==
  ASSUME Typed,
         \/ \E d \in Drivers : GoesOnline(d) \/ Stops(d) \/ OfferExpires(d) \/ KeyLapses(d)
         \/ \E o \in Orders : PassengerCancels(o)
         \/ \E x \in MayBlock : Blocks(x)
  PROVE  Typed'
<1> RowsTyped /\ TasksTyped
  BY DEF Typed
<1>1. UNCHANGED tasks => TasksTyped'
  BY TasksUntouched
<1>2. Fault => faults' \in 0..MaxFaults
  BY ConstantsAssumption DEF Fault, RowsTyped
<1>3. ASSUME NEW d \in Drivers, GoesOnline(d)
      PROVE  Typed'
  BY <1>1, <1>2, <1>3, ConstantsAssumption
     DEF GoesOnline, Typed, RowsTyped, RejectsLeft, chat
<1>4. ASSUME NEW d \in Drivers, Stops(d)
      PROVE  Typed'
  BY <1>1, <1>4 DEF Stops, Typed, RowsTyped, RejectsLeft, chat
<1>5. ASSUME NEW d \in Drivers, OfferExpires(d)
      PROVE  Typed'
  BY <1>1, <1>5 DEF OfferExpires, Typed, RowsTyped, RejectsLeft, db, chat
<1>6. ASSUME NEW d \in Drivers, KeyLapses(d)
      PROVE  Typed'
  <2>1. strikes' \in [Drivers -> Nat]
    BY <1>6 DEF KeyLapses, RowsTyped
  <2>2. skips' \subseteq skips
    BY <1>6 DEF KeyLapses
  <2>3. skips' \subseteq Drivers \X Orders
    BY <2>2 DEF RowsTyped
  <2> QED
    BY <1>1, <1>2, <1>6, <2>1, <2>3 DEF KeyLapses, Typed, RowsTyped, RejectsLeft, db, chat
<1>7. ASSUME NEW o \in Orders, PassengerCancels(o)
      PROVE  Typed'
  BY <1>1, <1>7 DEF PassengerCancels, Typed, RowsTyped, RejectsLeft, redis, chat
<1>8. ASSUME NEW x \in MayBlock, Blocks(x)
      PROVE  Typed'
  BY <1>1, <1>8 DEF Blocks, Typed, RowsTyped, RejectsLeft, db, redis
<1> QED
  BY <1>3, <1>4, <1>5, <1>6, <1>7, <1>8

LEMMA InitTyped ==
  ASSUME Init
  PROVE  Typed
<1>1. RowsTyped
  BY ConstantsAssumption DEF Init, RowsTyped, RejectsLeft, Idle
<1>2. \A t \in {Find(o, 0) : o \in Orders} : t \in GoodTasks
  <2>1. 0 \in 0..(MaxRetries + MaxSends)
    BY ConstantsAssumption
  <2> QED
    BY <2>1, NewTasks
<1>3. TasksTyped
  BY <1>2, ConstantsAssumption DEF Init, TasksTyped, IsABag, BagToSet
<1> QED
  BY <1>1, <1>3 DEF Typed

LEMMA StepTyped ==
  ASSUME Typed, [Next]_vars
  PROVE  Typed'
<1>1. CASE UNCHANGED vars
  <2>1. RowsTyped' /\ TasksTyped'
    BY <1>1, RowsStay, TasksUntouched DEF Typed, vars
  <2> QED
    BY <2>1 DEF Typed
<1>2. CASE Next
  BY <1>2, FindTyped, OtherTasksTyped, PressesTyped, HandlerTyped, WorldTyped
     DEF Next, WorkerStep, TaskStep, Environment
<1> QED
  BY <1>1, <1>2

\* Every value of the search stays in its range, whatever the workers, the drivers and
\* the expiring keys do: no task without a driver is published that needs one, and a
\* driver's rejects of the day never pass the limit
THEOREM TypeCorrect == Spec => []TypeOK
<1>1. Spec => []Typed
  BY InitTyped, StepTyped, PTL DEF Spec
<1>2. Typed => TypeOK
  BY TypedImplies
<1> QED
  BY <1>1, <1>2, PTL

--------------------------------------------------------------------------------
(* The search goes on *)

\* A task that leaves another of its order behind, unless it fails: only a find task
\* that has published the notification does not
Solid(t) == t.kind # "find" \/ t.pc # "published"

OnItsWay(o) == \E t \in BagToSet(tasks) : t.order = o /\ Solid(t)

SearchInv == \A o \in Orders : Waits(o) => o \in lost \/ OnItsWay(o)

LEMMA SearchImplies ==
  ASSUME SearchInv
  PROVE  SearchGoesOn
  BY DEF SearchInv, OnItsWay, SearchGoesOn

\* A step that takes no task away
LEMMA QuietStep ==
  ASSUME SearchInv, lost \subseteq lost', BagToSet(tasks) \subseteq BagToSet(tasks'),
         \A o \in Orders : Waits(o)' => Waits(o)
  PROVE  SearchInv'
  BY DEF SearchInv, OnItsWay

\* A task that ends, and what it leaves: a solid task of its order, if that still waits
LEMMA TaskDone ==
  ASSUME TasksTyped, SearchInv, NEW t \in BagToSet(tasks), NEW S, Becomes(t, S),
         lost \subseteq lost', \A o \in Orders : Waits(o)' => Waits(o),
         Waits(t.order)' /\ Solid(t) =>
           t.order \in lost' \/ \E s \in S : s.order = t.order /\ Solid(s)
  PROVE  SearchInv'
<1> SUFFICES ASSUME NEW o \in Orders, Waits(o)', o \notin lost'
             PROVE  OnItsWay(o)'
  BY DEF SearchInv
<1>1. /\ S \subseteq BagToSet(tasks')
      /\ BagToSet(tasks) \ {t} \subseteq BagToSet(tasks')
  BY TaskReplaced DEF TasksTyped
<1>2. PICK u \in BagToSet(tasks) : u.order = o /\ Solid(u)
  BY DEF SearchInv, OnItsWay
<1>3. CASE u # t
  BY <1>1, <1>2, <1>3 DEF OnItsWay
<1>4. CASE u = t
  BY <1>1, <1>2, <1>4 DEF OnItsWay
<1> QED
  BY <1>3, <1>4

\* ... when it goes on as another one
LEMMA TaskGoesOn ==
  ASSUME TasksTyped, SearchInv, NEW t \in BagToSet(tasks), NEW s, Becomes(t, {s}),
         UNCHANGED <<status, lost>>, s.order = t.order, Solid(s)
  PROVE  SearchInv'
  BY TaskDone DEF Waits

\* ... when its order waits no more
LEMMA TaskOver ==
  ASSUME TasksTyped, SearchInv, NEW t \in BagToSet(tasks), Becomes(t, {}),
         UNCHANGED <<status, lost>>, status[t.order] # "PENDING"
  PROVE  SearchInv'
  BY TaskDone DEF Waits

LEMMA TaskErrs ==
  ASSUME TasksTyped, SearchInv, NEW t \in BagToSet(tasks), EndsInError(t)
  PROVE  SearchInv'
  BY TaskDone DEF EndsInError, Waits, db

--------------------------------------------------------------------------------
(* ... through every task *)

LEMMA NextTrySolid ==
  ASSUME NEW o, NEW n
  PROVE  \E s \in NextTry(o, n) : s.order = o /\ Solid(s)
<1>1. \A k, m : LET s == Task(k, o, None, m) IN s.kind = k /\ s.order = o /\ s.pc = "queued"
  BY DEF Task
<1>2. NextTry(o, n) = {Task("noDriver", o, None, 0)} \/ NextTry(o, n) = {Task("find", o, None, n + 1)}
  BY DEF NextTry, NoDriver, Find
<1> QED
  BY <1>1, <1>2 DEF Solid

LEMMA FindSearches ==
  ASSUME Typed, SearchInv, NEW t \in BagToSet(tasks), FindStep(t)
  PROVE  SearchInv'
<1> TasksTyped
  BY DEF Typed
<1>1. status' = status /\ lost' = lost
  BY DEF FindStep, FindStarts, FindPicks, FindLocks, FindLosesRace, FindFails,
         FindPublishes, FindCommits, db
<1>2. t.kind = "find" /\ t \in TaskSet
  BY TaskFacts DEF FindStep, FindStarts, FindPicks, FindLocks, FindLosesRace, FindFails,
                   FindPublishes, FindCommits, At
<1>3. ASSUME Becomes(t, NextTry(t.order, t.tries))
      PROVE  SearchInv'
  BY <1>1, <1>3, TaskDone, NextTrySolid DEF Waits
<1>4. CASE FindStarts(t)
  <2>1. CASE status[t.order] = "PENDING"
    <3>1. PICK s : s = [t EXCEPT !.pc = "reading"] /\ Becomes(t, {s})
      BY <1>4, <2>1 DEF FindStarts, MovesTo
    <3>2. s.order = t.order /\ Solid(s)
      BY <1>2, <3>1 DEF TaskSet, Solid
    <3> QED
      BY <1>1, <3>1, <3>2, TaskGoesOn
  <2>2. CASE status[t.order] # "PENDING"
    BY <1>1, <1>4, <2>2, TaskOver DEF FindStarts
  <2> QED
    BY <2>1, <2>2
<1>5. ASSUME NEW d \in Drivers, FindPicks(t, d)
      PROVE  SearchInv'
  <2>1. PICK s : s = [t EXCEPT !.pc = "picked", !.driver = d] /\ Becomes(t, {s})
    BY <1>5 DEF FindPicks
  <2>2. s.order = t.order /\ Solid(s)
    BY <1>2, <2>1 DEF TaskSet, Solid
  <2> QED
    BY <1>1, <2>1, <2>2, TaskGoesOn
<1>6. CASE FindLocks(t)
  <2>1. PICK s : s = [t EXCEPT !.pc = "locked"] /\ Becomes(t, {s})
    BY <1>6 DEF FindLocks, MovesTo
  <2>2. s.order = t.order /\ Solid(s)
    BY <1>2, <2>1 DEF TaskSet, Solid
  <2> QED
    BY <1>1, <2>1, <2>2, TaskGoesOn
<1>7. CASE FindLosesRace(t)
  <2>1. CASE Becomes(t, NextTry(t.order, t.tries))
    BY <1>3, <2>1
  <2>2. CASE Becomes(t, {[t EXCEPT !.pc = "reading", !.driver = None]})
    <3>1. PICK s : s = [t EXCEPT !.pc = "reading", !.driver = None] /\ Becomes(t, {s})
      BY <2>2
    <3>2. s.order = t.order /\ Solid(s)
      BY <1>2, <3>1 DEF TaskSet, Solid
    <3> QED
      BY <1>1, <3>1, <3>2, TaskGoesOn
  <2> QED
    BY <1>7, <2>1, <2>2 DEF FindLosesRace
<1>8. CASE FindFails(t)
  BY <1>3, <1>8 DEF FindFails
\* The notification is what it leaves behind
<1>9. CASE FindPublishes(t)
  <2>1. PICK n : /\ n = Notify(t.driver, t.order)
                 /\ n.kind = "notify" /\ n.order = t.order
    <3>1. LET n == Notify(t.driver, t.order) IN n.kind = "notify" /\ n.order = t.order
      BY DEF Notify, Task
    <3> QED
      BY <3>1
  <2>2. PICK s : Becomes(t, {s, n})
    BY <1>9, <2>1 DEF FindPublishes
  <2> QED
    BY <1>1, <2>1, <2>2, TaskDone DEF Waits, Solid
<1>10. CASE FindCommits(t)
  <2>1. ~Solid(t) /\ Becomes(t, {})
    BY <1>10 DEF FindCommits, At, Solid
  <2> QED
    BY <1>1, <2>1, TaskDone DEF Waits
<1> QED
  BY <1>4, <1>5, <1>6, <1>7, <1>8, <1>9, <1>10 DEF FindStep

LEMMA OtherTasksSearch ==
  ASSUME Typed, SearchInv, NEW t \in BagToSet(tasks),
         \/ NotifySends(t) \/ NotifyStartsTimer(t) \/ NotifyForbidden(t) \/ NotifyRetries(t)
         \/ AutoRejectReads(t) \/ AutoRejectStrikes(t) \/ AutoRejectMovesOn(t)
         \/ NoDriverReads(t) \/ NoDriverCancels(t) \/ NoDriverFails(t) \/ WorkerDies(t)
         \/ TaskFails(t)
  PROVE  SearchInv'
<1> TasksTyped
  BY DEF Typed
<1>1. t \in TaskSet
  BY TaskFacts
\* The task goes on, or leaves another one
<1>2. ASSUME NEW s, Becomes(t, {s}), s.order = t.order, s.pc # "published",
             UNCHANGED <<status, lost>>
      PROVE  SearchInv'
  BY <1>2, TaskGoesOn DEF Solid
<1>3. ASSUME NEW p \in {"reading", "sent", "struck"}, MovesTo(t, p), UNCHANGED <<status, lost>>
      PROVE  SearchInv'
  <2>1. PICK s : s = [t EXCEPT !.pc = p] /\ Becomes(t, {s})
    BY <1>3 DEF MovesTo
  <2>2. s.order = t.order /\ s.pc # "published"
    BY <1>1, <2>1 DEF TaskSet
  <2> QED
    BY <1>2, <1>3, <2>1, <2>2
<1>4. CASE NotifySends(t) \/ AutoRejectStrikes(t)
  BY <1>3, <1>4 DEF NotifySends, AutoRejectStrikes, db
<1>5. CASE NotifyStartsTimer(t)
  <2>1. PICK s : s = AutoReject(t.driver, t.order) /\ Becomes(t, {s})
    BY <1>5 DEF NotifyStartsTimer
  <2>2. s.order = t.order /\ s.pc = "queued"
    BY <2>1 DEF AutoReject, Task
  <2> QED
    BY <1>2, <1>5, <2>1, <2>2 DEF NotifyStartsTimer, db
<1>6. CASE NotifyForbidden(t) \/ NoDriverFails(t) \/ TaskFails(t)
  BY <1>6, TaskErrs DEF NotifyForbidden, NoDriverFails, TaskFails
<1>7. CASE NotifyRetries(t)
  <2>1. PICK s : s = [t EXCEPT !.pc = "queued", !.tries = @ + 1] /\ Becomes(t, {s})
    BY <1>7 DEF NotifyRetries
  <2>2. s.order = t.order /\ s.pc = "queued"
    BY <1>1, <2>1 DEF TaskSet
  <2> QED
    BY <1>2, <1>7, <2>1, <2>2 DEF NotifyRetries, db
<1>8. CASE AutoRejectReads(t) \/ NoDriverReads(t)
  <2>1. UNCHANGED <<status, lost>>
    BY <1>8 DEF AutoRejectReads, NoDriverReads, db
  <2>2. CASE status[t.order] = "PENDING"
    BY <1>3, <1>8, <2>1, <2>2 DEF AutoRejectReads, NoDriverReads
  <2>3. CASE status[t.order] # "PENDING"
    BY <1>8, <2>1, <2>3, TaskOver DEF AutoRejectReads, NoDriverReads
  <2> QED
    BY <2>2, <2>3
<1>9. CASE AutoRejectMovesOn(t)
  <2>1. PICK s : s = Find(t.order, 0) /\ Becomes(t, {s})
    BY <1>9 DEF AutoRejectMovesOn, NextSearch
  <2>2. s.order = t.order /\ s.pc = "queued"
    BY <2>1 DEF Find, Task
  <2> QED
    BY <1>2, <1>9, <2>1, <2>2 DEF AutoRejectMovesOn, db
<1>10. CASE NoDriverCancels(t)
  <2>1. Becomes(t, {}) /\ lost' = lost
        /\ status' = [status EXCEPT ![t.order] = "CANCELLED"]
    BY <1>10 DEF NoDriverCancels
  <2>2. ~Waits(t.order)' /\ \A o \in Orders : Waits(o)' => Waits(o)
    BY <1>1, <2>1 DEF Typed, RowsTyped, TaskSet, Waits
  <2> QED
    BY <2>1, <2>2, TaskDone
<1>11. CASE WorkerDies(t)
  <2>1. PICK s : /\ s = [t EXCEPT !.pc = "queued",
                                  !.driver = IF t.kind = "find" THEN None ELSE @]
                 /\ Becomes(t, {s})
    BY <1>11 DEF WorkerDies
  <2>2. s.order = t.order /\ s.pc = "queued"
    BY <1>1, <2>1 DEF TaskSet
  <2> QED
    BY <1>2, <1>11, <2>1, <2>2 DEF WorkerDies, db
<1> QED
  BY <1>4, <1>5, <1>6, <1>7, <1>8, <1>9, <1>10, <1>11

--------------------------------------------------------------------------------
(* ... and through every button *)

LEMMA ButtonsSearch ==
  ASSUME Typed, SearchInv, NEW d \in Drivers,
         \/ HandlerStep(d) \/ HandlerDies(d)
         \/ \E o \in Orders : Presses(d, o)
  PROVE  SearchInv'
<1>1. lost' = lost
  BY DEF HandlerStep, AcceptUnlocks, RejectSkips, RejectRequeues, HandlerDies, Presses,
         Accepts, RejectUnlocks, RejectRefused
<1>2. \A o \in Orders : Waits(o)' => Waits(o)
  BY DEF HandlerStep, AcceptUnlocks, RejectSkips, RejectRequeues, HandlerDies, Presses,
         Accepts, RejectUnlocks, RejectRefused, Typed, RowsTyped, Waits, db
<1>3. tasks' = tasks \/ \E S : tasks' = tasks (+) SetToBag(S)
  <2>1. CASE RejectRequeues(d)
    BY <2>1 DEF RejectRequeues
  <2>2. CASE ~RejectRequeues(d)
    BY <2>2 DEF HandlerStep, AcceptUnlocks, RejectSkips, HandlerDies, Presses,
                Accepts, RejectUnlocks, RejectRefused
  <2> QED
    BY <2>1, <2>2
<1>4. BagToSet(tasks) \subseteq BagToSet(tasks')
  BY <1>3, TaskAdded DEF Typed, TasksTyped
<1> QED
  BY <1>1, <1>2, <1>4, QuietStep

LEMMA WorldSearches ==
  ASSUME Typed, SearchInv,
         \/ \E d \in Drivers : GoesOnline(d) \/ Stops(d) \/ OfferExpires(d) \/ KeyLapses(d)
         \/ \E o \in Orders : PassengerCancels(o)
         \/ \E x \in MayBlock : Blocks(x)
  PROVE  SearchInv'
<1>1. tasks' = tasks /\ lost' = lost
  BY DEF GoesOnline, Stops, OfferExpires, KeyLapses, PassengerCancels, Blocks, chat
<1>2. \A o \in Orders : Waits(o)' => Waits(o)
  BY DEF GoesOnline, Stops, OfferExpires, KeyLapses, PassengerCancels, Blocks, db,
         Typed, RowsTyped, Waits
<1> QED
  BY <1>1, <1>2, QuietStep

LEMMA InitSearches ==
  ASSUME Init
  PROVE  SearchInv
<1> SUFFICES ASSUME NEW o \in Orders
             PROVE  OnItsWay(o)
  BY DEF SearchInv
<1>1. Find(o, 0) \in BagToSet(tasks)
  BY DEF Init, BagToSet
<1>2. Find(o, 0).order = o /\ Find(o, 0).kind = "find" /\ Find(o, 0).pc = "queued"
  BY DEF Find, Task
<1> QED
  BY <1>1, <1>2 DEF OnItsWay, Solid

\* A pending order is never forgotten: duplicates, retries, searches that see nobody,
\* crashes of workers and of handlers, lapsed keys and lost presses included, a task is
\* left that looks at it.  Only an order a task of which ended in an error may have none.
THEOREM SearchNeverStops == Spec => []SearchGoesOn
<1>1. Init => Typed /\ SearchInv
  BY InitTyped, InitSearches
<1>2. Typed /\ SearchInv /\ [Next]_vars => Typed' /\ SearchInv'
  <2> SUFFICES ASSUME Typed, SearchInv, [Next]_vars
               PROVE  SearchInv'
    BY StepTyped
  <2>1. CASE UNCHANGED vars
    BY <2>1, QuietStep DEF vars, db, Waits
  <2>2. CASE Next
    BY <2>2, FindSearches, OtherTasksSearch, ButtonsSearch, WorldSearches
       DEF Next, WorkerStep, TaskStep, Environment
  <2> QED
    BY <2>1, <2>2
<1>3. Typed /\ SearchInv => SearchGoesOn
  BY SearchImplies
<1> QED
  BY <1>1, <1>2, <1>3, PTL DEF Spec

--------------------------------------------------------------------------------
(* Acceptances *)

\* Nothing but a notify_passenger_no_driver_task that read the order while it was
\* pending takes an accepted order away from its driver here
THEOREM AcceptancesStand == Spec => AcceptanceStands
<1>1. ASSUME Typed, [Next]_vars
      PROVE  AcceptanceStep
  <2> SUFFICES ASSUME NEW o \in Orders, status[o] = "ACCEPTED", status'[o] # "ACCEPTED"
               PROVE  \E t \in At("noDriver", "reading") : t.order = o
    BY DEF AcceptanceStep
  <2> status \in [Orders -> {"PENDING", "ACCEPTED", "CANCELLED"}]
    BY <1>1 DEF Typed, RowsTyped
  <2>1. status' # status
    OBVIOUS
  <2>2. Next
    BY <1>1, <2>1 DEF vars, db
  <2>3. ASSUME NEW t \in BagToSet(tasks), TaskStep(t)
        PROVE  \E u \in At("noDriver", "reading") : u.order = o
    <3>1. NoDriverCancels(t)
      BY <2>1, <2>3 DEF TaskStep, FindStep, FindStarts, FindPicks, FindLocks, FindLosesRace,
            FindFails, FindPublishes, FindCommits, NotifySends, NotifyStartsTimer,
            NotifyForbidden, AutoRejectReads, AutoRejectStrikes, AutoRejectMovesOn,
            NoDriverReads, NoDriverFails, EndsInError, db
    <3> QED
      BY <3>1 DEF NoDriverCancels
  <2>4. ASSUME NEW d \in Drivers
        PROVE  /\ ~HandlerStep(d)
               /\ \A c \in Orders : ~Presses(d, c)
    <3>1. ~HandlerStep(d)
      BY <2>1 DEF HandlerStep, AcceptUnlocks, RejectSkips, RejectRequeues, db
    <3>2. ASSUME NEW c \in Orders, Presses(d, c)
          PROVE  FALSE
      <4>1. Accepts(d, c)
        BY <2>1, <3>2 DEF Presses, RejectUnlocks, RejectRefused, db
      <4> QED
        BY <4>1 DEF Accepts, db
    <3> QED
      BY <3>1, <3>2
  <2>5. ~Environment
    <3>1. ~(\E t \in BagToSet(tasks) : NotifyRetries(t) \/ WorkerDies(t) \/ TaskFails(t))
      BY <2>1 DEF NotifyRetries, WorkerDies, TaskFails, EndsInError, db
    <3>2. ~(\E d \in Drivers : GoesOnline(d) \/ Stops(d) \/ OfferExpires(d) \/ KeyLapses(d)
                               \/ HandlerDies(d))
      BY <2>1 DEF GoesOnline, Stops, OfferExpires, KeyLapses, HandlerDies, db
    <3>3. ~(\E c \in Orders : PassengerCancels(c))
      BY DEF PassengerCancels
    <3>4. ~(\E x \in MayBlock : Blocks(x))
      BY <2>1 DEF Blocks, db
    <3> QED
      BY <3>1, <3>2, <3>3, <3>4 DEF Environment
  <2> QED
    BY <2>2, <2>3, <2>4, <2>5 DEF Next, WorkerStep
<1> QED
  BY <1>1, InitTyped, StepTyped, PTL DEF Spec, AcceptanceStands
================================================================================
