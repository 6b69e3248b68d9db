----------------------------- MODULE QueueMessages -----------------------------
(***************************************************************************)
(* The message that tells a driver his place in the queue of a route       *)
(* (tasks/matching.py).  Its id is kept under driver_queue_msg:{driver}:   *)
(* {route}, so that the next one can replace it.  The queue changes in     *)
(* handlers, in the add and remove tasks, and where nobody is told; the    *)
(* messages follow in tasks that several workers run at once, in any       *)
(* order, and that deliver to Telegram between two commands to Redis.      *)
(***************************************************************************)
EXTENDS Integers, FiniteSets, Sequences, SequencesExt

CONSTANTS
  Drivers, Workers, None,
  Ids,          \* bound: messages of a chat that matter, told apart
  MaxChanges,   \* bound: changes of the queue
  MaxFaults     \* bound: failed commands, refused messages, workers that die

VARIABLES
  places,    \* driver_queue:{route}, in the order of the scores
  noted,     \* driver -> driver_queue_msg: the id, or None
  chat,      \* driver -> id -> the place the message tells, 0 where there is none
  waiting,   \* tasks -> how many of them wait
  worker,    \* worker -> the task it runs and its local variables
  astray,    \* drivers whose messages nobody follows up: see the properties
  changes, mishaps

vars == <<places, noted, chat, waiting, worker, astray, changes, mishaps>>

--------------------------------------------------------------------------------
Task(kind, d) == [kind |-> kind, driver |-> d]
Notify == Task("notify", None)
Tasks  == [kind: {"add", "remove", "clear"}, driver: Drivers] \cup {Notify}

Idle == [pc |-> "idle", task |-> Notify, rest |-> <<>>, place |-> 0, prev |-> None, sent |-> None]

Running == {w \in Workers : worker[w].pc # "idle"}

Position(s, d) == CHOOSE i \in DOMAIN s : s[i] = d
Place(d) == IF Contains(places, d) THEN Position(places, d) ELSE 0

\* ZREM; the queue has every driver once
Without(s, d) == IF Contains(s, d) THEN RemoveAt(s, Position(s, d)) ELSE s

Shown(c, d) == {n \in Ids : c[d][n] # 0}

\* Drivers whose message a task is about to touch
Concerns(t) == ToSet(t.rest) \cup IF t.pc \in {"looks", "deletes", "forgets"}
                                    THEN {t.task.driver} ELSE {}
Touched(t) == IF t.pc = "idle" THEN {} ELSE Concerns(t)

\* Two tasks that are about to touch one message
Meets(w, t) ==
  astray' = astray \cup (Concerns(t) \cap UNION {Touched(worker[v]) : v \in Workers \ {w}})

Publishes(ts) == waiting' = [x \in Tasks |-> waiting[x] + IF x \in ts THEN 1 ELSE 0]
Fault == mishaps < MaxFaults /\ mishaps' = mishaps + 1
Change == changes < MaxChanges /\ changes' = changes + 1

\* An id is not given twice; one that nothing names any more may stand for a new one
Of(t) == IF t.rest = <<>> THEN t.task.driver ELSE Head(t.rest)
Named(d) ==
  Shown(chat, d) \cup {noted[d]} \cup
    UNION {{t.prev, t.sent} : t \in {worker[w] : w \in {v \in Running : Of(worker[v]) = d}}}
Fresh(d) == CHOOSE n \in Ids : n \notin Named(d)

--------------------------------------------------------------------------------
(* What changes the queue *)

\* Going online and offline leaves the queue to the tasks
Joins(d) ==
  /\ Change /\ Publishes({Task("add", d)})
  /\ UNCHANGED <<places, noted, chat, worker, astray, mishaps>>

Stops(d) ==
  /\ Change /\ Publishes({Task("remove", d)})
  /\ UNCHANGED <<places, noted, chat, worker, astray, mishaps>>

\* accept_order_by_driver with the last seat, and after it accept_order_handler and
\* driver_started_trip, which find the seats taken: each publishes both tasks
Fills(d) ==
  /\ Change /\ places' = Without(places, d)
  /\ Publishes({Task("clear", d), Notify})
  /\ UNCHANGED <<noted, chat, worker, astray, mishaps>>

\* The strike and the admin take a driver out and tell nobody; a priority request moves one.
\* (The nightly reset does it to all.)
Untold ==
  /\ Change
  /\ \/ \E d \in ToSet(places) : places' = Without(places, d)
     \/ \E d \in ToSet(places) : places' = <<d>> \o Without(places, d)
     \/ places' = <<>>
  /\ places' # places
  /\ astray' = astray \cup ToSet(places)
  /\ UNCHANGED <<noted, chat, waiting, worker, mishaps>>

\* An offer takes the message of the queue away first (notify_driver_new_order_task)
Offers(d) ==
  /\ Contains(places, d) /\ Change
  /\ Publishes({Task("clear", d)})
  /\ UNCHANGED <<places, noted, chat, worker, astray, mishaps>>

--------------------------------------------------------------------------------
(* The tasks *)

Goes(w, t) == worker' = [worker EXCEPT ![w] = t]

\* Which of the idle workers takes a task makes no difference
Takes(w, x) ==
  /\ Workers \ Running # {} /\ w = CHOOSE v \in Workers : v \notin Running
  /\ waiting[x] > 0
  /\ waiting' = [waiting EXCEPT ![x] = @ - 1]
  /\ LET t == [Idle EXCEPT !.task = x, !.pc =
                 CASE x.kind = "add" -> "adds" [] x.kind = "remove" -> "removes"
                   [] x.kind = "clear" -> "looks" [] OTHER -> "reads"]
     IN Goes(w, t) /\ Meets(w, t)
  /\ UNCHANGED <<places, noted, chat, changes, mishaps>>

\* add_driver, for a driver in the queue too: he gets the score of now
Adds(w) ==
  LET t == worker[w] IN
  /\ t.pc = "adds"
  /\ places' = Append(Without(places, t.task.driver), t.task.driver)
  /\ Goes(w, [t EXCEPT !.pc = "reads"])
  /\ UNCHANGED <<noted, chat, waiting, astray, changes, mishaps>>

\* remove_driver_from_queue_task looks at the queues there are: an empty one is none
Removes(w) ==
  LET t == worker[w]
      next == IF places = <<>> THEN Idle ELSE [t EXCEPT !.pc = "looks"] IN
  /\ t.pc = "removes"
  /\ places' = Without(places, t.task.driver)
  /\ Goes(w, next)
  /\ IF next = Idle THEN astray' = astray \cup {t.task.driver} ELSE Meets(w, next)
  /\ UNCHANGED <<noted, chat, waiting, changes, mishaps>>

\* _clear_queue_message_for_driver: GET, deleteMessage, DEL.  An error of Redis reads as
\* no key, one of Telegram is swallowed
Cleared(t) == IF t.task.kind = "remove" THEN [t EXCEPT !.pc = "reads", !.prev = None] ELSE Idle

Looks(w) ==
  LET t == worker[w] d == t.task.driver IN
  /\ t.pc = "looks"
  /\ \/ /\ Goes(w, IF noted[d] = None THEN Cleared(t)
                   ELSE [t EXCEPT !.pc = "deletes", !.prev = noted[d]])
        /\ UNCHANGED <<mishaps, astray>>
     \/ Fault /\ astray' = astray \cup {d} /\ Goes(w, Cleared(t))
  /\ UNCHANGED <<places, noted, chat, waiting, changes>>

Deletes(w) ==
  LET t == worker[w] d == t.task.driver IN
  /\ t.pc = "deletes"
  /\ \/ chat' = [chat EXCEPT ![d][t.prev] = 0] /\ UNCHANGED <<mishaps, astray>>
     \/ Fault /\ astray' = astray \cup {d} /\ UNCHANGED chat
  /\ Goes(w, [t EXCEPT !.pc = "forgets"])
  /\ UNCHANGED <<places, noted, waiting, changes>>

Forgets(w) ==
  LET t == worker[w] IN
  /\ t.pc = "forgets"
  /\ \/ noted' = [noted EXCEPT ![t.task.driver] = None] /\ UNCHANGED mishaps
     \/ Fault /\ UNCHANGED noted
  /\ Goes(w, Cleared(t))
  /\ UNCHANGED <<places, chat, waiting, astray, changes>>

\* _notify_queue_positions: the queue, and the drivers, once; ...
Reads(w) ==
  LET t == worker[w]
      next == IF places = <<>> THEN Idle
              ELSE [t EXCEPT !.pc = "asks", !.rest = places, !.place = 1] IN
  /\ t.pc = "reads"
  /\ \/ Goes(w, next) /\ Meets(w, next) /\ UNCHANGED mishaps
     \/ Fault /\ Goes(w, Idle) /\ astray' = Drivers
  /\ UNCHANGED <<places, noted, chat, waiting, changes>>

\* ... then for each of them GET ...
Asks(w) ==
  LET t == worker[w] d == Head(t.rest) IN
  /\ t.pc = "asks"
  /\ \/ Goes(w, [t EXCEPT !.pc = "sends", !.prev = noted[d]]) /\ UNCHANGED <<mishaps, astray>>
     \/ /\ Fault /\ astray' = astray \cup {d}
        /\ Goes(w, [t EXCEPT !.pc = "sends", !.prev = None])
  /\ UNCHANGED <<places, noted, chat, waiting, changes>>

\* Mutant: the message before this one is left in the chat
Kept(c, d, n) == c

Replaced(c, d, n) == IF n = None THEN c ELSE [c EXCEPT ![d][n] = 0]

ToNext(t) == IF Len(t.rest) = 1 THEN Idle
             ELSE [t EXCEPT !.pc = "asks", !.rest = Tail(@), !.place = @ + 1,
                            !.prev = None, !.sent = None]

\* ... deleteMessage and sendMessage; a driver who has blocked the bot is passed over ...
Sends(w) ==
  LET t == worker[w] d == Head(t.rest) IN
  /\ t.pc = "sends"
  /\ \/ /\ Ids \ Named(d) # {}
        /\ chat' = [Replaced(chat, d, t.prev) EXCEPT ![d][Fresh(d)] = t.place]
        /\ Goes(w, [t EXCEPT !.pc = "notes", !.sent = Fresh(d)])
        /\ UNCHANGED <<mishaps, astray>>
     \/ /\ Fault
        /\ \/ chat' = Replaced(chat, d, t.prev) /\ UNCHANGED astray
           \/ astray' = astray \cup {d} /\ UNCHANGED chat
        /\ Goes(w, ToNext(t))
  /\ UNCHANGED <<places, noted, waiting, changes>>

\* ... and SET
Notes(w) ==
  LET t == worker[w] d == Head(t.rest) IN
  /\ t.pc = "notes"
  /\ \/ /\ noted' = [noted EXCEPT ![d] = t.sent]
        /\ astray' = IF Shown(chat, d) = {t.sent} /\ Place(d) = t.place /\ Running = {w}
                       THEN astray \ {d} ELSE astray
        /\ UNCHANGED mishaps
     \/ Fault /\ astray' = astray \cup {d} /\ UNCHANGED noted
  /\ Goes(w, ToNext(t))
  /\ UNCHANGED <<places, chat, waiting, changes>>

\* The worker dies, and the task is run again from its start
Dies(w) ==
  LET t == worker[w] IN
  /\ w \in Running /\ Fault
  /\ waiting' = [waiting EXCEPT ![t.task] = @ + 1]
  /\ astray' = IF t.pc = "notes" THEN astray \cup {Head(t.rest)} ELSE astray
  /\ Goes(w, Idle)
  /\ UNCHANGED <<places, noted, chat, changes>>

--------------------------------------------------------------------------------
Init ==
  /\ places = <<>>
  /\ noted = [d \in Drivers |-> None]
  /\ chat = [d \in Drivers |-> [n \in Ids |-> 0]]
  /\ waiting = [x \in Tasks |-> 0]
  /\ worker = [w \in Workers |-> Idle]
  /\ astray = {} /\ changes = 0 /\ mishaps = 0

Changes == Untold \/ \E d \in Drivers : Joins(d) \/ Stops(d) \/ Fills(d) \/ Offers(d)

Works(w) ==
  \/ \E x \in Tasks : Takes(w, x)
  \/ Adds(w) \/ Removes(w) \/ Looks(w) \/ Deletes(w) \/ Forgets(w)
  \/ Reads(w) \/ Asks(w) \/ Sends(w) \/ Notes(w)

Next == Changes \/ \E w \in Workers : Works(w) \/ Dies(w)

Spec == Init /\ [][Next]_vars

--------------------------------------------------------------------------------
(* Properties *)

TypeOK ==
  /\ ToSet(places) \subseteq Drivers /\ IsInjective(places)
  /\ noted \in [Drivers -> Ids \cup {None}]
  /\ chat \in [Drivers -> [Ids -> 0 .. Cardinality(Drivers)]]
  /\ waiting \in [Tasks -> Nat] /\ astray \subseteq Drivers

\* When the tasks are done, a driver's chat has at most one message about the queue, the
\* one the next task will replace, and it tells his place; he who has left sees none.
\* astray are those to whom something happened that the code does not follow up: their
\* queue changed and nobody was told, two tasks touched their message at once, or a
\* command failed; until a task that runs alone has sent them their place again.
PlaceIsTold ==
  (Running = {} /\ \A x \in Tasks : waiting[x] = 0) =>
    \A d \in Drivers \ astray :
      \A n \in Shown(chat, d) : noted[d] = n /\ chat[d][n] = Place(d)

================================================================================
