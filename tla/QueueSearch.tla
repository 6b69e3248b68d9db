------------------------------ MODULE QueueSearch ------------------------------
(***************************************************************************)
(* One search of one route's queue (get_next_driver of                     *)
(* services/queue_service.py), while drivers join the queue, leave it,     *)
(* change their places and become suitable or unsuitable.  The search      *)
(* reads the sorted set in parts, by rank, and looks at each driver of a   *)
(* part when it comes to him.  How places and rows hang together is in     *)
(* DriverQueue, what is done with a search's result in Matching.           *)
(***************************************************************************)
EXTENDS Integers, FiniteSets, Sequences

CONSTANTS
  Drivers, None,
  Offset,     \* PRIORITY_OFFSET, more than any time
  BatchSize,  \* drivers read at a time: 20
  MaxClock    \* bound on add tasks

VARIABLES
  queue,   \* driver_queue:{route}: driver -> score
  fit,     \* drivers whose row, lock and skip key let them be picked now
  clock,   \* time.time()
  search,  \* local variables of the search
  steady,  \* drivers who have been in the queue and suitable since the search began
  calm     \* nobody has left the queue or changed his place in it since then

vars == <<queue, fit, clock, search, steady, calm>>

--------------------------------------------------------------------------------
Scores == (1 .. MaxClock) \cup {t - Offset : t \in 1 .. MaxClock}

SearchRec == [pc: {"idle", "reading", "checking", "picked", "nobody", "failed"}, start: Nat,
              batch: Seq(Drivers), pick: Drivers \cup {None}]

NoSearch == [pc |-> "idle", start |-> 0, batch |-> <<>>, pick |-> None]

InQueue(d) == queue[d] # None

Line == {d \in Drivers : InQueue(d)}

\* ZRANGE counts from the lowest score
Rank(d) == Cardinality({e \in Line : queue[e] < queue[d]})
AtRank(n) == CHOOSE d \in Line : Rank(d) = n

\* The members whose ranks are start and those after it
Part(start) ==
  [i \in 1 .. (IF start + BatchSize <= Cardinality(Line) THEN BatchSize
               ELSE Cardinality(Line) - start) |-> AtRank(start + i - 1)]

--------------------------------------------------------------------------------
(* What happens to the queue and the rows meanwhile *)

\* add_driver: the score of one who is in the queue already is replaced
Joins(d) ==
  /\ clock < MaxClock
  /\ clock' = clock + 1
  /\ \E score \in {clock', clock' - Offset} : queue' = [queue EXCEPT ![d] = score]
  /\ UNCHANGED <<fit, search>>

\* remove_driver
Leaves(d) ==
  /\ queue' = [queue EXCEPT ![d] = None]
  /\ UNCHANGED <<fit, clock, search>>

\* toggle_driver_priority
Toggles(d) ==
  /\ InQueue(d)
  /\ queue' = [queue EXCEPT ![d] = IF @ > 0 THEN @ - Offset ELSE @ + Offset]
  /\ UNCHANGED <<fit, clock, search>>

Changes(d) ==
  /\ fit' \in {fit \cup {d}, fit \ {d}}
  /\ UNCHANGED <<queue, clock, search>>

--------------------------------------------------------------------------------
(* The search *)

Starts ==
  /\ search.pc = "idle"
  /\ search' = [NoSearch EXCEPT !.pc = "reading"]
  /\ UNCHANGED <<queue, fit, clock>>

\* Mutant: both ends of a ZRANGE are inclusive, and the last is counted twice
NextStartInclusive(start) == start + BatchSize + 1

\* Mutant: the same part again
SameStart(start) == start

NextStart(start) == start + BatchSize

Reads ==
  LET start == search.start
      batch == Part(start)
  IN
  /\ search.pc = "reading"
  /\ search' = IF batch = <<>> THEN [NoSearch EXCEPT !.pc = "nobody"]
               ELSE [pc |-> "checking", start |-> NextStart(start), batch |-> batch,
                     pick |-> None]
  /\ UNCHANGED <<queue, fit, clock>>

Checks ==
  LET d    == Head(search.batch)
      rest == Tail(search.batch)
  IN
  /\ search.pc = "checking"
  /\ search' = IF d \in fit THEN [NoSearch EXCEPT !.pc = "picked", !.pick = d]
               ELSE [search EXCEPT !.batch = rest,
                                   !.pc = IF rest = <<>> THEN "reading" ELSE "checking"]
  /\ UNCHANGED <<queue, fit, clock>>

\* Any error of Redis or the database, or in a driver's row, ends the search: the caller is
\* told that there is nobody
Errs ==
  /\ search.pc \in {"reading", "checking"}
  /\ search' = [NoSearch EXCEPT !.pc = "failed"]
  /\ UNCHANGED <<queue, fit, clock>>

\* The result is used; find_driver_for_order_task may search again
Returns ==
  /\ search.pc \in {"picked", "nobody", "failed"}
  /\ search' = NoSearch
  /\ UNCHANGED <<queue, fit, clock>>

--------------------------------------------------------------------------------
Init ==
  /\ queue = [d \in Drivers |-> None]
  /\ fit = {}
  /\ clock = 0
  /\ search = NoSearch
  /\ steady = {} /\ calm = TRUE

\* What is kept about the search under way, after the step
Watches ==
  LET On == search'.pc # "idle" IN
  /\ steady' = IF On THEN {d \in fit' : InQueue(d)' /\ (search.pc = "idle" \/ d \in steady)}
               ELSE {}
  /\ calm' = (On => calm /\ \A d \in Drivers : InQueue(d) => queue'[d] = queue[d])

Environment == \E d \in Drivers : Joins(d) \/ Leaves(d) \/ Toggles(d) \/ Changes(d)

SearchStep == Reads \/ Checks \/ Errs

Next == (Environment \/ Starts \/ SearchStep \/ Returns) /\ Watches

Spec == Init /\ [][Next]_vars

--------------------------------------------------------------------------------
(* Properties *)

TypeOK ==
  /\ queue \in [Drivers -> Scores \cup {None}] /\ fit \subseteq Drivers
  /\ clock \in 0 .. MaxClock /\ search \in SearchRec
  /\ steady \subseteq Drivers /\ calm \in BOOLEAN

\* A search that sees no error picks the first of those who are suitable as long as it
\* lasts, or somebody who stands before him then, although it reads the queue in parts and
\* by rank while others join it, with or without priority: as long as nobody leaves.  One
\* that sees an error picks nobody (Errs), whoever waits.
FirstInLine ==
  calm => /\ search.pc = "nobody" => steady = {}
          /\ search.pc = "picked" =>
               \A d \in steady \ {search.pick} : queue[search.pick] < queue[d]
================================================================================
