--------------------------------- MODULE MCTrips ---------------------------------
(***************************************************************************)
(* TripLifecycle beside QueueMessages for TLC: trips, and what drivers are *)
(* told of their place in the queue they leave for one.  They have no step *)
(* in common, and a behaviour is one of one of them.                       *)
(***************************************************************************)
EXTENDS MCTripLifecycle

CONSTANTS Tellers, Ids, MaxChanges, MaxMishaps, w2

ASSUME MessagesAssumption == IsFiniteSet(Drivers) /\ None \notin Ids

VARIABLES
  part,                                                           \* the module
  places, noted, board, waiting, worker, astray, changes, mishaps \* of QueueMessages

messages == <<places, noted, board, waiting, worker, astray, changes, mishaps>>
allVars  == <<part, vars, messages>>

QM == INSTANCE QueueMessages WITH
        Workers <- Tellers, MaxFaults <- MaxMishaps, chat <- board

NoMessages ==
  /\ places = "-" /\ noted = "-" /\ board = "-" /\ waiting = "-" /\ worker = "-"
  /\ astray = "-" /\ changes = "-" /\ mishaps = "-"

PartsInit ==
  /\ Init
  /\ \/ part \in {"rides", "searches"} /\ NoMessages
     \/ part = "messages" /\ QM!Init

\* All presses without a find task that has read an order, or one press beside such tasks
WithinPart ==
  \/ part = "rides" /\ finding' = {}
  \/ part = "searches" /\ Cardinality({c \in Calls : call'[c] # New}) <= 1

PartsNext ==
  \/ Next /\ WithinPart /\ UNCHANGED <<part, messages>>
  \/ part = "messages" /\ QM!Next /\ UNCHANGED <<part, vars>>

PartsSpec == PartsInit /\ [][PartsNext]_allVars

--------------------------------------------------------------------------------
PartsTypeOK == TypeOK /\ (part = "messages" => QM!TypeOK)

\* What a driver's chat says of his place is true when the tasks of matching.py are done,
\* and said once, unless the queue changed unannounced, two tasks met or one failed.
PlaceIsTold == part = "messages" => QM!PlaceIsTold
================================================================================
