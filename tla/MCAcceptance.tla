------------------------------ MODULE MCAcceptance ------------------------------
(***************************************************************************)
(* OrderAcceptance beside TripLifecycle with its fairness, for TLC: what   *)
(* must come to an end of an accepted order.  They have no step in common, *)
(* and a behaviour is one of one of them.                                  *)
(***************************************************************************)
EXTENDS MCOrderAcceptance

CONSTANTS
  RideCalls, Workers, MaxSeats, SeatChoices, MaxFaults,   \* of TripLifecycle
  w1

VARIABLES
  part,
  rideOrder, rideDriver, ride, starts, timer, press, faults, dropped, finding, misled

rides   == <<rideOrder, rideDriver, ride, starts, timer, press, faults, dropped,
             finding, misled>>
allVars == <<part, vars, rides>>

\* Orders and trips are numbered by two sequences: a trip and an order of another
\* trip share an id
Ids     == [x \in Orders \cup Trips |-> IF x \in {o1, t2} THEN 1 ELSE 2]
OneSeat == [o \in Orders |-> 1]

TL == INSTANCE TripLifecycle WITH
        Calls <- RideCalls, Number <- Ids, Seats <- OneSeat,
        order <- rideOrder, driver <- rideDriver, trip <- ride, call <- press

\* The part that is not run stands at its beginning
PartsInit == part \in {"accepting", "riding", "searching"} /\ Init /\ TL!Init

OfAccepting(A) == part = "accepting" /\ A /\ UNCHANGED <<part, rides>>

\* Faults and late find tasks each have a part of their own
OfRiding(A) ==
  /\ (part = "riding" /\ finding' = {}) \/ (part = "searching" /\ faults' = 0)
  /\ A
  /\ UNCHANGED <<part, vars>>

PartsNext == OfAccepting(Next) \/ OfRiding(TL!Next)

\* The fairness of both modules
PartsSpec ==
  /\ PartsInit
  /\ [][PartsNext]_allVars
  /\ \A c \in Calls : WF_allVars(OfAccepting(CallStep(c)))
  /\ \A o \in Orders : WF_allVars(OfAccepting(LockExpires(o)))
  /\ \A c \in RideCalls : WF_allVars(OfRiding(TL!CallStep(c)))
  /\ \A w \in Workers : WF_allVars(OfRiding(TL!WorkerStep(w)))

--------------------------------------------------------------------------------
\* A ride in progress ends (auto_complete_trip_task): it is completed or left behind,
\* or the wait cycle of a completion and a cancellation has caught it.
RideEnds ==
  \A o \in Orders :
    TL!InProgress(o) ~> (~TL!InProgress(o) \/ TL!LeftBehind(o) \/ TL!WaitCycle)
=================================================================================
