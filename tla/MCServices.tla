------------------------------- MODULE MCServices -------------------------------
(***************************************************************************)
(* Four modules about keys of Redis and tasks that wait, checked one       *)
(* beside the other: they have no step in common, and a behaviour is one   *)
(* of one of them.                                                         *)
(***************************************************************************)
EXTENDS OfferKey, FiniteSets, TLC

CONSTANTS
  Calls, Kinds, Limit, Threshold, Window, Term, MaxRequests, OrderWindow, MaxFaults,
  Texts, Chats, MaxTries, Second, MaxDeaths,
  Drivers, Offset, BatchSize, MaxClock,
  o1, o2, c1, c2, t1, t2, a1, d1, d2, d3

\* setup_dispatcher and order_rate_limiter pass positive limits for the two kinds
LimitsFit ==
  /\ Kinds = {"message", "callback"}
  /\ Limit \in [Kinds -> Nat \ {0}] /\ Threshold \in [Kinds -> Nat \ {0}]
  /\ Window \in Nat /\ Term \in Nat /\ MaxRequests \in Nat \ {0} /\ OrderWindow \in Nat \ {0}
  /\ MaxFaults \in Nat /\ IsFiniteSet(Calls) /\ Calls # {}

MessagesFit == MaxTries \in Nat /\ Second \in Nat /\ MaxDeaths \in Nat

\* _PRIORITY_SCORE_OFFSET is larger than any time
LineFit ==
  /\ IsFiniteSet(Drivers) /\ None \notin Int \cup Drivers
  /\ MaxClock \in Nat /\ Offset \in Nat /\ MaxClock < Offset /\ BatchSize \in Nat \ {0}

ASSUME ServicesAssumption == LimitsFit /\ MessagesFit /\ LineFit

VARIABLES
  part,                                                             \* the module
  counter, violations, ban, stamps, term, began, calls,             \* of RateLimit
  admitted, gone, missed, faults,
  published, fan, casts, dropped, tasks, settled, rate,             \* of Notifications
  queue, fit, search, steady, calm                                  \* of QueueSearch

offers   == <<key, left, offer, age, answering, wiped>>
limits   == <<counter, violations, ban, stamps, term, began, calls, admitted, gone, missed>>
messages == <<published, fan, casts, dropped, tasks, settled, rate>>
line     == <<queue, fit, search, steady, calm>>
allVars  == <<part, offers, clock, limits, faults, messages, line>>

RL == INSTANCE RateLimit
NT == INSTANCE Notifications WITH MaxFaults <- MaxDeaths
QS == INSTANCE QueueSearch

\* Buttons are pressed more often than messages are written, and mean less
LimitOf     == "message" :> 1 @@ "callback" :> 2
ThresholdOf == "message" :> 1 @@ "callback" :> 2

NoOffers ==
  /\ key = None /\ left = 0 /\ offer = [o \in Orders |-> "none"]
  /\ age = [o \in Orders |-> 0] /\ answering = None /\ wiped = {}
NoLimits ==
  /\ counter = "-" /\ violations = "-" /\ ban = "-" /\ stamps = "-" /\ term = "-"
  /\ began = "-" /\ calls = "-" /\ admitted = "-" /\ gone = "-" /\ missed = "-"
NoMessages ==
  /\ published = "-" /\ fan = "-" /\ casts = "-" /\ dropped = "-" /\ tasks = "-"
  /\ settled = "-" /\ rate = "-"
NoLine     == queue = "-" /\ fit = "-" /\ search = "-" /\ steady = "-" /\ calm = "-"

PartsInit ==
  \/ part = "offers" /\ Init /\ NoLimits /\ NoMessages /\ NoLine /\ faults = 0
  \/ part = "limits" /\ RL!Init /\ NoOffers /\ NoMessages /\ NoLine /\ clock = 0
  \/ part = "messages" /\ NT!Init /\ NoOffers /\ NoLimits /\ NoLine /\ clock = 0
  \/ part = "line" /\ QS!Init /\ NoOffers /\ NoLimits /\ NoMessages /\ faults = 0

OfLimits(A)   == part = "limits" /\ A /\ UNCHANGED <<part, offers, clock, messages, line>>
OfMessages(A) == part = "messages" /\ A /\ UNCHANGED <<part, offers, clock, limits, line>>
OfLine(A)     == part = "line" /\ A /\ UNCHANGED <<part, offers, limits, faults, messages>>

PartsNext ==
  \/ part = "offers" /\ Next /\ UNCHANGED <<part, limits, faults, messages, line>>
  \/ OfLimits(RL!Next)
  \/ OfMessages(NT!Next)
  \/ OfLine(QS!Next)

\* The fairness of each module: time passes, the workers work, a search goes on.
\* Time and the search are of different parts: one of them is enabled at most.
PartsSpec ==
  /\ PartsInit
  /\ [][PartsNext]_allVars
  /\ WF_allVars(OfLimits(RL!Tick) \/ OfLine(QS!SearchStep /\ QS!Watches))
  /\ \A x \in Texts, a \in Chats : WF_allVars(OfMessages(NT!Step(x, a)))

--------------------------------------------------------------------------------
(* The properties of the modules, each of its part *)

PartsTypeOK ==
  /\ part = "offers" => TypeOK
  /\ part = "limits" => RL!TypeOK
  /\ part = "messages" => NT!TypeOK
  /\ part = "line" => QS!TypeOK

\* No interleaving of updates lets more through RateLimitMiddleware and check_limit
\* than the limit and what the calls that read together add to it.
RequestsAreBounded == part = "limits" => RL!BurstIsBounded /\ RL!BookingsAreBounded

\* The search of get_next_driver picks the first who suits, though others join; one that
\* meets an error finds nobody.
FirstIsPicked == part = "line" => QS!FirstInLine

\* A ban lapses and the window of bookings empties, whatever was under way then.
ShutOutEnds ==
  /\ []<>(part = "limits" => ban = RL!NoKey)
  /\ []<>(part = "limits" => RL!Fresh < MaxRequests)

\* Each message for a chat is sent, refused or given up, whatever errors come and
\* workers die (tasks/notifications.py): time and again there is none left.  Only the
\* chats a broadcast had not come to when its request died are passed over.
MessagesSettle ==
  []<>(part = "messages" => published \X Chats \subseteq settled \cup dropped)

\* The search over the parts of a queue ends, though drivers join behind it.
SearchEnds ==
  (part = "line" /\ search.pc = "reading") ~>
    (part = "line" /\ search.pc \in {"picked", "nobody", "failed"})
================================================================================
