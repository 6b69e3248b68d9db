----------------------------- MODULE ServicesProofs -----------------------------
(***************************************************************************)
(* Proofs about the four modules that MCServices checks side by side, for  *)
(* every number of orders, updates, chats and drivers, and for every limit *)
(* and time.                                                               *)
(*                                                                         *)
(* OfferKey: what is counted of an offer and what is left of its key       *)
(* change together, and make up the key's life as long as it lasts.        *)
(* RateLimit: what has got through and what the calls under way may still  *)
(* let through are counted together, and a new beginning of the count, or  *)
(* a fault, pays for what it lets through; the entries of a list that has  *)
(* lapsed are out of the window when the next one lapses.                  *)
(* Notifications: its types.  QueueSearch: who suits and was not read yet  *)
(* stands behind what was, as ranks only grow while nobody leaves.         *)
(***************************************************************************)
EXTENDS MCServices, FiniteSetTheorems, SequenceTheorems, TLAPS

--------------------------------------------------------------------------------
(* OfferKey *)

\* The key of an offer is as old as the offer
Held(o) ==
  offer[o] \in {"locked", "live"} =>
    \/ o \in wiped
    \/ age[o] = KeyLife
    \/ key = o /\ left + age[o] = KeyLife

Unoffered(o) == offer[o] = "none" => age[o] = 0

OffersInv ==
  /\ TypeOK
  /\ \A o \in Orders : Held(o) /\ Unoffered(o)
  /\ answering # None => offer[answering] = "answered"

--------------------------------------------------------------------------------

LEMMA LocksOK ==
  ASSUME OffersInv, NEW o \in Orders, Locks(o)
  PROVE  OffersInv'
<1> USE ConstantsAssumption
<1>1. /\ offer[o] = "none" /\ key = None /\ key' = o /\ left' = KeyLife
      /\ UNCHANGED <<age, clock, answering, wiped>>
      /\ offer' \in [Orders -> {"none", "locked", "live", "passed", "answered"}]
      /\ offer'[o] = "locked" /\ \A p \in Orders \ {o} : offer'[p] = offer[p]
  BY DEF Locks, KeyFree, OffersInv, TypeOK
<1>2. TypeOK'
  BY <1>1 DEF OffersInv, TypeOK
<1>3. ASSUME NEW p \in Orders
      PROVE  Held(p)' /\ Unoffered(p)'
  <2>1. Held(p) /\ Unoffered(p) /\ Unoffered(o)
    BY DEF OffersInv
  <2>2. left = 0 /\ age[p] \in 0..KeyLife
    BY <1>1 DEF OffersInv, TypeOK
  <2>3. CASE p = o
    BY <1>1, <2>1, <2>3 DEF Held, Unoffered
  <2>4. CASE p # o
    BY <1>1, <2>1, <2>2, <2>4 DEF Held, Unoffered
  <2> QED
    BY <2>3, <2>4
<1>4. answering' # None => offer'[answering'] = "answered"
  BY <1>1 DEF OffersInv, TypeOK
<1> QED
  BY <1>2, <1>3, <1>4 DEF OffersInv

LEMMA SendsOK ==
  ASSUME OffersInv, NEW o \in Orders, Sends(o)
  PROVE  OffersInv'
<1> USE ConstantsAssumption
<1>1. /\ offer[o] = "locked" /\ UNCHANGED <<key, left, age, answering, wiped>>
      /\ offer' \in [Orders -> {"none", "locked", "live", "passed", "answered"}]
      /\ offer'[o] = "live" /\ \A p \in Orders \ {o} : offer'[p] = offer[p]
      /\ clock' \in [Orders -> Nat]
  BY DEF Sends, OffersInv, TypeOK
<1>2. TypeOK'
  BY <1>1 DEF OffersInv, TypeOK
<1>3. ASSUME NEW p \in Orders
      PROVE  Held(p)' /\ Unoffered(p)'
  <2>1. Held(p) /\ Unoffered(p)
    BY DEF OffersInv
  <2> QED
    BY <1>1, <2>1 DEF Held, Unoffered
<1>4. answering' # None => offer'[answering'] = "answered"
  BY <1>1 DEF OffersInv, TypeOK
<1> QED
  BY <1>2, <1>3, <1>4 DEF OffersInv

\* auto_reject_order_task and the buttons end an offer and leave its key.
LEMMA EndsOK ==
  ASSUME OffersInv, NEW o \in Orders, AutoRejects(o) \/ Presses(o)
  PROVE  OffersInv'
<1> USE ConstantsAssumption
<1>1. /\ UNCHANGED <<key, left, age, clock, wiped>>
      /\ offer' \in [Orders -> {"none", "locked", "live", "passed", "answered"}]
      /\ offer'[o] \in {"passed", "answered"}
      /\ \A p \in Orders \ {o} : offer'[p] = offer[p]
      /\ answering' \in Orders \cup {None}
      /\ \/ answering' = answering /\ offer[o] = "live"
         \/ answering' \in {o, None} /\ offer'[o] = "answered"
  BY DEF AutoRejects, Presses, OffersInv, TypeOK
<1>2. TypeOK'
  BY <1>1 DEF OffersInv, TypeOK
<1>3. ASSUME NEW p \in Orders
      PROVE  Held(p)' /\ Unoffered(p)'
  <2>1. Held(p) /\ Unoffered(p)
    BY DEF OffersInv
  <2> QED
    BY <1>1, <2>1 DEF Held, Unoffered
<1>4. answering' # None => offer'[answering'] = "answered"
  BY <1>1 DEF OffersInv, TypeOK
<1> QED
  BY <1>2, <1>3, <1>4 DEF OffersInv

\* unlock_driver_offer: the order whose key goes is wiped, or it was answered.
LEMMA UnlocksOK ==
  ASSUME OffersInv, HandlerUnlocks \/ TripStarts
  PROVE  OffersInv'
<1> USE ConstantsAssumption
<1>1. /\ key' = None /\ left' = 0 /\ UNCHANGED <<offer, age, clock>>
      /\ wiped' = wiped \/ (key \in Orders /\ wiped' = wiped \cup {key})
      /\ key \in wiped' \/ key \in {answering, None}
      /\ answering' \in {answering, None}
  BY DEF HandlerUnlocks, TripStarts, Unlocks, OffersInv, TypeOK
<1>2. TypeOK'
  BY <1>1 DEF OffersInv, TypeOK
<1>3. ASSUME NEW p \in Orders
      PROVE  Held(p)' /\ Unoffered(p)'
  <2>1. Held(p) /\ Unoffered(p)
    BY DEF OffersInv
  <2>2. p = answering => offer[p] = "answered"
    BY DEF OffersInv
  <2> QED
    BY <1>1, <2>1, <2>2 DEF Held, Unoffered
<1>4. answering' # None => offer'[answering'] = "answered"
  BY <1>1 DEF OffersInv
<1> QED
  BY <1>2, <1>3, <1>4 DEF OffersInv

LEMMA TickOK ==
  ASSUME OffersInv, Tick
  PROVE  OffersInv'
<1> USE ConstantsAssumption
<1>1. /\ UNCHANGED <<offer, answering, wiped>>
      /\ left' = IF left > 0 THEN left - 1 ELSE 0
      /\ key' = IF left > 1 THEN key ELSE None
      /\ \A p \in Orders :
           age'[p] = IF offer[p] \in {"locked", "live"} /\ age[p] < KeyLife
                     THEN age[p] + 1 ELSE age[p]
  BY DEF Tick
<1>2. left \in 0..KeyLife /\ (key = None <=> left = 0)
  BY DEF OffersInv, TypeOK
<1>3. \A p \in Orders : age[p] \in 0..KeyLife /\ clock[p] \in Nat
  BY DEF OffersInv, TypeOK
<1>4. age' \in [Orders -> 0..KeyLife] /\ clock' \in [Orders -> Nat]
  BY <1>3 DEF Tick
<1>5. TypeOK'
  BY <1>1, <1>2, <1>4 DEF OffersInv, TypeOK
<1>6. ASSUME NEW p \in Orders
      PROVE  Held(p)' /\ Unoffered(p)'
  <2>1. Held(p) /\ Unoffered(p) /\ age[p] \in 0..KeyLife
    BY <1>3 DEF OffersInv
  <2> QED
    BY <1>1, <1>2, <2>1 DEF Held, Unoffered
<1>7. answering' # None => offer'[answering'] = "answered"
  BY <1>1 DEF OffersInv
<1> QED
  BY <1>5, <1>6, <1>7 DEF OffersInv

LEMMA OffersInit == Init => OffersInv
  BY ConstantsAssumption
     DEF Init, OffersInv, TypeOK, Held, Unoffered

LEMMA OffersStep == OffersInv /\ [Next]_vars => OffersInv'
<1> SUFFICES ASSUME OffersInv, [Next]_vars PROVE OffersInv'
  OBVIOUS
<1>1. CASE Next
  BY <1>1, LocksOK, SendsOK, EndsOK, UnlocksOK, TickOK DEF Next
<1>2. CASE UNCHANGED vars
  BY <1>2 DEF vars, OffersInv, TypeOK, Held, Unoffered
<1> QED
  BY <1>1, <1>2

\* lock_driver_for_offer: the key driver_offered is as old as the offer it names and runs
\* out KeyLife after it was taken, whatever handlers, tasks, settings of the timer and late
\* notifications come between, unless another handler has deleted it.
THEOREM OfferKeyInvariance == Spec => []OffersInv
<1> QED
  BY OffersInit, OffersStep, PTL DEF Spec

\* lock_driver_for_offer: for the whole life of the key other orders are kept from a driver
\* who may answer an offer, for any life and any setting of the timer (a timer that runs on
\* longer is not covered by it); only another order's button or trip ends that sooner.
THEOREM DriverIsHeld == Spec => []OfferHoldsDriver
<1>1. OffersInv => OfferHoldsDriver
  BY ConstantsAssumption DEF OffersInv, OfferHoldsDriver, InTime, Held, TypeOK
<1> QED
  BY <1>1, OfferKeyInvariance, PTL

--------------------------------------------------------------------------------
(* RateLimit *)

Steps == {"idle", "ban", "count", "first", "more", "over", "strike", "banning", "answer",
          "handler", "booking", "push", "expire"}
UpdateRec == [pc: Steps, kind: Kinds, read: Nat]

Count(p) == Cardinality({c \in Calls : calls[c].pc = p})

\* What a step of one call does to the numbers of calls at each step
LEMMA CountMoves ==
  ASSUME LimitsFit, NEW c \in Calls, NEW q,
         \A b \in Calls : calls'[b] = IF b = c THEN q ELSE calls[b],
         NEW p
  PROVE  /\ Count(p) \in Nat /\ Count(p)' \in Nat
         /\ Count(p)' + (IF calls[c].pc = p THEN 1 ELSE 0)
              = Count(p) + (IF q.pc = p THEN 1 ELSE 0)
         /\ calls[c].pc # p => Count(p) <= Cardinality(Calls) - 1
<1> DEFINE S == {b \in Calls : calls[b].pc = p}
           T == {b \in Calls : calls'[b].pc = p}
           U == {b \in Calls \ {c} : calls[b].pc = p}
<1>1. IsFiniteSet(Calls) /\ U \subseteq Calls \ {c}
  BY DEF LimitsFit
<1>2. IsFiniteSet(Calls \ {c}) /\ Cardinality(Calls \ {c}) = Cardinality(Calls) - 1
  BY <1>1, FS_RemoveElement
<1>3. IsFiniteSet(U) /\ Cardinality(U) <= Cardinality(Calls) - 1 /\ Cardinality(U) \in Nat
  BY <1>1, <1>2, FS_Subset, FS_CardinalityType
<1>4. S = IF calls[c].pc = p THEN U \cup {c} ELSE U
  OBVIOUS
<1>5. T = IF q.pc = p THEN U \cup {c} ELSE U
  OBVIOUS
<1>6. c \notin U /\ Cardinality(U \cup {c}) = Cardinality(U) + 1
  BY <1>3, FS_AddElement
<1>7. Count(p) = Cardinality(S) /\ Count(p)' = Cardinality(T)
  BY DEF Count
<1> HIDE DEF S, T, U
<1> QED
  BY <1>3, <1>4, <1>5, <1>6, <1>7

LEMMA CountType ==
  ASSUME LimitsFit, NEW p
  PROVE  Count(p) \in Nat /\ Count(p) <= Cardinality(Calls) /\ Cardinality(Calls) \in Nat \ {0}
<1> DEFINE S == {b \in Calls : calls[b].pc = p}
<1>1. S \subseteq Calls /\ IsFiniteSet(Calls) /\ Calls # {}
  BY DEF LimitsFit
<1>2. IsFiniteSet(S) /\ Cardinality(S) <= Cardinality(Calls)
  BY <1>1, FS_Subset
<1>3. Cardinality(S) \in Nat /\ Cardinality(Calls) \in Nat /\ Cardinality(Calls) # 0
  BY <1>1, <1>2, FS_CardinalityType, FS_EmptySet
<1> QED
  BY <1>2, <1>3 DEF Count

LEMMA LargestIs ==
  ASSUME LimitsFit, NEW f \in [Kinds -> Nat \ {0}]
  PROVE  /\ RL!Largest(f) \in Nat \ {0}
         /\ \A k \in Kinds : f[k] <= RL!Largest(f)
<1>1. \E n \in {f[k] : k \in Kinds} : \A k \in Kinds : f[k] <= n
  <2>1. CASE f["message"] <= f["callback"]
    BY <2>1 DEF LimitsFit
  <2>2. CASE f["callback"] <= f["message"]
    BY <2>2 DEF LimitsFit
  <2> QED
    BY <2>1, <2>2 DEF LimitsFit
<1> QED
  BY <1>1 DEF RL!Largest

--------------------------------------------------------------------------------
KeyRec == [n: Nat, ttl: {-1} \cup 0..Window \cup 0..Term]

RatesTyped ==
  /\ counter \in KeyRec /\ violations \in KeyRec /\ ban \in KeyRec
  /\ stamps \in [RL!Ages -> Nat]
  /\ term \in {-1} \cup 0..OrderWindow
  /\ began \in [Calls -> RL!Ages]
  /\ calls \in [Calls -> UpdateRec]
  /\ admitted \in Nat /\ gone \in [0..OrderWindow -> Nat] /\ missed \in Nat
  /\ faults \in 0..MaxFaults

LEMMA KeyTyped ==
  ASSUME LimitsFit
  PROVE  /\ RL!NoKey \in KeyRec
         /\ \A n \in Nat : /\ RL!Set(n, Window) \in KeyRec /\ RL!Set(n, Term) \in KeyRec
                           /\ RL!Set(n, RL!Forever) \in KeyRec
         /\ \A x \in KeyRec : RL!Aged(x) \in KeyRec
         /\ \A x \in KeyRec, m \in Nat : [x EXCEPT !.n = m] \in KeyRec
         /\ \A n \in Nat, f \in [Kinds -> Nat \ {0}] : RL!OneMore(n, f) \in Nat
<1>1. ASSUME NEW x \in KeyRec PROVE RL!Aged(x) \in KeyRec
  <2>1. x.ttl \in Int /\ x.ttl # 1 => RL!Sooner(x.ttl) \in {-1} \cup 0..Window \cup 0..Term
    BY DEF KeyRec, RL!Sooner, RL!Forever, LimitsFit
  <2> QED
    BY <2>1 DEF KeyRec, RL!Aged, RL!NoKey, LimitsFit
<1>2. /\ RL!NoKey \in KeyRec
      /\ \A n \in Nat : /\ RL!Set(n, Window) \in KeyRec /\ RL!Set(n, Term) \in KeyRec
                        /\ RL!Set(n, RL!Forever) \in KeyRec
  BY DEF KeyRec, RL!NoKey, RL!Set, RL!Forever, LimitsFit
<1>3. \A x \in KeyRec, m \in Nat : [x EXCEPT !.n = m] \in KeyRec
  BY DEF KeyRec
<1>4. \A n \in Nat, f \in [Kinds -> Nat \ {0}] : RL!OneMore(n, f) \in Nat
  BY DEF RL!OneMore
<1> QED
  BY <1>1, <1>2, <1>3, <1>4

\* Every step of a call moves it and no other
LEMMA UpdateMoves ==
  ASSUME LimitsFit, RatesTyped, NEW c \in Calls, RL!Step(c) \/ \E k \in Kinds : RL!Arrive(c, k)
  PROVE  \E q \in UpdateRec :
           /\ calls' = [calls EXCEPT ![c] = q]
           /\ \A b \in Calls : calls'[b] = IF b = c THEN q ELSE calls[b]
<1>1. calls \in [Calls -> UpdateRec] /\ calls[c] \in UpdateRec
  BY DEF RatesTyped
<1>2. ASSUME NEW p \in Steps, NEW v \in Nat, RL!Goes(c, p, v)
      PROVE  \E q \in UpdateRec : calls' = [calls EXCEPT ![c] = q]
  <2>1. calls' = [calls EXCEPT ![c] = [calls[c] EXCEPT !.pc = p, !.read = v]]
    BY <1>1, <1>2 DEF RL!Goes
  <2>2. [calls[c] EXCEPT !.pc = p, !.read = v] \in UpdateRec
    BY <1>1 DEF UpdateRec
  <2> QED
    BY <2>1, <2>2
<1>3. ASSUME RL!Ends(c) PROVE \E q \in UpdateRec : calls' = [calls EXCEPT ![c] = q]
  <2>1. RL!Idle \in UpdateRec
    BY DEF RL!Idle, UpdateRec, Steps, LimitsFit
  <2> QED
    BY <1>3, <2>1 DEF RL!Ends
<1>4. ASSUME NEW k \in Kinds, RL!Arrive(c, k)
      PROVE  \E q \in UpdateRec : calls' = [calls EXCEPT ![c] = q]
  BY <1>4 DEF RL!Arrive, UpdateRec, Steps
<1>5. CASE RL!ReadBan(c) \/ RL!ReadCount(c)
  <2>1. \A k \in Kinds, n \in Nat : RL!Judged(k, n) \in Steps
    BY DEF RL!Judged, Steps
  <2>2. calls[c].kind \in Kinds /\ counter.n \in Nat
    BY <1>1 DEF UpdateRec, RatesTyped, KeyRec
  <2>3. RL!Judged(calls[c].kind, counter.n) \in Steps /\ RL!Judged(calls[c].kind, 0) \in Steps
    BY <2>1, <2>2
  <2>4. "count" \in Steps /\ "answer" \in Steps
    BY DEF Steps
  <2> QED
    BY <1>1, <1>2, <1>5, <2>3, <2>4 DEF RL!ReadBan, RL!ReadCount
<1>6. CASE RL!FirstOfWindow(c) \/ RL!CountOn(c)
  <2>1. "handler" \in Steps
    BY DEF Steps
  <2> QED
    BY <1>1, <1>2, <1>6, <2>1 DEF RL!FirstOfWindow, RL!CountOn, RL!Admits
<1>7. CASE RL!ReadViolations(c)
  <2>1. "strike" \in Steps /\ RL!OneMore(violations.n, Threshold) \in Nat
    BY KeyTyped DEF Steps, RatesTyped, KeyRec, LimitsFit
  <2> QED
    BY <1>1, <1>2, <1>7, <2>1 DEF RL!ReadViolations
<1>8. CASE RL!Strike(c) \/ RL!Ban(c) \/ RL!Refuses(c)
  <2>1. "banning" \in Steps /\ "answer" \in Steps /\ "handler" \in Steps
    BY DEF Steps
  <2> QED
    BY <1>1, <1>2, <1>3, <1>8, <2>1 DEF RL!Strike, RL!Ban, RL!Refuses, RL!Admits
<1>9. CASE RL!Handle(c) \/ RL!SkipToNext(c) \/ RL!StartBooking(c)
  <2>1. "ban" \in Steps /\ "booking" \in Steps
    BY DEF Steps
  <2> QED
    BY <1>1, <1>2, <1>3, <1>9, <2>1 DEF RL!Handle, RL!SkipToNext, RL!StartBooking
<1>10. CASE RL!CheckLimit(c) \/ RL!Push(c) \/ RL!SetTerm(c)
  <2>1. "push" \in Steps /\ "expire" \in Steps
    BY DEF Steps
  <2> QED
    BY <1>1, <1>2, <1>3, <1>10, <2>1 DEF RL!CheckLimit, RL!Push, RL!SetTerm
<1>11. PICK q \in UpdateRec : calls' = [calls EXCEPT ![c] = q]
  BY <1>4, <1>5, <1>6, <1>7, <1>8, <1>9, <1>10 DEF RL!Step
<1> QED
  BY <1>1, <1>11

LEMMA StepRatesTyped ==
  ASSUME LimitsFit, RatesTyped, [RL!Next]_(RL!vars)
  PROVE  RatesTyped'
<1> USE DEF RL!keys, RL!list, RL!past, RL!booking, RL!Works, RL!Fault
<1>t. /\ counter \in KeyRec /\ violations \in KeyRec /\ ban \in KeyRec
      /\ stamps \in [RL!Ages -> Nat] /\ term \in {-1} \cup 0..OrderWindow
      /\ began \in [Calls -> RL!Ages] /\ gone \in [0..OrderWindow -> Nat] /\ missed \in Nat
      /\ calls \in [Calls -> UpdateRec] /\ admitted \in Nat /\ faults \in 0..MaxFaults
      /\ MaxFaults \in Nat /\ OrderWindow \in Nat
  BY DEF RatesTyped, LimitsFit
<1>f. RL!Fault => faults' \in 0..MaxFaults
  BY <1>t
<1>a. 0 \in RL!Ages /\ OrderWindow + 1 \in RL!Ages
  BY <1>t DEF RL!Ages
<1>1. ASSUME NEW c \in Calls, RL!Step(c) \/ \E k \in Kinds : RL!Arrive(c, k)
      PROVE  RatesTyped'
  <2>1. calls' \in [Calls -> UpdateRec]
    <3>1. PICK q \in UpdateRec : calls' = [calls EXCEPT ![c] = q]
      BY <1>1, UpdateMoves
    <3> QED
      BY <1>t, <3>1
  <2>2. CASE \/ RL!ReadBan(c) \/ RL!ReadCount(c) \/ RL!ReadViolations(c) \/ RL!Handle(c)
             \/ RL!SkipToNext(c) \/ RL!StartBooking(c) \/ RL!Refuses(c)
             \/ \E k \in Kinds : RL!Arrive(c, k)
    <3>1. UNCHANGED <<counter, violations, ban, stamps, term, began, gone, missed>>
      BY <2>2 DEF RL!ReadBan, RL!ReadCount, RL!ReadViolations, RL!Handle, RL!SkipToNext,
         RL!StartBooking, RL!Refuses, RL!Arrive
    <3>2. faults' \in 0..MaxFaults
      BY <1>t, <1>f, <2>2 DEF RL!ReadBan, RL!ReadCount, RL!ReadViolations, RL!Handle,
         RL!SkipToNext, RL!StartBooking, RL!Refuses, RL!Arrive
    <3>3. admitted' \in Nat
      BY <1>t, <2>2 DEF RL!ReadBan, RL!ReadCount, RL!ReadViolations, RL!Handle,
         RL!SkipToNext, RL!StartBooking, RL!Refuses, RL!Admits, RL!Arrive
    <3> QED
      BY <1>t, <2>1, <3>1, <3>2, <3>3 DEF RatesTyped
  <2>3. CASE RL!FirstOfWindow(c) \/ RL!CountOn(c)
    <3>1. RL!Set(1, Window) \in KeyRec /\ RL!Incr(counter) \in KeyRec
      <4>1. RL!OneMore(counter.n, Limit) \in Nat /\ RL!Set(1, RL!Forever) \in KeyRec
        BY <1>t, KeyTyped DEF KeyRec, LimitsFit
      <4>2. [counter EXCEPT !.n = RL!OneMore(counter.n, Limit)] \in KeyRec
        BY <1>t, <4>1, KeyTyped
      <4> QED
        BY <4>1, <4>2, KeyTyped DEF RL!Incr
    <3>2. /\ counter' \in KeyRec /\ admitted' = admitted + 1 /\ faults' \in 0..MaxFaults
          /\ UNCHANGED <<violations, ban, stamps, term, began, gone, missed>>
      BY <1>t, <1>f, <2>3, <3>1 DEF RL!FirstOfWindow, RL!CountOn, RL!Admits
    <3> QED
      BY <1>t, <2>1, <3>2 DEF RatesTyped
  <2>4. CASE RL!Strike(c) \/ RL!Ban(c)
    <3>1. calls[c].read \in Nat
      BY <1>t DEF UpdateRec
    <3>2. RL!Set(calls[c].read, Term) \in KeyRec /\ RL!Set(1, Term) \in KeyRec
      BY <3>1, KeyTyped
    <3>3. faults' \in 0..MaxFaults
      BY <1>t, <1>f, <2>4 DEF RL!Strike, RL!Ban
    <3>4. violations' \in KeyRec
      BY <1>t, <2>4, <3>2 DEF RL!Strike, RL!Ban
    <3>5. ban' \in KeyRec
      BY <1>t, <2>4, <3>2 DEF RL!Strike, RL!Ban
    <3>6. UNCHANGED <<counter, stamps, term, admitted, began, gone, missed>>
      BY <2>4 DEF RL!Strike, RL!Ban
    <3> QED
      BY <1>t, <2>1, <3>3, <3>4, <3>5, <3>6 DEF RatesTyped
  <2>5. CASE RL!CheckLimit(c)
    <3>1. /\ UNCHANGED <<counter, violations, ban, stamps, term, began, admitted, gone>>
          /\ missed' \in Nat /\ faults' \in 0..MaxFaults
      BY <1>t, <1>f, <2>5 DEF RL!CheckLimit
    <3> QED
      BY <1>t, <2>1, <3>1 DEF RatesTyped
  <2>6. CASE RL!Push(c)
    <3>1. stamps' \in [RL!Ages -> Nat] /\ began' \in [Calls -> RL!Ages]
      BY <1>t, <1>a, <2>6 DEF RL!Push
    <3>2. term' \in {-1} \cup 0..OrderWindow
      BY <1>t, <2>6 DEF RL!Push, RL!Forever
    <3>3. /\ UNCHANGED <<counter, violations, ban, admitted, gone>>
          /\ missed' \in Nat /\ faults' \in 0..MaxFaults
      BY <1>t, <1>f, <2>6 DEF RL!Push
    <3> QED
      BY <1>t, <2>1, <3>1, <3>2, <3>3 DEF RatesTyped
  <2>7. CASE RL!SetTerm(c)
    <3>1. stamps' \in [RL!Ages -> Nat]
      BY <1>t, <1>a, <2>7 DEF RL!SetTerm
    <3>2. term' \in {-1} \cup 0..OrderWindow
      BY <1>t, <2>7 DEF RL!SetTerm, RL!Forever, RL!Expiring
    <3>3. /\ UNCHANGED <<counter, violations, ban, admitted, began, gone, missed>>
          /\ faults' \in 0..MaxFaults
      BY <1>t, <1>f, <2>7 DEF RL!SetTerm
    <3> QED
      BY <1>t, <2>1, <3>1, <3>2, <3>3 DEF RatesTyped
  <2> QED
    BY <1>1, <2>2, <2>3, <2>4, <2>5, <2>6, <2>7 DEF RL!Step
<1>2. CASE RL!Tick
  <2>1. counter' \in KeyRec /\ violations' \in KeyRec /\ ban' \in KeyRec
    BY <1>t, <1>2, KeyTyped DEF RL!Tick
  <2>2. RL!NoEntry \in [RL!Ages -> Nat] /\ RL!Older \in [RL!Ages -> Nat]
    <3>1. ASSUME NEW a \in RL!Ages, a # 0 PROVE a - 1 \in RL!Ages
      BY <1>t, <3>1 DEF RL!Ages
    <3>2. \A n \in Nat : RL!AtMost(n) \in Nat
      BY DEF RL!AtMost, LimitsFit
    <3>3. ASSUME NEW a \in RL!Ages PROVE RL!Older[a] \in Nat
      <4>1. a # 0 => stamps[a - 1] \in Nat /\ stamps[a] \in Nat
        BY <1>t, <3>1
      <4> QED
        BY <3>2, <4>1 DEF RL!Older
    <3>4. RL!Older = [a \in RL!Ages |-> RL!Older[a]]
      BY DEF RL!Older
    <3> QED
      BY <3>3, <3>4 DEF RL!NoEntry
  <2>3. term' \in {-1} \cup 0..OrderWindow /\ stamps' \in [RL!Ages -> Nat]
    BY <1>t, <1>2, <2>2 DEF RL!Tick, RL!Sooner, RL!Forever
  <2>4. gone' \in [0..OrderWindow -> Nat]
    <3>1. ASSUME NEW a \in 0..OrderWindow, a # 0
          PROVE  gone[a - 1] \in Nat /\ stamps[a - 1] \in Nat
      BY <1>t, <3>1 DEF RL!Ages
    <3> QED
      BY <1>2, <3>1 DEF RL!Tick, RL!LapsedThen
  <2>5. began' \in [Calls -> RL!Ages]
    <3>1. ASSUME NEW a \in RL!Ages, a <= OrderWindow PROVE a + 1 \in RL!Ages
      BY <1>t, <3>1 DEF RL!Ages
    <3> QED
      BY <1>t, <1>2, <3>1 DEF RL!Tick
  <2>6. admitted' \in Nat /\ UNCHANGED <<calls, missed, faults>>
    BY <1>t, <1>2 DEF RL!Tick
  <2> QED
    BY <1>t, <2>1, <2>3, <2>4, <2>5, <2>6 DEF RatesTyped
<1>3. CASE RL!Restart
  <2>1. RL!Idle \in UpdateRec
    BY DEF RL!Idle, UpdateRec, Steps, LimitsFit
  <2>2. calls' \in [Calls -> UpdateRec] /\ faults' \in 0..MaxFaults
        /\ began' \in [Calls -> RL!Ages]
    BY <1>a, <1>f, <1>3, <2>1 DEF RL!Restart
  <2> QED
    BY <1>t, <1>3, <2>2 DEF RatesTyped, RL!Restart
<1>4. CASE UNCHANGED RL!vars
  BY <1>4 DEF RL!vars, RatesTyped
<1> QED
  BY <1>1, <1>2, <1>3, <1>4 DEF RL!Next

--------------------------------------------------------------------------------
(* The middleware: what a call still lets through *)

\* What one beginning of the count lets through at most
Share == RL!Largest(Limit) + Cardinality(Calls) - 1

\* The calls that will begin the count again: those that found no key, and one for each
\* fault to come
Beginnings == Count("first") + (MaxFaults - faults)

\* What still gets through on the count as it is
OnThisCount ==
  IF counter.n < RL!Largest(Limit)
    THEN RL!Largest(Limit) - counter.n - 1 + Cardinality(Calls)
    ELSE Count("more")

Burst ==
  IF counter = RL!NoKey THEN admitted <= faults
  ELSE /\ counter.n >= 1
       /\ admitted + Beginnings * Share + OnThisCount
            <= (Cardinality(Calls) + MaxFaults) * Share

LEMMA Products ==
  ASSUME NEW a \in Nat, NEW b \in Nat, NEW k \in Nat \ {0}
  PROVE  /\ a * k \in Nat /\ a * k >= a /\ (a + 1) * k = a * k + k
         /\ a <= b => a * k <= b * k
OBVIOUS

LEMMA Ranges ==
  ASSUME LimitsFit, RatesTyped
  PROVE  /\ RL!Largest(Limit) \in Nat \ {0} /\ Cardinality(Calls) \in Nat \ {0}
         /\ Share \in Nat \ {0} /\ Beginnings \in Nat
         /\ Beginnings <= Cardinality(Calls) + MaxFaults - faults
         /\ OnThisCount \in Nat /\ counter.n \in Nat /\ admitted \in Nat
         /\ faults \in Nat /\ MaxFaults \in Nat /\ faults <= MaxFaults
         /\ counter = RL!NoKey => counter.n = 0
<1>1. RL!Largest(Limit) \in Nat \ {0}
  BY LargestIs DEF LimitsFit
<1>2. /\ Count("first") \in Nat /\ Count("first") <= Cardinality(Calls)
      /\ Count("more") \in Nat /\ Cardinality(Calls) \in Nat \ {0}
  BY CountType
<1>3. /\ counter.n \in Nat /\ admitted \in Nat /\ faults \in Nat /\ MaxFaults \in Nat
      /\ faults <= MaxFaults
  BY DEF RatesTyped, KeyRec, LimitsFit
<1> QED
  BY <1>1, <1>2, <1>3 DEF Share, Beginnings, OnThisCount, RL!NoKey

LEMMA NextRanges ==
  ASSUME LimitsFit, RatesTyped'
  PROVE  /\ Beginnings' \in Nat /\ OnThisCount' \in Nat
         /\ Count("more")' \in Nat /\ counter'.n \in Nat
<1>1. RL!Largest(Limit) \in Nat \ {0}
  BY LargestIs DEF LimitsFit
<1>2. ASSUME NEW p PROVE Count(p)' \in Nat
  <2> DEFINE S == {b \in Calls : calls'[b].pc = p}
  <2>1. S \subseteq Calls /\ IsFiniteSet(Calls)
    BY DEF LimitsFit
  <2>2. IsFiniteSet(S)
    BY <2>1, FS_Subset
  <2> QED
    BY <2>2, FS_CardinalityType DEF Count
<1>3. Cardinality(Calls) \in Nat \ {0}
  BY CountType
<1>4. faults' \in 0..MaxFaults /\ MaxFaults \in Nat /\ counter'.n \in Nat
  BY DEF RatesTyped, KeyRec, LimitsFit
<1> QED
  BY <1>1, <1>2, <1>3, <1>4 DEF OnThisCount, Beginnings

\* Steps that neither let anybody through nor touch the count
LEMMA QuietBurst ==
  ASSUME LimitsFit, RatesTyped, RatesTyped', Burst,
         counter'.n = counter.n, counter' = RL!NoKey <=> counter = RL!NoKey,
         admitted' = admitted, faults' >= faults, Beginnings' <= Beginnings,
         counter.n < RL!Largest(Limit) \/ Count("more")' <= Count("more")
  PROVE  Burst'
<1>1. OnThisCount' <= OnThisCount
  BY Ranges DEF OnThisCount
<1>2. Share' = Share
  BY DEF Share
<1>3. /\ Beginnings \in Nat /\ Beginnings' \in Nat /\ Share \in Nat \ {0}
      /\ OnThisCount \in Nat /\ OnThisCount' \in Nat /\ admitted \in Nat
  BY Ranges, NextRanges
<1>4. Beginnings' * Share <= Beginnings * Share
  BY <1>3, Products
<1>5. Beginnings' * Share \in Nat /\ Beginnings * Share \in Nat
  BY <1>3, Products
<1>6. (Cardinality(Calls) + MaxFaults) * Share \in Nat
  BY Ranges, Products
<1>7. CASE counter = RL!NoKey
  BY <1>7 DEF Burst, RatesTyped, LimitsFit
<1>8. CASE counter # RL!NoKey
  <2>1. /\ counter.n >= 1
        /\ admitted + Beginnings * Share + OnThisCount <= (Cardinality(Calls) + MaxFaults) * Share
    BY <1>8 DEF Burst
  <2>2. PICK x \in Nat, y \in Nat, z \in Nat :
          x = Beginnings * Share /\ y = Beginnings' * Share
            /\ z = (Cardinality(Calls) + MaxFaults) * Share
    BY <1>5, <1>6
  <2>3. admitted' + y + OnThisCount' <= z
    BY <1>1, <1>3, <1>4, <2>1, <2>2
  <2> QED
    BY <1>2, <1>8, <2>1, <2>2, <2>3 DEF Burst
<1> QED
  BY <1>7, <1>8

\* A count that is begun: whoever does it was let in by it
LEMMA BeginsBurst ==
  ASSUME LimitsFit, RatesTyped, RatesTyped', Burst,
         counter'.n = 1, admitted' = admitted + 1,
         counter' # RL!NoKey,
         Count("more")' <= Cardinality(Calls) - 1,
         counter = RL!NoKey => Beginnings' + 1 <= Cardinality(Calls) + MaxFaults - faults,
         counter # RL!NoKey => Beginnings' + 1 <= Beginnings
  PROVE  Burst'
<1>b. PICK b \in Nat : b = Beginnings'
  BY NextRanges
<1>c. /\ counter = RL!NoKey => b + 1 <= Cardinality(Calls) + MaxFaults - faults
      /\ counter # RL!NoKey => b + 1 <= Beginnings
  BY <1>b
<1>1. /\ Share' = Share /\ Share = RL!Largest(Limit) + Cardinality(Calls) - 1
      /\ RL!Largest(Limit) \in Nat \ {0} /\ Cardinality(Calls) \in Nat \ {0}
      /\ Share \in Nat \ {0} /\ Beginnings \in Nat /\ OnThisCount \in Nat
      /\ faults \in Nat /\ MaxFaults \in Nat /\ faults <= MaxFaults /\ admitted \in Nat
  BY Ranges DEF Share
<1>2. PICK r \in Nat : r = OnThisCount' /\ r + 1 <= Share
  <2>1. OnThisCount' \in Nat
    BY NextRanges
  <2>2. PICK r \in Nat : r = OnThisCount'
    BY <2>1
  <2>3. r + 1 <= Share
    BY <1>1, <2>2, NextRanges DEF OnThisCount
  <2> QED
    BY <2>2, <2>3
<1>3. (b + 1) * Share = b * Share + Share /\ b * Share \in Nat
  BY <1>1, Products
<1>4. PICK x \in Nat, z \in Nat : x = b * Share /\ z = (Cardinality(Calls) + MaxFaults) * Share
  BY <1>1, <1>3, Products
<1>5. admitted + 1 + x + r <= z
  <2>1. CASE counter = RL!NoKey
    <3>1. admitted <= faults
      BY <2>1 DEF Burst
    <3>2. (b + 1 + faults) * Share <= z
      <4>1. b + 1 + faults <= Cardinality(Calls) + MaxFaults
        BY <1>1, <1>c, <2>1
      <4>2. b + 1 + faults \in Nat /\ Cardinality(Calls) + MaxFaults \in Nat
        BY <1>1
      <4> QED
        BY <1>1, <1>4, <4>1, <4>2, Products
    <3>3. PICK u \in Nat : u = faults * Share /\ u >= faults
      BY <1>1, Products
    <3>4. (b + 1 + faults) * Share = x + Share + u
      BY <1>1, <1>3, <1>4, <3>3
    <3> QED
      BY <1>1, <1>2, <1>4, <3>1, <3>2, <3>3, <3>4
  <2>2. CASE counter # RL!NoKey
    <3>1. PICK y \in Nat : y = Beginnings * Share
      BY <1>1, Products
    <3>2. admitted + y + OnThisCount <= z
      BY <1>4, <2>2, <3>1 DEF Burst
    <3>3. x + Share <= y
      <4>1. b + 1 \in Nat /\ b + 1 <= Beginnings
        BY <1>c, <2>2
      <4>2. (b + 1) * Share <= Beginnings * Share
        BY <1>1, <4>1, Products
      <4> QED
        BY <1>3, <1>4, <3>1, <4>2
    <3> QED
      BY <1>1, <1>2, <1>4, <3>1, <3>2, <3>3
  <2> QED
    BY <2>1, <2>2
<1>6. admitted' + Beginnings' * Share' + OnThisCount' <= (Cardinality(Calls) + MaxFaults) * Share
  BY <1>1, <1>2, <1>4, <1>5, <1>b
<1> QED
  BY <1>1, <1>6 DEF Burst

\* One that is let in on a count, and counts: what is left gets less
LEMMA CountsBurst ==
  ASSUME LimitsFit, RatesTyped, RatesTyped', Burst, counter # RL!NoKey,
         counter' # RL!NoKey, admitted' = admitted + 1,
         counter'.n = RL!OneMore(counter.n, Limit),
         Beginnings' <= Beginnings, Count("more")' + 1 <= Count("more")
  PROVE  Burst'
<1>b. PICK b \in Nat, m \in Nat : b = Beginnings' /\ m = Count("more")'
  BY NextRanges
<1>c. b <= Beginnings /\ m + 1 <= Count("more")
  BY <1>b
<1>1. /\ Share' = Share /\ Share \in Nat \ {0} /\ Beginnings \in Nat /\ OnThisCount \in Nat
      /\ RL!Largest(Limit) \in Nat \ {0} /\ Cardinality(Calls) \in Nat \ {0}
      /\ admitted \in Nat /\ MaxFaults \in Nat /\ counter.n \in Nat
  BY Ranges DEF Share
<1>2. PICK r \in Nat : r = OnThisCount' /\ r + 1 <= OnThisCount
  <2>1. Count("more") \in Nat /\ Count("more") <= Cardinality(Calls)
    BY CountType
  <2>2. OnThisCount' = IF counter'.n < RL!Largest(Limit)
                         THEN RL!Largest(Limit) - counter'.n - 1 + Cardinality(Calls)
                         ELSE m
    BY <1>b DEF OnThisCount
  <2>3. counter'.n = IF counter.n >= RL!Largest(Limit) THEN counter.n ELSE counter.n + 1
    BY DEF RL!OneMore
  <2> QED
    BY <1>1, <1>c, <2>1, <2>2, <2>3 DEF OnThisCount
<1>3. PICK x \in Nat, y \in Nat, z \in Nat :
        /\ x = Beginnings * Share /\ y = b * Share
        /\ z = (Cardinality(Calls) + MaxFaults) * Share
  BY <1>1, Products
<1>4. admitted + x + OnThisCount <= z /\ counter.n >= 1
  BY <1>3 DEF Burst
<1>5. y <= x
  BY <1>1, <1>3, <1>c, Products
<1>6. admitted + 1 + y + r <= z
  <2>1. admitted \in Nat /\ OnThisCount \in Nat /\ r \in Nat /\ r + 1 <= OnThisCount
    BY <1>1, <1>2
  <2>2. x \in Nat /\ y \in Nat /\ z \in Nat
    BY <1>3
  <2> QED
    BY <1>4, <1>5, <2>1, <2>2
<1>7. counter'.n >= 1
  BY <1>1, <1>4 DEF RL!OneMore
<1>8. admitted' + Beginnings' * Share' + OnThisCount' <= (Cardinality(Calls) + MaxFaults) * Share
  BY <1>1, <1>2, <1>3, <1>6, <1>b
<1> QED
  BY <1>1, <1>7, <1>8 DEF Burst

\* One that is let in although its command failed: a fault pays for it
LEMMA FailsBurst ==
  ASSUME LimitsFit, RatesTyped, RatesTyped', Burst,
         counter' = counter, admitted' = admitted + 1, faults' = faults + 1,
         Beginnings' + 1 <= Beginnings, Count("more")' <= Count("more")
  PROVE  Burst'
<1>b. PICK b \in Nat, m \in Nat : b = Beginnings' /\ m = Count("more")'
  BY NextRanges
<1>c. b + 1 <= Beginnings /\ m <= Count("more")
  BY <1>b
<1>1. /\ Share' = Share /\ Share \in Nat \ {0} /\ Beginnings \in Nat /\ OnThisCount \in Nat
      /\ RL!Largest(Limit) \in Nat \ {0} /\ Cardinality(Calls) \in Nat \ {0}
      /\ admitted \in Nat /\ MaxFaults \in Nat /\ counter.n \in Nat /\ faults \in Nat
  BY Ranges DEF Share
<1>2. PICK r \in Nat : r = OnThisCount' /\ r <= OnThisCount
  <2>1. OnThisCount' = IF counter.n < RL!Largest(Limit)
                         THEN RL!Largest(Limit) - counter.n - 1 + Cardinality(Calls)
                         ELSE m
    BY <1>b DEF OnThisCount
  <2> QED
    BY <1>1, <1>c, <2>1, CountType DEF OnThisCount
<1>3. PICK x \in Nat, y \in Nat, z \in Nat :
        /\ x = Beginnings * Share /\ y = b * Share
        /\ z = (Cardinality(Calls) + MaxFaults) * Share
  BY <1>1, Products
<1>4. CASE counter = RL!NoKey
  BY <1>1, <1>4 DEF Burst
<1>5. CASE counter # RL!NoKey
  <2>1. admitted + x + OnThisCount <= z /\ counter.n >= 1
    BY <1>3, <1>5 DEF Burst
  <2>2. y + Share <= x
    <3>1. b + 1 \in Nat
      OBVIOUS
    <3>2. (b + 1) * Share <= Beginnings * Share /\ (b + 1) * Share = b * Share + Share
      BY <1>1, <1>c, <3>1, Products
    <3> QED
      BY <1>3, <3>2
  <2>3. admitted + 1 + y + r <= z
    BY <1>1, <1>2, <1>3, <2>1, <2>2
  <2>4. admitted' + Beginnings' * Share' + OnThisCount' <= (Cardinality(Calls) + MaxFaults) * Share
    BY <1>1, <1>2, <1>3, <1>b, <2>3
  <2> QED
    BY <1>1, <1>5, <2>1, <2>4 DEF Burst
<1> QED
  BY <1>4, <1>5

Is(c, p) == IF calls[c].pc = p THEN 1 ELSE 0

LEMMA StepCounts ==
  ASSUME LimitsFit, RatesTyped, RatesTyped', NEW c \in Calls,
         RL!Step(c) \/ \E k \in Kinds : RL!Arrive(c, k)
  PROVE  \E b \in Nat, m \in Nat, f \in Nat, i \in 0..1, j \in 0..1 :
           /\ b = Beginnings' /\ m = Count("more")' /\ f = faults'
           /\ i = Is(c, "first")' /\ b + f + Is(c, "first") = Beginnings + faults + i
           /\ j = Is(c, "more")' /\ m + Is(c, "more") = Count("more") + j
           /\ j = 0 => m <= Cardinality(Calls) - 1
           /\ i = 0 => b + f <= Cardinality(Calls) - 1 + MaxFaults
           /\ f >= faults
<1>1. PICK q \in UpdateRec : \A b \in Calls : calls'[b] = IF b = c THEN q ELSE calls[b]
  BY UpdateMoves
<1>2. /\ Count("first") \in Nat /\ Count("first")' \in Nat
      /\ Count("first")' + (IF calls[c].pc = "first" THEN 1 ELSE 0)
           = Count("first") + (IF q.pc = "first" THEN 1 ELSE 0)
      /\ calls[c].pc # "first" => Count("first") <= Cardinality(Calls) - 1
  BY <1>1, CountMoves
<1>3. /\ Count("more") \in Nat /\ Count("more")' \in Nat
      /\ Count("more")' + (IF calls[c].pc = "more" THEN 1 ELSE 0)
           = Count("more") + (IF q.pc = "more" THEN 1 ELSE 0)
      /\ calls[c].pc # "more" => Count("more") <= Cardinality(Calls) - 1
  BY <1>1, CountMoves
<1>4. PICK n \in Nat, m \in Nat, f \in Nat :
        n = Count("first")' /\ m = Count("more")' /\ f = faults'
  BY <1>2, <1>3 DEF RatesTyped
<1>5. n + (IF calls[c].pc = "first" THEN 1 ELSE 0)
        = Count("first") + (IF q.pc = "first" THEN 1 ELSE 0)
  BY <1>2, <1>4
<1>6. m + (IF calls[c].pc = "more" THEN 1 ELSE 0)
        = Count("more") + (IF q.pc = "more" THEN 1 ELSE 0)
  BY <1>3, <1>4
<1>7. f <= MaxFaults /\ MaxFaults \in Nat /\ Beginnings' = n + (MaxFaults - f)
  BY <1>4 DEF Beginnings, RatesTyped, LimitsFit
<1>8. PICK b \in Nat : b = n + (MaxFaults - f)
  BY <1>7
<1>9. b = Beginnings'
  BY <1>7, <1>8
<1>10. calls'[c] = q
  BY <1>1
<1>11. Count("first") <= Cardinality(Calls) /\ Count("more") <= Cardinality(Calls)
       /\ Cardinality(Calls) \in Nat
  BY CountType
<1>12. faults \in Nat /\ faults <= MaxFaults
  BY DEF RatesTyped, LimitsFit
<1>13. f >= faults
  BY <1>4, <1>12 DEF RL!Step, RL!Arrive, RL!ReadBan, RL!ReadCount, RL!FirstOfWindow, RL!CountOn,
     RL!ReadViolations, RL!Strike, RL!Ban, RL!Refuses, RL!Handle, RL!SkipToNext,
     RL!StartBooking, RL!CheckLimit, RL!Push, RL!SetTerm, RL!Works, RL!Fault
<1>14. PICK i \in 0..1, j \in 0..1 :
         i = (IF q.pc = "first" THEN 1 ELSE 0) /\ j = (IF q.pc = "more" THEN 1 ELSE 0)
  OBVIOUS
<1>15. i = Is(c, "first")' /\ j = Is(c, "more")'
  BY <1>10, <1>14 DEF Is
<1>16. b + f + Is(c, "first") = Beginnings + faults + i
  BY <1>2, <1>5, <1>7, <1>8, <1>12, <1>14 DEF Is, Beginnings
<1>17. m + Is(c, "more") = Count("more") + j
  BY <1>6, <1>14 DEF Is
<1>18. j = 0 => m <= Cardinality(Calls) - 1
  BY <1>3, <1>4, <1>6, <1>11, <1>14
<1>19. i = 0 => b + f <= Cardinality(Calls) - 1 + MaxFaults
  BY <1>2, <1>4, <1>5, <1>7, <1>8, <1>11, <1>14
<1> QED
  BY <1>4, <1>9, <1>13, <1>15, <1>16, <1>17, <1>18, <1>19

LEMMA StepBurst ==
  ASSUME LimitsFit, RatesTyped, Burst, [RL!Next]_(RL!vars)
  PROVE  Burst'
<1> USE DEF RL!keys, RL!list, RL!past, RL!booking, RL!Works, RL!Fault, RL!At, RL!Goes, RL!Ends
<1>t. RatesTyped'
  BY StepRatesTyped
<1>r. /\ RL!Largest(Limit) \in Nat \ {0} /\ counter.n \in Nat /\ faults \in Nat
      /\ MaxFaults \in Nat /\ (counter = RL!NoKey => counter.n = 0)
      /\ Cardinality(Calls) \in Nat \ {0} /\ calls \in [Calls -> UpdateRec]
      /\ Beginnings \in Nat /\ Count("more") \in Nat
  BY Ranges, CountType DEF RatesTyped
<1>1. ASSUME NEW c \in Calls, RL!Step(c) \/ \E k \in Kinds : RL!Arrive(c, k)
      PROVE  Burst'
  <2>1. PICK b \in Nat, m \in Nat, f \in Nat, i \in 0..1, j \in 0..1 :
          /\ b = Beginnings' /\ m = Count("more")' /\ f = faults'
          /\ i = Is(c, "first")' /\ b + f + Is(c, "first") = Beginnings + faults + i
          /\ j = Is(c, "more")' /\ m + Is(c, "more") = Count("more") + j
          /\ j = 0 => m <= Cardinality(Calls) - 1
          /\ i = 0 => b + f <= Cardinality(Calls) - 1 + MaxFaults
          /\ f >= faults
    BY <1>1, <1>t, StepCounts
  <2>a. /\ b + f + Is(c, "first") = Beginnings + faults + i
        /\ m + Is(c, "more") = Count("more") + j
        /\ j = 0 => m <= Cardinality(Calls) - 1
        /\ i = 0 => b + f <= Cardinality(Calls) - 1 + MaxFaults
        /\ f >= faults /\ b \in Nat /\ m \in Nat /\ f \in Nat
    BY <2>1
  <2>t. b \in Nat /\ m \in Nat /\ f \in Nat
    BY <2>1
  <2>2. ASSUME i = 0, j = 0, UNCHANGED <<counter, admitted>> PROVE Burst'
    <3>1. b <= Beginnings /\ m <= Count("more")
      BY <1>r, <2>2, <2>a DEF Is
    <3>2. Beginnings' <= Beginnings /\ Count("more")' <= Count("more") /\ faults' >= faults
      BY <2>1, <3>1
    <3> QED
      BY <1>t, <2>2, <3>2, QuietBurst
  <2>3. CASE \/ RL!ReadBan(c) \/ RL!ReadViolations(c) \/ RL!Strike(c) \/ RL!Ban(c)
             \/ \E k \in Kinds : RL!Arrive(c, k)
    <3>1. UNCHANGED <<counter, admitted>>
      BY <2>3 DEF RL!ReadBan, RL!ReadViolations, RL!Strike, RL!Ban, RL!Arrive
    <3>2. calls'[c].pc \in {"ban", "count", "strike", "banning", "answer"}
      BY <1>r, <2>3 DEF RL!ReadBan, RL!ReadViolations, RL!Strike, RL!Ban, RL!Arrive, RL!Idle,
         UpdateRec
    <3> QED
      BY <2>1, <2>2, <3>1, <3>2 DEF Is
  <2>4. CASE \/ RL!Handle(c) \/ RL!SkipToNext(c) \/ RL!StartBooking(c)
             \/ RL!CheckLimit(c) \/ RL!Push(c) \/ RL!SetTerm(c)
    <3>1. UNCHANGED <<counter, admitted>>
      BY <2>4 DEF RL!Handle, RL!SkipToNext, RL!StartBooking, RL!CheckLimit, RL!Push, RL!SetTerm
    <3>2. calls'[c].pc \in {"idle", "ban", "booking", "push", "expire"}
      BY <1>r, <2>4 DEF RL!Handle, RL!SkipToNext, RL!StartBooking, RL!CheckLimit, RL!Push,
         RL!SetTerm, RL!Idle, UpdateRec
    <3> QED
      BY <2>1, <2>2, <3>1, <3>2 DEF Is
  <2>5. CASE RL!ReadCount(c)
    <3>1. UNCHANGED <<counter, admitted>> /\ calls[c].pc = "count" /\ calls[c].kind \in Kinds
      BY <1>r, <2>5 DEF RL!ReadCount, UpdateRec
    <3>2. /\ Limit[calls[c].kind] \in Nat \ {0}
          /\ Limit[calls[c].kind] <= RL!Largest(Limit)
      BY <3>1, LargestIs DEF LimitsFit
    <3>3. \/ calls'[c].pc = RL!Judged(calls[c].kind, counter.n) /\ faults' = faults
          \/ calls'[c].pc = RL!Judged(calls[c].kind, 0) /\ faults' = faults + 1
      BY <1>r, <2>5 DEF RL!ReadCount, UpdateRec
    <3>4. CASE calls'[c].pc = "first" /\ faults' = faults /\ counter.n = 0
      <4>1. counter = RL!NoKey
        BY <3>4 DEF Burst
      <4> QED
        BY <1>r, <2>1, <3>1, <3>4, <4>1 DEF Burst
    <3>5. CASE calls'[c].pc = "first" /\ faults' = faults + 1
      <4>1. f = faults + 1 /\ i = 1 /\ j = 0 /\ Is(c, "first") = 0 /\ Is(c, "more") = 0
        BY <2>1, <3>1, <3>5 DEF Is
      <4>3. b <= Beginnings /\ m <= Count("more")
        BY <1>r, <2>a, <4>1
      <4>2. Beginnings' <= Beginnings /\ Count("more")' <= Count("more") /\ faults' >= faults
        BY <2>1, <4>3
      <4> QED
        BY <1>t, <3>1, <4>2, QuietBurst
    <3>6. CASE calls'[c].pc = "over"
      BY <2>1, <2>2, <3>1, <3>6 DEF Is
    <3>7. CASE calls'[c].pc = "more" /\ counter.n < RL!Largest(Limit)
      <4>3. i = 0 /\ Is(c, "first") = 0
        BY <2>1, <3>1, <3>7 DEF Is
      <4>1. b <= Beginnings
        BY <1>r, <2>a, <4>3
      <4>2. Beginnings' <= Beginnings /\ faults' >= faults
        BY <2>1, <4>1
      <4> QED
        BY <1>t, <3>1, <3>7, <4>2, QuietBurst
    <3> QED
      BY <1>r, <3>2, <3>3, <3>4, <3>5, <3>6, <3>7 DEF RL!Judged
  <2>6. CASE RL!FirstOfWindow(c)
    <3>1. /\ calls[c].pc = "first" /\ calls'[c].pc = "handler" /\ admitted' = admitted + 1
          /\ \/ faults' = faults /\ counter' = RL!Set(1, Window)
             \/ faults' = faults + 1 /\ counter' = counter
      BY <1>r, <2>6 DEF RL!FirstOfWindow, RL!Admits, UpdateRec
    <3>a. i = 0 /\ j = 0 /\ Is(c, "first") = 1 /\ Is(c, "more") = 0
      BY <2>1, <3>1 DEF Is
    <3>2. m <= Count("more") /\ b + f + 1 <= Beginnings + faults
      BY <1>r, <2>a, <3>a
    <3>3. CASE faults' = faults /\ counter' = RL!Set(1, Window)
      <4>1. counter'.n = 1 /\ counter' # RL!NoKey
        BY <3>3 DEF RL!Set, RL!NoKey
      <4>2. /\ b + 1 <= Cardinality(Calls) + MaxFaults - faults /\ b + 1 <= Beginnings
            /\ m <= Cardinality(Calls) - 1
        <5>1. f = faults
          BY <2>1, <3>3
        <5> QED
          <6>1. b + f <= Cardinality(Calls) - 1 + MaxFaults /\ m <= Cardinality(Calls) - 1
            BY <2>a, <3>a
          <6> QED
            BY <1>r, <2>t, <3>2, <5>1, <6>1
      <4>3. /\ Count("more")' <= Cardinality(Calls) - 1
            /\ Beginnings' + 1 <= Cardinality(Calls) + MaxFaults - faults
            /\ Beginnings' + 1 <= Beginnings
        BY <2>1, <4>2
      <4> QED
        BY <1>t, <3>1, <4>1, <4>3, BeginsBurst
    <3>4. CASE faults' = faults + 1 /\ counter' = counter
      <4>1. b + 1 <= Beginnings
        <5>1. f = faults + 1
          BY <2>1, <3>4
        <5> QED
          BY <1>r, <2>a, <3>2, <5>1
      <4>2. Beginnings' + 1 <= Beginnings /\ Count("more")' <= Count("more")
        BY <2>1, <3>2, <4>1
      <4> QED
        BY <1>t, <3>1, <3>4, <4>2, FailsBurst
    <3> QED
      BY <3>1, <3>3, <3>4
  <2>7. CASE RL!CountOn(c)
    <3>1. /\ calls[c].pc = "more" /\ calls'[c].pc = "handler" /\ admitted' = admitted + 1
          /\ \/ faults' = faults /\ counter' = RL!Incr(counter)
             \/ faults' = faults + 1 /\ counter' = counter
      BY <1>r, <2>7 DEF RL!CountOn, RL!Admits, UpdateRec
    <3>a. i = 0 /\ j = 0 /\ Is(c, "first") = 0 /\ Is(c, "more") = 1
      BY <2>1, <3>1 DEF Is
    <3>2. m + 1 <= Count("more") /\ b + f <= Beginnings + faults
      BY <1>r, <2>a, <3>a
    <3>3. CASE faults' = faults /\ counter' = RL!Incr(counter) /\ counter = RL!NoKey
      <4>1. counter'.n = 1 /\ counter' # RL!NoKey
        BY <3>3 DEF RL!Incr, RL!Set, RL!NoKey
      <4>2. /\ b + 1 <= Cardinality(Calls) + MaxFaults - faults
            /\ m <= Cardinality(Calls) - 1
        <5>1. f = faults
          BY <2>1, <3>3
        <5> QED
          <6>1. b + f <= Cardinality(Calls) - 1 + MaxFaults /\ m <= Cardinality(Calls) - 1
            BY <2>a, <3>a
          <6> QED
            BY <1>r, <2>t, <3>2, <5>1, <6>1
      <4>3. /\ Count("more")' <= Cardinality(Calls) - 1
            /\ Beginnings' + 1 <= Cardinality(Calls) + MaxFaults - faults
        BY <2>1, <4>2
      <4> QED
        BY <1>t, <3>1, <3>3, <4>1, <4>3, BeginsBurst
    <3>4. CASE faults' = faults /\ counter' = RL!Incr(counter) /\ counter # RL!NoKey
      <4>1. counter'.n = RL!OneMore(counter.n, Limit)
        BY <3>4 DEF RL!Incr, RatesTyped, KeyRec
      <4>2. counter' # RL!NoKey
        BY <1>r, <3>4, <4>1 DEF RL!OneMore, RL!NoKey, Burst
      <4>3. b <= Beginnings
        <5>1. f = faults
          BY <2>1, <3>4
        <5> QED
          BY <1>r, <2>a, <3>2, <5>1
      <4>4. Beginnings' <= Beginnings /\ Count("more")' + 1 <= Count("more")
        BY <2>1, <3>2, <4>3
      <4> QED
        BY <1>t, <3>1, <3>4, <4>1, <4>2, <4>4, CountsBurst
    <3>5. CASE faults' = faults + 1 /\ counter' = counter
      <4>1. b + 1 <= Beginnings /\ m <= Count("more")
        <5>1. f = faults + 1
          BY <2>1, <3>5
        <5> QED
          BY <1>r, <2>a, <3>2, <5>1
      <4>2. Beginnings' + 1 <= Beginnings /\ Count("more")' <= Count("more")
        BY <2>1, <4>1
      <4> QED
        BY <1>t, <3>1, <3>5, <4>2, FailsBurst
    <3> QED
      BY <3>1, <3>3, <3>4, <3>5
  <2>8. CASE RL!Refuses(c)
    <3>1. /\ calls[c].pc = "answer" /\ counter' = counter
          /\ calls'[c].pc \in {"idle", "handler"}
          /\ \/ admitted' = admitted
             \/ admitted' = admitted + 1 /\ faults' = faults + 1
      BY <1>r, <2>8 DEF RL!Refuses, RL!Admits, RL!Idle, UpdateRec
    <3>2. i = 0 /\ j = 0 /\ Is(c, "first") = 0 /\ Is(c, "more") = 0
      BY <2>1, <3>1 DEF Is
    <3>3. CASE admitted' = admitted
      BY <2>2, <3>1, <3>2, <3>3
    <3>4. CASE admitted' = admitted + 1 /\ faults' = faults + 1
      <4>1. b + 1 <= Beginnings /\ m <= Count("more")
        <5>1. f = faults + 1
          BY <2>1, <3>4
        <5> QED
          BY <1>r, <2>a, <3>2, <5>1
      <4>2. Beginnings' + 1 <= Beginnings /\ Count("more")' <= Count("more")
        BY <2>1, <4>1
      <4> QED
        BY <1>t, <3>1, <3>4, <4>2, FailsBurst
    <3> QED
      BY <3>1, <3>3, <3>4
  <2> QED
    BY <1>1, <2>3, <2>4, <2>5, <2>6, <2>7, <2>8 DEF RL!Step
<1>2. CASE RL!Tick
  <2>1. UNCHANGED <<calls, faults>> /\ counter' = RL!Aged(counter)
    BY <1>2 DEF RL!Tick
  <2>2. CASE counter' = RL!NoKey
    BY <1>2, <1>r, <2>1, <2>2 DEF RL!Tick, Burst
  <2>3. CASE counter' # RL!NoKey
    <3>1. counter # RL!NoKey /\ counter'.n = counter.n /\ admitted' = admitted
      BY <1>2, <2>1, <2>3 DEF RL!Tick, RL!Aged, RatesTyped, KeyRec
    <3>2. Beginnings' = Beginnings /\ Count("more")' = Count("more")
      BY <2>1 DEF Beginnings, Count
    <3>3. Beginnings' <= Beginnings /\ Count("more")' <= Count("more") /\ faults' >= faults
      BY <1>r, <2>1, <3>2
    <3> QED
      BY <1>t, <2>3, <3>1, <3>3, QuietBurst
  <2> QED
    BY <2>2, <2>3
<1>3. CASE RL!Restart
  <2>1. UNCHANGED <<counter, admitted>> /\ faults' = faults + 1
        /\ \A c \in Calls : calls'[c].pc = "idle"
    BY <1>3 DEF RL!Restart, RL!Idle
  <2>2. \A p : p # "idle" => {c \in Calls : calls'[c].pc = p} = {}
    BY <2>1
  <2>3. Count("first")' = 0 /\ Count("more")' = 0
    BY <2>2, FS_EmptySet DEF Count
  <2>4. Beginnings' = 0 + (MaxFaults - faults')
    BY <2>3 DEF Beginnings
  <2>5. MaxFaults - (faults + 1) <= Beginnings /\ 0 <= Count("more")
    <3>1. Count("first") \in Nat /\ Beginnings = Count("first") + (MaxFaults - faults)
      BY CountType DEF Beginnings
    <3>2. Count("more") \in Nat /\ MaxFaults \in Nat /\ faults \in Nat
      BY <1>r
    <3> QED
      BY <3>1, <3>2
  <2>6. Beginnings' <= Beginnings /\ Count("more")' <= Count("more") /\ faults' >= faults
    <3>1. PICK b \in Int : b = 0 + (MaxFaults - (faults + 1))
      BY <1>r
    <3>2. b <= Beginnings
      BY <1>r, <2>5, <3>1
    <3>3. b = Beginnings'
      BY <2>1, <2>4, <3>1
    <3>4. faults' >= faults
      BY <1>r, <2>1
    <3>5. Count("more")' <= Count("more")
      BY <2>3, <2>5
    <3> QED
      BY <3>2, <3>3, <3>4, <3>5
  <2> QED
    BY <1>t, <2>1, <2>6, QuietBurst
<1>4. CASE UNCHANGED RL!vars
  <2>1. UNCHANGED <<counter, admitted, calls, faults>>
    BY <1>4 DEF RL!vars
  <2>2. Beginnings' = Beginnings /\ Count("more")' = Count("more")
    BY <2>1 DEF Beginnings, Count
  <2>3. Beginnings' <= Beginnings /\ Count("more")' <= Count("more") /\ faults' >= faults
    BY <1>r, <2>1, <2>2
  <2> QED
    BY <1>t, <2>1, <2>3, QuietBurst
<1> QED
  BY <1>1, <1>2, <1>3, <1>4 DEF RL!Next

--------------------------------------------------------------------------------
(* check_limit: the bookings of a window *)

\* Each call that may still push its entry counted one less than the limit
Bookings ==
  /\ IsFiniteSet(RL!Entries)
  /\ RL!Fresh + Count("push") <= MaxRequests + Cardinality(Calls) - 1

\* The entries of a list that has lapsed are older than its successor's expiry needs to
\* be: they are out of the window before the next list lapses
Outlived ==
  \A a \in 0..OrderWindow :
    gone[a] # 0 => a >= 1 /\ (term > 0 => a >= OrderWindow - term + 1)

LapsedKept ==
  /\ IsFiniteSet(RL!Lapsed)
  /\ Cardinality(RL!Lapsed) <= MaxRequests + Cardinality(Calls) - 1
  /\ Outlived
  /\ missed <= faults

\* An instance has its own copy of the operators of FiniteSets
LEMMA CardinalityRL == \A S : RL!Cardinality(S) = Cardinality(S)
BY DEF RL!Cardinality, Cardinality, RL!IsFiniteSet, IsFiniteSet

LEMMA FreshIs ==
  RL!Fresh = Cardinality(RL!Entries) /\ RL!Fresh' = Cardinality(RL!Entries')
BY CardinalityRL DEF RL!Fresh

\* What has grown older, or is no longer kept, is no more than it was
LEMMA PairsShift ==
  ASSUME OrderWindow \in Nat, NEW f, NEW g, IsFiniteSet(RL!Pairs(f)),
         \A a \in 0..OrderWindow : g[a] = 0 \/ (a # 0 /\ g[a] = f[a - 1])
  PROVE  IsFiniteSet(RL!Pairs(g)) /\ Cardinality(RL!Pairs(g)) <= Cardinality(RL!Pairs(f))
<1> DEFINE h == [x \in RL!Pairs(g) |-> <<x[1] - 1, x[2]>>]
<1>1. ASSUME NEW x \in RL!Pairs(g)
      PROVE  \E a \in 1..OrderWindow : \E i \in 1 .. f[a - 1] : x = <<a, i>>
  <2>1. PICK a \in 0..OrderWindow : x \in {a} \X (1 .. g[a])
    BY <1>1 DEF RL!Pairs
  <2>2. g[a] = 0 \/ (a # 0 /\ g[a] = f[a - 1])
    OBVIOUS
  <2>3. a \in 1..OrderWindow /\ g[a] = f[a - 1]
    BY <2>1, <2>2
  <2> QED
    BY <2>1, <2>3
<1>2. ASSUME NEW a \in 1..OrderWindow, NEW i \in 1 .. f[a - 1]
      PROVE  <<a - 1, i>> \in RL!Pairs(f)
  <2>1. a - 1 \in 0..OrderWindow /\ <<a - 1, i>> \in {a - 1} \X (1 .. f[a - 1])
    OBVIOUS
  <2> QED
    BY <2>1 DEF RL!Pairs
<1>3. ASSUME NEW x \in RL!Pairs(g) PROVE <<x[1] - 1, x[2]>> \in RL!Pairs(f)
  BY <1>1, <1>2, <1>3
<1>4. ASSUME NEW x \in RL!Pairs(g), NEW y \in RL!Pairs(g), h[x] = h[y] PROVE x = y
  <2>1. PICK a \in 1..OrderWindow, i \in Int : x = <<a, i>>
    BY <1>1
  <2>2. PICK b \in 1..OrderWindow, k \in Int : y = <<b, k>>
    BY <1>1
  <2>3. a - 1 = b - 1 /\ i = k
    BY <1>4, <2>1, <2>2
  <2> QED
    BY <2>1, <2>2, <2>3
<1>5. h \in [RL!Pairs(g) -> RL!Pairs(f)]
  BY <1>3
<1>6. h \in Injection(RL!Pairs(g), RL!Pairs(f))
  BY <1>4, <1>5 DEF Injection, IsInjective
<1> HIDE DEF h
<1> QED
  BY <1>6, FS_Injection

LEMMA StepBookings ==
  ASSUME LimitsFit, RatesTyped, Bookings, [RL!Next]_(RL!vars)
  PROVE  Bookings'
<1> USE DEF RL!keys, RL!list, RL!past, RL!booking, RL!Works, RL!Fault, RL!At, RL!Goes, RL!Ends
<1>r. /\ stamps \in [RL!Ages -> Nat] /\ calls \in [Calls -> UpdateRec]
      /\ began \in [Calls -> RL!Ages]
      /\ MaxRequests \in Nat \ {0} /\ OrderWindow \in Nat
  BY DEF RatesTyped, LimitsFit
<1>n. RL!Fresh \in Nat /\ Cardinality(Calls) \in Nat \ {0} /\ Count("push") \in Nat
  BY CountType, FS_CardinalityType, FreshIs DEF Bookings
<1>1. ASSUME RL!Entries' = RL!Entries, NEW m \in Nat, m = Count("push")',
             m <= Count("push") \/ (RL!Fresh + 1 <= MaxRequests /\ m <= Cardinality(Calls))
      PROVE  Bookings'
  <2>1. RL!Fresh + m <= MaxRequests + Cardinality(Calls) - 1
    BY <1>r, <1>n, <1>1 DEF Bookings
  <2>2. RL!Fresh' = RL!Fresh
    BY <1>1 DEF RL!Fresh
  <2> QED
    BY <1>1, <2>1, <2>2 DEF Bookings
<1>2. ASSUME NEW c \in Calls, RL!Step(c) \/ \E k \in Kinds : RL!Arrive(c, k)
      PROVE  Bookings'
  <2>1. PICK q \in UpdateRec : \A b \in Calls : calls'[b] = IF b = c THEN q ELSE calls[b]
    BY <1>2, UpdateMoves
  <2>2. /\ Count("push")' \in Nat
        /\ Count("push")' + (IF calls[c].pc = "push" THEN 1 ELSE 0)
             = Count("push") + (IF q.pc = "push" THEN 1 ELSE 0)
        /\ calls[c].pc # "push" => Count("push") <= Cardinality(Calls) - 1
    BY <2>1, CountMoves
  <2>3. PICK m \in Nat : m = Count("push")'
    BY <2>2
  <2>4. /\ m + (IF calls[c].pc = "push" THEN 1 ELSE 0)
             = Count("push") + (IF q.pc = "push" THEN 1 ELSE 0)
        /\ calls[c].pc # "push" => Count("push") <= Cardinality(Calls) - 1
    BY <2>2, <2>3
  <2>5. calls'[c] = q
    BY <2>1
  <2>6. CASE \/ RL!ReadBan(c) \/ RL!ReadCount(c) \/ RL!FirstOfWindow(c) \/ RL!CountOn(c)
             \/ RL!ReadViolations(c) \/ RL!Strike(c) \/ RL!Ban(c) \/ RL!Refuses(c)
             \/ \E k \in Kinds : RL!Arrive(c, k)
    <3>1. stamps' = stamps
      BY <2>6 DEF RL!ReadBan, RL!ReadCount, RL!FirstOfWindow, RL!CountOn, RL!ReadViolations,
         RL!Strike, RL!Ban, RL!Refuses, RL!Arrive
    <3>2. calls'[c].pc # "push"
      BY <1>r, <2>6 DEF RL!ReadBan, RL!ReadCount, RL!FirstOfWindow, RL!CountOn,
         RL!ReadViolations, RL!Strike, RL!Ban, RL!Refuses, RL!Arrive, RL!Idle, RL!Judged, RL!Admits,
         UpdateRec
    <3>3. m <= Count("push")
      BY <1>n, <2>4, <2>5, <3>2
    <3>4. RL!Entries' = RL!Entries
      BY <3>1 DEF RL!Entries, RL!Pairs
    <3> QED
      BY <1>1, <2>3, <3>3, <3>4
  <2>7. CASE RL!Handle(c) \/ RL!SkipToNext(c) \/ RL!StartBooking(c)
    <3>1. stamps' = stamps
      BY <2>7 DEF RL!Handle, RL!SkipToNext, RL!StartBooking
    <3>2. calls'[c].pc # "push"
      BY <1>r, <2>7 DEF RL!Handle, RL!SkipToNext, RL!StartBooking, RL!Idle, UpdateRec
    <3>3. m <= Count("push")
      BY <1>n, <2>4, <2>5, <3>2
    <3>4. RL!Entries' = RL!Entries
      BY <3>1 DEF RL!Entries, RL!Pairs
    <3> QED
      BY <1>1, <2>3, <3>3, <3>4
  <2>8. CASE RL!CheckLimit(c)
    <3>1. /\ stamps' = stamps /\ calls[c].pc = "booking"
          /\ calls'[c].pc # "push" \/ ~RL!Full
      BY <1>r, <2>8 DEF RL!CheckLimit, RL!Idle, UpdateRec
    <3>2. m <= Count("push") \/ (RL!Fresh + 1 <= MaxRequests /\ m <= Cardinality(Calls))
      BY <1>r, <1>n, <2>4, <2>5, <3>1 DEF RL!Full
    <3>3. RL!Entries' = RL!Entries
      BY <3>1 DEF RL!Entries, RL!Pairs
    <3> QED
      BY <1>1, <2>3, <3>2, <3>3
  <2>9. CASE RL!Push(c)
    <3>1. /\ calls[c].pc = "push" /\ calls'[c].pc # "push"
          /\ stamps' = stamps \/ stamps' = [stamps EXCEPT ![began[c]] = @ + 1]
      BY <1>r, <2>9 DEF RL!Push, RL!Idle, UpdateRec
    <3>a. PICK z \in RL!Ages : z = began[c]
      BY <1>r
    <3>2. m + 1 = Count("push")
      BY <1>n, <2>4, <2>5, <3>1
    <3>3. CASE stamps' = stamps \/ (stamps' = [stamps EXCEPT ![z] = @ + 1] /\ z = OrderWindow + 1)
      <4>0. \A a \in 0..OrderWindow : stamps'[a] = stamps[a]
        BY <1>r, <3>3 DEF RL!Ages
      <4>1. RL!Entries' = RL!Entries
        BY <4>0 DEF RL!Entries, RL!Pairs
      <4>2. m <= Count("push")
        BY <3>2
      <4> QED
        BY <1>1, <2>3, <4>1, <4>2
    <3>4. CASE stamps' = [stamps EXCEPT ![z] = @ + 1] /\ z # OrderWindow + 1
      <4> DEFINE e == <<z, stamps[z] + 1>>
      <4>0. z \in 0..OrderWindow /\ 0..OrderWindow \subseteq RL!Ages
        BY <1>r, <3>a, <3>4 DEF RL!Ages
      <4>1. \A a \in 0..OrderWindow :
              1 .. stamps'[a] = IF a = z THEN (1 .. stamps[z]) \cup {stamps[z] + 1}
                                ELSE 1 .. stamps[a]
        <5>1. /\ stamps[z] \in Nat /\ stamps'[z] = stamps[z] + 1
              /\ \A a \in RL!Ages : a # z => stamps'[a] = stamps[a]
          BY <1>r, <3>4, <4>0
        <5>2. 1 .. (stamps[z] + 1) = (1 .. stamps[z]) \cup {stamps[z] + 1}
          BY <5>1
        <5> QED
          BY <4>0, <5>1, <5>2
      <4>2. RL!Entries' = RL!Entries \cup {e}
        <5>1. RL!Entries' = UNION {{a} \X (1 .. stamps'[a]) : a \in 0..OrderWindow}
          BY DEF RL!Entries, RL!Pairs
        <5>2. ASSUME NEW x \in RL!Entries' PROVE x \in RL!Entries \cup {e}
          <6>1. PICK a \in 0..OrderWindow : x \in {a} \X (1 .. stamps'[a])
            BY <5>1, <5>2
          <6>2. x \in {a} \X (1 .. stamps[a]) \/ x = e
            <7>1. PICK i \in 1 .. stamps'[a] : x = <<a, i>>
              BY <6>1
            <7>2. i \in 1 .. stamps[a] \/ (a = z /\ i = stamps[z] + 1)
              BY <4>1
            <7> QED
              BY <7>1, <7>2
          <6> QED
            BY <6>1, <6>2 DEF RL!Entries, RL!Pairs
        <5>3. ASSUME NEW x \in RL!Entries PROVE x \in RL!Entries'
          <6>1. PICK a \in 0..OrderWindow : x \in {a} \X (1 .. stamps[a])
            BY <5>3 DEF RL!Entries, RL!Pairs
          <6>2. x \in {a} \X (1 .. stamps'[a])
            BY <4>1, <6>1
          <6> QED
            BY <5>1, <6>2
        <5>4. e \in {z} \X (1 .. stamps'[z])
          BY <4>0, <4>1
        <5>5. e \in RL!Entries'
          BY <4>0, <5>1, <5>4
        <5> QED
          BY <5>2, <5>3, <5>5
      <4>3. /\ IsFiniteSet(RL!Entries \cup {e})
            /\ Cardinality(RL!Entries \cup {e}) <= RL!Fresh + 1
            /\ Cardinality(RL!Entries \cup {e}) \in Nat
        <5>1. IsFiniteSet(RL!Entries) /\ RL!Fresh = Cardinality(RL!Entries)
          BY FreshIs DEF Bookings
        <5>2. /\ IsFiniteSet(RL!Entries \cup {e})
              /\ Cardinality(RL!Entries \cup {e}) \in {RL!Fresh, RL!Fresh + 1}
          BY <5>1, FS_AddElement
        <5> HIDE DEF e
        <5> QED
          BY <1>n, <5>2
      <4>4. Cardinality(RL!Entries \cup {e}) + m <= MaxRequests + Cardinality(Calls) - 1
        <5>1. RL!Fresh + Count("push") <= MaxRequests + Cardinality(Calls) - 1
          BY DEF Bookings
        <5> QED
          BY <1>r, <1>n, <3>2, <4>3, <5>1
      <4>5. RL!Fresh' = Cardinality(RL!Entries \cup {e}) /\ IsFiniteSet(RL!Entries')
        BY <4>2, <4>3, FreshIs
      <4> QED
        BY <2>3, <4>4, <4>5 DEF Bookings
    <3> QED
      BY <3>1, <3>a, <3>3, <3>4
  <2>10. CASE RL!SetTerm(c)
    <3>1. /\ calls'[c].pc # "push"
          /\ stamps' = stamps \/ stamps' = [stamps EXCEPT ![OrderWindow + 1] = 0]
      BY <1>r, <2>10 DEF RL!SetTerm, RL!Idle, UpdateRec
    <3>2. m <= Count("push")
      BY <1>n, <2>4, <2>5, <3>1
    <3>3. \A a \in 0..OrderWindow : stamps'[a] = stamps[a]
      BY <1>r, <3>1 DEF RL!Ages
    <3>4. RL!Entries' = RL!Entries
      BY <3>3 DEF RL!Entries, RL!Pairs
    <3> QED
      BY <1>1, <2>3, <3>2, <3>4
  <2> QED
    BY <1>2, <2>6, <2>7, <2>8, <2>9, <2>10 DEF RL!Step
<1>3. CASE RL!Tick
  <2>1. UNCHANGED calls /\ (stamps' = RL!NoEntry \/ stamps' = RL!Older)
    BY <1>3 DEF RL!Tick
  <2>2. Count("push")' = Count("push")
    BY <2>1 DEF Count
  <2>3. \A a \in 0..OrderWindow : stamps'[a] = 0 \/ (a # 0 /\ stamps'[a] = stamps[a - 1])
    <3>1. ASSUME NEW a \in 0..OrderWindow
          PROVE  stamps'[a] = 0 \/ (a # 0 /\ stamps'[a] = stamps[a - 1])
      <4>1. a \in RL!Ages
        BY <1>r DEF RL!Ages
      <4> QED
        BY <2>1, <4>1 DEF RL!NoEntry, RL!Older
    <3> QED
      BY <3>1
  <2>4. IsFiniteSet(RL!Entries') /\ Cardinality(RL!Entries') <= RL!Fresh
    <3>1. /\ RL!Entries = RL!Pairs(stamps) /\ RL!Entries' = RL!Pairs(stamps')
          /\ RL!Fresh = Cardinality(RL!Entries) /\ IsFiniteSet(RL!Entries)
      BY FreshIs DEF RL!Entries, Bookings
    <3>2. IsFiniteSet(RL!Pairs(stamps')) /\ Cardinality(RL!Pairs(stamps')) <= Cardinality(RL!Pairs(stamps))
      BY <1>r, <2>3, <3>1, PairsShift
    <3> QED
      BY <3>1, <3>2
  <2>5. PICK n \in Nat : n = Cardinality(RL!Entries')
    BY <2>4, FS_CardinalityType
  <2>6. n + Count("push") <= MaxRequests + Cardinality(Calls) - 1
    <3>1. RL!Fresh + Count("push") <= MaxRequests + Cardinality(Calls) - 1
      BY DEF Bookings
    <3>2. n <= RL!Fresh
      BY <2>4, <2>5
    <3> QED
      BY <1>r, <1>n, <3>1, <3>2
  <2>7. RL!Fresh' = n
    BY <2>5, FreshIs
  <2> QED
    BY <2>2, <2>4, <2>6, <2>7 DEF Bookings
<1>4. CASE RL!Restart
  <2>1. stamps' = stamps /\ \A c \in Calls : calls'[c].pc = "idle"
    BY <1>4 DEF RL!Restart, RL!Idle
  <2>2. {c \in Calls : calls'[c].pc = "push"} = {}
    BY <2>1
  <2>3. Count("push")' = 0
    BY <2>2, FS_EmptySet DEF Count
  <2>4. RL!Entries' = RL!Entries
    BY <2>1 DEF RL!Entries, RL!Pairs
  <2> QED
    BY <1>1, <1>n, <2>3, <2>4
<1>5. CASE UNCHANGED RL!vars
  <2>1. stamps' = stamps /\ calls' = calls
    BY <1>5 DEF RL!vars
  <2>2. RL!Entries' = RL!Entries /\ Count("push")' = Count("push")
    BY <2>1 DEF RL!Entries, Count
  <2> QED
    BY <1>1, <1>n, <2>2
<1> QED
  BY <1>2, <1>3, <1>4, <1>5 DEF RL!Next

LEMMA StepLapsed ==
  ASSUME LimitsFit, RatesTyped, Bookings, LapsedKept, [RL!Next]_(RL!vars)
  PROVE  LapsedKept'
<1> USE DEF RL!keys, RL!list, RL!past, RL!booking, RL!Works, RL!Fault
<1>r. /\ stamps \in [RL!Ages -> Nat] /\ gone \in [0..OrderWindow -> Nat]
      /\ term \in {-1} \cup 0..OrderWindow /\ missed \in Nat /\ faults \in Nat
      /\ MaxRequests \in Nat \ {0} /\ OrderWindow \in Nat
  BY DEF RatesTyped, LimitsFit
<1>1. ASSUME gone' = gone, term' \in {term, -1, 0} \/ term' \in {term, OrderWindow},
             missed' <= faults'
      PROVE  LapsedKept'
  <2>1. RL!Lapsed' = RL!Lapsed
    BY <1>1 DEF RL!Lapsed
  <2>2. Outlived'
    BY <1>r, <1>1 DEF Outlived, LapsedKept
  <2> QED
    BY <1>1, <2>1, <2>2 DEF LapsedKept
<1>2. ASSUME NEW c \in Calls, RL!Step(c) \/ \E k \in Kinds : RL!Arrive(c, k)
      PROVE  LapsedKept'
  <2>1. CASE \/ RL!ReadBan(c) \/ RL!ReadCount(c) \/ RL!FirstOfWindow(c) \/ RL!CountOn(c)
             \/ RL!ReadViolations(c) \/ RL!Strike(c) \/ RL!Ban(c) \/ RL!Refuses(c)
             \/ RL!Handle(c) \/ RL!SkipToNext(c) \/ RL!StartBooking(c)
             \/ \E k \in Kinds : RL!Arrive(c, k)
    <3>1. UNCHANGED <<gone, term, missed>> /\ faults' \in {faults, faults + 1}
      BY <2>1 DEF RL!ReadBan, RL!ReadCount, RL!FirstOfWindow, RL!CountOn, RL!ReadViolations,
         RL!Strike, RL!Ban, RL!Refuses, RL!Handle, RL!SkipToNext, RL!StartBooking, RL!Arrive
    <3>2. missed' <= faults'
      BY <1>r, <3>1 DEF LapsedKept
    <3> QED
      BY <1>1, <3>1, <3>2
  <2>2. CASE RL!CheckLimit(c) \/ RL!Push(c)
    <3>1. /\ gone' = gone /\ term' \in {term, -1}
          /\ \/ missed' = missed /\ faults' = faults
             \/ missed' = missed + 1 /\ faults' = faults + 1
      BY <2>2 DEF RL!CheckLimit, RL!Push, RL!Forever
    <3>2. missed' <= faults'
      BY <1>r, <3>1 DEF LapsedKept
    <3> QED
      BY <1>1, <3>1, <3>2
  <2>3. CASE RL!SetTerm(c)
    <3>1. gone' = gone /\ missed' = missed /\ faults' \in {faults, faults + 1}
      BY <2>3 DEF RL!SetTerm
    <3>2. term' \in {term, 0} \/ term' \in {term, OrderWindow}
      BY <2>3 DEF RL!SetTerm, RL!Expiring
    <3>3. missed' <= faults'
      BY <1>r, <3>1 DEF LapsedKept
    <3> QED
      BY <1>1, <3>1, <3>2, <3>3
  <2> QED
    BY <1>2, <2>1, <2>2, <2>3 DEF RL!Step
<1>3. CASE RL!Tick
  <2>1. /\ missed' = missed /\ faults' = faults
        /\ \A a \in 0..OrderWindow :
             gone'[a] = IF a = 0 THEN 0
                        ELSE gone[a - 1] + IF term = 1 THEN stamps[a - 1] ELSE 0
    BY <1>3 DEF RL!Tick, RL!LapsedThen
  <2>2. IF term \in {0, 1} THEN term' = 0 ELSE term' = RL!Sooner(term)
    BY <1>3 DEF RL!Tick
  <2>3. \A a \in 0..OrderWindow :
          gone[a] # 0 => a >= 1 /\ (term > 0 => a >= OrderWindow - term + 1)
    BY DEF LapsedKept, Outlived
  <2>4. ASSUME NEW a \in 0..OrderWindow, a # 0
        PROVE  /\ a - 1 \in 0..OrderWindow /\ gone[a - 1] \in Nat /\ stamps[a - 1] \in Nat
               /\ gone[a - 1] # 0 /\ term > 0 => a - 1 >= OrderWindow - term + 1
    <3>1. a - 1 \in 0..OrderWindow /\ a - 1 \in RL!Ages
      BY <1>r, <2>4 DEF RL!Ages
    <3> QED
      BY <1>r, <2>3, <3>1
  <2>5. \E m \in Nat : m = Cardinality(RL!Lapsed') /\ IsFiniteSet(RL!Lapsed')
                        /\ m <= MaxRequests + Cardinality(Calls) - 1
    <3>0. /\ RL!Lapsed = RL!Pairs(gone) /\ RL!Lapsed' = RL!Pairs(gone')
          /\ RL!Entries = RL!Pairs(stamps) /\ IsFiniteSet(RL!Entries)
          /\ IsFiniteSet(RL!Lapsed) /\ RL!Fresh = Cardinality(RL!Entries)
      BY FreshIs DEF RL!Lapsed, RL!Entries, Bookings, LapsedKept
    <3>n. /\ Cardinality(RL!Entries) \in Nat /\ Cardinality(RL!Lapsed) \in Nat
          /\ Cardinality(Calls) \in Nat /\ Count("push") \in Nat
      BY <3>0, CountType, FS_CardinalityType
    <3>b. Cardinality(RL!Entries) <= MaxRequests + Cardinality(Calls) - 1
      <4>1. RL!Fresh + Count("push") <= MaxRequests + Cardinality(Calls) - 1
        BY DEF Bookings
      <4> QED
        BY <1>r, <3>0, <3>n, <4>1
    <3>c. Cardinality(RL!Lapsed) <= MaxRequests + Cardinality(Calls) - 1
      BY DEF LapsedKept
    <3>1. CASE term = 1
      <4>1. ASSUME NEW a \in 0..OrderWindow
            PROVE  gone'[a] = 0 \/ (a # 0 /\ gone'[a] = stamps[a - 1])
        <5>1. CASE a = 0
          BY <2>1, <5>1
        <5>2. CASE a # 0
          <6>1. gone[a - 1] = 0
            BY <1>r, <2>4, <3>1, <5>2
          <6> QED
            BY <2>1, <2>4, <3>1, <5>2, <6>1
        <5> QED
          BY <5>1, <5>2
      <4>2. IsFiniteSet(RL!Pairs(gone')) /\ Cardinality(RL!Pairs(gone')) <= Cardinality(RL!Pairs(stamps))
        BY <1>r, <3>0, <4>1, PairsShift
      <4>3. Cardinality(RL!Pairs(gone')) \in Nat
        BY <4>2, FS_CardinalityType
      <4> QED
        BY <1>r, <3>0, <3>n, <3>b, <4>2, <4>3
    <3>2. CASE term # 1
      <4>1. ASSUME NEW a \in 0..OrderWindow
            PROVE  gone'[a] = 0 \/ (a # 0 /\ gone'[a] = gone[a - 1])
        BY <2>1, <2>4, <3>2
      <4>2. IsFiniteSet(RL!Pairs(gone')) /\ Cardinality(RL!Pairs(gone')) <= Cardinality(RL!Pairs(gone))
        BY <1>r, <3>0, <4>1, PairsShift
      <4>3. Cardinality(RL!Pairs(gone')) \in Nat
        BY <4>2, FS_CardinalityType
      <4> QED
        BY <1>r, <3>0, <3>n, <3>c, <4>2, <4>3
    <3> QED
      BY <3>1, <3>2
  <2>6. Outlived'
    <3>1. ASSUME NEW a \in 0..OrderWindow, gone'[a] # 0
          PROVE  a >= 1 /\ (term' > 0 => a >= OrderWindow - term' + 1)
      <4>1. a # 0
        BY <2>1, <3>1
      <4>2. CASE term \in {0, 1}
        BY <2>2, <4>1, <4>2
      <4>3. CASE term \notin {0, 1}
        <5>1. gone[a - 1] # 0
          BY <2>1, <2>4, <3>1, <4>1, <4>3
        <5>2. term' = IF term = -1 THEN -1 ELSE term - 1
          BY <2>2, <4>3 DEF RL!Sooner, RL!Forever
        <5> QED
          BY <1>r, <2>4, <4>1, <4>3, <5>1, <5>2
      <4> QED
        BY <4>2, <4>3
    <3> QED
      BY <3>1 DEF Outlived
  <2> QED
    BY <2>1, <2>5, <2>6 DEF LapsedKept
<1>4. CASE RL!Restart
  <2>1. gone' = gone /\ term' = term /\ missed' = missed /\ faults' = faults + 1
    BY <1>4 DEF RL!Restart
  <2>2. missed' <= faults'
    BY <1>r, <2>1 DEF LapsedKept
  <2> QED
    BY <1>1, <2>1, <2>2
<1>5. CASE UNCHANGED RL!vars
  <2>1. gone' = gone /\ term' = term /\ missed' = missed /\ faults' = faults
    BY <1>5 DEF RL!vars
  <2> QED
    BY <1>1, <2>1 DEF LapsedKept
<1> QED
  BY <1>2, <1>3, <1>4, <1>5 DEF RL!Next

--------------------------------------------------------------------------------
RatesInv == RatesTyped /\ Burst /\ Bookings /\ LapsedKept

LEMMA RatesInit ==
  ASSUME LimitsFit, RL!Init
  PROVE  RatesInv
<1>1. RatesTyped
  <2>1. RL!NoKey \in KeyRec /\ RL!Idle \in UpdateRec
    BY KeyTyped DEF RL!Idle, UpdateRec, Steps, LimitsFit
  <2>2. 0 \in RL!Ages /\ MaxFaults \in Nat /\ OrderWindow \in Nat
    BY DEF RL!Ages, LimitsFit
  <2>3. stamps \in [RL!Ages -> Nat] /\ began \in [Calls -> RL!Ages]
    BY <2>2 DEF RL!Init, RL!NoEntry
  <2>4. gone \in [0..OrderWindow -> Nat] /\ calls \in [Calls -> UpdateRec]
    BY <2>1 DEF RL!Init
  <2> QED
    BY <2>1, <2>2, <2>3, <2>4 DEF RL!Init, RatesTyped
<1>2. Burst
  BY DEF RL!Init, Burst
<1>3. RL!Entries = {}
  <2>1. \A a \in 0..OrderWindow : stamps[a] = 0 /\ 1 .. stamps[a] = {}
    BY DEF RL!Init, RL!NoEntry, RL!Ages, LimitsFit
  <2> QED
    BY <2>1 DEF RL!Entries, RL!Pairs
<1>4. {c \in Calls : calls[c].pc = "push"} = {}
  BY DEF RL!Init, RL!Idle
<1>5. RL!Fresh = 0 /\ Count("push") = 0
  BY <1>3, <1>4, FS_EmptySet, FreshIs DEF Count
<1>6. Bookings
  BY <1>3, <1>5, CountType, FS_EmptySet DEF Bookings, LimitsFit
<1>7. RL!Lapsed = {}
  <2>1. \A a \in 0..OrderWindow : gone[a] = 0 /\ 1 .. gone[a] = {}
    BY DEF RL!Init, LimitsFit
  <2> QED
    BY <2>1 DEF RL!Lapsed, RL!Pairs
<1>8. LapsedKept
  <2>1. /\ missed = 0 /\ faults = 0 /\ \A a \in 0..OrderWindow : gone[a] = 0
        /\ MaxRequests \in Nat \ {0}
    BY DEF RL!Init, LimitsFit
  <2>2. IsFiniteSet(RL!Lapsed) /\ Cardinality(RL!Lapsed) = 0 /\ Cardinality(Calls) \in Nat \ {0}
    BY <1>7, CountType, FS_EmptySet
  <2> QED
    BY <2>1, <2>2 DEF LapsedKept, Outlived
<1> QED
  BY <1>1, <1>2, <1>6, <1>8 DEF RatesInv

LEMMA RatesStep ==
  ASSUME LimitsFit, RatesInv, [RL!Next]_(RL!vars)
  PROVE  RatesInv'
BY StepRatesTyped, StepBurst, StepBookings, StepLapsed DEF RatesInv

LEMMA RatesBound ==
  ASSUME LimitsFit, RatesInv
  PROVE  RL!TypeOK /\ RL!BurstIsBounded /\ RL!BookingsAreBounded
<1>1. RL!TypeOK
  BY DEF RatesInv, RatesTyped, RL!TypeOK, RL!Forever, KeyRec, UpdateRec, Steps
<1>2. RL!BookingsAreBounded
  <2>1. Count("push") \in Nat /\ Cardinality(Calls) \in Nat
    BY CountType
  <2>2. RL!Fresh \in Nat /\ MaxRequests \in Nat
    BY FS_CardinalityType, FreshIs DEF RatesInv, Bookings, LimitsFit
  <2>3. /\ Cardinality(RL!Lapsed) \in Nat /\ missed <= MaxFaults
        /\ Cardinality(RL!Lapsed) <= MaxRequests + Cardinality(Calls) - 1
        /\ missed \in Nat /\ MaxFaults \in Nat
    BY FS_CardinalityType DEF RatesInv, LapsedKept, RatesTyped, LimitsFit
  <2>4. RL!Fresh + Count("push") <= MaxRequests + Cardinality(Calls) - 1
    BY DEF RatesInv, Bookings
  <2>5. /\ RL!Fresh <= MaxRequests + Cardinality(Calls) - 1
        /\ RL!Fresh + Cardinality(RL!Lapsed) + missed
             <= 2 * (MaxRequests + Cardinality(Calls) - 1) + MaxFaults
    BY <2>1, <2>2, <2>3, <2>4
  <2> QED
    BY <2>5, CardinalityRL DEF RL!BookingsAreBounded
<1>3. RL!BurstIsBounded
  <2>1. /\ Share \in Nat \ {0} /\ Beginnings \in Nat /\ OnThisCount \in Nat
        /\ faults \in Nat /\ MaxFaults \in Nat /\ faults <= MaxFaults
        /\ admitted \in Nat /\ Cardinality(Calls) \in Nat
    BY Ranges DEF RatesInv
  <2>2. PICK x \in Nat, z \in Nat :
          /\ x = Beginnings * Share
          /\ z = (Cardinality(Calls) + MaxFaults) * Share
          /\ z >= Cardinality(Calls) + MaxFaults
    <3>1. /\ Cardinality(Calls) + MaxFaults \in Nat
          /\ (Cardinality(Calls) + MaxFaults) * Share \in Nat
          /\ (Cardinality(Calls) + MaxFaults) * Share >= Cardinality(Calls) + MaxFaults
      BY <2>1, Products
    <3>2. Beginnings * Share \in Nat
      BY <2>1, Products
    <3> QED
      BY <3>1, <3>2
  <2>3. admitted <= z
    BY <2>1, <2>2 DEF RatesInv, Burst
  <2> QED
    BY <2>2, <2>3, CardinalityRL DEF RL!BurstIsBounded, Share
<1> QED
  BY <1>1, <1>2, <1>3

--------------------------------------------------------------------------------
(* Notifications *)

TaskRec == [text: Texts, to: Chats, tries: 0..MaxTries,
            pc: {"counts", "expires", "waits", "sends"}]
RateRec == [n: 0..2, ttl: {-1} \cup 0..Second]

\* Nothing is sent for a text that no task was published for
MessagesInv ==
  /\ NT!TypeOK
  /\ \A m \in tasks : m.text \in published
  /\ \A x \in Texts : fan[x] # {} => x \in published

LEMMA MessagesInit ==
  ASSUME MessagesFit, NT!Init
  PROVE  MessagesInv
BY DEF MessagesFit, NT!Init, NT!NoKey, NT!TypeOK, NT!Forever, MessagesInv

\* A step of a task puts one like it in its place
LEMMA TaskMoves ==
  ASSUME MessagesFit, MessagesInv, NEW m \in tasks, NEW n \in TaskRec, n.text = m.text,
         tasks' = (tasks \ {m}) \cup {n}
  PROVE  /\ tasks' \subseteq TaskRec
         /\ \A k \in tasks' : k.text \in published
<1>1. tasks \subseteq TaskRec /\ \A k \in tasks : k.text \in published
  BY DEF MessagesInv, NT!TypeOK, TaskRec
<1> QED
  BY <1>1

LEMMA MessagesStep ==
  ASSUME MessagesFit, MessagesInv, [NT!Next]_(NT!vars)
  PROVE  MessagesInv'
<1> USE DEF NT!casting, NT!Works, NT!Fault, NT!Forever
<1>t. /\ published \subseteq Texts /\ fan \in [Texts -> SUBSET Chats]
      /\ tasks \subseteq TaskRec /\ casts \subseteq published /\ dropped \subseteq casts \X Chats
      /\ settled \subseteq published \X Chats /\ rate \in [Chats -> RateRec]
      /\ faults \in 0..MaxDeaths /\ MaxDeaths \in Nat /\ MaxTries \in Nat /\ Second \in Nat
      /\ \A m \in tasks : m.text \in published
      /\ \A x \in Texts : fan[x] # {} => x \in published
  BY DEF MessagesInv, MessagesFit, NT!TypeOK, NT!Forever, TaskRec, RateRec
<1>q. ASSUME /\ published \subseteq published' /\ published' \subseteq Texts
             /\ fan' \in [Texts -> SUBSET Chats]
             /\ \A x \in Texts : fan'[x] # {} => x \in published',
             tasks' \subseteq TaskRec, \A m \in tasks' : m.text \in published',
             casts' \subseteq published', dropped' \subseteq casts' \X Chats,
             settled' \subseteq published' \X Chats,
             rate' \in [Chats -> RateRec], faults' \in 0..MaxDeaths
      PROVE  MessagesInv'
  BY <1>q DEF MessagesInv, NT!TypeOK, TaskRec, RateRec
<1>f. NT!Fault => faults' \in 0..MaxDeaths
  BY <1>t
<1>1. ASSUME NEW x \in Texts, NT!Publish(x) PROVE MessagesInv'
  BY <1>t, <1>q, <1>1 DEF NT!Publish
<1>2. ASSUME NEW x \in Texts, NEW a \in Chats, NT!Queues(x, a) PROVE MessagesInv'
  <2> DEFINE n == [text |-> x, to |-> a, tries |-> 0, pc |-> "counts"]
  <2>1. n \in TaskRec /\ n.text \in published
    BY <1>t, <1>2 DEF TaskRec, NT!Queues
  <2> HIDE DEF n
  <2>2. tasks' = tasks \cup {n}
    BY <1>2 DEF NT!Queues, n
  <2>3. fan' \in [Texts -> SUBSET Chats] /\ \A y \in Texts : fan'[y] # {} => y \in published
    BY <1>t, <1>2 DEF NT!Queues
  <2> QED
    BY <1>t, <1>q, <1>2, <2>1, <2>2, <2>3 DEF NT!Queues
<1>3. ASSUME NEW x \in Texts, NT!FanDies(x) \/ NT!CastDies(x) PROVE MessagesInv'
  <2>1. fan' \in [Texts -> SUBSET Chats] /\ \A y \in Texts : fan'[y] # {} => y \in published
    BY <1>t, <1>3 DEF NT!FanDies, NT!CastDies, NT!RunAgain
  <2>2. dropped' \subseteq casts' \X Chats
    BY <1>t, <1>3 DEF NT!FanDies, NT!CastDies
  <2> QED
    BY <1>t, <1>q, <1>f, <1>3, <2>1, <2>2 DEF NT!FanDies, NT!CastDies
<1>4. ASSUME NEW x \in Texts, NEW a \in Chats, NT!Casts(x, a) PROVE MessagesInv'
  <2>1. fan' \in [Texts -> SUBSET Chats] /\ \A y \in Texts : fan'[y] # {} => y \in published
    BY <1>t, <1>4 DEF NT!Casts
  <2>2. settled' \subseteq published \X Chats
    BY <1>t, <1>4 DEF NT!Casts
  <2> QED
    BY <1>t, <1>q, <1>4, <2>1, <2>2 DEF NT!Casts
<1>5. ASSUME NEW m \in tasks, NEW to \in {"counts", "expires", "waits", "sends"},
             NT!Moves(m, to)
      PROVE  tasks' \subseteq TaskRec /\ \A k \in tasks' : k.text \in published
  <2>1. [m EXCEPT !.pc = to] \in TaskRec /\ [m EXCEPT !.pc = to].text = m.text
    BY <1>t DEF TaskRec
  <2> QED
    BY <1>5, <2>1, TaskMoves DEF NT!Moves
<1>6. ASSUME NEW m \in tasks, NT!Ends(m)
      PROVE  /\ tasks' \subseteq TaskRec /\ \A k \in tasks' : k.text \in published
             /\ settled' \subseteq published \X Chats
  BY <1>t, <1>6 DEF NT!Ends, TaskRec
<1>7. ASSUME NEW m \in tasks, NT!Counts(m) \/ NT!Expires(m) PROVE MessagesInv'
  <2>1. m.to \in Chats
    BY <1>t DEF TaskRec
  <2>2. rate' \in [Chats -> RateRec]
    BY <1>t, <1>7, <2>1 DEF NT!Counts, NT!Expires, NT!NoKey, RateRec
  <2>3. tasks' \subseteq TaskRec /\ \A k \in tasks' : k.text \in published
    BY <1>5, <1>7 DEF NT!Counts, NT!Expires
  <2>4. /\ UNCHANGED <<published, fan, casts, dropped, settled>>
        /\ faults' \in 0..MaxDeaths
    BY <1>t, <1>f, <1>7 DEF NT!Counts, NT!Expires
  <2> QED
    BY <1>t, <1>q, <2>2, <2>3, <2>4
<1>8. ASSUME NEW m \in tasks, NT!Waits(m) \/ NT!Sends(m) \/ NT!Stumbles(m) PROVE MessagesInv'
  <2>1. tasks' \subseteq TaskRec /\ \A k \in tasks' : k.text \in published
    <3>1. CASE m.tries < MaxTries
      <4>1. /\ [m EXCEPT !.tries = NT!NextTry(@), !.pc = "counts"] \in TaskRec
            /\ [m EXCEPT !.tries = NT!NextTry(@), !.pc = "counts"].text = m.text
        <5>1. m \in TaskRec /\ m.tries \in 0..MaxTries
          BY <1>t DEF TaskRec
        <5>2. NT!NextTry(m.tries) \in 0..MaxTries
          BY <1>t, <3>1, <5>1 DEF NT!NextTry
        <5>3. ASSUME NEW n \in 0..MaxTries
              PROVE  /\ [m EXCEPT !.tries = n, !.pc = "counts"] \in TaskRec
                     /\ [m EXCEPT !.tries = n, !.pc = "counts"].text = m.text
          BY <5>1 DEF TaskRec
        <5> QED
          BY <5>2, <5>3
      <4> QED
        BY <1>5, <1>6, <1>8, <3>1, <4>1, TaskMoves DEF NT!Waits, NT!Sends, NT!Stumbles
    <3>2. CASE ~(m.tries < MaxTries)
      BY <1>5, <1>6, <1>8, <3>2 DEF NT!Waits, NT!Sends, NT!Stumbles
    <3> QED
      BY <3>1, <3>2
  <2>2. settled' \subseteq published \X Chats
    BY <1>t, <1>6, <1>8 DEF NT!Waits, NT!Sends, NT!Stumbles
  <2>3. UNCHANGED <<published, fan, casts, dropped, rate, faults>>
    BY <1>8 DEF NT!Waits, NT!Sends, NT!Stumbles
  <2> QED
    BY <1>t, <1>q, <2>1, <2>2, <2>3
<1>9. ASSUME NEW m \in tasks, NT!WorkerDies(m) \/ NT!SentTwice(m) PROVE MessagesInv'
  <2>1. tasks' \subseteq TaskRec /\ \A k \in tasks' : k.text \in published
    BY <1>5, <1>9 DEF NT!WorkerDies, NT!SentTwice
  <2>2. settled' \subseteq published \X Chats
    BY <1>t, <1>9 DEF NT!WorkerDies, NT!SentTwice, TaskRec
  <2>3. UNCHANGED <<published, fan, casts, dropped, rate>> /\ faults' \in 0..MaxDeaths
    BY <1>f, <1>9 DEF NT!WorkerDies, NT!SentTwice
  <2> QED
    BY <1>t, <1>q, <2>1, <2>2, <2>3
<1>10. CASE NT!Tick
  <2>1. rate' \in [Chats -> RateRec]
    BY <1>t, <1>10 DEF NT!Tick, NT!NoKey, RateRec
  <2> QED
    BY <1>t, <1>q, <1>10, <2>1 DEF NT!Tick
<1>11. CASE UNCHANGED NT!vars
  BY <1>t, <1>q, <1>11 DEF NT!vars
<1> QED
  BY <1>1, <1>2, <1>3, <1>4, <1>7, <1>8, <1>9, <1>10, <1>11 DEF NT!Next, NT!Step, NT!SendStep

--------------------------------------------------------------------------------
(* QueueSearch: ranks *)

\* When who has a score came, whether he has priority or not
Came(score) == IF score > 0 THEN score ELSE score + Offset

\* Nobody came when another did
Apart ==
  /\ \A d \in QS!Line : Came(queue[d]) <= clock
  /\ \A d, e \in QS!Line : d # e => Came(queue[d]) # Came(queue[e])

Before(d) == {e \in QS!Line : queue[e] < queue[d]}

LEMMA CardinalityQS == \A S : QS!Cardinality(S) = Cardinality(S)
BY DEF QS!Cardinality, Cardinality, QS!IsFiniteSet, IsFiniteSet

LEMMA RankIs ==
  ASSUME NEW d
  PROVE  QS!Rank(d) = Cardinality(Before(d))
BY CardinalityQS DEF QS!Rank, Before

LEMMA LineFinite ==
  ASSUME LineFit
  PROVE  IsFiniteSet(QS!Line) /\ Cardinality(QS!Line) \in Nat
<1>1. QS!Line \subseteq Drivers /\ IsFiniteSet(Drivers)
  BY DEF QS!Line, LineFit
<1> QED
  BY <1>1, FS_Subset, FS_CardinalityType

LEMMA ScoresApart ==
  ASSUME LineFit, QS!TypeOK, Apart
  PROVE  /\ \A d \in QS!Line : queue[d] \in Int
         /\ \A d, e \in QS!Line : d # e => queue[d] # queue[e]
<1>1. ASSUME NEW d \in QS!Line PROVE queue[d] \in Int
  BY <1>1 DEF QS!Line, QS!InQueue, QS!TypeOK, QS!Scores, LineFit
<1> QED
  BY <1>1 DEF Apart, LineFit

LEMMA RankOrder ==
  ASSUME LineFit, QS!TypeOK, Apart, NEW d \in QS!Line
  PROVE  /\ QS!Rank(d) \in Nat /\ QS!Rank(d) < Cardinality(QS!Line)
         /\ \A e \in QS!Line : queue[d] < queue[e] => QS!Rank(d) < QS!Rank(e)
         /\ \A e \in QS!Line : QS!Rank(d) < QS!Rank(e) => queue[d] < queue[e]
         /\ \A e \in QS!Line : QS!Rank(d) = QS!Rank(e) => d = e
<1>1. ASSUME NEW a \in QS!Line
      PROVE  IsFiniteSet(Before(a)) /\ Cardinality(Before(a)) \in Nat
  <2>1. Before(a) \subseteq QS!Line
    BY DEF Before
  <2> QED
    BY <2>1, LineFinite, FS_Subset, FS_CardinalityType
<1>2. ASSUME NEW a \in QS!Line, NEW S, IsFiniteSet(S), Before(a) \cup {a} \subseteq S
      PROVE  Cardinality(Before(a)) < Cardinality(S)
  <2>1. a \notin Before(a)
    BY ScoresApart DEF Before
  <2>2. Cardinality(Before(a) \cup {a}) = Cardinality(Before(a)) + 1
    BY <1>1, <2>1, FS_AddElement
  <2>3. Cardinality(Before(a) \cup {a}) <= Cardinality(S) /\ Cardinality(S) \in Nat
    BY <1>2, FS_Subset, FS_CardinalityType
  <2> QED
    BY <1>1, <2>2, <2>3
<1>3. ASSUME NEW a \in QS!Line, NEW b \in QS!Line, queue[a] < queue[b]
      PROVE  QS!Rank(a) < QS!Rank(b)
  <2>1. Before(a) \cup {a} \subseteq Before(b)
    BY <1>3, ScoresApart DEF Before
  <2> QED
    BY <1>1, <1>2, <2>1, RankIs
<1>4. QS!Rank(d) \in Nat /\ QS!Rank(d) < Cardinality(QS!Line)
  <2>1. Before(d) \cup {d} \subseteq QS!Line
    BY DEF Before
  <2> QED
    BY <1>1, <1>2, <2>1, LineFinite, RankIs
<1>5. ASSUME NEW e \in QS!Line
      PROVE  /\ QS!Rank(d) < QS!Rank(e) => queue[d] < queue[e]
             /\ QS!Rank(d) = QS!Rank(e) => d = e
  <2>1. QS!Rank(d) \in Nat /\ QS!Rank(e) \in Nat
    BY <1>1, RankIs
  <2>2. d = e \/ queue[d] < queue[e] \/ queue[e] < queue[d]
    BY ScoresApart
  <2> QED
    BY <1>3, <2>1, <2>2
<1> QED
  BY <1>3, <1>4, <1>5

\* Every rank below the length of the queue is somebody's
LEMMA RankTaken ==
  ASSUME LineFit, QS!TypeOK, Apart, NEW n \in Nat, n < Cardinality(QS!Line)
  PROVE  QS!AtRank(n) \in QS!Line /\ QS!Rank(QS!AtRank(n)) = n
<1> DEFINE size == Cardinality(QS!Line)
           f == [d \in QS!Line |-> QS!Rank(d)]
<1>1. size \in Nat /\ IsFiniteSet(QS!Line)
  BY LineFinite
<1>2. f \in Injection(QS!Line, 0 .. (size - 1))
  <2>1. f \in [QS!Line -> 0 .. (size - 1)]
    BY <1>1, RankOrder
  <2>2. \A d, e \in QS!Line : f[d] = f[e] => d = e
    BY RankOrder
  <2> QED
    BY <2>1, <2>2 DEF Injection, IsInjective
<1>3. IsFiniteSet(0 .. (size - 1)) /\ Cardinality(0 .. (size - 1)) = size
  <2>1. 0 \in Int /\ size - 1 \in Int
    BY <1>1
  <2>2. /\ IsFiniteSet(0 .. (size - 1))
        /\ Cardinality(0 .. (size - 1)) = IF 0 > size - 1 THEN 0 ELSE size - 1 - 0 + 1
    BY <2>1, FS_Interval
  <2> HIDE DEF size
  <2> QED
    BY <1>1, <2>2
<1>4. f \in Surjection(QS!Line, 0 .. (size - 1))
  <2> HIDE DEF f
  <2> QED
    BY <1>2, <1>3, FS_Injection
<1>5. n \in 0 .. (size - 1)
  BY <1>1
<1>6. \E d \in QS!Line : QS!Rank(d) = n
  BY <1>4, <1>5 DEF Surjection
<1> QED
  BY <1>6 DEF QS!AtRank

LEMMA RankFound ==
  ASSUME LineFit, QS!TypeOK, Apart, NEW d \in QS!Line
  PROVE  QS!AtRank(QS!Rank(d)) = d
BY RankOrder, RankTaken

\* Who joins comes before some: nobody's rank gets less while nobody leaves or moves
LEMMA RankGrows ==
  ASSUME LineFit, QS!TypeOK, QS!TypeOK', NEW d \in QS!Line,
         \A e \in Drivers : QS!InQueue(e) => queue'[e] = queue[e]
  PROVE  d \in QS!Line' /\ QS!Rank(d)' >= QS!Rank(d)
<1>1. QS!Line \subseteq QS!Line' /\ \A e \in QS!Line : queue'[e] = queue[e]
  BY DEF QS!Line, QS!InQueue
<1> DEFINE T == {e \in QS!Line' : queue'[e] < queue'[d]}
<1>2. QS!Rank(d)' = Cardinality(T)
  BY CardinalityQS DEF QS!Rank
<1>3. IsFiniteSet(T)
  <2>1. T \subseteq Drivers
    BY DEF QS!Line
  <2> QED
    BY <2>1, FS_Subset DEF LineFit
<1>4. Before(d) \subseteq T
  BY <1>1 DEF Before
<1>5. Cardinality(Before(d)) <= Cardinality(T)
  BY <1>3, <1>4, FS_Subset
<1>6. Cardinality(Before(d)) \in Nat /\ Cardinality(T) \in Nat
  BY <1>3, <1>4, FS_Subset, FS_CardinalityType
<1>7. QS!Rank(d)' >= Cardinality(Before(d))
  BY <1>2, <1>5, <1>6
<1> QED
  BY <1>1, <1>7, RankIs
--------------------------------------------------------------------------------
(* QueueSearch: the search *)

InBatch(d) == \E i \in 1 .. Len(search.batch) : search.batch[i] = d

\* Those who suit and were not read yet stand at the next part or behind it
Ahead(d) == QS!Rank(d) >= search.start

\* What a search knows of the queue, as long as nobody leaves it
Searched ==
  /\ search.pc = "reading" => \A d \in steady : Ahead(d)
  /\ search.pc = "checking" =>
       /\ \A i \in 1 .. Len(search.batch) : search.batch[i] \in QS!Line
       /\ \A i, j \in 1 .. Len(search.batch) :
            i < j => queue[search.batch[i]] < queue[search.batch[j]]
       /\ \A d \in steady :
            \/ InBatch(d)
            \/ /\ Ahead(d)
               /\ \A i \in 1 .. Len(search.batch) : queue[search.batch[i]] < queue[d]
  /\ search.pc = "nobody" => steady = {}
  /\ search.pc = "picked" =>
       /\ search.pick \in QS!Line
       /\ \A d \in steady \ {search.pick} : queue[search.pick] < queue[d]

LineInv ==
  /\ QS!TypeOK
  /\ steady \subseteq QS!Line \cap fit
  /\ Apart
  /\ search.pc = "checking" => search.batch # <<>>
  /\ calm => Searched

LEMMA LineInit ==
  ASSUME LineFit, QS!Init
  PROVE  LineInv
<1>1. QS!Line = {}
  BY DEF QS!Init, QS!Line, QS!InQueue
<1>2. QS!NoSearch \in QS!SearchRec
  BY EmptySeq DEF QS!NoSearch, QS!SearchRec
<1>3. QS!TypeOK
  BY <1>2 DEF QS!Init, QS!TypeOK, LineFit
<1>4. Searched
  BY DEF QS!Init, QS!NoSearch, Searched
<1>5. search.pc # "checking" /\ steady = {}
  BY DEF QS!Init, QS!NoSearch
<1> QED
  BY <1>1, <1>3, <1>4, <1>5 DEF Apart, LineInv

\* The members of a part are those of its ranks, in their order
LEMMA PartIs ==
  ASSUME LineFit, QS!TypeOK, Apart, NEW start \in Nat
  PROVE  \E n \in 0 .. BatchSize :
           /\ n = BatchSize \/ Cardinality(QS!Line) <= start + n
           /\ QS!Part(start) \in Seq(Drivers) /\ Len(QS!Part(start)) = n
           /\ \A i \in 1 .. n : /\ QS!Part(start)[i] \in QS!Line
                                /\ QS!Rank(QS!Part(start)[i]) = start + i - 1
<1> DEFINE size == Cardinality(QS!Line)
           k == IF start + BatchSize <= size THEN BatchSize ELSE size - start
           n == IF k >= 0 THEN k ELSE 0
<1>1. size \in Nat /\ BatchSize \in Nat \ {0}
  BY LineFinite DEF LineFit
<1>2. n \in 0 .. BatchSize /\ 1 .. k = 1 .. n /\ (n = BatchSize \/ size <= start + n)
  BY <1>1
<1>3. QS!Part(start) = [i \in 1 .. n |-> QS!AtRank(start + i - 1)]
  BY <1>2, CardinalityQS DEF QS!Part
<1>4. ASSUME NEW i \in 1 .. n
      PROVE  /\ QS!AtRank(start + i - 1) \in QS!Line
             /\ QS!Rank(QS!AtRank(start + i - 1)) = start + i - 1
  <2>1. start + i - 1 \in Nat /\ start + i - 1 < size
    BY <1>1
  <2> QED
    BY <2>1, RankTaken
<1> HIDE DEF n, k, size
<1>5. QS!Part(start) \in Seq(Drivers) /\ Len(QS!Part(start)) = n
  <2>1. n \in Nat /\ \A i \in 1 .. n : QS!AtRank(start + i - 1) \in Drivers
    <3>1. n \in Nat
      BY <1>1, <1>2
    <3>2. QS!Line \subseteq Drivers
      BY DEF QS!Line
    <3> QED
      BY <1>4, <3>1, <3>2
  <2> QED
    BY <1>3, <2>1
<1> QED
  BY <1>2, <1>3, <1>4, <1>5 DEF size

LEMMA SearchTyped ==
  ASSUME LineFit, QS!TypeOK
  PROVE  /\ search.start \in Nat /\ search.batch \in Seq(Drivers)
         /\ search.pc \in {"idle", "reading", "checking", "picked", "nobody", "failed"}
         /\ search = [pc |-> search.pc, start |-> search.start, batch |-> search.batch,
                      pick |-> search.pick]
         /\ QS!NoSearch \in QS!SearchRec
BY EmptySeq DEF QS!TypeOK, QS!SearchRec, QS!NoSearch

\* One reads a part
LEMMA ReadsOK ==
  ASSUME LineFit, LineInv, QS!Reads, QS!Watches
  PROVE  LineInv'
<1>1. /\ queue' = queue /\ fit' = fit /\ clock' = clock /\ search.pc = "reading"
      /\ search' = IF QS!Part(search.start) = <<>> THEN [QS!NoSearch EXCEPT !.pc = "nobody"]
                   ELSE [pc |-> "checking", start |-> QS!NextStart(search.start),
                         batch |-> QS!Part(search.start), pick |-> None]
  BY DEF QS!Reads
<1>2. QS!TypeOK /\ Apart /\ steady \subseteq QS!Line \cap fit /\ (calm => Searched)
  BY DEF LineInv
<1>3. search.start \in Nat
  BY <1>2, SearchTyped
<1>4. PICK n \in 0 .. BatchSize :
        /\ n = BatchSize \/ Cardinality(QS!Line) <= search.start + n
        /\ QS!Part(search.start) \in Seq(Drivers) /\ Len(QS!Part(search.start)) = n
        /\ \A i \in 1 .. n : /\ QS!Part(search.start)[i] \in QS!Line
                             /\ QS!Rank(QS!Part(search.start)[i]) = search.start + i - 1
  BY <1>2, <1>3, PartIs
<1>5. search'.pc \in {"checking", "nobody"}
  BY <1>1 DEF QS!NoSearch
<1>6. steady' = steady /\ (calm' => calm) /\ calm' \in BOOLEAN
  BY <1>1, <1>2, <1>5 DEF QS!Watches, QS!InQueue, QS!Line, QS!TypeOK
<1>7. search' \in QS!SearchRec
  <2>1. QS!NextStart(search.start) \in Nat
    BY <1>3 DEF QS!NextStart, LineFit
  <2>2. [QS!NoSearch EXCEPT !.pc = "nobody"] \in QS!SearchRec
    BY <1>2, SearchTyped DEF QS!SearchRec
  <2> QED
    BY <1>1, <1>4, <2>1, <2>2 DEF QS!SearchRec
<1>8. QS!TypeOK'
  BY <1>1, <1>2, <1>6, <1>7 DEF QS!TypeOK
<1>9. QS!Line' = QS!Line /\ \A d : QS!Rank(d)' = QS!Rank(d)
  BY <1>1 DEF QS!Line, QS!InQueue, QS!Rank
<1>10. Apart'
  BY <1>1, <1>2, <1>9 DEF Apart
<1>11. ASSUME calm PROVE Searched'
  <2>1. \A d \in steady : QS!Rank(d) >= search.start /\ d \in QS!Line
    BY <1>1, <1>2, <1>11 DEF Searched, Ahead
  <2>2. \A d \in QS!Line : QS!Rank(d) \in Nat /\ QS!Rank(d) < Cardinality(QS!Line)
    BY <1>2, RankOrder
  <2>3. BatchSize \in Nat \ {0} /\ Cardinality(QS!Line) \in Nat
    BY LineFinite DEF LineFit
  <2>4. CASE QS!Part(search.start) = <<>>
    <3>1. n = 0
      BY <1>4, <2>4
    <3>2. steady = {}
      BY <1>3, <1>4, <2>1, <2>2, <2>3, <3>1
    <3>3. search'.pc = "nobody"
      BY <1>1, <2>4 DEF QS!NoSearch
    <3> QED
      BY <1>6, <3>2, <3>3 DEF Searched
  <2>5. CASE QS!Part(search.start) # <<>>
    <3> DEFINE b == QS!Part(search.start)
    <3>1. /\ search'.pc = "checking" /\ search'.batch = b
          /\ search'.start = search.start + BatchSize
      BY <1>1, <2>5 DEF QS!NextStart
    <3>2. \A i, j \in 1 .. n : i < j => queue[b[i]] < queue[b[j]]
      <4> SUFFICES ASSUME NEW i \in 1 .. n, NEW j \in 1 .. n, i < j
                   PROVE  queue[b[i]] < queue[b[j]]
        OBVIOUS
      <4>1. QS!Rank(b[i]) < QS!Rank(b[j]) /\ b[i] \in QS!Line /\ b[j] \in QS!Line
        <5>1. /\ QS!Rank(b[i]) = search.start + i - 1 /\ b[i] \in QS!Line
              /\ QS!Rank(b[j]) = search.start + j - 1 /\ b[j] \in QS!Line
          BY <1>4
        <5>2. search.start + i - 1 < search.start + j - 1
          BY <1>3
        <5> QED
          BY <5>1, <5>2
      <4> QED
        BY <1>2, <4>1, RankOrder
    <3>3. ASSUME NEW d \in steady
          PROVE  \/ \E i \in 1 .. n : b[i] = d
                 \/ /\ QS!Rank(d) >= search.start + BatchSize
                    /\ \A i \in 1 .. n : queue[b[i]] < queue[d]
      <4>1. QS!Rank(d) \in Nat /\ QS!Rank(d) >= search.start /\ d \in QS!Line
            /\ QS!Rank(d) < Cardinality(QS!Line)
        BY <2>1, <2>2
      <4>2. CASE QS!Rank(d) < search.start + n
        <5>1. QS!Rank(d) - search.start + 1 \in 1 .. n
          BY <1>3, <1>4, <4>1, <4>2
        <5>2. PICK i \in 1 .. n : i = QS!Rank(d) - search.start + 1
          BY <5>1
        <5>3. QS!Rank(b[i]) = QS!Rank(d) /\ b[i] \in QS!Line
          <6>1. QS!Rank(b[i]) = search.start + i - 1 /\ b[i] \in QS!Line
            BY <1>4
          <6>2. search.start + i - 1 = QS!Rank(d)
            BY <1>3, <4>1, <5>2
          <6> QED
            BY <6>1, <6>2
        <5>4. b[i] = d
          BY <1>2, <4>1, <5>3, RankOrder
        <5> QED
          BY <5>4
      <4>3. CASE QS!Rank(d) >= search.start + n
        <5>1. n = BatchSize
          BY <1>3, <1>4, <2>3, <4>1, <4>3
        <5>2. ASSUME NEW i \in 1 .. n PROVE queue[b[i]] < queue[d]
          <6>1. QS!Rank(b[i]) < QS!Rank(d) /\ b[i] \in QS!Line
            <7>1. QS!Rank(b[i]) = search.start + i - 1 /\ b[i] \in QS!Line
              BY <1>4
            <7>2. search.start + i - 1 < QS!Rank(d)
              BY <1>3, <4>1, <4>3
            <7> QED
              BY <7>1, <7>2
          <6> QED
            BY <1>2, <4>1, <6>1, RankOrder
        <5> QED
          BY <4>3, <5>1, <5>2
      <4> QED
        BY <1>3, <1>4, <4>1, <4>2, <4>3
    <3>4. Len(b) = n /\ \A i \in 1 .. n : b[i] \in QS!Line
      BY <1>4
    <3> HIDE DEF b
    <3>5. b # <<>>
      BY <2>5 DEF b
    <3>6. \A d \in steady' : Ahead(d)' <=> QS!Rank(d) >= search.start + BatchSize
      BY <1>9, <3>1 DEF Ahead
    <3> QED
      BY <1>1, <1>6, <1>9, <3>1, <3>2, <3>3, <3>4, <3>5, <3>6 DEF Searched, InBatch
  <2> QED
    BY <2>4, <2>5
<1>12. search'.pc = "checking" => search'.batch # <<>>
  BY <1>1 DEF QS!NoSearch
<1> QED
  BY <1>1, <1>2, <1>6, <1>8, <1>9, <1>10, <1>11, <1>12 DEF LineInv

\* One looks at the head of the part
LEMMA ChecksOK ==
  ASSUME LineFit, LineInv, QS!Checks, QS!Watches
  PROVE  LineInv'
<1> DEFINE b == search.batch
<1>2. QS!TypeOK /\ Apart /\ steady \subseteq QS!Line \cap fit /\ (calm => Searched)
  BY DEF LineInv
<1>1. /\ queue' = queue /\ fit' = fit /\ clock' = clock /\ search.pc = "checking"
      /\ search' = IF Head(b) \in fit
                     THEN [QS!NoSearch EXCEPT !.pc = "picked", !.pick = Head(b)]
                   ELSE [search EXCEPT !.batch = Tail(b),
                           !.pc = IF Tail(b) = <<>> THEN "reading" ELSE "checking"]
  BY DEF QS!Checks
<1>3. search.start \in Nat /\ b \in Seq(Drivers) /\ b # <<>>
  BY <1>1, <1>2, SearchTyped DEF LineInv
<1>4. search'.pc \in {"picked", "reading", "checking"}
  BY <1>1, <1>2, SearchTyped DEF QS!NoSearch
<1>5. steady' = steady /\ (calm' => calm) /\ calm' \in BOOLEAN
  BY <1>1, <1>2, <1>4 DEF QS!Watches, QS!InQueue, QS!Line, QS!TypeOK
<1>6. search' \in QS!SearchRec
  <2>1. CASE Head(b) \in fit
    <3>1. Head(b) \in Drivers
      BY <1>2, <2>1 DEF QS!TypeOK
    <3>2. search' = [pc |-> "picked", start |-> 0, batch |-> <<>>, pick |-> Head(b)]
      BY <1>1, <2>1 DEF QS!NoSearch
    <3> QED
      BY <3>1, <3>2, EmptySeq DEF QS!SearchRec
  <2>2. CASE Head(b) \notin fit
    <3>1. Tail(b) \in Seq(Drivers)
      BY <1>3
    <3> QED
      BY <1>1, <1>2, <2>2, <3>1 DEF QS!SearchRec, QS!TypeOK
  <2> QED
    BY <2>1, <2>2
<1>7. QS!TypeOK'
  BY <1>1, <1>2, <1>5, <1>6 DEF QS!TypeOK
<1>8. QS!Line' = QS!Line /\ \A d : QS!Rank(d)' = QS!Rank(d)
  BY <1>1 DEF QS!Line, QS!InQueue, QS!Rank
<1>9. Apart'
  BY <1>1, <1>2, <1>8 DEF Apart
<1>10. ASSUME calm PROVE Searched'
  <2>1. /\ \A i \in 1 .. Len(b) : b[i] \in QS!Line
        /\ \A i, j \in 1 .. Len(b) : i < j => queue[b[i]] < queue[b[j]]
        /\ \A d \in steady : \/ \E i \in 1 .. Len(b) : b[i] = d
                           \/ /\ Ahead(d)
                              /\ \A i \in 1 .. Len(b) : queue[b[i]] < queue[d]
    BY <1>1, <1>2, <1>10 DEF Searched, InBatch
  <2>2. /\ Len(b) \in Nat \ {0} /\ Head(b) = b[1] /\ 1 \in 1 .. Len(b)
        /\ Len(Tail(b)) = Len(b) - 1
        /\ \A i \in 1 .. Len(Tail(b)) : Tail(b)[i] = b[i + 1]
    BY <1>3
  <2> HIDE DEF b
  <2>3. CASE Head(b) \in fit
    <3>1. search'.pc = "picked" /\ search'.pick = Head(b)
      BY <1>1, <2>3 DEF QS!NoSearch
    <3>2. ASSUME NEW d \in steady \ {Head(b)} PROVE queue[Head(b)] < queue[d]
      BY <2>1, <2>2
    <3> QED
      BY <1>1, <1>5, <1>8, <2>1, <2>2, <3>1, <3>2 DEF Searched
  <2>4. CASE Head(b) \notin fit
    <3>1. /\ search'.batch = Tail(b) /\ search'.start = search.start
          /\ search'.pc = IF Tail(b) = <<>> THEN "reading" ELSE "checking"
      BY <1>1, <1>2, <2>4, SearchTyped
    <3>2. \A d : Ahead(d)' <=> Ahead(d)
      BY <1>8, <3>1 DEF Ahead
    <3>3. ASSUME NEW d \in steady, NEW i \in 1 .. Len(b), b[i] = d
          PROVE  \E j \in 1 .. Len(Tail(b)) : Tail(b)[j] = d
      <4>1. i # 1
        BY <1>2, <2>2, <2>4, <3>3
      <4>2. PICK j \in 1 .. Len(Tail(b)) : j + 1 = i
        BY <2>2, <4>1
      <4> QED
        BY <2>2, <3>3, <4>2
    <3>4. \A i \in 1 .. Len(Tail(b)) : i + 1 \in 1 .. Len(b) /\ Tail(b)[i] = b[i + 1]
      BY <2>2
    <3>5. CASE Tail(b) = <<>>
      <4>1. Len(Tail(b)) = 0
        BY <3>5, EmptySeq
      <4>2. ASSUME NEW d \in steady PROVE Ahead(d)
        <5>1. ~\E j \in 1 .. Len(Tail(b)) : Tail(b)[j] = d
          BY <4>1
        <5> QED
          BY <2>1, <3>3, <5>1
      <4> QED
        BY <1>5, <3>1, <3>2, <3>5, <4>2 DEF Searched
    <3>6. CASE Tail(b) # <<>>
      <4>1. \A i \in 1 .. Len(Tail(b)) : Tail(b)[i] \in QS!Line
        BY <2>1, <3>4
      <4>2. \A i, j \in 1 .. Len(Tail(b)) : i < j => queue[Tail(b)[i]] < queue[Tail(b)[j]]
        BY <2>1, <3>4
      <4>3. ASSUME NEW d \in steady
            PROVE  \/ \E i \in 1 .. Len(Tail(b)) : Tail(b)[i] = d
                   \/ /\ Ahead(d)
                      /\ \A i \in 1 .. Len(Tail(b)) : queue[Tail(b)[i]] < queue[d]
        BY <2>1, <3>3, <3>4
      <4> QED
        BY <1>1, <1>5, <1>8, <3>1, <3>2, <3>6, <4>1, <4>2, <4>3 DEF Searched, InBatch
    <3> QED
      BY <3>5, <3>6
  <2> QED
    BY <2>3, <2>4
<1>11. search'.pc = "checking" => search'.batch # <<>>
  <2>1. search' = [search EXCEPT !.batch = Tail(b),
                     !.pc = IF Tail(b) = <<>> THEN "reading" ELSE "checking"]
        \/ search'.pc = "picked"
    BY <1>1 DEF QS!NoSearch
  <2> QED
    BY <1>2, <2>1, SearchTyped
<1> QED
  BY <1>1, <1>2, <1>5, <1>7, <1>8, <1>9, <1>10, <1>11 DEF LineInv

\* What happens around a search does not take from what it knows
LEMMA QuietOK ==
  ASSUME LineFit, LineInv, queue' \in [Drivers -> QS!Scores \cup {None}],
         fit' \subseteq Drivers, clock' \in 0 .. MaxClock, search' = search, Apart', QS!Watches
  PROVE  LineInv'
<1>1. QS!TypeOK /\ Apart /\ steady \subseteq QS!Line \cap fit /\ (calm => Searched)
  BY DEF LineInv
<1>2. steady' \subseteq QS!Line' \cap fit'
  BY DEF QS!Watches, QS!Line
<1>3. QS!TypeOK'
  <2>1. calm' \in BOOLEAN /\ steady' \subseteq Drivers
    BY <1>2 DEF QS!Watches
  <2> QED
    BY <1>1, <2>1 DEF QS!TypeOK
<1>4. ASSUME calm' PROVE Searched'
  <2>1. CASE search.pc = "idle"
    BY <2>1 DEF Searched
  <2>2. CASE search.pc # "idle"
    <3>1. /\ calm /\ steady' \subseteq steady
          /\ \A e \in Drivers : QS!InQueue(e) => queue'[e] = queue[e]
      BY <1>4, <2>2 DEF QS!Watches
    <3>2. Searched
      BY <1>1, <3>1
    <3>3. ASSUME NEW d \in QS!Line
          PROVE  d \in QS!Line' /\ queue'[d] = queue[d] /\ (Ahead(d) => Ahead(d)')
      <4>1. d \in QS!Line' /\ QS!Rank(d)' >= QS!Rank(d)
        BY <1>1, <1>3, <3>1, RankGrows
      <4>2. QS!Rank(d) \in Nat /\ search.start \in Nat
        BY <1>1, RankOrder, SearchTyped
      <4>3. QS!Rank(d)' \in Nat
        <5> DEFINE T == {e \in QS!Line' : queue'[e] < queue'[d]}
        <5>1. T \subseteq Drivers
          BY DEF QS!Line
        <5>2. Cardinality(T) \in Nat
          BY <5>1, FS_Subset, FS_CardinalityType DEF LineFit
        <5> QED
          BY <5>2, CardinalityQS DEF QS!Rank
      <4>4. PICK r \in Nat : r = QS!Rank(d)'
        BY <4>3
      <4>5. r >= QS!Rank(d)
        BY <4>1, <4>4
      <4>6. QS!Rank(d) >= search.start => r >= search.start
        BY <4>2, <4>5
      <4>7. Ahead(d) => Ahead(d)'
        BY <4>4, <4>6 DEF Ahead
      <4>8. queue'[d] = queue[d]
        BY <3>1 DEF QS!Line
      <4> QED
        BY <4>1, <4>7, <4>8
    <3>4. ASSUME search.pc = "checking"
          PROVE  /\ \A i \in 1 .. Len(search'.batch) : search'.batch[i] \in QS!Line'
                 /\ \A i, j \in 1 .. Len(search'.batch) :
                      i < j => queue'[search'.batch[i]] < queue'[search'.batch[j]]
                 /\ \A d \in steady' :
                      \/ InBatch(d)'
                      \/ /\ Ahead(d)'
                         /\ \A i \in 1 .. Len(search'.batch) :
                              queue'[search'.batch[i]] < queue'[d]
      <4>1. /\ \A i \in 1 .. Len(search.batch) : search.batch[i] \in QS!Line
            /\ \A i, j \in 1 .. Len(search.batch) :
                 i < j => queue[search.batch[i]] < queue[search.batch[j]]
            /\ \A d \in steady :
                 \/ InBatch(d)
                 \/ /\ Ahead(d)
                    /\ \A i \in 1 .. Len(search.batch) : queue[search.batch[i]] < queue[d]
        BY <3>2, <3>4 DEF Searched
      <4>2. \A i \in 1 .. Len(search.batch) :
              /\ search.batch[i] \in QS!Line'
              /\ queue'[search.batch[i]] = queue[search.batch[i]]
        BY <3>3, <4>1
      <4>3. \A d : InBatch(d)' <=> InBatch(d)
        BY DEF InBatch
      <4>4. ASSUME NEW d \in steady'
            PROVE  \/ InBatch(d)'
                   \/ /\ Ahead(d)'
                      /\ \A i \in 1 .. Len(search.batch) : queue'[search.batch[i]] < queue'[d]
        <5>1. d \in steady /\ d \in QS!Line
          BY <1>1, <3>1
        <5>2. queue'[d] = queue[d] /\ (Ahead(d) => Ahead(d)')
          BY <3>3, <5>1
        <5> QED
          BY <4>1, <4>2, <4>3, <5>1, <5>2
      <4> QED
        BY <4>1, <4>2, <4>4
    <3>5. search.pc = "reading" => \A d \in steady' : Ahead(d)'
      BY <1>1, <3>1, <3>2, <3>3 DEF Searched
    <3>6. search.pc = "nobody" => steady' = {}
      BY <3>1, <3>2 DEF Searched
    <3>7. ASSUME search.pc = "picked"
          PROVE  /\ search.pick \in QS!Line'
                 /\ \A d \in steady' \ {search.pick} : queue'[search.pick] < queue'[d]
      <4>1. /\ search.pick \in QS!Line
            /\ \A d \in steady \ {search.pick} : queue[search.pick] < queue[d]
        BY <3>2, <3>7 DEF Searched
      <4>2. \A d \in steady' : d \in steady /\ d \in QS!Line
        BY <1>1, <3>1
      <4> QED
        BY <3>3, <4>1, <4>2
    <3> QED
      BY <3>4, <3>5, <3>6, <3>7 DEF Searched
  <2> QED
    BY <2>1, <2>2
<1>5. search'.pc = "checking" => search'.batch # <<>>
  BY DEF LineInv
<1> QED
  BY <1>2, <1>3, <1>4, <1>5 DEF LineInv

LEMMA EnvironmentOK ==
  ASSUME LineFit, LineInv, NEW d \in Drivers,
         QS!Joins(d) \/ QS!Leaves(d) \/ QS!Toggles(d) \/ QS!Changes(d), QS!Watches
  PROVE  LineInv'
<1>1. QS!TypeOK /\ Apart
  BY DEF LineInv
<1>2. /\ queue \in [Drivers -> QS!Scores \cup {None}] /\ fit \subseteq Drivers
      /\ clock \in 0 .. MaxClock /\ MaxClock \in Nat /\ Offset \in Nat /\ MaxClock < Offset
      /\ None \notin Int
  BY <1>1 DEF QS!TypeOK, LineFit
<1>3. \A e \in QS!Line : queue[e] \in QS!Scores /\ queue[e] \in Int
  BY <1>1, <1>2, ScoresApart DEF QS!Line, QS!InQueue
<1>4. \A t \in 1 .. MaxClock : Came(t) = t /\ Came(t - Offset) = t
  BY <1>2 DEF Came
<1>5. CASE QS!Joins(d)
  <2>1. PICK score \in {clock', clock' - Offset} : queue' = [queue EXCEPT ![d] = score]
    BY <1>5 DEF QS!Joins
  <2>2. clock' = clock + 1 /\ clock' \in 1 .. MaxClock /\ search' = search /\ fit' = fit
    BY <1>2, <1>5 DEF QS!Joins
  <2>3. score \in QS!Scores /\ Came(score) = clock + 1
    BY <1>2, <1>4, <2>2 DEF QS!Scores
  <2>4. queue' \in [Drivers -> QS!Scores \cup {None}]
    BY <1>2, <2>1, <2>3
  <2>5. /\ queue'[d] = score /\ \A e \in Drivers \ {d} : queue'[e] = queue[e]
        /\ \A e \in QS!Line' : e \in Drivers /\ (e # d => e \in QS!Line)
    BY <1>2, <2>1 DEF QS!Line, QS!InQueue
  <2>6. \A e \in QS!Line : Came(queue[e]) <= clock /\ Came(queue[e]) \in Int
    BY <1>1, <1>2, <1>3 DEF Apart, Came
  <2>7. Apart'
    <3>1. \A e \in QS!Line' : Came(queue'[e]) <= clock + 1
      BY <1>2, <2>3, <2>5, <2>6
    <3>2. ASSUME NEW a \in QS!Line', NEW e \in QS!Line', a # e
          PROVE  Came(queue'[a]) # Came(queue'[e])
      <4>1. CASE a = d
        BY <1>2, <2>3, <2>5, <2>6, <3>2, <4>1
      <4>2. CASE e = d
        BY <1>2, <2>3, <2>5, <2>6, <3>2, <4>2
      <4>3. CASE a # d /\ e # d
        BY <1>1, <2>5, <3>2, <4>3 DEF Apart
      <4> QED
        BY <4>1, <4>2, <4>3
    <3> QED
      BY <2>2, <3>1, <3>2 DEF Apart
  <2>8. fit' \subseteq Drivers /\ clock' \in 0 .. MaxClock
    BY <1>2, <2>2
  <2> QED
    BY <2>2, <2>4, <2>7, <2>8, QuietOK
<1>6. CASE QS!Leaves(d)
  <2>1. /\ queue' = [queue EXCEPT ![d] = None]
        /\ clock' = clock /\ fit' = fit /\ search' = search
    BY <1>6 DEF QS!Leaves
  <2>2. \A e \in QS!Line' : e \in QS!Line /\ queue'[e] = queue[e]
    BY <1>2, <2>1 DEF QS!Line, QS!InQueue
  <2>3. Apart'
    BY <1>1, <2>1, <2>2 DEF Apart
  <2> QED
    BY <1>2, <2>1, <2>3, QuietOK
<1>7. CASE QS!Toggles(d)
  <2>1. d \in QS!Line
    BY <1>7 DEF QS!Toggles, QS!Line
  <2>2. PICK t \in 1 .. MaxClock : queue[d] = t \/ queue[d] = t - Offset
    BY <1>3, <2>1 DEF QS!Scores
  <2>3. PICK score \in QS!Scores :
          /\ queue' = [queue EXCEPT ![d] = score]
          /\ Came(score) = Came(queue[d])
    <3>0. /\ queue' = [queue EXCEPT ![d] = IF queue[d] > 0 THEN queue[d] - Offset
                                           ELSE queue[d] + Offset]
          /\ t \in Int /\ t > 0 /\ t < Offset
      BY <1>2, <1>7 DEF QS!Toggles
    <3>1. queue[d] = t => queue' = [queue EXCEPT ![d] = t - Offset]
      BY <3>0
    <3>2. queue[d] = t - Offset => queue' = [queue EXCEPT ![d] = t]
      <4>1. ~(t - Offset > 0) /\ (t - Offset) + Offset = t
        BY <1>2, <3>0
      <4> QED
        BY <3>0, <4>1
    <3>3. t \in QS!Scores /\ t - Offset \in QS!Scores
      BY DEF QS!Scores
    <3> QED
      BY <1>4, <2>2, <3>1, <3>2, <3>3
  <2>4. queue' \in [Drivers -> QS!Scores \cup {None}]
    BY <1>2, <2>3
  <2>5. \A e \in QS!Line' : e \in QS!Line /\ Came(queue'[e]) = Came(queue[e])
    BY <1>2, <2>1, <2>3 DEF QS!Line, QS!InQueue
  <2>6. clock' = clock /\ fit' = fit /\ search' = search
    BY <1>7 DEF QS!Toggles
  <2>7. Apart'
    BY <1>1, <2>5, <2>6 DEF Apart
  <2> QED
    BY <1>2, <2>4, <2>6, <2>7, QuietOK
<1>8. CASE QS!Changes(d)
  <2>1. queue' = queue /\ clock' = clock /\ search' = search /\ fit' \subseteq Drivers
    BY <1>2, <1>8 DEF QS!Changes
  <2>2. Apart'
    BY <1>1, <2>1 DEF Apart, QS!Line, QS!InQueue
  <2> QED
    BY <1>2, <2>1, <2>2, QuietOK
<1> QED
  BY <1>5, <1>6, <1>7, <1>8

\* A search begins, or ends in an error, or its result is taken
LEMMA BeginsOK ==
  ASSUME LineFit, LineInv, QS!Starts \/ QS!Errs \/ QS!Returns, QS!Watches
  PROVE  LineInv'
<1>1. QS!TypeOK /\ Apart /\ steady \subseteq QS!Line \cap fit
  BY DEF LineInv
<1>2. queue' = queue /\ fit' = fit /\ clock' = clock
  BY DEF QS!Starts, QS!Errs, QS!Returns
<1>3. \/ search' = QS!NoSearch
      \/ search' = [QS!NoSearch EXCEPT !.pc = "reading"]
      \/ search' = [QS!NoSearch EXCEPT !.pc = "failed"]
  BY DEF QS!Starts, QS!Errs, QS!Returns
<1>4. search' \in QS!SearchRec
  BY <1>1, <1>3, SearchTyped DEF QS!SearchRec
<1>5. /\ steady' \subseteq QS!Line' \cap fit' /\ calm' \in BOOLEAN
  BY DEF QS!Watches, QS!Line
<1>6. QS!TypeOK'
  BY <1>1, <1>2, <1>4, <1>5 DEF QS!TypeOK
<1>7. QS!Line' = QS!Line /\ \A d : QS!Rank(d)' = QS!Rank(d)
  BY <1>2 DEF QS!Line, QS!InQueue, QS!Rank
<1>8. Apart'
  BY <1>1, <1>2, <1>7 DEF Apart
<1>9. Searched' /\ search'.pc # "checking"
  <2>1. search'.pc \in {"idle", "reading", "failed"} /\ search'.start = 0
    BY <1>3 DEF QS!NoSearch
  <2>2. \A d \in steady' : QS!Rank(d)' \in Nat
    BY <1>1, <1>5, <1>7, RankOrder
  <2>3. \A d \in steady' : Ahead(d)'
    BY <2>1, <2>2 DEF Ahead
  <2> QED
    BY <2>1, <2>3 DEF Searched
<1> QED
  BY <1>5, <1>6, <1>8, <1>9 DEF LineInv

LEMMA LineStep ==
  ASSUME LineFit, LineInv, [QS!Next]_(QS!vars)
  PROVE  LineInv'
<1>1. CASE QS!Next
  BY <1>1, EnvironmentOK, BeginsOK, ReadsOK, ChecksOK
     DEF QS!Next, QS!Environment, QS!SearchStep
<1>2. CASE UNCHANGED QS!vars
  <2>1. UNCHANGED <<queue, fit, clock, search, steady, calm>>
    BY <1>2 DEF QS!vars
  <2>2. QS!Line' = QS!Line /\ \A d : QS!Rank(d)' = QS!Rank(d)
    BY <2>1 DEF QS!Line, QS!InQueue, QS!Rank
  <2>3. QS!TypeOK' = QS!TypeOK /\ Apart' = Apart
    BY <2>1, <2>2 DEF QS!TypeOK, Apart
  <2>4. Searched' = Searched
    BY <2>1, <2>2 DEF Searched, InBatch, Ahead
  <2> QED
    BY <2>1, <2>2, <2>3, <2>4 DEF LineInv
<1> QED
  BY <1>1, <1>2

LEMMA LineBound ==
  ASSUME LineInv
  PROVE  QS!TypeOK /\ QS!FirstInLine
BY DEF LineInv, Searched, QS!FirstInLine

--------------------------------------------------------------------------------
(* The four parts *)

PartsInv ==
  /\ part \in {"offers", "limits", "messages", "line"}
  /\ part = "offers" => OffersInv
  /\ part = "limits" => RatesInv
  /\ part = "messages" => MessagesInv
  /\ part = "line" => LineInv

LEMMA PartsInitOK == PartsInit => PartsInv
<1> SUFFICES ASSUME PartsInit PROVE PartsInv
  OBVIOUS
<1> USE ServicesAssumption
<1>1. CASE part = "offers" /\ Init
  BY <1>1, OffersInit DEF PartsInv
<1>2. CASE part = "limits" /\ RL!Init
  BY <1>2, RatesInit DEF PartsInv
<1>3. CASE part = "messages" /\ NT!Init
  BY <1>3, MessagesInit DEF PartsInv
<1>4. CASE part = "line" /\ QS!Init
  BY <1>4, LineInit DEF PartsInv
<1> QED
  BY <1>1, <1>2, <1>3, <1>4 DEF PartsInit

LEMMA PartsStepOK == PartsInv /\ [PartsNext]_allVars => PartsInv'
<1> SUFFICES ASSUME PartsInv, [PartsNext]_allVars PROVE PartsInv'
  OBVIOUS
<1> USE ServicesAssumption
<1>1. part' = part
  BY DEF PartsNext, OfLimits, OfMessages, OfLine, allVars
<1>2. CASE part = "offers"
  <2>1. [Next]_vars
    BY <1>2 DEF PartsNext, OfLimits, OfMessages, OfLine, allVars, offers, vars
  <2> QED
    BY <1>1, <1>2, <2>1, OffersStep DEF PartsInv
<1>3. CASE part = "limits"
  <2>1. [RL!Next]_(RL!vars)
    BY <1>3 DEF PartsNext, OfLimits, OfMessages, OfLine, allVars, limits, RL!vars, RL!keys,
       RL!list, RL!past
  <2> QED
    BY <1>1, <1>3, <2>1, RatesStep DEF PartsInv
<1>4. CASE part = "messages"
  <2>1. [NT!Next]_(NT!vars)
    BY <1>4 DEF PartsNext, OfLimits, OfMessages, OfLine, allVars, messages, NT!vars,
       NT!casting
  <2> QED
    BY <1>1, <1>4, <2>1, MessagesStep DEF PartsInv
<1>5. CASE part = "line"
  <2>1. [QS!Next]_(QS!vars)
    BY <1>5 DEF PartsNext, OfLimits, OfMessages, OfLine, allVars, line, QS!vars
  <2> QED
    BY <1>1, <1>5, <2>1, LineStep DEF PartsInv
<1> QED
  BY <1>2, <1>3, <1>4, <1>5 DEF PartsInv

\* The inductive invariants of the four parts, whatever updates, workers and searches do.
THEOREM ServicesInvariance == PartsSpec => []PartsInv
<1> QED
  BY PartsInitOK, PartsStepOK, PTL DEF PartsSpec

\* Keys, counts, tasks and searches keep their types and ranges, at every size.
THEOREM ServicesTypes == PartsSpec => []PartsTypeOK
<1>1. PartsInv => PartsTypeOK
  BY ServicesAssumption, RatesBound, LineBound
     DEF PartsInv, PartsTypeOK, OffersInv, MessagesInv
<1> QED
  BY <1>1, ServicesInvariance, PTL

\* RateLimitMiddleware and check_limit read a count and write it back later: however the
\* updates of one user interleave, whatever lapses, fails or restarts, they let no more
\* through than the limit, what the calls that read together add to it, and one for each
\* error that is let pass; of bookings twice that, as the list may lapse within a window.
THEOREM RequestsBounded == PartsSpec => []RequestsAreBounded
<1>1. PartsInv => RequestsAreBounded
  BY ServicesAssumption, RatesBound DEF PartsInv, RequestsAreBounded
<1> QED
  BY <1>1, ServicesInvariance, PTL

\* get_next_driver reads the queue part by part and by rank while others join it, with or
\* without priority: it picks nobody who stands behind one that suited all the while, and
\* finds somebody if there is such a one, as long as nobody leaves or changes his place
\* and no error ends the search.
THEOREM FirstPicked == PartsSpec => []FirstIsPicked
<1>1. PartsInv => FirstIsPicked
  BY LineBound DEF PartsInv, FirstIsPicked
<1> QED
  BY <1>1, ServicesInvariance, PTL
=================================================================================
