--------------------------- MODULE ConversationProofs ---------------------------
(***************************************************************************)
(* Proofs about Conversation: whose row, whose cached role and whose state *)
(* a user has, however updates, the guard and the admin panel interleave.  *)
(* Then about Support, which the run has beside it: how many requests come *)
(* of an amount, and what becomes of an answer.                            *)
(***************************************************************************)
EXTENDS MCConversation, TLAPS

--------------------------------------------------------------------------------
(* Types *)

Pcs == {"idle", "guard", "fetch", "unknown", "cache", "check", "pollution", "handler",
        "acting", "starting", "asking", "saving", "clearing", "cancelling"}
Reads   == Roles \cup {"register", "message", "menu", "ride", "wait"}
\* The guard caches a role
CallRec == {q \in [pc: Pcs, does: Handlers, read: Reads] : q.pc = "cache" => q.read \in Roles}
DataRec == [role: Roles, by: {"guard", "dialogue"}, answers: BOOLEAN]

\* TypeOK without the bounds
Typed ==
  /\ state \in States
  /\ data \in DataRec
  /\ role \in Roles /\ isBlocked \in BOOLEAN
  /\ profiles \subseteq {"driver", "passenger"} /\ ride \in {"no", "active", "stuck"}
  /\ call \in [Calls -> CallRec]
  /\ turned \in BOOLEAN /\ bereft \in BOOLEAN

\* The call of c is r, the others are where they were
Becomes(c, r) == call' = [b \in Calls |-> IF b = c THEN r ELSE call[b]]

LEMMA NamesTyped ==
  /\ NoData \in DataRec /\ NoData.role = "none" /\ NoData.by = "guard"
  /\ Idle \in CallRec /\ Idle.pc = "idle"
  /\ "none" \in States /\ DriverStates \cup PassengerStates \subseteq States
  /\ RegistrationStates \subseteq States /\ RegistrationStates \subseteq Handlers
  /\ \A h \in DOMAIN NextQuestion : NextQuestion[h] \in RegistrationStates
  /\ \A s \in RegistrationStates : s \notin DriverStates \cup PassengerStates
  BY DEF NoData, DataRec, Idle, CallRec, Pcs, Reads, Roles, Handlers, RegistrationStates,
         States, DriverStates, PassengerStates, NextQuestion, LastQuestions

LEMMA GoesOn ==
  ASSUME Typed, NEW c \in Calls, NEW p \in Pcs, NEW r \in Reads, p = "cache" => r \in Roles,
         Goes(c, p, r)
  PROVE  \E q \in CallRec : Becomes(c, q) /\ q.pc = p /\ q.read = r /\ q.does = call[c].does
<1>1. PICK q : q = [call[c] EXCEPT !.pc = p, !.read = r]
  OBVIOUS
<1>2. q \in CallRec /\ q.pc = p /\ q.read = r /\ q.does = call[c].does
  BY <1>1 DEF Typed, CallRec
<1>3. Becomes(c, q)
  BY <1>1 DEF Typed, Goes, Becomes, CallRec
<1> QED
  BY <1>2, <1>3

LEMMA ComesToAnEnd ==
  ASSUME Typed, NEW c \in Calls, Ends(c)
  PROVE  Becomes(c, Idle)
  BY DEF Typed, Ends, Becomes

LEMMA CallsTyped ==
  ASSUME Typed, NEW c \in Calls, NEW q \in CallRec, Becomes(c, q)
  PROVE  call' \in [Calls -> CallRec]
  BY DEF Typed, Becomes

LEMMA ClearsTyped ==
  ASSUME Typed, NEW c \in Calls, Clears(c)
  PROVE  state' \in States /\ data' \in DataRec /\ turned' \in BOOLEAN
  BY NamesTyped DEF Typed, Clears

\* What a step of a call does to the call: it goes on, or it ends
LEMMA GoesTyped ==
  ASSUME Typed, NEW c \in Calls
  PROVE  /\ \A p \in Pcs, r \in Reads :
              Goes(c, p, r) /\ (p = "cache" => r \in Roles) => call' \in [Calls -> CallRec]
         /\ Ends(c) => call' \in [Calls -> CallRec]
<1>1. ASSUME NEW p \in Pcs, NEW r \in Reads, Goes(c, p, r), p = "cache" => r \in Roles
      PROVE  call' \in [Calls -> CallRec]
  BY <1>1, GoesOn, CallsTyped
<1>2. ASSUME Ends(c)
      PROVE  call' \in [Calls -> CallRec]
  BY <1>2, ComesToAnEnd, CallsTyped, NamesTyped
<1> QED
  BY <1>1, <1>2

LEMMA GuardTyped ==
  ASSUME Typed, NEW c \in Calls,
         GuardStep(c) \/ GuardCatches(c) \/ \E i \in Inputs : Arrives(c, i)
  PROVE  Typed'
<1>1. /\ data.role \in Reads /\ role \in Reads /\ "none" \in Reads
      /\ call[c] \in CallRec /\ call[c].read \in Reads /\ call[c].does \in Handlers
  BY DEF Typed, DataRec, CallRec, Reads, Roles
<1>2. {"check", "fetch", "unknown", "cache", "handler", "pollution"} \subseteq Pcs
  BY DEF Pcs
<1>3. CASE GuardReadsData(c)
  BY <1>1, <1>2, <1>3, GoesTyped DEF GuardReadsData, Typed, fsm, db
<1>4. CASE GuardFetches(c)
  BY <1>1, <1>2, <1>4, GoesTyped DEF GuardFetches, Typed, fsm, db
<1>5. CASE GuardDropsState(c)
  <2>1. call' \in [Calls -> CallRec]
    BY <1>1, <1>2, <1>5, GoesTyped DEF GuardDropsState
  <2>2. state' \in States /\ data' \in DataRec /\ turned' \in BOOLEAN
    <3>1. CASE state # "none"
      BY <1>5, <3>1, ClearsTyped DEF GuardDropsState
    <3>2. CASE state = "none"
      BY <1>5, <3>2 DEF GuardDropsState, Typed, fsm
    <3> QED
      BY <3>1, <3>2
  <2> QED
    BY <1>5, <2>1, <2>2 DEF GuardDropsState, Typed, db
<1>6. CASE GuardCaches(c)
  <2>1. call[c].read \in Roles
    BY <1>1, <1>6 DEF GuardCaches, At, CallRec
  <2>2. PICK r : r = call[c].read
    OBVIOUS
  <2>3. data' = [data EXCEPT !.role = r, !.by = "guard"] /\ Goes(c, "check", r)
    BY <1>6, <2>2 DEF GuardCaches
  <2>4. data' \in DataRec
    BY <2>1, <2>2, <2>3 DEF Typed, DataRec
  <2> QED
    BY <1>1, <1>2, <1>6, <2>2, <2>3, <2>4, GoesTyped DEF GuardCaches, Typed, db
<1>7. CASE GuardChecks(c)
  BY <1>1, <1>2, <1>7, GoesTyped DEF GuardChecks, Typed, fsm, db
<1>8. CASE GuardClears(c)
  BY <1>1, <1>2, <1>8, GoesTyped, ClearsTyped DEF GuardClears, Typed, db
<1>9. CASE GuardCatches(c)
  BY <1>9, GoesTyped, ClearsTyped DEF GuardCatches, Typed, db
<1>10. ASSUME NEW i \in Inputs, Arrives(c, i)
       PROVE  Typed'
  <2>1. PICK h : h = FirstHandler(i, state)
    OBVIOUS
  <2>2. h \in Handlers
    BY <2>1, NamesTyped DEF FirstHandler, Handlers, Inputs, TextQuestions
  <2>3. PICK q : q = [pc |-> "guard", does |-> h, read |-> "none"]
    OBVIOUS
  <2>4. q \in CallRec
    BY <1>1, <2>2, <2>3 DEF CallRec, Pcs
  <2>5. Becomes(c, q)
    BY <1>10, <2>1, <2>3 DEF Arrives, Becomes, Typed
  <2> QED
    BY <1>10, <2>4, <2>5, CallsTyped DEF Arrives, Typed, fsm, db
<1> QED
  BY <1>3, <1>4, <1>5, <1>6, <1>7, <1>8, <1>9, <1>10 DEF GuardStep

LEMMA HandlerTyped ==
  ASSUME Typed, NEW c \in Calls, HandlerStep(c)
  PROVE  Typed'
<1>1. /\ data.role \in Reads /\ role \in Reads /\ "none" \in Reads /\ Verdict \in Reads
      /\ call[c] \in CallRec /\ call[c].does \in Handlers
  BY DEF Typed, DataRec, CallRec, Reads, Roles, Verdict
<1>2. {"guard", "handler", "acting", "starting", "asking", "saving", "clearing", "cancelling"}
        \subseteq Pcs
  BY DEF Pcs
<1>3. CASE DecoratorLooksUp(c)
  <2>1. CASE role # call[c].does
    <3>1. PICK q : /\ q = [call[c] EXCEPT !.does = "fallback", !.pc = "guard"]
                   /\ call' = [call EXCEPT ![c] = q]
      BY <1>3, <2>1 DEF DecoratorLooksUp, Typed, CallRec
    <3>2. q \in CallRec
      BY <1>1, <3>1 DEF CallRec, Pcs, Handlers
    <3>3. call' \in [Calls -> CallRec]
      BY <3>1, <3>2 DEF Typed
    <3> QED
      BY <1>3, <3>3 DEF DecoratorLooksUp, Typed, fsm, db
  <2>2. CASE role = call[c].does
    BY <1>1, <1>2, <1>3, <2>2, GoesTyped DEF DecoratorLooksUp, Typed, fsm, db
  <2> QED
    BY <2>1, <2>2
<1>4. CASE MenuActs(c)
  <2>1. call' \in [Calls -> CallRec]
    BY <1>4, GoesTyped DEF MenuActs
  <2>2. state' \in States /\ data' \in DataRec /\ turned' \in BOOLEAN
    <3>1. CASE Clears(c)
      BY <3>1, ClearsTyped
    <3>2. CASE ~Clears(c)
      BY <1>4, <3>2, NamesTyped DEF MenuActs, Typed
    <3> QED
      BY <3>1, <3>2
  <2> QED
    BY <1>4, <2>1, <2>2 DEF MenuActs, Typed, db
<1>5. CASE StartReads(c)
  BY <1>1, <1>2, <1>5, GoesTyped DEF StartReads, Typed, fsm
<1>6. CASE StartWrites(c)
  <2>1. call' \in [Calls -> CallRec]
    BY <1>6, GoesTyped DEF StartWrites
  <2>2. state' \in States
    BY <1>6, NamesTyped DEF StartWrites, Typed, States, RegistrationStates, DriverStates
  <2>3. data' \in DataRec /\ turned' \in BOOLEAN
    BY <1>6, NamesTyped DEF StartWrites, Typed
  <2> QED
    BY <1>6, <2>1, <2>2, <2>3 DEF StartWrites, Typed, db
<1>7. CASE AnswerRejected(c)
  BY <1>7, GoesTyped DEF AnswerRejected, Typed, fsm, db
<1>8. CASE ChooseRole(c)
  <2>1. PICK r \in {"driver", "passenger"} : data' = [data EXCEPT !.role = r, !.by = "dialogue"]
    BY <1>8 DEF ChooseRole
  <2>2. data' \in DataRec
    BY <2>1 DEF Typed, DataRec, Roles
  <2> QED
    BY <1>1, <1>2, <1>8, <2>2, GoesTyped DEF ChooseRole, Typed, db
<1>9. CASE PhoneNumber(c)
  <2>1. data' \in DataRec
    <3>1. PICK h \in BOOLEAN : h = TRUE /\ data' = [data EXCEPT !.answers = h]
      BY <1>9 DEF PhoneNumber
    <3> QED
      BY <3>1 DEF Typed, DataRec
  <2> QED
    BY <1>1, <1>2, <1>9, <2>1, GoesTyped DEF PhoneNumber, Typed, db
<1>10. CASE FullName(c)
  BY <1>10, GoesTyped, NamesTyped DEF FullName, Typed, db
<1>11. CASE Asks(c)
  <2>1. state' \in States
    BY <1>11 DEF Asks, States, RegistrationStates, NextQuestion
  <2> QED
    BY <1>11, <2>1, GoesTyped DEF Asks, Typed, db
<1>12. CASE LastReads(c)
  BY <1>1, <1>2, <1>12, GoesTyped DEF LastReads, Typed, fsm, db
<1>13. CASE LastCommits(c)
  <2>1. RegisteredAs(c) \in {"driver", "passenger"}
    BY DEF RegisteredAs
  <2>2. /\ role' \in Roles /\ profiles' \subseteq {"driver", "passenger"}
        /\ turned' \in BOOLEAN /\ bereft' \in BOOLEAN
    <3>1. CASE Conflict(c)
      BY <1>13, <3>1 DEF LastCommits, Typed
    <3>2. CASE ~Conflict(c)
      <4>1. /\ role' = RegisteredAs(c) /\ profiles' = profiles \cup {RegisteredAs(c)}
            /\ ~bereft' /\ turned'
        BY <1>13, <3>2 DEF LastCommits
      <4>2. turned' \in BOOLEAN /\ bereft' \in BOOLEAN
        BY <1>13, <3>2 DEF LastCommits
      <4>3. role' \in Roles /\ profiles' \subseteq {"driver", "passenger"}
        BY <2>1, <4>1 DEF Typed, Roles
      <4> QED
        BY <4>2, <4>3
    <3> QED
      BY <3>1, <3>2
  <2>3. call' \in [Calls -> CallRec]
    BY <1>1, <1>2, <1>13, GoesTyped DEF LastCommits
  <2> QED
    BY <1>13, <2>2, <2>3 DEF LastCommits, Typed, fsm
<1>14. CASE LastClears(c)
  BY <1>14, GoesTyped, ClearsTyped DEF LastClears, Typed, db
<1>15. CASE CancelReads(c)
  BY <1>1, <1>2, <1>15, GoesTyped DEF CancelReads, Typed, fsm, db
<1>16. CASE CancelClears(c)
  BY <1>16, GoesTyped, ClearsTyped DEF CancelClears, Typed, db
<1>17. CASE Fallback(c)
  BY <1>17, GoesTyped DEF Fallback, Typed, fsm, db
<1> QED
  BY <1>3, <1>4, <1>5, <1>6, <1>7, <1>8, <1>9, <1>10, <1>11, <1>12, <1>13, <1>14, <1>15,
     <1>16, <1>17 DEF HandlerStep

LEMMA WorldTyped ==
  ASSUME Typed, Panel \/ Lapses \/ Rides
  PROVE  Typed'
<1>1. ASSUME NEW r \in {"admin", "passenger"}, PanelSetsRole(r)
      PROVE  Typed'
  <2>1. role' \in Roles
    BY <1>1 DEF PanelSetsRole, Roles
  <2>2. isBlocked' \in BOOLEAN /\ turned' \in BOOLEAN /\ bereft' \in BOOLEAN
    BY <1>1 DEF PanelSetsRole
  <2> QED
    BY <1>1, <2>1, <2>2 DEF PanelSetsRole, Typed, fsm
<1>2. ASSUME NEW p \in {"driver", "passenger"}, PanelDeletes(p)
      PROVE  Typed'
  <2>1. bereft' \in BOOLEAN /\ ride' \in {"no", "active", "stuck"}
    BY <1>2 DEF PanelDeletes, Typed
  <2> QED
    BY <1>2, <2>1 DEF PanelDeletes, Typed, fsm
<1>3. CASE PanelBlocks
  <2>1. isBlocked' \in BOOLEAN
    BY <1>3 DEF PanelBlocks
  <2> QED
    BY <1>3, <2>1 DEF PanelBlocks, Typed, fsm
<1>4. CASE Lapses
  BY <1>4, NamesTyped DEF Lapses, Typed, db
<1>5. CASE Rides
  BY <1>5 DEF Rides, Typed, fsm
<1> QED
  BY <1>1, <1>2, <1>3, <1>4, <1>5 DEF Panel

LEMMA StepTyped ==
  ASSUME Typed, [Next]_vars
  PROVE  Typed'
<1>1. CASE UNCHANGED vars
  BY <1>1 DEF vars, fsm, db, Typed
<1>2. CASE Next
  BY <1>2, GuardTyped, HandlerTyped, WorldTyped DEF Next
<1> QED
  BY <1>1, <1>2

LEMMA InitTyped ==
  ASSUME Init
  PROVE  Typed
  BY NamesTyped DEF Init, Typed, Roles

--------------------------------------------------------------------------------
(* What follows the role *)

\* What a call has read of the role, and is going to write or act upon, is still
\* true, or the role was changed under the conversation
Kept(q) ==
  /\ q.pc = "cache" => q.read = role \/ turned
  /\ q.pc = "starting" /\ q.read \in {"ride", "wait"} => role = "driver" \/ turned
  /\ q.pc = "acting" => q.does \in {"driver", "passenger"} /\ (q.does = role \/ turned)

Follows ==
  /\ RoleHasProfile /\ CacheFollowsRole /\ StateFitsRole
  /\ \A c \in Calls : Kept(call[c])

\* A call goes on, and neither the role nor what it had read before is touched
LEMMA CallGoesOn ==
  ASSUME Typed, Follows, NEW c \in Calls, NEW q \in CallRec, Becomes(c, q), Kept(q),
         UNCHANGED <<role, profiles, turned, bereft>>, CacheFollowsRole', StateFitsRole'
  PROVE  Follows'
<1>1. RoleHasProfile'
  BY DEF Follows, RoleHasProfile
<1>2. \A b \in Calls : call'[b] = q \/ call'[b] = call[b]
  BY DEF Becomes
<1>3. \A b \in Calls : Kept(call'[b])
  BY <1>2 DEF Follows
<1>4. \A b \in Calls : Kept(call[b])'
  BY <1>3 DEF Kept
<1> QED
  BY <1>1, <1>4 DEF Follows

\* The conversation is cleared, by a call that has nothing else to do with the role
LEMMA CallClears ==
  ASSUME Typed, Follows, NEW c \in Calls, NEW q \in CallRec, Becomes(c, q),
         q.pc \notin {"cache", "starting", "acting"},
         state' = "none", data' = NoData,
         turned' = turned \/ (turned' = FALSE /\ Alone(c)),
         UNCHANGED <<role, profiles, bereft>>
  PROVE  Follows'
<1>1. RoleHasProfile'
  BY DEF Follows, RoleHasProfile
<1>2. CacheFollowsRole' /\ StateFitsRole'
  BY NamesTyped DEF CacheFollowsRole, StateFitsRole, Foreign, DriverStates, PassengerStates
<1>3. CASE turned' = turned
  <2>1. Kept(q)
    BY DEF Kept
  <2> QED
    BY <1>2, <1>3, <2>1, CallGoesOn
<1>4. CASE Alone(c)
  <2>1. \A b \in Calls : call'[b] = q \/ call'[b].pc = "idle"
    BY <1>4 DEF Becomes, Alone, At
  <2>2. \A b \in Calls : Kept(call[b])'
    BY <2>1 DEF Kept
  <2> QED
    BY <1>1, <1>2, <2>2 DEF Follows
<1> QED
  BY <1>3, <1>4

LEMMA ClearsFollows ==
  ASSUME Typed, Follows, NEW c \in Calls, Clears(c),
         \/ Ends(c)
         \/ \E p \in Pcs \ {"cache", "starting", "acting"} : Goes(c, p, "none"),
         UNCHANGED db, UNCHANGED bereft
  PROVE  Follows'
<1>1. turned' = turned \/ (turned' = FALSE /\ Alone(c))
  BY DEF Clears, Typed
<1>2. state' = "none" /\ data' = NoData /\ UNCHANGED <<role, profiles, bereft>>
  BY DEF Clears, db
<1>3. CASE Ends(c)
  <2>1. Becomes(c, Idle)
    BY <1>3, ComesToAnEnd
  <2> QED
    BY <1>1, <1>2, <2>1, CallClears, NamesTyped
<1>4. ASSUME NEW p \in Pcs \ {"cache", "starting", "acting"}, Goes(c, p, "none")
      PROVE  Follows'
  <2>1. "none" \in Reads
    BY DEF Reads, Roles
  <2>2. PICK q \in CallRec : Becomes(c, q) /\ q.pc = p
    BY <1>4, <2>1, GoesOn
  <2> QED
    BY <1>1, <1>2, <1>4, <2>2, CallClears
<1> QED
  BY <1>3, <1>4

\* Steps that only move the call: to a place where nothing of the role matters, or
\* with the role as it is
LEMMA MovesFollows ==
  ASSUME Typed, Follows, NEW c \in Calls,
         \/ Ends(c)
         \/ \E p \in Pcs, r \in Reads :
              /\ Goes(c, p, r)
              /\ p = "cache" => r = role
              /\ p = "starting" => (r \in {"ride", "wait"} => role = "driver")
              /\ p = "acting" => call[c].does \in {"driver", "passenger"} /\ call[c].does = role,
         UNCHANGED <<role, profiles, turned, bereft>>, CacheFollowsRole', StateFitsRole'
  PROVE  Follows'
<1>1. CASE Ends(c)
  <2>1. Becomes(c, Idle) /\ Kept(Idle)
    BY <1>1, ComesToAnEnd, NamesTyped DEF Kept
  <2> QED
    BY <2>1, CallGoesOn, NamesTyped
<1>2. ASSUME NEW p \in Pcs, NEW r \in Reads, Goes(c, p, r),
             p = "cache" => r = role,
             p = "starting" => (r \in {"ride", "wait"} => role = "driver"),
             p = "acting" => call[c].does \in {"driver", "passenger"} /\ call[c].does = role
      PROVE  Follows'
  <2>1. PICK q \in CallRec : /\ Becomes(c, q) /\ q.pc = p /\ q.read = r
                             /\ q.does = call[c].does
    BY <1>2, GoesOn DEF Typed
  <2>2. Kept(q)
    BY <1>2, <2>1 DEF Kept
  <2> QED
    BY <2>1, <2>2, CallGoesOn
<1> QED
  BY <1>1, <1>2

LEMMA FsmStays ==
  ASSUME Follows, UNCHANGED <<fsm, role, turned>>
  PROVE  CacheFollowsRole' /\ StateFitsRole'
  BY DEF Follows, CacheFollowsRole, StateFitsRole, Foreign, fsm

LEMMA GuardFollows ==
  ASSUME Typed, Follows, NEW c \in Calls,
         GuardStep(c) \/ GuardCatches(c) \/ \E i \in Inputs : Arrives(c, i)
  PROVE  Follows'
<1>1. /\ data.role \in Reads /\ role \in Reads /\ "none" \in Reads
      /\ call[c] \in CallRec /\ call[c].does \in Handlers
  BY DEF Typed, DataRec, CallRec, Reads, Roles
<1>2. {"check", "fetch", "unknown", "cache", "handler", "pollution"} \subseteq Pcs
  BY DEF Pcs
<1>3. CASE GuardReadsData(c)
  BY <1>1, <1>2, <1>3, MovesFollows, FsmStays DEF GuardReadsData, db
<1>4. CASE GuardFetches(c)
  BY <1>1, <1>2, <1>4, MovesFollows, FsmStays DEF GuardFetches, db
<1>5. CASE GuardDropsState(c)
  <2>1. CASE state # "none"
    BY <1>2, <1>5, <2>1, ClearsFollows DEF GuardDropsState
  <2>2. CASE state = "none"
    BY <1>1, <1>2, <1>5, <2>2, MovesFollows, FsmStays DEF GuardDropsState, db
  <2> QED
    BY <2>1, <2>2
<1>6. CASE GuardCaches(c)
  <2>1. PICK r : /\ r = call[c].read /\ data' = [data EXCEPT !.role = r, !.by = "guard"]
                 /\ Goes(c, "check", r)
    BY <1>6 DEF GuardCaches
  <2>2. r \in Reads /\ data'.role = r
    BY <1>1, <2>1 DEF CallRec, Typed, DataRec
  <2>3. r = role \/ turned
    BY <1>6, <2>1 DEF GuardCaches, At, Follows, Kept
  <2>4. CacheFollowsRole'
    BY <1>6, <2>2, <2>3 DEF GuardCaches, CacheFollowsRole, db
  <2>5. StateFitsRole'
    BY <1>6 DEF GuardCaches, StateFitsRole, Follows, Foreign, db
  <2> QED
    BY <1>2, <1>6, <2>1, <2>2, <2>4, <2>5, MovesFollows DEF GuardCaches, db
<1>7. CASE GuardChecks(c)
  BY <1>1, <1>2, <1>7, MovesFollows, FsmStays DEF GuardChecks, db
<1>8. CASE GuardClears(c)
  BY <1>2, <1>8, ClearsFollows DEF GuardClears
<1>9. CASE GuardCatches(c)
  BY <1>9, ClearsFollows DEF GuardCatches
<1>10. ASSUME NEW i \in Inputs, Arrives(c, i)
       PROVE  Follows'
  <2>1. PICK q : /\ q = [pc |-> "guard", does |-> FirstHandler(i, state), read |-> "none"]
                 /\ call' = [call EXCEPT ![c] = q]
    BY <1>10 DEF Arrives
  <2>2. Typed'
    BY <1>10, GuardTyped
  <2>3. q.pc = "guard" /\ call'[c] = q /\ q \in CallRec
    BY <2>1, <2>2 DEF Typed
  <2>4. Becomes(c, q) /\ Kept(q)
    BY <2>1, <2>3 DEF Becomes, Kept, Typed
  <2> QED
    BY <1>10, <2>3, <2>4, CallGoesOn, FsmStays DEF Arrives, db
<1> QED
  BY <1>3, <1>4, <1>5, <1>6, <1>7, <1>8, <1>9, <1>10 DEF GuardStep

LEMMA HandlerFollows ==
  ASSUME Typed, Follows, NEW c \in Calls, HandlerStep(c)
  PROVE  Follows'
<1>1. /\ data.role \in Reads /\ role \in Reads /\ "none" \in Reads /\ Verdict \in Reads
      /\ call[c] \in CallRec /\ call[c].does \in Handlers
  BY DEF Typed, DataRec, CallRec, Reads, Roles, Verdict
<1>2. {"guard", "handler", "acting", "starting", "asking", "saving", "clearing", "cancelling"}
        \subseteq Pcs
  BY DEF Pcs
<1>3. CASE DecoratorLooksUp(c)
  <2>1. CASE role # call[c].does
    <3>1. PICK q : /\ q = [call[c] EXCEPT !.does = "fallback", !.pc = "guard"]
                   /\ call' = [call EXCEPT ![c] = q]
      BY <1>3, <2>1 DEF DecoratorLooksUp, Typed, CallRec
    <3>2. q \in CallRec /\ q.pc = "guard"
      BY <1>1, <3>1 DEF CallRec, Pcs, Handlers
    <3>3. Becomes(c, q) /\ Kept(q)
      BY <3>1, <3>2 DEF Becomes, Kept, Typed
    <3> QED
      BY <1>3, <3>2, <3>3, CallGoesOn, FsmStays DEF DecoratorLooksUp, db
  <2>2. CASE role = call[c].does
    BY <1>1, <1>2, <1>3, <2>2, MovesFollows, FsmStays DEF DecoratorLooksUp, Does, db
  <2> QED
    BY <2>1, <2>2
<1>4. CASE MenuActs(c)
  <2>1. CASE Clears(c)
    BY <1>4, <2>1, ClearsFollows DEF MenuActs
  <2>2. CASE ~Clears(c)
    <3>1. /\ state' \in IF Does(c, "driver") THEN DriverStates ELSE PassengerStates
          /\ UNCHANGED <<data, turned>>
      BY <1>4, <2>2 DEF MenuActs
    <3>2. call[c].does \in {"driver", "passenger"} /\ (call[c].does = role \/ turned)
      BY <1>4 DEF MenuActs, At, Follows, Kept
    <3>3. StateFitsRole'
      BY <1>4, <3>1, <3>2 DEF MenuActs, StateFitsRole, Foreign, Does, DriverStates,
                              PassengerStates, db
    <3>4. CacheFollowsRole'
      BY <1>4, <3>1 DEF MenuActs, CacheFollowsRole, Follows, db
    <3> QED
      BY <1>4, <3>1, <3>3, <3>4, MovesFollows DEF MenuActs, db
  <2> QED
    BY <2>1, <2>2
<1>5. CASE StartReads(c)
  <2>1. Verdict \in {"ride", "wait"} => role = "driver"
    BY DEF Verdict, Typed, Roles
  <2> QED
    BY <1>1, <1>2, <1>5, <2>1, MovesFollows, FsmStays DEF StartReads
<1>6. CASE StartWrites(c)
  <2>1. CASE call[c].read = "menu"
    <3>1. state' = "none" /\ data' = NoData /\ turned' = (turned /\ ~Alone(c))
      BY <1>6, <2>1 DEF StartWrites
    <3>2. Becomes(c, Idle)
      BY <1>6, ComesToAnEnd DEF StartWrites
    <3>3. turned' = turned \/ (turned' = FALSE /\ Alone(c))
      BY <3>1 DEF Typed
    <3> QED
      BY <1>6, <3>1, <3>2, <3>3, CallClears, NamesTyped DEF StartWrites, db
  <2>2. CASE call[c].read # "menu"
    <3>1. turned' = turned
      BY <1>6, <2>2 DEF StartWrites, Typed
    <3>2. StateFitsRole'
      <4>1. CASE call[c].read \in {"ride", "wait"}
        <5>1. role = "driver" \/ turned
          BY <1>6, <4>1 DEF StartWrites, At, Follows, Kept
        <5>2. state' = "driving"
          BY <1>6, <4>1 DEF StartWrites
        <5> QED
          BY <1>6, <3>1, <5>1, <5>2
             DEF StartWrites, StateFitsRole, Foreign, PassengerStates, DriverStates, db
      <4>2. CASE call[c].read \notin {"ride", "wait"}
        <5>1. state' = "choose_role" \/ state' = state
          BY <1>6, <2>2, <4>2 DEF StartWrites
        <5> QED
          BY <1>6, <3>1, <5>1
             DEF StartWrites, StateFitsRole, Follows, Foreign, PassengerStates, DriverStates, db
      <4> QED
        BY <4>1, <4>2
    <3>3. CacheFollowsRole'
      <4>1. data' = NoData \/ data' = data
        BY <1>6 DEF StartWrites
      <4> QED
        BY <1>6, <3>1, <4>1, NamesTyped DEF StartWrites, CacheFollowsRole, Follows, db
    <3> QED
      BY <1>6, <3>1, <3>2, <3>3, MovesFollows DEF StartWrites, db
  <2> QED
    BY <2>1, <2>2
<1>7. CASE AnswerRejected(c)
  BY <1>7, MovesFollows, FsmStays DEF AnswerRejected, db
<1>8. CASE ChooseRole(c)
  <2>1. data'.by = "dialogue"
    BY <1>8 DEF ChooseRole, Typed, DataRec
  <2>2. CacheFollowsRole' /\ StateFitsRole'
    BY <1>8, <2>1 DEF ChooseRole, CacheFollowsRole, StateFitsRole, Follows, Foreign, db
  <2> QED
    BY <1>1, <1>2, <1>8, <2>2, MovesFollows DEF ChooseRole, db
<1>9. CASE PhoneNumber(c)
  <2>1. data'.by = data.by /\ data'.role = data.role
    BY <1>9 DEF PhoneNumber, Typed, DataRec
  <2>2. CacheFollowsRole' /\ StateFitsRole'
    BY <1>9, <2>1 DEF PhoneNumber, CacheFollowsRole, StateFitsRole, Follows, Foreign, db
  <2> QED
    BY <1>1, <1>2, <1>9, <2>2, MovesFollows DEF PhoneNumber, db
<1>10. CASE FullName(c) \/ Asks(c)
  <2>1. state' \in RegistrationStates /\ Ends(c) /\ UNCHANGED <<data, db, turned, bereft>>
    BY <1>10, NamesTyped DEF FullName, Asks, RegistrationStates, NextQuestion
  <2>2. CacheFollowsRole' /\ StateFitsRole'
    BY <2>1, NamesTyped DEF CacheFollowsRole, StateFitsRole, Follows, Foreign, db
  <2> QED
    BY <2>1, <2>2, MovesFollows DEF db
<1>11. CASE LastReads(c)
  BY <1>1, <1>2, <1>11, MovesFollows, FsmStays DEF LastReads, db
<1>12. CASE LastCommits(c)
  <2>1. CASE Conflict(c)
    BY <1>1, <1>2, <1>12, <2>1, MovesFollows, FsmStays DEF LastCommits
  <2>2. CASE ~Conflict(c)
    \* Whatever other calls have read: the role has turned
    <3>1. turned' /\ role' = RegisteredAs(c) /\ profiles' = profiles \cup {RegisteredAs(c)}
      BY <1>12, <2>2 DEF LastCommits
    <3>2. RoleHasProfile' /\ CacheFollowsRole' /\ StateFitsRole'
      BY <3>1 DEF RoleHasProfile, CacheFollowsRole, StateFitsRole
    <3>3. PICK q \in CallRec : Becomes(c, q) /\ q.pc = "clearing"
      BY <1>1, <1>2, <1>12, GoesOn DEF LastCommits
    <3>4. \A b \in Calls : call'[b] = q \/ call'[b] = call[b]
      BY <3>3 DEF Becomes
    <3>5. \A b \in Calls : Kept(call[b])'
      BY <3>1, <3>3, <3>4 DEF Kept, Follows
    <3> QED
      BY <3>2, <3>5 DEF Follows
  <2> QED
    BY <2>1, <2>2
<1>13. CASE LastClears(c)
  BY <1>13, ClearsFollows DEF LastClears
<1>14. CASE CancelReads(c)
  BY <1>1, <1>2, <1>14, MovesFollows, FsmStays DEF CancelReads, db
<1>15. CASE CancelClears(c)
  BY <1>15, ClearsFollows DEF CancelClears
<1>16. CASE Fallback(c)
  BY <1>16, MovesFollows, FsmStays DEF Fallback, db
<1> QED
  BY <1>3, <1>4, <1>5, <1>6, <1>7, <1>8, <1>9, <1>10, <1>11, <1>12, <1>13, <1>14, <1>15,
     <1>16 DEF HandlerStep

LEMMA WorldFollows ==
  ASSUME Typed, Follows, Panel \/ Lapses \/ Rides
  PROVE  Follows'
<1>1. ASSUME NEW r \in {"admin", "passenger"}, PanelSetsRole(r)
      PROVE  Follows'
  <2>1. RoleHasProfile'
    BY <1>1 DEF PanelSetsRole, RoleHasProfile
  <2>2. CASE Underway
    <3>1. turned'
      BY <1>1, <2>2 DEF PanelSetsRole
    <3>2. \A b \in Calls : Kept(call[b])'
      BY <1>1, <3>1 DEF PanelSetsRole, Follows, Kept
    <3> QED
      BY <2>1, <3>1, <3>2 DEF Follows, CacheFollowsRole, StateFitsRole
  <2>3. CASE ~Underway
    <3>1. state = "none" /\ data = NoData /\ \A b \in Calls : call[b].pc = "idle"
      BY <2>3 DEF Underway, fsm, At
    <3>2. UNCHANGED <<state, data, call>>
      BY <1>1 DEF PanelSetsRole, fsm
    <3>3. \A b \in Calls : Kept(call[b])'
      BY <3>1, <3>2 DEF Kept
    <3>4. CacheFollowsRole' /\ StateFitsRole'
      BY <3>1, <3>2, NamesTyped
         DEF CacheFollowsRole, StateFitsRole, Foreign, DriverStates, PassengerStates
    <3> QED
      BY <2>1, <3>3, <3>4 DEF Follows
  <2> QED
    BY <2>2, <2>3
<1>2. ASSUME UNCHANGED <<role, call, turned>>, RoleHasProfile', CacheFollowsRole', StateFitsRole'
      PROVE  Follows'
  BY <1>2 DEF Follows, Kept
<1>3. ASSUME NEW p \in {"driver", "passenger"}, PanelDeletes(p)
      PROVE  Follows'
  <2>1. RoleHasProfile'
    BY <1>3 DEF PanelDeletes, RoleHasProfile, Follows
  <2> QED
    BY <1>2, <1>3, <2>1, FsmStays DEF PanelDeletes
<1>4. CASE PanelBlocks \/ Rides
  <2>1. RoleHasProfile'
    BY <1>4 DEF PanelBlocks, Rides, RoleHasProfile, Follows
  <2> QED
    BY <1>2, <1>4, <2>1, FsmStays DEF PanelBlocks, Rides
<1>5. CASE Lapses
  <2>1. RoleHasProfile'
    BY <1>5 DEF Lapses, RoleHasProfile, Follows, db
  <2>2. state' \in {state, "none"} /\ data' \in {data, NoData}
    BY <1>5 DEF Lapses
  <2>3. CacheFollowsRole' /\ StateFitsRole'
    BY <1>5, <2>2, NamesTyped DEF Lapses, CacheFollowsRole, StateFitsRole, Follows, Foreign,
                                  DriverStates, PassengerStates, db
  <2> QED
    BY <1>2, <1>5, <2>1, <2>3 DEF Lapses, db
<1> QED
  BY <1>1, <1>3, <1>4, <1>5 DEF Panel

LEMMA FollowsAlways == Spec => [](Typed /\ Follows)
<1>1. Init => Typed /\ Follows
  <2> SUFFICES ASSUME Init
               PROVE  Follows
    BY InitTyped
  <2>1. \A c \in Calls : Kept(call[c])
    BY NamesTyped DEF Init, Kept
  <2> QED
    BY <2>1, NamesTyped DEF Init, Follows, RoleHasProfile, CacheFollowsRole, StateFitsRole,
                            Foreign, DriverStates, PassengerStates
<1>2. Typed /\ Follows /\ [Next]_vars => Typed' /\ Follows'
  <2> SUFFICES ASSUME Typed, Follows, [Next]_vars
               PROVE  Follows'
    BY StepTyped
  <2>1. CASE UNCHANGED vars
    <3>1. RoleHasProfile' /\ CacheFollowsRole' /\ StateFitsRole'
      BY <2>1, FsmStays DEF vars, db, Follows, RoleHasProfile
    <3> QED
      BY <2>1, <3>1 DEF vars, db, Follows, Kept
  <2>2. CASE Next
    BY <2>2, GuardFollows, HandlerFollows, WorldFollows DEF Next
  <2> QED
    BY <2>1, <2>2
<1> QED
  BY <1>1, <1>2, PTL DEF Spec

--------------------------------------------------------------------------------
(* Theorems *)

\* Every value keeps to its type: in particular the guard never caches a verdict of
\* /start, and no handler is called that there is none of
THEOREM TypeCorrect ==
  ASSUME MaxFaults \in Nat, MaxChanges \in Nat
  PROVE  Spec => []TypeOK
<1> DEFINE Bounds == faults \in 0..MaxFaults /\ changes \in 0..MaxChanges
<1>1. Init => Bounds
  BY DEF Init
<1>2. Bounds /\ [Next]_vars => Bounds'
  <2> SUFFICES ASSUME Bounds, [Next]_vars
               PROVE  Bounds'
    OBVIOUS
  <2>1. \/ faults' = faults \/ Fault
    BY DEF Next, GuardStep, GuardReadsData, GuardFetches, GuardDropsState, GuardCaches,
           GuardChecks, GuardClears, HandlerStep, DecoratorLooksUp, MenuActs, StartReads,
           StartWrites, AnswerRejected, ChooseRole, PhoneNumber, FullName, Asks, LastReads,
           LastCommits, LastClears, CancelReads, CancelClears, Fallback, GuardCatches,
           Arrives, Panel, PanelSetsRole, PanelDeletes, PanelBlocks, Lapses, Rides, vars
  <2>2. \/ changes' = changes \/ Change
    BY DEF Next, GuardStep, GuardReadsData, GuardFetches, GuardDropsState, GuardCaches,
           GuardChecks, GuardClears, HandlerStep, DecoratorLooksUp, MenuActs, StartReads,
           StartWrites, AnswerRejected, ChooseRole, PhoneNumber, FullName, Asks, LastReads,
           LastCommits, LastClears, CancelReads, CancelClears, Fallback, GuardCatches,
           Arrives, Panel, PanelSetsRole, PanelDeletes, PanelBlocks, Lapses, Rides, vars
  <2> QED
    BY <2>1, <2>2 DEF Fault, Change
<1>3. Typed /\ Bounds => TypeOK
  BY DEF Typed, TypeOK, DataRec, CallRec, Pcs, Reads
<1> QED
  BY <1>1, <1>2, <1>3, InitTyped, StepTyped, PTL DEF Spec

\* Who is a driver or a passenger has the row his handlers work on, in whatever order
\* registrations that were answered twice, their commits and the admin panel come
THEOREM RolesHaveProfiles == Spec => []RoleHasProfile
<1>1. Follows => RoleHasProfile
  BY DEF Follows
<1> QED
  BY <1>1, FollowsAlways, PTL

\* The role the guard has cached is the one in the database, although it is read and
\* cached in two steps, or the role was changed while the conversation went on
THEOREM CachesFollowRoles == Spec => []CacheFollowsRole
<1>1. Follows => CacheFollowsRole
  BY DEF Follows
<1> QED
  BY <1>1, FollowsAlways, PTL

\* No interleaving of the guard, /start and the menus puts a driver into a state of the
\* passengers, or a passenger into one of the drivers, while his role stays what it was
THEOREM StatesFitRoles == Spec => []StateFitsRole
<1>1. Follows => StateFitsRole
  BY DEF Follows
<1> QED
  BY <1>1, FollowsAlways, PTL

--------------------------------------------------------------------------------
(* Support: types *)

\* A row is not called "none"
ItemsFit == "none" \notin Items /\ MaxFaults \in Nat

DeskPcs == {"idle", "asks_topup", "takes_amount", "leaves", "opens_support", "asks_receipt",
        "takes_receipt", "takes_complaint", "answers", "asks_photo", "inserts", "tells",
        "clears", "commits"}
Ending   == {"tells", "clears", "commits"}
MessageRec  == {q \in [pc: DeskPcs, from: SP!States, item: Items \cup {"none"}, made: Nat] :
               /\ q.pc \in {"takes_amount", "asks_photo"} => q.from \in SP!AmountStates
               /\ q.item # "none" => q.pc \in Ending
               /\ q.made # 0 => q.pc \in Ending \cup {"inserts"}
               /\ q.made # 0 /\ q.pc \in Ending => q.item # "none"}
Statuses == {"none", "open", "in_progress", "resolved"}
RequestRec   == [item: Items, read: Statuses \ {"none"}]

DeskTyped ==
  /\ topic \in SP!States /\ sums \subseteq SP!AmountStates
  /\ sent \in [Calls -> MessageRec]
  /\ row \in [Items -> {"none", "open", "stored", "undone"}]
  /\ dialogue \in [number: Nat, of: [Items -> Nat]]
  /\ raced \subseteq Nat
  /\ feedback \in [Items -> Statuses]
  /\ clerk \in [Clerks -> RequestRec \cup {SP!NoRequest}]
  /\ mishaps \in 0..MaxFaults

\* Who has inserted a row and not ended has it to himself
Owned ==
  /\ \A c \in Calls : sent[c].item # "none" =>
       row[sent[c].item] \in {"open", "stored"} /\ feedback[sent[c].item] = "none"
  /\ \A c, d \in Calls : c # d /\ sent[c].item # "none" => sent[c].item # sent[d].item
  /\ \A i \in Items : /\ feedback[i] # "none" => row[i] = "stored" /\ dialogue.of[i] = 0
                      /\ i \in told => row[i] # "none"
  /\ \A k \in Clerks : clerk[k] # SP!NoRequest => feedback[clerk[k].item] # "none"

\* A receipt of amount n is on its way to clear it
Clearing(n) == \E c \in Calls : sent[c].made = n /\ sent[c].pc \in {"tells", "clears"}

Counted ==
  /\ sums # {} => dialogue.number > 0
  /\ \A c \in Calls : sent[c].made <= dialogue.number
  /\ \A i \in Items : dialogue.of[i] <= dialogue.number

Requested ==
  /\ \A c, d \in Calls :
       c # d /\ sent[c].made = sent[d].made /\ sent[c].made > 0 => sent[c].made \in raced
  /\ \A i \in Items :
       dialogue.of[i] = 0 \/ dialogue.of[i] \in raced \/ dialogue.of[i] < dialogue.number
         \/ sums = {} \/ Clearing(dialogue.of[i])
  /\ \A c \in Calls, i \in Items :
       sent[c].pc = "inserts" /\ sent[c].made > 0 /\ dialogue.of[i] = sent[c].made
         => sent[c].made \in raced
  /\ SP!RequestPerAmount

Turns(c, q) == sent' = [b \in Calls |-> IF b = c THEN q ELSE sent[b]]

LEMMA NoMessageTyped ==
  /\ SP!Idle \in MessageRec /\ SP!Idle.pc = "idle"
  /\ SP!Idle.item = "none" /\ SP!Idle.made = 0
  BY DEF SP!Idle, MessageRec, DeskPcs, SP!States, Ending

LEMMA MessageEnds ==
  ASSUME DeskTyped, NEW c \in Calls, SP!Ends(c)
  PROVE  Turns(c, SP!Idle)
  BY DEF DeskTyped, SP!Ends, Turns

LEMMA MessagesTyped ==
  ASSUME DeskTyped, NEW c \in Calls, NEW q \in MessageRec, Turns(c, q)
  PROVE  sent' \in [Calls -> MessageRec]
  BY DEF DeskTyped, Turns

LEMMA MessageGoesOn ==
  ASSUME DeskTyped, NEW c \in Calls, NEW p \in DeskPcs, SP!Goes(c, p),
         p \in {"takes_amount", "asks_photo"} => sent[c].from \in SP!AmountStates,
         sent[c].item # "none" => p \in Ending,
         sent[c].made # 0 => p \in Ending \cup {"inserts"},
         sent[c].made # 0 /\ p \in Ending => sent[c].item # "none"
  PROVE  \E q \in MessageRec : /\ Turns(c, q) /\ q.pc = p /\ q.from = sent[c].from
                            /\ q.item = sent[c].item /\ q.made = sent[c].made
<1> DEFINE q == [sent[c] EXCEPT !.pc = p]
<1>1. q \in MessageRec /\ q.pc = p /\ q.from = sent[c].from /\ q.item = sent[c].item
      /\ q.made = sent[c].made
  BY DEF DeskTyped, MessageRec
<1>2. Turns(c, q)
  BY DEF DeskTyped, SP!Goes, Turns, MessageRec
<1> QED
  BY <1>1, <1>2

LEMMA FirstHandlersTyped ==
  ASSUME NEW i \in SP!Inputs, NEW s \in SP!States
  PROVE  /\ SP!FirstHandler(i, s)
              \in DeskPcs \ (Ending \cup {"idle", "asks_photo", "inserts"})
         /\ SP!FirstHandler(i, s) = "takes_amount" => s \in SP!AmountStates
  BY DEF SP!FirstHandler, SP!Inputs, SP!Texts, SP!Amount, SP!States, SP!AmountStates,
         SP!ReceiptStates, DeskPcs, Ending

LEMMA ArrivesCall ==
  ASSUME DeskTyped, NEW c \in Calls, NEW i \in SP!Inputs, SP!Arrives(c, i)
  PROVE  \E q \in MessageRec : /\ Turns(c, q) /\ q.pc \notin Ending \cup {"inserts"}
                            /\ q.item = "none" /\ q.made = 0
<1> DEFINE h == SP!FirstHandler(i, topic)
           f == IF h \in SP!Takers THEN topic ELSE "none"
           q == [sent[c] EXCEPT !.pc = h, !.from = f]
<1>1. /\ h \in DeskPcs \ (Ending \cup {"idle", "asks_photo", "inserts"})
      /\ h = "takes_amount" => topic \in SP!AmountStates
  BY FirstHandlersTyped DEF DeskTyped
<1>2. sent[c] \in MessageRec /\ sent[c].pc = "idle"
  BY DEF DeskTyped, SP!Arrives, SP!At
<1>3. sent[c].item = "none" /\ sent[c].made = 0
  BY <1>2 DEF MessageRec, Ending
<1>4. f \in SP!States /\ (h = "takes_amount" => f \in SP!AmountStates)
  BY <1>1 DEF DeskTyped, SP!Takers, SP!States
<1>5. q \in MessageRec /\ q.pc = h /\ q.item = "none" /\ q.made = 0
  <2> HIDE DEF h, f
  <2> QED BY <1>1, <1>2, <1>3, <1>4 DEF MessageRec, Ending
<1>6. Turns(c, q)
  BY DEF DeskTyped, SP!Arrives, Turns, MessageRec
<1> QED
  BY <1>1, <1>5, <1>6

LEMMA ReadsAmountCall ==
  ASSUME DeskTyped, NEW c \in Calls, SP!ReadsAmount(c), SP!AmountFor(sent[c].from) \in sums
  PROVE  \E q \in MessageRec : /\ Turns(c, q) /\ q.pc = "inserts" /\ q.item = "none"
                            /\ q.made = dialogue.number
<1> DEFINE q == [sent[c] EXCEPT !.pc = "inserts", !.made = dialogue.number]
<1>1. sent[c] \in MessageRec /\ sent[c].pc = "takes_receipt"
  BY DEF DeskTyped, SP!ReadsAmount, SP!At
<1>2. q \in MessageRec /\ q.pc = "inserts" /\ q.item = "none" /\ q.made = dialogue.number
  BY <1>1 DEF MessageRec, DeskTyped, DeskPcs, Ending
<1>3. Turns(c, q)
  BY DEF DeskTyped, SP!ReadsAmount, Turns, MessageRec
<1> QED
  BY <1>2, <1>3

LEMMA InsertsCall ==
  ASSUME ItemsFit, DeskTyped, NEW c \in Calls, NEW i \in Items, SP!Inserts(c, i)
  PROVE  \E q \in MessageRec : /\ Turns(c, q) /\ q.pc \in {"tells", "clears"} /\ q.item = i
                            /\ q.made = sent[c].made
<1> DEFINE p == IF sent[c].from = "balance_receipt" THEN "clears" ELSE "tells"
           q == [sent[c] EXCEPT !.pc = p, !.item = i]
<1>1. sent[c] \in MessageRec
  BY DEF DeskTyped
<1>2. q \in MessageRec /\ q.pc = p /\ q.item = i /\ q.made = sent[c].made
  BY <1>1 DEF MessageRec, DeskPcs, Ending, ItemsFit
<1>3. Turns(c, q)
  BY DEF DeskTyped, SP!Inserts, Turns, MessageRec
<1> QED
  BY <1>2, <1>3

\* A step before anything is read or inserted: the conversation moves, or an amount is noted
Talks(c, q) ==
  /\ Turns(c, q) /\ q \in MessageRec
  /\ q.item = "none" /\ q.made = 0 /\ sent[c].item = "none" /\ sent[c].made = 0
  /\ topic' \in SP!States /\ dialogue'.of = dialogue.of
  /\ dialogue' \in [number: Nat, of: [Items -> Nat]]
  /\ \/ dialogue' = dialogue /\ sums' \in {sums, {}}
     \/ dialogue'.number = dialogue.number + 1 /\ sums' \subseteq SP!AmountStates
  /\ UNCHANGED <<row, raced, told, SP!desk, mishaps>>

LEMMA MovesTalk ==
  ASSUME DeskTyped, NEW c \in Calls,
         \/ SP!AsksTopup(c) \/ SP!AsksReceipt(c) \/ SP!OpensSupport(c) \/ SP!Leaves(c)
                 \/ SP!Answers(c)
         \/ SP!RefusesAmount(c) \/ SP!AsksPhoto(c)
  PROVE  \E q \in MessageRec : Talks(c, q)
<1>1. sent[c] \in MessageRec /\ sent[c].pc \notin Ending \cup {"inserts"} /\ SP!Ends(c)
  BY DEF DeskTyped, SP!AsksTopup, SP!AsksReceipt, SP!OpensSupport, SP!Leaves, SP!Answers,
         SP!RefusesAmount,
         SP!AsksPhoto, SP!Moves, SP!At, Ending
<1>2. sent[c].item = "none" /\ sent[c].made = 0
  BY <1>1 DEF MessageRec
<1>3. topic' \in SP!States /\ sums' \in {sums, {}}
      /\ UNCHANGED <<row, raced, told, SP!desk, mishaps, dialogue>>
  BY DEF DeskTyped, SP!AsksTopup, SP!AsksReceipt, SP!OpensSupport, SP!Leaves, SP!Answers,
         SP!RefusesAmount,
         SP!AsksPhoto, SP!Moves, SP!Clears, SP!States, SP!AmountStates, SP!ReceiptStates,
             SP!fsm, SP!rows
<1> QED
  BY <1>1, <1>2, <1>3, MessageEnds, NoMessageTyped DEF Talks, DeskTyped

LEMMA TakesTalk ==
  ASSUME DeskTyped, NEW c \in Calls, SP!TakesAmount(c)
  PROVE  \E q \in MessageRec : Talks(c, q)
<1>1. sent[c] \in MessageRec /\ sent[c].pc = "takes_amount" /\ SP!Goes(c, "asks_photo")
  BY DEF DeskTyped, SP!TakesAmount, SP!At
<1>2. sent[c].from \in SP!AmountStates /\ sent[c].item = "none" /\ sent[c].made = 0
  BY <1>1 DEF MessageRec, Ending
<1>3. PICK q \in MessageRec : Turns(c, q) /\ q.item = "none" /\ q.made = 0
  BY <1>1, <1>2, MessageGoesOn DEF DeskPcs
<1>4. /\ dialogue' \in [number: Nat, of: [Items -> Nat]] /\ dialogue'.of = dialogue.of
      /\ dialogue'.number = dialogue.number + 1
  BY DEF DeskTyped, SP!TakesAmount
<1>5. topic' \in SP!States /\ sums' \subseteq SP!AmountStates
      /\ UNCHANGED <<row, raced, told, SP!desk, mishaps>>
  BY <1>2 DEF DeskTyped, SP!TakesAmount
<1> QED
  BY <1>2, <1>3, <1>4, <1>5 DEF Talks

LEMMA ReadsTalk ==
  ASSUME DeskTyped, NEW c \in Calls,
         \/ SP!ReadsComplaint(c)
         \/ SP!ReadsAmount(c) /\ SP!AmountFor(sent[c].from) \notin sums
  PROVE  \E q \in MessageRec : Talks(c, q)
<1>1. sent[c] \in MessageRec /\ sent[c].pc \in {"takes_complaint", "takes_receipt"}
  BY DEF DeskTyped, SP!ReadsComplaint, SP!ReadsAmount, SP!At
<1>2. sent[c].item = "none" /\ sent[c].made = 0
  BY <1>1 DEF MessageRec, Ending
<1>3. SP!Goes(c, "inserts") \/ SP!Goes(c, "clears")
  BY DEF SP!ReadsComplaint, SP!ReadsAmount
<1>4. PICK q \in MessageRec : Turns(c, q) /\ q.item = "none" /\ q.made = 0
  BY <1>2, <1>3, MessageGoesOn DEF DeskPcs, Ending
<1>5. UNCHANGED <<SP!fsm, row, dialogue, raced, told, SP!desk, mishaps>>
  BY DEF SP!ReadsComplaint, SP!ReadsAmount, SP!rows
<1> QED
  BY <1>2, <1>4, <1>5 DEF Talks, DeskTyped, SP!fsm

LEMMA ArrivesTalk ==
  ASSUME DeskTyped, NEW c \in Calls, NEW i \in SP!Inputs, SP!Arrives(c, i)
  PROVE  \E q \in MessageRec : Talks(c, q)
<1>1. sent[c] \in MessageRec /\ sent[c].pc = "idle"
  BY DEF DeskTyped, SP!Arrives, SP!At
<1>2. sent[c].item = "none" /\ sent[c].made = 0
  BY <1>1 DEF MessageRec, Ending
<1> QED
  BY <1>2, ArrivesCall DEF SP!Arrives, Talks, DeskTyped, SP!fsm, SP!rows

--------------------------------------------------------------------------------
\* Tells and ClearsAfter: the row and the amount stay the call's
LEMMA GoesOnWithRow ==
  ASSUME DeskTyped, NEW c \in Calls, SP!Tells(c) \/ SP!ClearsAfter(c)
  PROVE  \E q \in MessageRec : /\ Turns(c, q) /\ q.item = sent[c].item
                            /\ q.made = sent[c].made
                            /\ \/ q.pc = "clears" /\ SP!Tells(c)
                               \/ q.pc = "commits" /\ SP!ClearsAfter(c)
<1>1. sent[c] \in MessageRec /\ sent[c].pc \in Ending
  BY DEF DeskTyped, SP!Tells, SP!ClearsAfter, SP!At, Ending
<1>2. sent[c].made # 0 => sent[c].item # "none"
  BY <1>1 DEF MessageRec
<1>3. CASE SP!Tells(c)
  BY <1>2, <1>3, MessageGoesOn DEF SP!Tells, DeskPcs, Ending
<1>4. CASE SP!ClearsAfter(c)
  BY <1>2, <1>4, MessageGoesOn DEF SP!ClearsAfter, DeskPcs, Ending
<1> QED
  BY <1>3, <1>4

--------------------------------------------------------------------------------
(* Support: every step keeps the types *)

LEMMA InitDeskTyped ==
  ASSUME ItemsFit, SP!Init
  PROVE  DeskTyped
  BY NoMessageTyped DEF ItemsFit, SP!Init, DeskTyped, SP!States, Statuses

LEMMA StepDeskTyped ==
  ASSUME ItemsFit, DeskTyped, [SP!Next]_(SP!vars)
  PROVE  DeskTyped'
<1>1. ASSUME NEW c \in Calls, NEW q \in MessageRec, Talks(c, q) PROVE DeskTyped'
  <2>1. sent' \in [Calls -> MessageRec]
    BY <1>1, MessagesTyped DEF Talks
  <2> QED
    BY <1>1, <2>1 DEF DeskTyped, Talks, SP!desk
<1>2. ASSUME NEW c \in Calls, SP!ReadsAmount(c), SP!AmountFor(sent[c].from) \in sums
      PROVE  DeskTyped'
  <2>1. sent' \in [Calls -> MessageRec]
    BY <1>2, ReadsAmountCall, MessagesTyped
  <2> QED
    BY <1>2, <2>1 DEF DeskTyped, SP!ReadsAmount, SP!fsm, SP!desk
<1>3. ASSUME NEW c \in Calls, NEW i \in Items, SP!Inserts(c, i) PROVE DeskTyped'
  <2>1. sent' \in [Calls -> MessageRec]
    BY <1>3, InsertsCall, MessagesTyped
  <2>2. dialogue' \in [number: Nat, of: [Items -> Nat]]
    BY <1>3 DEF DeskTyped, SP!Inserts, MessageRec
  <2> QED
    BY <1>3, <2>1, <2>2 DEF DeskTyped, SP!Inserts, SP!fsm, SP!desk
<1>4. ASSUME NEW c \in Calls, SP!Tells(c) \/ SP!ClearsAfter(c) PROVE DeskTyped'
  <2>1. sent' \in [Calls -> MessageRec]
    BY <1>4, GoesOnWithRow, MessagesTyped
  <2> QED
    BY <1>4, <2>1
       DEF DeskTyped, SP!Tells, SP!ClearsAfter, SP!Clears, SP!fsm, SP!rows, SP!desk, SP!States
<1>5. ASSUME NEW c \in Calls, SP!Commits(c) PROVE DeskTyped'
  <2>1. sent' \in [Calls -> MessageRec]
    BY <1>5, MessageEnds, NoMessageTyped, MessagesTyped DEF SP!Commits
  <2>2. row' \in [Items -> {"none", "open", "stored", "undone"}]
    BY <1>5 DEF DeskTyped, SP!Commits, SP!Closed
  <2> QED
    BY <1>5, <2>1, <2>2 DEF DeskTyped, SP!Commits, SP!fsm, Statuses
<1>6. ASSUME NEW c \in Calls, SP!Fails(c) PROVE DeskTyped'
  <2>1. sent' \in [Calls -> MessageRec]
    BY <1>6, MessageEnds, NoMessageTyped, MessagesTyped DEF SP!Fails
  <2>2. row' \in [Items -> {"none", "open", "stored", "undone"}]
    BY <1>6 DEF DeskTyped, SP!Fails, SP!Closed
  <2>3. topic' \in SP!States /\ sums' \subseteq SP!AmountStates /\ raced' \subseteq Nat
    BY <1>6 DEF DeskTyped, MessageRec, SP!Fails, SP!GuardClears, SP!Clears, SP!States
  <2> QED
    BY <1>6, <2>1, <2>2, <2>3 DEF DeskTyped, SP!Fails, SP!Fault, SP!desk, ItemsFit
<1>7. CASE SP!Restart
  <2>1. \A c \in Calls : sent[c].made \in Nat
    BY DEF DeskTyped, MessageRec
  <2>2. sent' \in [Calls -> MessageRec] /\ raced' \subseteq Nat
    BY <1>7, <2>1, NoMessageTyped DEF DeskTyped, SP!Restart
  <2>3. row' \in [Items -> {"none", "open", "stored", "undone"}]
    BY <1>7 DEF DeskTyped, SP!Restart
  <2> QED
    BY <1>7, <2>2, <2>3 DEF DeskTyped, SP!Restart, SP!Fault, SP!fsm, SP!desk, ItemsFit
<1>8. ASSUME NEW i \in Items, SP!Replies(i) PROVE DeskTyped'
  BY <1>8 DEF DeskTyped, SP!Replies, SP!fsm, SP!rows, Statuses
<1>9. ASSUME NEW k \in Clerks, NEW i \in Items, SP!MarkReads(k, i) PROVE DeskTyped'
  <2>1. [item |-> i, read |-> feedback[i]] \in RequestRec
    BY <1>9 DEF DeskTyped, SP!MarkReads, RequestRec
  <2> QED
    BY <1>9, <2>1 DEF DeskTyped, SP!MarkReads, SP!fsm, SP!rows
<1>10. ASSUME NEW k \in Clerks, SP!MarkWrites(k) PROVE DeskTyped'
  BY <1>10 DEF DeskTyped, SP!MarkWrites, SP!fsm, SP!rows, Statuses
<1>11. CASE UNCHANGED SP!vars
  BY <1>11 DEF DeskTyped, SP!vars, SP!fsm, SP!rows, SP!desk
<1> QED
  BY <1>1, <1>2, <1>3, <1>4, <1>5, <1>6, <1>7, <1>8, <1>9, <1>10, <1>11, MovesTalk,
     TakesTalk, ReadsTalk, ArrivesTalk DEF SP!Next, SP!HandlerStep

--------------------------------------------------------------------------------
(* Support: whose a row is *)

LEMMA InitOwned ==
  ASSUME ItemsFit, SP!Init
  PROVE  Owned
  BY NoMessageTyped DEF SP!Init, Owned

LEMMA StepOwned ==
  ASSUME ItemsFit, DeskTyped, Owned, [SP!Next]_(SP!vars)
  PROVE  Owned'
<1>1. ASSUME NEW c \in Calls, NEW q \in MessageRec, Talks(c, q) PROVE Owned'
  BY <1>1 DEF DeskTyped, Owned, Talks, Turns, SP!desk
<1>2. ASSUME NEW c \in Calls, SP!ReadsAmount(c), SP!AmountFor(sent[c].from) \in sums
      PROVE  Owned'
  BY <1>2, ReadsAmountCall DEF DeskTyped, Owned, SP!ReadsAmount, Turns, SP!desk
<1>3. ASSUME NEW c \in Calls, NEW i \in Items, SP!Inserts(c, i) PROVE Owned'
  <2>1. PICK q \in MessageRec : Turns(c, q) /\ q.item = i
    BY <1>3, InsertsCall
  <2>2. row[i] = "none" /\ row' \in [Items -> {"none", "open", "stored", "undone"}]
        /\ row'[i] \in {"open", "stored"} /\ \A j \in Items \ {i} : row'[j] = row[j]
    BY <1>3 DEF DeskTyped, SP!Inserts
  <2>3. \A j \in Items \ {i} : dialogue'.of[j] = dialogue.of[j]
    BY <1>3 DEF DeskTyped, SP!Inserts
  <2>4. \A d \in Calls : sent[d].item # i
    BY <2>2 DEF Owned, ItemsFit
  <2>5. UNCHANGED <<feedback, clerk, told>> /\ feedback[i] = "none" /\ i \notin told
    BY <1>3, <2>2 DEF Owned, DeskTyped, SP!Inserts, SP!desk
  <2>6. \A d \in Calls : sent[d].item \in Items \cup {"none"}
    BY DEF DeskTyped, MessageRec
  <2>7. \A d \in Calls : sent'[d].item # "none" =>
          row'[sent'[d].item] \in {"open", "stored"} /\ feedback'[sent'[d].item] = "none"
    BY <2>1, <2>2, <2>4, <2>5, <2>6 DEF Owned, Turns
  <2>8. \A d, e \in Calls : d # e /\ sent'[d].item # "none" => sent'[d].item # sent'[e].item
    BY <2>1, <2>4 DEF Owned, Turns
  <2>9. \A j \in Items : /\ feedback'[j] # "none" => row'[j] = "stored" /\ dialogue'.of[j] = 0
                         /\ j \in told' => row'[j] # "none"
    BY <2>2, <2>3, <2>5 DEF Owned
  <2> QED
    BY <2>5, <2>7, <2>8, <2>9 DEF Owned
<1>4. ASSUME NEW c \in Calls, SP!Tells(c) \/ SP!ClearsAfter(c) PROVE Owned'
  <2>1. PICK q \in MessageRec : Turns(c, q) /\ q.item = sent[c].item
    BY <1>4, GoesOnWithRow
  <2>2. \A d \in Calls : sent'[d].item = sent[d].item
    BY <2>1 DEF Turns
  <2>3. UNCHANGED <<row, dialogue, feedback, clerk>>
          /\ told' \subseteq told \cup {sent[c].item}
    BY <1>4 DEF SP!Tells, SP!ClearsAfter, SP!rows, SP!desk
  <2> QED
    BY <2>2, <2>3 DEF Owned, ItemsFit
<1>5. ASSUME NEW c \in Calls, SP!Commits(c) PROVE Owned'
  <2>1. Turns(c, SP!Idle)
    BY <1>5, MessageEnds DEF SP!Commits
  <2>2. sent[c].item \in Items \cup {"none"}
          /\ \A d \in Calls : sent[d].item \in Items \cup {"none"}
    BY DEF DeskTyped, MessageRec
  <2>3. \A i \in Items : row'[i] = IF i = sent[c].item THEN "stored" ELSE row[i]
    BY <1>5, <2>2 DEF DeskTyped, Owned, SP!Commits, SP!Closed, ItemsFit
  <2>4. \A i \in Items : feedback'[i] = IF i = sent[c].item /\ dialogue.of[i] = 0
                                        THEN "open" ELSE feedback[i]
    BY <1>5 DEF SP!Commits
  <2>5. UNCHANGED <<dialogue, told, clerk>>
    BY <1>5 DEF SP!Commits
  <2>6. \A d \in Calls : sent'[d].item # "none" =>
          row'[sent'[d].item] \in {"open", "stored"} /\ feedback'[sent'[d].item] = "none"
    BY <2>1, <2>2, <2>3, <2>4, NoMessageTyped DEF Owned, Turns
  <2>7. \A d, e \in Calls : d # e /\ sent'[d].item # "none" => sent'[d].item # sent'[e].item
    BY <2>1, NoMessageTyped DEF Owned, Turns
  <2>8. \A i \in Items : /\ feedback'[i] # "none" => row'[i] = "stored" /\ dialogue'.of[i] = 0
                         /\ i \in told' => row'[i] # "none"
    BY <2>3, <2>4, <2>5 DEF Owned
  <2>9. \A k \in Clerks : clerk'[k] # SP!NoRequest => feedback'[clerk'[k].item] # "none"
    <3>1. \A k \in Clerks : clerk[k] # SP!NoRequest => clerk[k].item \in Items
      BY DEF DeskTyped, RequestRec
    <3> QED
      BY <2>4, <2>5, <3>1 DEF Owned
  <2> QED
    BY <2>6, <2>7, <2>8, <2>9 DEF Owned
<1>6. ASSUME NEW c \in Calls, SP!Fails(c) PROVE Owned'
  <2>1. Turns(c, SP!Idle)
    BY <1>6, MessageEnds DEF SP!Fails
  <2>2. \A d \in Calls : sent[d].item \in Items \cup {"none"}
    BY DEF DeskTyped, MessageRec
  <2>3. \A i \in Items : \/ row'[i] = row[i]
                         \/ i = sent[c].item /\ row[i] = "open" /\ row'[i] = "undone"
    BY <1>6 DEF DeskTyped, SP!Fails, SP!Closed
  <2>4. UNCHANGED <<dialogue, told, feedback, clerk>>
    BY <1>6 DEF SP!Fails, SP!desk
  <2>5. \A d \in Calls : sent'[d].item # "none" =>
          row'[sent'[d].item] \in {"open", "stored"} /\ feedback'[sent'[d].item] = "none"
    BY <2>1, <2>2, <2>3, <2>4, NoMessageTyped DEF Owned, Turns
  <2>6. \A d, e \in Calls : d # e /\ sent'[d].item # "none" => sent'[d].item # sent'[e].item
    BY <2>1, NoMessageTyped DEF Owned, Turns
  <2> QED
    BY <2>3, <2>4, <2>5, <2>6 DEF Owned
<1>7. CASE SP!Restart
  <2>1. \A i \in Items : \/ row'[i] = row[i]
                         \/ row[i] = "open" /\ row'[i] = "undone"
    BY <1>7 DEF SP!Restart
  <2>2. \A c \in Calls : sent'[c].item = "none"
    BY <1>7, NoMessageTyped DEF SP!Restart
  <2>3. UNCHANGED <<dialogue, told, feedback, clerk>>
    BY <1>7 DEF SP!Restart, SP!desk
  <2> QED
    BY <2>1, <2>2, <2>3 DEF Owned
<1>8. ASSUME NEW i \in Items, SP!Replies(i) PROVE Owned'
  BY <1>8 DEF DeskTyped, Owned, SP!Replies, SP!fsm, SP!rows
<1>9. ASSUME NEW k \in Clerks, NEW i \in Items, SP!MarkReads(k, i) PROVE Owned'
  BY <1>9 DEF DeskTyped, Owned, SP!MarkReads, SP!fsm, SP!rows
<1>10. ASSUME NEW k \in Clerks, SP!MarkWrites(k) PROVE Owned'
  <2>1. clerk[k].item \in Items /\ feedback[clerk[k].item] # "none"
    BY <1>10 DEF DeskTyped, Owned, SP!MarkWrites, RequestRec
  <2> QED
    BY <1>10, <2>1 DEF DeskTyped, Owned, SP!MarkWrites, SP!fsm, SP!rows
<1>11. CASE UNCHANGED SP!vars
  BY <1>11 DEF Owned, SP!vars, SP!fsm, SP!rows, SP!desk
<1> QED
  BY <1>1, <1>2, <1>3, <1>4, <1>5, <1>6, <1>7, <1>8, <1>9, <1>10, <1>11, MovesTalk,
     TakesTalk, ReadsTalk, ArrivesTalk DEF SP!Next, SP!HandlerStep

--------------------------------------------------------------------------------
(* Support: which amount a row is of *)

LEMMA InitCounted ==
  ASSUME ItemsFit, SP!Init
  PROVE  Counted /\ Requested
  BY NoMessageTyped DEF SP!Init, Counted, Requested, SP!RequestPerAmount

LEMMA StepCounted ==
  ASSUME ItemsFit, DeskTyped, Counted, [SP!Next]_(SP!vars)
  PROVE  Counted'
<1>t. /\ dialogue.number \in Nat /\ \A i \in Items : dialogue.of[i] \in Nat
      /\ \A c \in Calls : sent[c].made \in Nat
  BY DEF DeskTyped, MessageRec
<1>1. ASSUME NEW c \in Calls, NEW q \in MessageRec, Talks(c, q) PROVE Counted'
  <2>1. dialogue'.of = dialogue.of /\ dialogue'.number >= dialogue.number
    BY <1>1, <1>t DEF Talks
  <2>2. sums' # {} => dialogue'.number > 0
    BY <1>1, <1>t DEF Talks, Counted
  <2>3. dialogue'.number \in Nat
    BY <1>1 DEF Talks
  <2> QED
    BY <1>1, <1>t, <2>1, <2>2, <2>3 DEF Counted, Talks, Turns
<1>2. ASSUME NEW c \in Calls, SP!ReadsAmount(c), SP!AmountFor(sent[c].from) \in sums
      PROVE  Counted'
  BY <1>2, <1>t, ReadsAmountCall DEF Counted, SP!ReadsAmount, Turns, SP!fsm
<1>3. ASSUME NEW c \in Calls, NEW i \in Items, SP!Inserts(c, i) PROVE Counted'
  <2>1. dialogue'.number = dialogue.number /\ sums' = sums
        /\ \A j \in Items : dialogue'.of[j] = IF j = i THEN sent[c].made ELSE dialogue.of[j]
    BY <1>3 DEF DeskTyped, SP!Inserts, SP!fsm
  <2> QED
    BY <1>3, <1>t, <2>1, InsertsCall DEF Counted, Turns
<1>4. ASSUME NEW c \in Calls, SP!Tells(c) \/ SP!ClearsAfter(c) PROVE Counted'
  <2>1. sums' \in {sums, {}} /\ dialogue' = dialogue
    BY <1>4 DEF SP!Tells, SP!ClearsAfter, SP!Clears, SP!fsm, SP!rows
  <2> QED
    BY <1>4, <2>1, GoesOnWithRow DEF Counted, Turns
<1>5. ASSUME NEW c \in Calls, SP!Commits(c) \/ SP!Fails(c) PROVE Counted'
  <2>1. sums' \in {sums, {}} /\ dialogue' = dialogue /\ Turns(c, SP!Idle)
    BY <1>5, MessageEnds DEF SP!Commits, SP!Fails, SP!GuardClears, SP!Clears, SP!fsm
  <2> QED
    BY <1>t, <2>1, NoMessageTyped DEF Counted, Turns
<1>6. CASE SP!Restart
  BY <1>6, <1>t, NoMessageTyped DEF Counted, SP!Restart, SP!fsm
<1>7. CASE UNCHANGED <<SP!fsm, sent, dialogue>>
  BY <1>7 DEF Counted, SP!fsm
<1>8. ASSUME NEW k \in Clerks, NEW i \in Items,
             SP!Replies(i) \/ SP!MarkReads(k, i) \/ SP!MarkWrites(k)
      PROVE  UNCHANGED <<SP!fsm, sent, dialogue>>
  BY <1>8 DEF SP!Replies, SP!MarkReads, SP!MarkWrites, SP!rows
<1>9. ASSUME NEW i \in Items, SP!Replies(i) PROVE UNCHANGED <<SP!fsm, sent, dialogue>>
  BY <1>9 DEF SP!Replies, SP!rows
<1>10. ASSUME NEW k \in Clerks, SP!MarkWrites(k) PROVE UNCHANGED <<SP!fsm, sent, dialogue>>
  BY <1>10 DEF SP!MarkWrites, SP!rows
<1>11. UNCHANGED SP!vars => UNCHANGED <<SP!fsm, sent, dialogue>>
  BY DEF SP!vars, SP!rows
<1> QED
  BY <1>1, <1>2, <1>3, <1>4, <1>5, <1>6, <1>7, <1>8, <1>9, <1>10, <1>11, MovesTalk,
     TakesTalk, ReadsTalk, ArrivesTalk DEF SP!Next, SP!HandlerStep

LEMMA StepRequested ==
  ASSUME ItemsFit, DeskTyped, Counted, Requested, [SP!Next]_(SP!vars)
  PROVE  Requested'
<1>t. /\ dialogue.number \in Nat /\ \A i \in Items : dialogue.of[i] \in Nat
      /\ \A c \in Calls : sent[c] \in MessageRec /\ sent[c].made \in Nat
  BY DEF DeskTyped, MessageRec
<1>1. ASSUME NEW c \in Calls, NEW q \in MessageRec, Talks(c, q) PROVE Requested'
  <2>1. /\ dialogue'.of = dialogue.of /\ raced' = raced
        /\ \/ dialogue'.number = dialogue.number /\ sums' \in {sums, {}}
           \/ dialogue'.number = dialogue.number + 1
    BY <1>1 DEF Talks
  <2>2. \A d \in Calls : d # c => sent'[d] = sent[d]
    BY <1>1 DEF Talks, Turns
  <2>3. sent'[c].made = 0 /\ sent[c].made = 0
    BY <1>1 DEF Talks, Turns
  <2>4. ASSUME NEW i \in Items
        PROVE  dialogue'.of[i] = 0 \/ dialogue'.of[i] \in raced'
                 \/ dialogue'.of[i] < dialogue'.number \/ sums' = {}
                 \/ Clearing(dialogue.of[i])'
    <3>1. Clearing(dialogue.of[i]) /\ dialogue.of[i] # 0 => Clearing(dialogue.of[i])'
      BY <2>1, <2>2, <2>3 DEF Clearing
    <3>2. dialogue.of[i] <= dialogue.number
      BY DEF Counted
    <3> QED
      BY <1>t, <2>1, <3>1, <3>2 DEF Requested
  <2>5. SP!RequestPerAmount'
    BY <2>1 DEF Requested, SP!RequestPerAmount
  <2>6. \A d, e \in Calls :
          d # e /\ sent'[d].made = sent'[e].made /\ sent'[d].made > 0
                  => sent'[d].made \in raced'
    BY <2>1, <2>2, <2>3 DEF Requested
  <2>7. \A d \in Calls, i \in Items :
          sent'[d].pc = "inserts" /\ sent'[d].made > 0 /\ dialogue'.of[i] = sent'[d].made
            => sent'[d].made \in raced'
    BY <2>1, <2>2, <2>3 DEF Requested
  <2> QED
    BY <2>4, <2>5, <2>6, <2>7 DEF Requested, Clearing
<1>2. ASSUME NEW c \in Calls, SP!ReadsAmount(c), SP!AmountFor(sent[c].from) \in sums
      PROVE  Requested'
  <2>1. PICK q \in MessageRec : Turns(c, q) /\ q.pc = "inserts" /\ q.made = dialogue.number
    BY <1>2, ReadsAmountCall
  <2>2. /\ UNCHANGED <<sums, dialogue>> /\ raced \subseteq raced'
        /\ SP!Holders # {} => dialogue.number \in raced'
    BY <1>2 DEF SP!ReadsAmount, SP!fsm
  <2>3. sums # {} /\ dialogue.number > 0
    BY <1>2 DEF Counted
  <2>4. \A d \in Calls : d # c => sent'[d] = sent[d]
    BY <2>1 DEF Turns
  <2>5. sent'[c] = q /\ sent[c].pc = "takes_receipt"
    BY <1>2, <2>1 DEF Turns, SP!ReadsAmount, SP!At
  <2>6. ASSUME NEW d \in Calls, d # c, sent[d].made = dialogue.number
        PROVE  dialogue.number \in raced'
    <3>1. sent[d].pc # "idle"
      BY <1>t, <2>3, <2>6 DEF MessageRec, Ending
    <3> QED
      BY <2>2, <2>6, <3>1 DEF SP!Holders, SP!At
  <2>7. ASSUME NEW i \in Items, dialogue.of[i] = dialogue.number
        PROVE  dialogue.number \in raced'
    <3>1. dialogue.number \in raced \/ Clearing(dialogue.number)
      BY <1>t, <2>3, <2>7 DEF Requested
    <3> QED
      BY <2>2, <2>5, <2>6, <3>1 DEF Clearing
  <2>8. ASSUME NEW i \in Items
        PROVE  dialogue'.of[i] = 0 \/ dialogue'.of[i] \in raced'
                 \/ dialogue'.of[i] < dialogue'.number \/ sums' = {}
                 \/ Clearing(dialogue.of[i])'
    <3>1. Clearing(dialogue.of[i]) => Clearing(dialogue.of[i])'
      BY <2>2, <2>4, <2>5 DEF Clearing
    <3> QED
      BY <2>2, <3>1 DEF Requested
  <2>9. SP!RequestPerAmount'
    BY <2>2 DEF Requested, SP!RequestPerAmount
  <2>10. \A d, e \in Calls :
          d # e /\ sent'[d].made = sent'[e].made /\ sent'[d].made > 0
                  => sent'[d].made \in raced'
    BY <2>1, <2>2, <2>4, <2>5, <2>6 DEF Requested
  <2>11. \A d \in Calls, i \in Items :
          sent'[d].pc = "inserts" /\ sent'[d].made > 0 /\ dialogue'.of[i] = sent'[d].made
            => sent'[d].made \in raced'
    BY <2>1, <2>2, <2>4, <2>5, <2>7 DEF Requested
  <2> QED
    BY <2>8, <2>9, <2>10, <2>11 DEF Requested, Clearing
<1>3. ASSUME NEW c \in Calls, NEW i \in Items, SP!Inserts(c, i) PROVE Requested'
  <2>1. PICK q \in MessageRec : Turns(c, q) /\ q.pc \in {"tells", "clears"}
                             /\ q.made = sent[c].made
    BY <1>3, InsertsCall
  <2>2. dialogue'.number = dialogue.number /\ UNCHANGED <<sums, raced>>
        /\ \A j \in Items : dialogue'.of[j] = IF j = i THEN sent[c].made ELSE dialogue.of[j]
    BY <1>3 DEF DeskTyped, SP!Inserts, SP!fsm
  <2>3. \A d \in Calls : d # c => sent'[d] = sent[d]
    BY <2>1 DEF Turns
  <2>4. sent'[c] = q /\ sent[c].pc = "inserts"
    BY <1>3, <2>1 DEF Turns, SP!Inserts, SP!At
  <2>5. \A d \in Calls : sent'[d].made = sent[d].made
    BY <2>1, <2>3, <2>4
  <2>6. ASSUME NEW j \in Items
        PROVE  dialogue'.of[j] = 0 \/ dialogue'.of[j] \in raced'
                 \/ dialogue'.of[j] < dialogue'.number \/ sums' = {}
                 \/ Clearing(dialogue.of[j])'
    <3>1. CASE j = i
      BY <2>1, <2>2, <2>4, <3>1 DEF Clearing
    <3>2. CASE j # i
      <4>1. Clearing(dialogue.of[j]) => Clearing(dialogue.of[j])'
        BY <2>2, <2>3, <2>4, <3>2 DEF Clearing
      <4> QED
        BY <2>2, <3>2, <4>1 DEF Requested
    <3> QED
      BY <3>1, <3>2
  <2>7. SP!RequestPerAmount'
    <3>1. ASSUME NEW j \in Items, j # i, dialogue.of[j] = sent[c].made, sent[c].made > 0
          PROVE  sent[c].made \in raced
      BY <2>4, <3>1 DEF Requested
    <3> QED
      BY <2>2, <3>1 DEF Requested, SP!RequestPerAmount
  <2>8. \A d, e \in Calls :
          d # e /\ sent'[d].made = sent'[e].made /\ sent'[d].made > 0
                  => sent'[d].made \in raced'
    BY <2>2, <2>5 DEF Requested
  <2>9. ASSUME NEW d \in Calls, NEW j \in Items, sent'[d].pc = "inserts", sent'[d].made > 0,
               dialogue'.of[j] = sent'[d].made
        PROVE  sent'[d].made \in raced'
    <3>1. d # c
      BY <2>1, <2>4, <2>9
    <3> QED
      BY <2>2, <2>3, <2>5, <2>9, <3>1 DEF Requested
  <2> QED
    BY <2>6, <2>7, <2>8, <2>9 DEF Requested, Clearing
<1>4. ASSUME NEW c \in Calls, SP!Tells(c) \/ SP!ClearsAfter(c) PROVE Requested'
  <2>1. PICK q \in MessageRec : /\ Turns(c, q) /\ q.made = sent[c].made
                             /\ \/ q.pc = "clears" /\ SP!Tells(c)
                                \/ q.pc = "commits" /\ SP!ClearsAfter(c)
    BY <1>4, GoesOnWithRow
  <2>2. UNCHANGED <<dialogue, raced>>
    BY <1>4 DEF SP!Tells, SP!ClearsAfter, SP!rows
  <2>3. \A d \in Calls : sent'[d].made = sent[d].made
                         /\ (sent'[d].pc = "inserts" => sent[d].pc = "inserts")
    BY <2>1 DEF Turns
  <2>4. ASSUME NEW n PROVE  sums' = {} \/ (sums' = sums /\ (Clearing(n) => Clearing(n)'))
    <3>1. CASE SP!ClearsAfter(c)
      <4>1. sums' = {}
        BY <3>1 DEF SP!ClearsAfter, SP!Clears
      <4> QED
        BY <4>1, Zenon
    <3>2. CASE q.pc = "clears" /\ SP!Tells(c)
      <4>1. sums' = sums /\ sent'[c] = q /\ sent[c].pc = "tells"
        BY <2>1, <3>2 DEF SP!Tells, SP!fsm, Turns, SP!At
      <4>2. \A d \in Calls : d # c => sent'[d] = sent[d]
        BY <2>1 DEF Turns
      <4> QED
        BY <2>3, <3>2, <4>1, <4>2 DEF Clearing
    <3> QED
      BY <2>1, <3>1, <3>2
  <2>5. \A i \in Items :
          dialogue'.of[i] = 0 \/ dialogue'.of[i] \in raced'
                  \/ dialogue'.of[i] < dialogue'.number
            \/ sums' = {} \/ Clearing(dialogue.of[i])'
    BY <2>2, <2>4 DEF Requested
  <2> QED
    BY <2>2, <2>3, <2>5 DEF Requested, SP!RequestPerAmount, Clearing
<1>5. ASSUME NEW c \in Calls, SP!Commits(c) \/ SP!Fails(c) PROVE Requested'
  <2>n. PICK n : n = sent[c].made
    OBVIOUS
  <2>1. dialogue' = dialogue /\ Turns(c, SP!Idle)
    BY <1>5, MessageEnds DEF SP!Commits, SP!Fails
  <2>2. sent'[c] = SP!Idle /\ \A d \in Calls : d # c => sent'[d] = sent[d]
    BY <2>1, Zenon DEF Turns
  <2>3. raced \subseteq raced'
    BY <1>5 DEF SP!Commits, SP!Fails, SP!GuardClears
  <2>4. \/ sums' = {}
        \/ sums' = sums /\ (Clearing(n) /\ n > 0 => n \in raced' \/ Clearing(n)')
    <3>1. CASE SP!Fails(c) /\ SP!Clears
      BY <3>1 DEF SP!Clears
    <3>2. CASE SP!Fails(c) /\ ~SP!Clears
      <4>1. /\ sums' = sums
            /\ raced' = IF sent[c].item = "none" THEN raced
                        ELSE raced \cup ({sent[c].made} \ {0})
        BY <3>2 DEF SP!Fails, SP!GuardClears
      <4>2. CASE sent[c].item # "none"
        <5>1. n > 0 => n \in raced'
          BY <1>t, <2>n, <4>1, <4>2
        <5> QED BY <4>1, <5>1
      <4>3. CASE sent[c].item = "none"
        <5>1. n > 0 => sent[c].pc \notin Ending
          BY <1>t, <2>n, <4>3 DEF MessageRec
        <5>2. n > 0 /\ Clearing(n) => Clearing(n)'
          BY <2>2, <5>1 DEF Clearing, Ending
        <5> QED BY <4>1, <5>2
      <4> QED
        BY <4>2, <4>3
    <3>3. CASE SP!Commits(c)
      <4>1. sums' = sums /\ sent[c].pc = "commits"
        BY <3>3 DEF SP!Commits, SP!fsm, SP!At
      <4> QED
        BY <2>2, <4>1 DEF Clearing
    <3> QED
      BY <1>5, <3>1, <3>2, <3>3
  <2>5. ASSUME NEW m, m # n, Clearing(m)
        PROVE  Clearing(m)'
    BY <2>2, <2>n, <2>5 DEF Clearing
  <2>6. ASSUME NEW i \in Items
        PROVE  dialogue'.of[i] = 0 \/ dialogue'.of[i] \in raced'
                 \/ dialogue'.of[i] < dialogue'.number \/ sums' = {}
                 \/ Clearing(dialogue.of[i])'
    <3>m. PICK m : m = dialogue.of[i]
      OBVIOUS
    <3>1. CASE Clearing(m) /\ m # n
      BY <2>1, <2>5, <3>m, <3>1 DEF Clearing
    <3>2. CASE ~Clearing(m)
      <4>1. dialogue.of[i] = 0 \/ dialogue.of[i] \in raced
              \/ dialogue.of[i] < dialogue.number \/ sums = {}
        BY <3>m, <3>2 DEF Requested
      <4> QED
        BY <2>1, <2>3, <2>4, <4>1
    <3>3. CASE Clearing(m) /\ m = n
      <4>1. m \in Nat
        BY <1>t, <3>m
      <4> QED
        BY <2>1, <2>4, <3>m, <3>3, <4>1 DEF Clearing
    <3> QED
      BY <3>1, <3>2, <3>3
  <2> QED
    BY <2>1, <2>2, <2>3, <2>6, NoMessageTyped DEF Requested, SP!RequestPerAmount, Clearing
<1>6. CASE SP!Restart
  <2>1. UNCHANGED <<sums, dialogue>>
          /\ raced' = raced \cup ({sent[c].made : c \in Calls} \ {0})
    BY <1>6 DEF SP!Restart, SP!fsm
  <2>2. \A c \in Calls : sent'[c].made = 0
    BY <1>6, NoMessageTyped DEF SP!Restart
  <2>3. ASSUME NEW i \in Items, dialogue.of[i] # 0, Clearing(dialogue.of[i])
        PROVE  dialogue.of[i] \in raced'
    BY <2>1, <2>3 DEF Clearing
  <2>4. \A i \in Items :
          dialogue'.of[i] = 0 \/ dialogue'.of[i] \in raced'
                  \/ dialogue'.of[i] < dialogue'.number
            \/ sums' = {}
    BY <2>1, <2>3 DEF Requested
  <2> QED
    BY <2>1, <2>2, <2>4 DEF Requested, SP!RequestPerAmount
<1>7. CASE UNCHANGED <<SP!fsm, sent, dialogue, raced>>
  BY <1>7 DEF Requested, SP!RequestPerAmount, Clearing, SP!fsm
<1>8. ASSUME NEW k \in Clerks, NEW i \in Items, SP!MarkReads(k, i)
      PROVE  UNCHANGED <<SP!fsm, sent, dialogue, raced>>
  BY <1>8 DEF SP!MarkReads, SP!rows
<1>9. ASSUME NEW i \in Items, SP!Replies(i) PROVE UNCHANGED <<SP!fsm, sent, dialogue, raced>>
  BY <1>9 DEF SP!Replies, SP!rows
<1>10. ASSUME NEW k \in Clerks, SP!MarkWrites(k)
       PROVE  UNCHANGED <<SP!fsm, sent, dialogue, raced>>
  BY <1>10 DEF SP!MarkWrites, SP!rows
<1>11. UNCHANGED SP!vars => UNCHANGED <<SP!fsm, sent, dialogue, raced>>
  BY DEF SP!vars, SP!rows
<1> QED
  BY <1>1, <1>2, <1>3, <1>4, <1>5, <1>6, <1>7, <1>8, <1>9, <1>10, <1>11, MovesTalk,
     TakesTalk, ReadsTalk, ArrivesTalk DEF SP!Next, SP!HandlerStep

--------------------------------------------------------------------------------
(* Support: the theorems *)

DeskKept == DeskTyped /\ Owned /\ Counted /\ Requested

LEMMA DeskKeptAlways ==
  ASSUME ItemsFit
  PROVE  SP!Spec => []DeskKept
<1>1. SP!Init => DeskKept
  BY InitDeskTyped, InitOwned, InitCounted DEF DeskKept
<1>2. DeskKept /\ [SP!Next]_(SP!vars) => DeskKept'
  BY StepDeskTyped, StepOwned, StepCounted, StepRequested DEF DeskKept
<1> QED
  BY <1>1, <1>2, PTL DEF SP!Spec

\* The office's part of the run steps as Support does
LEMMA OfficeKeptAlways ==
  ASSUME ItemsFit
  PROVE  PartsSpec => [](part = "office" => DeskKept)
<1>1. PartsInit => (part = "office" => DeskKept)
  BY InitDeskTyped, InitOwned, InitCounted DEF DeskKept, PartsInit
<1>2. (part = "office" => DeskKept) /\ [PartsNext]_allVars => (part = "office" => DeskKept)'
  <2> SUFFICES ASSUME part' = "office", part = "office" => DeskKept, [PartsNext]_allVars
               PROVE  DeskKept'
    OBVIOUS
  <2>1. part = "office" /\ [SP!Next]_(SP!vars)
    BY DEF PartsNext, allVars, office, SP!vars, SP!fsm, SP!rows, SP!desk
  <2> QED
    BY <2>1, StepDeskTyped, StepOwned, StepCounted, StepRequested DEF DeskKept
<1> QED
  BY <1>1, <1>2, PTL DEF PartsSpec

\* The driver's dialogues and the panel keep their types: only a complaint that is in the
\* table has an answer, and the administrators are told of rows alone
THEOREM DeskTypeCorrect ==
  ASSUME ItemsFit
  PROVE  SP!Spec => []SP!TypeOK
<1>1. DeskKept => SP!TypeOK
  BY DEF DeskKept, DeskTyped, Owned, SP!TypeOK, Statuses
<1> QED
  BY <1>1, DeskKeptAlways, PTL

\* The same of the run, where each part keeps its types while the other rests
THEOREM PartsTypeCorrect ==
  ASSUME ItemsFit, MaxChanges \in Nat
  PROVE  PartsSpec => []PartsTypeOK
<1>1. PartsInit => Init
  BY DEF PartsInit
<1>2. [PartsNext]_allVars => [Next]_vars
  BY DEF PartsNext, allVars
<1>3. PartsSpec => Spec
  BY <1>1, <1>2, PTL DEF PartsSpec, Spec
<1>4. TypeOK /\ (part = "office" => DeskKept) => PartsTypeOK
  BY DEF PartsTypeOK, DeskKept, DeskTyped, Owned, SP!TypeOK, Statuses
<1> QED
  BY <1>3, <1>4, TypeCorrect, OfficeKeptAlways, PTL DEF ItemsFit

\* An amount entered once becomes one request of a deposit, for any number of messages,
\* errors and restarts: two come only of receipts that had both read it before either was
\* done, or of one that left a row and, after a restart or an error whose clear failed
\* too, the conversation as it was.  In Support, and as the run states it.
THEOREM OneRequestPerAmount ==
  ASSUME ItemsFit
  PROVE  /\ SP!Spec => []SP!RequestPerAmount
         /\ PartsSpec => []RequestPerAmount
<1>1. DeskKept => SP!RequestPerAmount
  BY DEF DeskKept, Requested
<1>2. SP!Spec => []SP!RequestPerAmount
  BY <1>1, DeskKeptAlways, PTL
<1>3. (part = "office" => DeskKept) => RequestPerAmount
  BY <1>1 DEF RequestPerAmount
<1>4. PartsSpec => []RequestPerAmount
  BY <1>3, OfficeKeptAlways, PTL
<1> QED
  BY <1>2, <1>4
=================================================================================
