------------------------------ MODULE Conversation ------------------------------
(***************************************************************************)
(* One user's conversation with the bot: the state and data aiogram keeps  *)
(* for him in Redis, StateGuardMiddleware in front of every handler, the   *)
(* decorators that look up his role, /start, the registration dialogues,   *)
(* and the fallbacks.  Updates of one user are handled concurrently: which *)
(* handler gets an update is decided by the state when it arrives, and     *)
(* each handler reads and writes the state, the data and the database in   *)
(* steps of its own.  Meanwhile the admin panel changes the user's row.    *)
(*                                                                         *)
(* Of the data, the cached role and whether the answers of the             *)
(* registration are there are kept.  Of the drivers' and the passengers'   *)
(* states, one each is enough: what the guard tells apart is the group.    *)
(***************************************************************************)
EXTENDS Integers, FiniteSets

CONSTANTS
  Calls,         \* updates of the user that may be in the handlers at once
  MaxFaults,     \* bound: errors of Redis, Telegram or the database, lapsed keys
  MaxChanges     \* bound: changes made in the admin panel

VARIABLES
  state,         \* the FSM state
  data,          \* the FSM data: "role", written by the guard, which caches it, and
                 \* by choose_role; and whether the dialogue's answers are there
  role,          \* users.role, "none" without a row
  isBlocked,     \* users.is_blocked
  profiles,      \* which of the tables drivers and passengers have his row
  ride,          \* drivers.is_on_trip, with or without an active order
  call,          \* call -> where its handling is and what it has read
  turned,        \* the role changed while the conversation went on under the old one
  bereft,        \* the panel took the profile or the role its profile belongs to
  faults, changes

fsm  == <<state, data>>
db   == <<role, isBlocked, profiles, ride>>
vars == <<fsm, db, call, turned, bereft, faults, changes>>

--------------------------------------------------------------------------------
(* States and handlers *)

DriverStates    == {"driving"}
PassengerStates == {"booking"}

\* What the answer to a question leads to (RegistrationStates; the questions for
\* the driver's name and the car's model and colour are one here)
NextQuestion ==
  [driver_full_name |-> "driver_car_number",
   passenger_full_name |-> "passenger_gender", passenger_gender |-> "passenger_age"]
LastQuestions == {"driver_car_number", "passenger_age"}
RegistrationStates ==
  {"choose_role", "phone_number"} \cup DOMAIN NextQuestion \cup LastQuestions

\* The questions answered by any text, a command included: their router is
\* asked before the one of /cancel
TextQuestions == RegistrationStates \ {"choose_role", "passenger_gender"}

States   == {"none"} \cup RegistrationStates \cup DriverStates \cup PassengerStates
Handlers == RegistrationStates \cup {"start", "cancel", "driver", "passenger", "fallback"}
Roles    == {"none", "driver", "passenger", "admin"}

\* What the user sends, and the first handler whose filters it passes
FirstHandler(input, s) ==
  CASE input = "/start" -> "start"
    [] input = "answer" /\ s \in RegistrationStates -> s
    [] input = "/cancel" -> IF s \in TextQuestions THEN s ELSE "cancel"
    [] input \in {"driver", "passenger"} ->
         IF s \in TextQuestions THEN s ELSE input
    [] OTHER -> "fallback"
Inputs == {"/start", "/cancel", "answer", "driver", "passenger", "junk"}

--------------------------------------------------------------------------------
(* Helpers *)

NoData == [role |-> "none", by |-> "guard", answers |-> FALSE]
Idle   == [pc |-> "idle", does |-> "fallback", read |-> "none"]

At(c, p)       == call[c].pc = p
Goes(c, p, r)  == call' = [call EXCEPT ![c].pc = p, ![c].read = r]
Ends(c)        == call' = [call EXCEPT ![c] = Idle]
Does(c, h)     == call[c].does = h
Underway       == fsm # <<"none", NoData>> \/ \E c \in Calls : ~At(c, "idle")
Alone(c)       == \A b \in Calls \ {c} : At(b, "idle")

\* Mutant: the state goes, the data stays
ClearsState(c) ==
  /\ state' = "none" /\ UNCHANGED data
  /\ turned' = (turned /\ ~Alone(c))

\* FSMContext.clear: the state and the data.  Nothing is left of an old role,
\* unless another update has read it and will go on.
Clears(c) ==
  /\ state' = "none" /\ data' = NoData
  /\ turned' = (turned /\ ~Alone(c))

Fault == faults < MaxFaults /\ faults' = faults + 1

--------------------------------------------------------------------------------
(* StateGuardMiddleware.__call__ *)

Arrives(c, i) ==
  /\ At(c, "idle")
  /\ call' = [call EXCEPT ![c] = [pc |-> "guard", does |-> FirstHandler(i, state),
                                  read |-> "none"]]
  /\ UNCHANGED <<fsm, db, turned, bereft, faults, changes>>

GuardReadsData(c) ==
  /\ At(c, "guard")
  /\ IF data.role # "none" THEN Goes(c, "check", data.role) ELSE Goes(c, "fetch", "none")
  /\ UNCHANGED <<fsm, db, turned, bereft, faults, changes>>

GuardFetches(c) ==
  /\ At(c, "fetch")
  /\ Goes(c, IF role = "none" THEN "unknown" ELSE "cache", role)
  /\ UNCHANGED <<fsm, db, turned, bereft, faults, changes>>

\* A user without a row has no business in a state
GuardDropsState(c) ==
  /\ At(c, "unknown")
  /\ IF state # "none" THEN Clears(c) ELSE UNCHANGED <<fsm, turned>>
  /\ Goes(c, "handler", "none")
  /\ UNCHANGED <<db, bereft, faults, changes>>

GuardCaches(c) ==
  /\ At(c, "cache")
  /\ data' = [data EXCEPT !.role = call[c].read, !.by = "guard"]
  /\ Goes(c, "check", call[c].read)
  /\ UNCHANGED <<state, db, turned, bereft, faults, changes>>

\* "Passenger" in the state of a driver, "Driver" in the state of a passenger
Foreign(r, s) == \/ r = "driver" /\ s \in PassengerStates
                 \/ r = "passenger" /\ s \in DriverStates

GuardChecks(c) ==
  /\ At(c, "check")
  /\ Goes(c, IF Foreign(call[c].read, state) THEN "pollution" ELSE "handler", "none")
  /\ UNCHANGED <<fsm, db, turned, bereft, faults, changes>>

GuardClears(c) ==
  /\ At(c, "pollution")
  /\ Clears(c)
  /\ Goes(c, "handler", "none")
  /\ UNCHANGED <<db, bereft, faults, changes>>

\* An error in the guard or in the handler: the state is cleared, the update lost
GuardCatches(c) ==
  /\ ~At(c, "idle") /\ Fault
  /\ Clears(c) /\ Ends(c)
  /\ UNCHANGED <<db, bereft, changes>>

--------------------------------------------------------------------------------
(* with_driver_session and with_passenger_session around a menu handler *)

\* Mutant: the handler goes on without looking at the role
DecoratorTrusts(c) ==
  /\ At(c, "handler") /\ (Does(c, "driver") \/ Does(c, "passenger"))
  /\ Goes(c, "acting", role)
  /\ UNCHANGED <<fsm, db, turned, bereft, faults, changes>>

\* SkipHandler: the next handler that matches is the fallback
DecoratorLooksUp(c) ==
  /\ At(c, "handler") /\ (Does(c, "driver") \/ Does(c, "passenger"))
  /\ IF role # call[c].does THEN
       call' = [call EXCEPT ![c].does = "fallback", ![c].pc = "guard"]
     ELSE IF call[c].does \notin profiles THEN Ends(c)
     ELSE Goes(c, "acting", role)
  /\ UNCHANGED <<fsm, db, turned, bereft, faults, changes>>

\* The menus of driver/ and passenger/ lead to a state of their own, or out of it
MenuActs(c) ==
  /\ At(c, "acting")
  /\ \/ /\ state' \in IF Does(c, "driver") THEN DriverStates ELSE PassengerStates
        /\ UNCHANGED <<data, turned>>
     \/ Clears(c)
  /\ Ends(c)
  /\ UNCHANGED <<db, bereft, faults, changes>>

--------------------------------------------------------------------------------
(* cmd_start *)

Verdict ==
  IF role = "none" THEN "register"
  ELSE IF isBlocked \/ role = "admin" THEN "message"
  ELSE IF role \notin profiles THEN "register"
  ELSE IF role = "passenger" THEN "menu"
  ELSE IF ride = "active" THEN "ride" ELSE "wait"

\* cleanup_stuck_driver_state, of a driver on a trip without an order
StartReads(c) ==
  /\ At(c, "handler") /\ Does(c, "start")
  /\ Goes(c, "starting", Verdict)
  /\ ride' = IF Verdict = "wait" THEN "no" ELSE ride
  /\ UNCHANGED <<fsm, role, isBlocked, profiles, turned, bereft, faults, changes>>

\* After the greeting and, for a new user, the videos.  To register, and on a
\* trip, the data stays.
StartWrites(c) ==
  LET v == call[c].read IN
  /\ At(c, "starting")
  /\ state' = CASE v = "register" -> "choose_role"
                [] v \in {"ride", "wait"} -> "driving"
                [] v = "menu" -> "none"
                [] OTHER -> state
  /\ data' = IF v \in {"menu", "wait"} THEN NoData ELSE data
  /\ turned' = (turned /\ ~(v = "menu" /\ Alone(c)))
  /\ Ends(c)
  /\ UNCHANGED <<db, bereft, faults, changes>>

--------------------------------------------------------------------------------
(* registration.py *)

\* An answer that does not pass the validation: the question stays
AnswerRejected(c) ==
  /\ At(c, "handler") /\ call[c].does \in TextQuestions
  /\ Ends(c)
  /\ UNCHANGED <<fsm, db, turned, bereft, faults, changes>>

\* choose_role and phone_contact: update_data ...
ChooseRole(c) ==
  /\ At(c, "handler") /\ Does(c, "choose_role")
  /\ \E r \in {"driver", "passenger"} : data' = [data EXCEPT !.role = r, !.by = "dialogue"]
  /\ Goes(c, "asking", "none")
  /\ UNCHANGED <<state, db, turned, bereft, faults, changes>>

PhoneNumber(c) ==
  /\ At(c, "handler") /\ Does(c, "phone_number")
  /\ data' = [data EXCEPT !.answers = TRUE]
  /\ Goes(c, "asking", data.role)
  /\ UNCHANGED <<state, db, turned, bereft, faults, changes>>

\* ... and set_state, once the next question has been sent
Asks(c) ==
  /\ At(c, "asking")
  /\ state' = IF Does(c, "choose_role") THEN "phone_number"
              ELSE IF call[c].read = "driver" THEN "driver_full_name"
              ELSE "passenger_full_name"
  /\ Ends(c)
  /\ UNCHANGED <<data, db, turned, bereft, faults, changes>>

\* driver_full_name, passenger_gender and the others alike
FullName(c) ==
  /\ At(c, "handler") /\ call[c].does \in DOMAIN NextQuestion
  /\ state' = NextQuestion[call[c].does]
  /\ Ends(c)
  /\ UNCHANGED <<data, db, turned, bereft, faults, changes>>

\* Mutant: the row is made for the role the data has by now
RegisteredAsCached(c) == data.role

RegisteredAs(c) == IF Does(c, "driver_car_number") THEN "driver" ELSE "passenger"

\* driver_car_number and passenger_age: the data and the checks of what is taken
\* (a phone or a car of somebody else, or the user's own car) ...
LastReads(c) ==
  /\ At(c, "handler") /\ call[c].does \in LastQuestions
  /\ \/ data.answers /\ Goes(c, "saving", role)
     \/ Goes(c, "clearing", "none")
  /\ UNCHANGED <<fsm, db, turned, bereft, faults, changes>>

\* ... one transaction, undone as a whole if a row is there already ...
Conflict(c) ==
  \/ call[c].read = "none" /\ role # "none"
  \/ RegisteredAs(c) \in profiles

\* Mutant: the user's row is committed before the profile's
CommitsApart(c) ==
  /\ At(c, "saving")
  /\ role' = RegisteredAs(c) /\ turned' = TRUE
  /\ IF Conflict(c)
       THEN UNCHANGED <<profiles, bereft>>
       ELSE profiles' = profiles \cup {RegisteredAs(c)} /\ bereft' = FALSE
  /\ Goes(c, "clearing", "none")
  /\ UNCHANGED <<fsm, isBlocked, ride, faults, changes>>

LastCommits(c) ==
  /\ At(c, "saving")
  /\ IF Conflict(c)
       THEN UNCHANGED <<role, profiles, turned, bereft>>
       ELSE /\ role' = RegisteredAs(c)
            /\ profiles' = profiles \cup {RegisteredAs(c)}
            /\ bereft' = FALSE
            /\ turned' = TRUE
  /\ Goes(c, "clearing", "none")
  /\ UNCHANGED <<fsm, isBlocked, ride, faults, changes>>

\* ... and the conversation starts afresh
LastClears(c) ==
  /\ At(c, "clearing")
  /\ Clears(c) /\ Ends(c)
  /\ UNCHANGED <<db, bereft, faults, changes>>

--------------------------------------------------------------------------------
(* common.py *)

CancelReads(c) ==
  /\ At(c, "handler") /\ Does(c, "cancel")
  /\ IF state = "none" THEN Ends(c) ELSE Goes(c, "cancelling", "none")
  /\ UNCHANGED <<fsm, db, turned, bereft, faults, changes>>

CancelClears(c) ==
  /\ At(c, "cancelling")
  /\ Clears(c) /\ Ends(c)
  /\ UNCHANGED <<db, bereft, faults, changes>>

\* generic_fallback and get_video_id: a message
Fallback(c) ==
  /\ At(c, "handler") /\ Does(c, "fallback")
  /\ Ends(c)
  /\ UNCHANGED <<fsm, db, turned, bereft, faults, changes>>

--------------------------------------------------------------------------------
(* The panel, time, and the rides of the other modules *)

Change == changes < MaxChanges /\ changes' = changes + 1

\* create_admin and delete_admin, which asks only that he is no glavni admin
PanelSetsRole(r) ==
  /\ r = "passenger" => role # "none"
  /\ role # r
  /\ Change
  /\ role' = r /\ isBlocked' = (isBlocked /\ r # "admin")
  /\ turned' = (turned \/ Underway) /\ bereft' = (bereft \/ r = "passenger")
  /\ UNCHANGED <<fsm, profiles, ride, call, faults>>

\* delete_driver and delete_passenger: the profile, not the user
PanelDeletes(p) ==
  /\ p \in profiles /\ Change
  /\ profiles' = profiles \ {p}
  /\ ride' = IF p = "driver" THEN "no" ELSE ride
  /\ bereft' = (bereft \/ p = role)
  /\ UNCHANGED <<fsm, role, isBlocked, call, turned, faults>>

\* block_passenger and unblock_passenger
PanelBlocks ==
  /\ "passenger" \in profiles /\ Change
  /\ isBlocked' = ~isBlocked
  /\ UNCHANGED <<fsm, role, profiles, ride, call, turned, bereft, faults>>

\* state_ttl and data_ttl
Lapses ==
  /\ Fault
  /\ \/ state # "none" /\ state' = "none" /\ UNCHANGED data
     \/ data # NoData /\ data' = NoData /\ UNCHANGED state
  /\ UNCHANGED <<db, call, turned, bereft, changes>>

Rides ==
  /\ "driver" \in profiles /\ Change
  /\ ride' \in {"no", "active", "stuck"} \ {ride}
  /\ UNCHANGED <<fsm, role, isBlocked, profiles, call, turned, bereft, faults>>

--------------------------------------------------------------------------------

Init ==
  /\ state = "none" /\ data = NoData
  /\ role = "none" /\ isBlocked = FALSE /\ profiles = {} /\ ride = "no"
  /\ call = [c \in Calls |-> Idle]
  /\ turned = FALSE /\ bereft = FALSE
  /\ faults = 0 /\ changes = 0

GuardStep(c) ==
  \/ GuardReadsData(c) \/ GuardFetches(c) \/ GuardDropsState(c) \/ GuardCaches(c)
  \/ GuardChecks(c) \/ GuardClears(c)

HandlerStep(c) ==
  \/ DecoratorLooksUp(c) \/ MenuActs(c)
  \/ StartReads(c) \/ StartWrites(c)
  \/ AnswerRejected(c) \/ ChooseRole(c) \/ PhoneNumber(c) \/ FullName(c) \/ Asks(c)
  \/ LastReads(c) \/ LastCommits(c) \/ LastClears(c)
  \/ CancelReads(c) \/ CancelClears(c) \/ Fallback(c)

Panel ==
  \/ \E r \in {"admin", "passenger"} : PanelSetsRole(r)
  \/ \E p \in {"driver", "passenger"} : PanelDeletes(p)
  \/ PanelBlocks

Next ==
  \/ \E c \in Calls : GuardStep(c) \/ HandlerStep(c) \/ GuardCatches(c)
                      \/ \E i \in Inputs : Arrives(c, i)
  \/ Panel \/ Lapses \/ Rides

Spec == Init /\ [][Next]_vars

--------------------------------------------------------------------------------
(* Properties *)

TypeOK ==
  /\ state \in States
  /\ data \in [role: Roles, by: {"guard", "dialogue"}, answers: BOOLEAN]
  /\ role \in Roles /\ isBlocked \in BOOLEAN
  /\ profiles \subseteq {"driver", "passenger"} /\ ride \in {"no", "active", "stuck"}
  /\ call \in [Calls -> [pc: {"idle", "guard", "fetch", "unknown", "cache", "check",
                              "pollution", "handler", "acting", "starting", "asking",
                              "saving", "clearing", "cancelling"},
                         does: Handlers,
                         read: Roles \cup {"register", "message", "menu", "ride", "wait"}]]
  /\ turned \in BOOLEAN /\ bereft \in BOOLEAN
  /\ faults \in 0..MaxFaults /\ changes \in 0..MaxChanges

\* Who is a driver, or a passenger, has the row that his handlers work on, however
\* registrations, their retries and the panel interleave, unless the panel took it
\* or gave him the role.
RoleHasProfile == role \in {"driver", "passenger"} => role \in profiles \/ bereft

\* The role the guard has cached is the user's role, unless it was changed under
\* the conversation.  (A role chosen in the dialogue is under the same key.)
CacheFollowsRole == data.by = "guard" => data.role \in {"none", role} \/ turned

\* A driver's state is a driver's, and a passenger's a passenger's, with the same
\* exception: then the guard lets the wrong handlers' states stand.
StateFitsRole == ~Foreign(role, state) \/ turned
================================================================================
