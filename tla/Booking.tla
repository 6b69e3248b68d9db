-------------------------------- MODULE Booking --------------------------------
(***************************************************************************)
(* The catalogue of routes (models/route.py, admin/routes/settings.py) and *)
(* the two dialogues that choose from it: the passenger's, which ends with *)
(* an order (bot/handlers/passenger/booking.py, create_new_order), and the *)
(* driver's, which puts him online (bot/handlers/driver/location.py and    *)
(* main_menu.py).                                                          *)
(*                                                                         *)
(* Two messages of the passenger may be handled at once.  update_data      *)
(* reads the conversation's data and writes all of it back; the data, the  *)
(* state, the database and the broker are written one after the other, and *)
(* a handler that fails anywhere loses what is left of it.  What becomes   *)
(* of a stored order is in Matching, of a driver online in DriverQueue;    *)
(* that the passenger is registered is in Conversation, how often he may   *)
(* start in RateLimit.                                                     *)
(***************************************************************************)
EXTENDS Integers, FiniteSets

CONSTANTS
  Calls,         \* the passenger's messages that may be in the handlers at once
  Routes, None,  \* ids of rows of routes; one id is used once
  Way,           \* route -> the pair (from_location, to_location)
  MaxDialogues,  \* bound: bookings he starts
  Keys,          \* idempotency keys, numbered as they are drawn
  MaxChanges,    \* bound: what the office does to the routes
  MaxFaults      \* bound: crashes, errors of Telegram and of the broker

VARIABLES
  route,        \* id -> "unborn", "on", "off", "gone"
  state, data,  \* the passenger's FSM state and data
  call,         \* call -> where its handling is and what it has read
  order,        \* key -> the order that carries it
  dialogue,     \* number of the dialogue, and
  shared,       \* those in which two messages were handled at once
  finds,        \* keys of orders a find task was published for
  chat, row,    \* the driver's FSM state with its route, and his row
  stranded,     \* he was online on a route when it was deleted
  changes, faults

talk   == <<state, data, call, dialogue, shared>>
store  == <<order, finds>>
driver == <<chat, row, stranded>>
vars   == <<route, talk, store, driver, changes, faults>>

--------------------------------------------------------------------------------
Born == {r \in Routes : route[r] # "unborn"}
Rows == {r \in Routes : route[r] \in {"on", "off"}}

\* get_all_active_routes
Offered == {r \in Routes : route[r] = "on"}

Empty   == [route |-> None, place |-> FALSE, count |-> FALSE, key |-> 0, created |-> FALSE]
Idle    == [pc |-> "idle", seen |-> Empty, next |-> "none", key |-> 0, route |-> None, of |-> 0]
NoOrder == [status |-> "none", route |-> None, of |-> 0]

At(c, p)   == call[c].pc = p
Goes(c, p) == call' = [call EXCEPT ![c].pc = p]
Ends(c)    == call' = [call EXCEPT ![c] = Idle]
Clears     == state' = "none" /\ data' = Empty
Fault      == faults < MaxFaults /\ faults' = faults + 1
Works      == UNCHANGED faults

\* Whatever is in the handlers when a message comes shares its dialogue
Meets(c) ==
  shared' = IF \A o \in Calls \ {c} : At(o, "idle") THEN shared
            ELSE shared \cup {dialogue} \cup {call[o].of : o \in Calls \ {c}}

--------------------------------------------------------------------------------
(* The passenger's dialogue *)

StartBooking(c) ==
  /\ At(c, "idle") /\ Offered # {} /\ dialogue < MaxDialogues
  /\ state' = "choose_route" /\ dialogue' = dialogue + 1
  /\ UNCHANGED <<route, data, call, shared, store, driver, changes, faults>>

\* update_data has read; it writes, and the handler goes on to "next"
Updates(c, d, next) ==
  call' = [call EXCEPT ![c].pc = "writes", ![c].seen = d, ![c].next = next]

Arrives(c, d, next) ==
  /\ At(c, "idle") /\ Meets(c)
  /\ call' = [call EXCEPT ![c].pc = "writes", ![c].seen = d, ![c].next = next,
                          ![c].of = dialogue]
  /\ UNCHANGED <<route, state, data, dialogue, store, driver, changes, faults>>

\* A button that an old keyboard kept: it is asked whether the row is there
RouteSelected(c) ==
  \E r \in Rows : state = "choose_route"
                  /\ Arrives(c, [data EXCEPT !.route = r], "send_location")

LocationReceived(c) ==
  state = "send_location" /\ Arrives(c, [data EXCEPT !.place = TRUE], "location_description")

DescriptionReceived(c) == state = "location_description" /\ Arrives(c, data, "add_details")

CountSelected(c) == state = "add_details" /\ Arrives(c, [data EXCEPT !.count = TRUE], "finalizes")

Writes(c) ==
  /\ At(c, "writes")
  /\ data' = call[c].seen
  /\ call' = [call EXCEPT ![c].pc = call[c].next, ![c].seen = Empty, ![c].next = "none"]
  /\ UNCHANGED <<route, state, dialogue, shared, store, driver, changes, faults>>

\* set_state with which the handlers of the first three answers end
Asks(c) ==
  /\ call[c].pc \in {"send_location", "location_description", "add_details"}
  /\ state' = call[c].pc /\ Ends(c)
  /\ UNCHANGED <<route, data, dialogue, shared, store, driver, changes, faults>>

\* /cancel, /start, and the end of the life of the conversation's keys
Leaves ==
  /\ state # "none" /\ Clears
  /\ UNCHANGED <<route, call, dialogue, shared, store, driver, changes, faults>>

--------------------------------------------------------------------------------
(* finalize_order *)

Fresh(k) == order[k].status = "none" /\ \A j \in Keys : j < k => order[j].status # "none"

\* Mutant: each press draws a key
Draws(key) == TRUE

Misses(key) == key = 0

\* Already created: an answer, and nothing is cleared.  An answer that is missing is a
\* KeyError, after which the guard clears.  Otherwise the order is made, with the key
\* in the data or a new one.
Finalizes(c) ==
  /\ At(c, "finalizes")
  /\ IF data.created THEN Ends(c) /\ UNCHANGED <<state, data, order>>
     ELSE IF data.route = None \/ ~data.place \/ ~data.count
       THEN Ends(c) /\ Clears /\ UNCHANGED order
     ELSE /\ UNCHANGED <<state, data>>
          /\ IF Misses(data.key)
               THEN \E k \in Keys :
                      /\ Fresh(k) /\ order' = [order EXCEPT ![k].status = "drawn"]
                      /\ call' = [call EXCEPT ![c].pc = "keeps", ![c].key = k,
                                              ![c].route = data.route]
               ELSE /\ call' = [call EXCEPT ![c].pc = "inserts", ![c].key = data.key,
                                            ![c].route = data.route]
                    /\ UNCHANGED order
  /\ UNCHANGED <<route, dialogue, shared, finds, driver, changes, faults>>

KeepsKey(c) ==
  /\ At(c, "keeps")
  /\ Updates(c, [data EXCEPT !.key = call[c].key], "inserts")
  /\ UNCHANGED <<route, state, data, dialogue, shared, store, driver, changes, faults>>

\* Mutant: an order may name a route that is gone
AnyRoute(c) == TRUE

RouteThere(c) == call[c].route \in Rows

\* create_new_order: the row of another transaction with the key is waited for, one that
\* is stored and a route that is gone are errors, answered as a failure
Inserts(c) ==
  LET k == call[c].key IN
  /\ At(c, "inserts") /\ order[k].status # "open"
  /\ IF order[k].status = "drawn" /\ RouteThere(c)
       THEN /\ order' = [order EXCEPT ![k] =
                          [status |-> "open", route |-> call[c].route, of |-> call[c].of]]
            /\ call' = [call EXCEPT ![c].pc = "commits", ![c].route = None]
       ELSE Goes(c, "clears") /\ UNCHANGED order
  /\ UNCHANGED <<route, state, data, dialogue, shared, finds, driver, changes, faults>>

Commits(c) ==
  /\ At(c, "commits")
  /\ order' = [order EXCEPT ![call[c].key].status = "stored"] /\ Goes(c, "publishes")
  /\ UNCHANGED <<route, state, data, dialogue, shared, finds, driver, changes, faults>>

\* The broker's error turns a stored order into an answered failure
Publishes(c) ==
  /\ At(c, "publishes")
  /\ \/ Works /\ finds' = finds \cup {call[c].key} /\ Goes(c, "records")
     \/ Fault /\ Goes(c, "clears") /\ UNCHANGED finds
  /\ UNCHANGED <<route, state, data, dialogue, shared, order, driver, changes>>

RecordsOrder(c) ==
  /\ At(c, "records")
  /\ Updates(c, [data EXCEPT !.created = TRUE], "tells")
  /\ UNCHANGED <<route, state, data, dialogue, shared, store, driver, changes, faults>>

\* The answers and the second publication; an error is left to the guard, which clears
Tells(c) ==
  /\ At(c, "tells")
  /\ \/ Works /\ finds' = finds \cup {call[c].key}
     \/ Fault /\ UNCHANGED finds
  /\ Goes(c, "clears")
  /\ UNCHANGED <<route, state, data, dialogue, shared, order, driver, changes>>

ClearsData(c) ==
  /\ At(c, "clears") /\ Clears /\ Ends(c)
  /\ UNCHANGED <<route, dialogue, shared, store, driver, changes, faults>>

\* A restart of the bot: what is in the handlers is lost, what is open undone
Crash ==
  /\ \E c \in Calls : ~At(c, "idle")
  /\ Fault
  /\ call' = [c \in Calls |-> Idle]
  /\ order' = [k \in Keys |->
       IF order[k].status = "open" THEN [NoOrder EXCEPT !.status = "drawn"] ELSE order[k]]
  /\ UNCHANGED <<route, state, data, dialogue, shared, finds, driver, changes>>

--------------------------------------------------------------------------------
(* The driver's dialogue; what lets him begin is in Ledger and DriverQueue *)

Chats(s, r) == chat' = [state |-> s, route |-> r]

DriverStarts ==
  /\ Chats(IF row.active THEN "waiting_orders" ELSE "send_location", chat.route)
  /\ UNCHANGED <<route, talk, store, row, stranded, changes, faults>>

DriverLocates ==
  /\ chat.state = "send_location"
  /\ IF Offered = {} THEN Chats("none", None) ELSE Chats("choose_route", chat.route)
  /\ UNCHANGED <<route, talk, store, row, stranded, changes, faults>>

\* Nobody asks whether the route of the button is still there
DriverChooses ==
  /\ chat.state = "choose_route"
  /\ \E r \in Born : Chats("enter_seats", r)
  /\ UNCHANGED <<route, talk, store, row, stranded, changes, faults>>

\* ... until his row is to refer to it; the error is the guard's
DriverTakesSeats ==
  /\ chat.state = "enter_seats"
  /\ IF chat.route \in Rows
       THEN /\ row' = [active |-> TRUE, route |-> chat.route]
            /\ stranded' = FALSE /\ Chats("waiting_orders", chat.route)
       ELSE Chats("none", None) /\ UNCHANGED <<row, stranded>>
  /\ UNCHANGED <<route, talk, store, changes, faults>>

DriverStops ==
  /\ row' = [row EXCEPT !.active = FALSE]
  /\ Chats("none", None)
  /\ UNCHANGED <<route, talk, store, stranded, changes, faults>>

--------------------------------------------------------------------------------
(* The office *)

Change == changes < MaxChanges /\ changes' = changes + 1

\* A pair that has a row is refused, by the query or by the unique index
CreateRoute(r) ==
  /\ route[r] = "unborn" /\ \A q \in Rows : Way[q] # Way[r]
  /\ Change /\ route' = [route EXCEPT ![r] = "on"]
  /\ UNCHANGED <<talk, store, driver, faults>>

ToggleRoute(r) ==
  /\ r \in Rows
  /\ Change /\ route' = [route EXCEPT ![r] = IF @ = "on" THEN "off" ELSE "on"]
  /\ UNCHANGED <<talk, store, driver, faults>>

UnsetRoute(r) == IF row.route = r THEN [row EXCEPT !.route = None] ELSE row

\* The row is deleted, whatever refers to it: its orders go with it, a driver is left
\* online on no route.  An insert under way holds the row.
DeleteRoute(r) ==
  /\ r \in Rows
  /\ \A k \in Keys : order[k].status = "open" => order[k].route # r
  /\ Change /\ route' = [route EXCEPT ![r] = "gone"]
  /\ order' = [k \in Keys |-> IF order[k].route = r
                                THEN [order[k] EXCEPT !.status = "gone"] ELSE order[k]]
  /\ row' = UnsetRoute(r)
  /\ stranded' = (stranded \/ (row.active /\ row.route = r))
  /\ UNCHANGED <<talk, finds, chat, faults>>

--------------------------------------------------------------------------------

Init ==
  /\ route \in [Routes -> {"unborn", "on"}]
  /\ Offered # {}
  /\ \A q, r \in Rows : q # r => Way[q] # Way[r]
  /\ state = "none" /\ data = Empty /\ call = [c \in Calls |-> Idle]
  /\ order = [k \in Keys |-> NoOrder]
  /\ dialogue = 0 /\ shared = {} /\ finds = {}
  /\ chat = [state |-> "none", route |-> None]
  /\ row = [active |-> FALSE, route |-> None]
  /\ stranded = FALSE /\ changes = 0 /\ faults = 0

Talks(c) ==
  \/ StartBooking(c) \/ RouteSelected(c) \/ LocationReceived(c) \/ DescriptionReceived(c)
  \/ CountSelected(c) \/ Writes(c) \/ Asks(c) \/ Finalizes(c) \/ KeepsKey(c) \/ Inserts(c)
  \/ Commits(c) \/ Publishes(c) \/ RecordsOrder(c) \/ Tells(c) \/ ClearsData(c)

Passenger == (\E c \in Calls : Talks(c)) \/ Leaves \/ Crash

Driver == DriverStarts \/ DriverLocates \/ DriverChooses \/ DriverTakesSeats \/ DriverStops

Office == \E r \in Routes : CreateRoute(r) \/ ToggleRoute(r) \/ DeleteRoute(r)

Next == Passenger \/ Driver \/ Office

Spec == Init /\ [][Next]_vars

--------------------------------------------------------------------------------
(* Properties *)

TypeOK ==
  /\ route \in [Routes -> {"unborn", "on", "off", "gone"}]
  /\ state \in {"none", "choose_route", "send_location", "location_description", "add_details"}
  /\ data.route \in Routes \cup {None} /\ data.key \in Keys \cup {0}
  /\ \A c \in Calls : call[c].key \in Keys \cup {0} /\ call[c].of \in 0..MaxDialogues
  /\ \A k \in Keys : /\ order[k].status \in {"none", "drawn", "open", "stored", "gone"}
                     /\ order[k].of \in 0..MaxDialogues
  /\ dialogue \in 0..MaxDialogues /\ shared \subseteq 0..MaxDialogues
  /\ finds \subseteq {k \in Keys : order[k].status \in {"stored", "gone"}}
  /\ chat.state \in {"none", "send_location", "choose_route", "enter_seats", "waiting_orders"}
  /\ row.route \in Routes \cup {None} /\ stranded \in BOOLEAN

\* One dialogue makes one order, whatever is pressed again after an error or a restart
\* (finalize_order, its idempotency key): two come only of messages that were handled
\* at once.
OneOrderPerDialogue ==
  \A j, k \in Keys :
    /\ j # k /\ order[j].status = "stored" /\ order[k].status = "stored"
    /\ order[j].of = order[k].of
    => order[j].of \in shared

\* A stored order and an online driver have a route that exists; only a driver whose
\* route was deleted under him is online on none (delete_route deletes the row).
NoDanglingRoute ==
  /\ \A k \in Keys : order[k].status \in {"open", "stored"} => order[k].route \in Rows
  /\ row.active => row.route \in Rows \/ (row.route = None /\ stranded)
================================================================================
