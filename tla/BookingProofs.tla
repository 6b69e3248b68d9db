----------------------------- MODULE BookingProofs -----------------------------
(***************************************************************************)
(* Proofs about Booking: what is stored names a route that is there, and   *)
(* one dialogue makes one order, for any number of messages in the         *)
(* handlers, dialogues, routes, changes of the catalogue and crashes.      *)
(***************************************************************************)
EXTENDS Booking, TLAPS

--------------------------------------------------------------------------------
(* Types *)

\* Keys are numbered from one; no route is called None
ConstantsFit == None \notin Routes /\ Keys \subseteq Nat \ {0} /\ MaxDialogues \in Nat

Questions == {"send_location", "location_description", "add_details"}
Making    == {"keeps", "inserts", "commits", "publishes", "records", "tells"}
Pcs       == {"idle", "writes", "finalizes", "clears"} \cup Questions \cup Making
Nexts     == {"finalizes", "inserts", "tells"} \cup Questions

DataRec  == [route : Routes \cup {None}, place : BOOLEAN, count : BOOLEAN,
             key : Keys \cup {0}, created : BOOLEAN]
CallRec  == [pc : Pcs, seen : DataRec, next : Nexts \cup {"none"},
             key : Keys \cup {0}, route : Routes \cup {None}, of : 0 .. MaxDialogues]
OrderRec == [status : {"none", "drawn", "open", "stored", "gone"},
             route : Routes \cup {None}, of : 0 .. MaxDialogues]
ChatRec  == [state : {"none", "send_location", "choose_route", "enter_seats", "waiting_orders"},
             route : Routes \cup {None}]
RowRec   == [active : BOOLEAN, route : Routes \cup {None}]

DialogueTyped ==
  /\ state \in {"none", "choose_route"} \cup Questions
  /\ data \in DataRec
  /\ dialogue \in 0 .. MaxDialogues /\ shared \subseteq 0 .. MaxDialogues
CallsTyped  == call \in [Calls -> CallRec]
OrdersTyped == order \in [Keys -> OrderRec]
DriverTyped == chat \in ChatRec /\ row \in RowRec /\ stranded \in BOOLEAN
RoutesTyped == route \in [Routes -> {"unborn", "on", "off", "gone"}]

Typed == DialogueTyped /\ CallsTyped /\ OrdersTyped /\ DriverTyped /\ RoutesTyped

\* Where the handling is once what it has read is written
StageOf(q) == IF q.pc = "writes" THEN q.next ELSE q.pc
Stage(c) == StageOf(call[c])

Busy(c) == ~At(c, "idle")
Made(k) == order[k].status \in {"open", "stored", "gone"}

\* Who has a key has drawn it; an insert that is not committed is its own; a find task is
\* published for what is stored
KeyFits(c) ==
  /\ At(c, "writes") => call[c].next \in Nexts
  /\ Stage(c) \in Making => call[c].key \in Keys
  /\ Stage(c) \in {"publishes", "records", "tells"}
       => order[call[c].key].status \in {"stored", "gone"}
  /\ At(c, "commits") => order[call[c].key].status = "open"

KeysFit ==
  /\ \A c \in Calls : KeyFits(c)
  /\ \A c, o \in Calls :
       c # o /\ At(c, "commits") /\ At(o, "commits") => call[c].key # call[o].key

\* What is not made is on no route, and nobody searches for it
OrdersFit ==
  /\ \A k \in finds : k \in Keys /\ order[k].status \in {"stored", "gone"}
  /\ \A k \in Keys : ~Made(k) => order[k].route = None

Fits == Typed /\ KeysFit /\ OrdersFit

LEMMA FitsImplies ==
  ASSUME Fits
  PROVE  TypeOK
<1>1. /\ data.route \in Routes \cup {None} /\ data.key \in Keys \cup {0}
      /\ chat.state \in {"none", "send_location", "choose_route", "enter_seats", "waiting_orders"}
      /\ row.route \in Routes \cup {None} /\ stranded \in BOOLEAN
  BY DEF Fits, Typed, DialogueTyped, DriverTyped, DataRec, ChatRec, RowRec
<1>2. \A c \in Calls : call[c].key \in Keys \cup {0} /\ call[c].of \in 0 .. MaxDialogues
  BY DEF Fits, Typed, CallsTyped, CallRec
<1>3. \A k \in Keys : /\ order[k].status \in {"none", "drawn", "open", "stored", "gone"}
                      /\ order[k].of \in 0 .. MaxDialogues
  BY DEF Fits, Typed, OrdersTyped, OrderRec
<1> QED
  BY <1>1, <1>2, <1>3
     DEF Fits, Typed, DialogueTyped, RoutesTyped, OrdersFit, Questions, TypeOK

LEMMA NamesTyped ==
  ASSUME ConstantsFit
  PROVE  /\ Empty \in DataRec /\ Empty.route = None /\ Empty.key = 0
         /\ Idle \in CallRec /\ Idle.pc = "idle"
         /\ NoOrder \in OrderRec /\ NoOrder.route = None
         /\ [NoOrder EXCEPT !.status = "drawn"] \in OrderRec
         /\ [NoOrder EXCEPT !.status = "drawn"].status = "drawn"
         /\ [NoOrder EXCEPT !.status = "drawn"].route = None
         /\ [NoOrder EXCEPT !.status = "drawn"].of = 0
<1>1. Empty \in DataRec /\ Empty.route = None /\ Empty.key = 0
  BY DEF Empty, DataRec
<1>2. Idle \in CallRec /\ Idle.pc = "idle"
  BY <1>1 DEF ConstantsFit, Idle, CallRec, Pcs
<1> QED
  BY <1>1, <1>2 DEF ConstantsFit, NoOrder, OrderRec

--------------------------------------------------------------------------------
(* What a step does to the call that takes it *)

Becomes(c, q) == call' = [b \in Calls |-> IF b = c THEN q ELSE call[b]]

\* Its next record, of the same dialogue
Turns(c, q) == Becomes(c, q) /\ q \in CallRec /\ q.of = call[c].of

LEMMA GoesTurns ==
  ASSUME CallsTyped, NEW c \in Calls, NEW p \in Pcs, Goes(c, p)
  PROVE  \E q : Turns(c, q) /\ q.pc = p /\ q.key = call[c].key
<1>1. PICK q : q = [call[c] EXCEPT !.pc = p]
  OBVIOUS
<1>2. q \in CallRec /\ q.pc = p /\ q.key = call[c].key /\ q.of = call[c].of
  BY <1>1 DEF CallsTyped, CallRec
<1>3. Becomes(c, q)
  BY <1>1 DEF CallsTyped, Goes, Becomes, CallRec
<1> QED
  BY <1>2, <1>3 DEF Turns

LEMMA UpdatesTurns ==
  ASSUME CallsTyped, NEW c \in Calls, NEW d \in DataRec, NEW p \in Nexts, Updates(c, d, p)
  PROVE  \E q : Turns(c, q) /\ q.pc = "writes" /\ q.seen = d /\ q.next = p
                           /\ q.key = call[c].key
<1>1. PICK q : q = [call[c] EXCEPT !.pc = "writes", !.seen = d, !.next = p]
  OBVIOUS
<1>2. q \in CallRec /\ q.pc = "writes" /\ q.seen = d /\ q.next = p
        /\ q.key = call[c].key /\ q.of = call[c].of
  BY <1>1 DEF CallsTyped, CallRec, Pcs
<1>3. Becomes(c, q)
  BY <1>1 DEF CallsTyped, Updates, Becomes, CallRec
<1> QED
  BY <1>2, <1>3 DEF Turns

LEMMA ArrivesBecomes ==
  ASSUME CallsTyped, DialogueTyped, NEW c \in Calls, NEW d \in DataRec, NEW p \in Nexts,
         Arrives(c, d, p)
  PROVE  \E q \in CallRec : Becomes(c, q) /\ q.pc = "writes" /\ q.seen = d /\ q.next = p
                            /\ q.of = dialogue
<1>1. PICK q : q = [call[c] EXCEPT !.pc = "writes", !.seen = d, !.next = p, !.of = dialogue]
  OBVIOUS
<1>2. q \in CallRec /\ q.pc = "writes" /\ q.seen = d /\ q.next = p /\ q.of = dialogue
  BY <1>1 DEF CallsTyped, DialogueTyped, CallRec, Pcs
<1>3. Becomes(c, q)
  BY <1>1 DEF CallsTyped, Arrives, Becomes, CallRec
<1> QED
  BY <1>2, <1>3

LEMMA WritesTurns ==
  ASSUME CallsTyped, NEW c \in Calls, Writes(c), KeyFits(c), ConstantsFit
  PROVE  \E q : Turns(c, q) /\ q.pc = call[c].next /\ q.key = call[c].key
<1>1. PICK p \in Pcs : p = call[c].next
  BY DEF KeyFits, Writes, At, Nexts, Pcs, Making
<1>2. PICK q : q = [call[c] EXCEPT !.pc = p, !.seen = Empty, !.next = "none"]
  OBVIOUS
<1>3. q \in CallRec /\ q.pc = p /\ q.key = call[c].key /\ q.of = call[c].of
  BY <1>2, NamesTyped DEF CallsTyped, CallRec
<1>4. Becomes(c, q)
  BY <1>1, <1>2 DEF CallsTyped, Writes, Becomes, CallRec
<1> QED
  BY <1>1, <1>3, <1>4 DEF Turns

\* finalize_order goes on with a key
Takes(c, p, k, r) == call' = [call EXCEPT ![c].pc = p, ![c].key = k, ![c].route = r]

LEMMA TakesTurns ==
  ASSUME CallsTyped, NEW c \in Calls, NEW p \in Pcs, NEW k \in Keys,
         NEW r \in Routes \cup {None}, Takes(c, p, k, r)
  PROVE  \E q : Turns(c, q) /\ q.pc = p /\ q.key = k
<1>1. PICK q : q = [call[c] EXCEPT !.pc = p, !.key = k, !.route = r]
  OBVIOUS
<1>2. q \in CallRec /\ q.pc = p /\ q.key = k /\ q.of = call[c].of
  BY <1>1 DEF CallsTyped, CallRec
<1>3. Becomes(c, q)
  BY <1>1 DEF CallsTyped, Takes, Becomes, CallRec
<1> QED
  BY <1>2, <1>3 DEF Turns

LEMMA InsertedTurns ==
  ASSUME CallsTyped, NEW c \in Calls,
         call' = [call EXCEPT ![c].pc = "commits", ![c].route = None]
  PROVE  \E q : Turns(c, q) /\ q.pc = "commits" /\ q.key = call[c].key
<1>1. PICK q : q = [call[c] EXCEPT !.pc = "commits", !.route = None]
  OBVIOUS
<1>2. q \in CallRec /\ q.pc = "commits" /\ q.key = call[c].key /\ q.of = call[c].of
  BY <1>1 DEF CallsTyped, CallRec, Pcs, Making
<1>3. Becomes(c, q)
  BY <1>1 DEF CallsTyped, Becomes, CallRec
<1> QED
  BY <1>2, <1>3 DEF Turns

LEMMA EndsBecomes ==
  ASSUME CallsTyped, NEW c \in Calls, Ends(c)
  PROVE  Becomes(c, Idle)
  BY DEF CallsTyped, Ends, Becomes

LEMMA BecomesTyped ==
  ASSUME CallsTyped, NEW c \in Calls, NEW q \in CallRec, Becomes(c, q)
  PROVE  /\ CallsTyped'
         /\ call'[c] = q
         /\ \A o \in Calls \ {c} : call'[o] = call[o]
  BY DEF CallsTyped, Becomes

--------------------------------------------------------------------------------

\* A step of c: the orders of others stay as they are, or go on
LEMMA KeysStayFit ==
  ASSUME KeysFit, CallsTyped, NEW c \in Calls, NEW q \in CallRec, Becomes(c, q),
         \A k \in Keys :
           /\ order[k].status \in {"stored", "gone"} => order'[k].status \in {"stored", "gone"}
           /\ order[k].status = "open" => \/ order'[k].status = "open"
                                          \/ At(c, "commits") /\ k = call[c].key,
         q.pc = "writes" => q.next \in Nexts,
         StageOf(q) \in Making => q.key \in Keys,
         StageOf(q) \in {"publishes", "records", "tells"}
           => order'[q.key].status \in {"stored", "gone"},
         q.pc = "commits" => order'[q.key].status = "open" /\ order[q.key].status # "open"
  PROVE  KeysFit'
<1>1. call'[c] = q /\ \A o \in Calls \ {c} : call'[o] = call[o]
  BY BecomesTyped
<1>2. KeyFits(c)'
  BY <1>1 DEF KeyFits, Stage, At, StageOf, Making
<1>3. ASSUME NEW o \in Calls \ {c}
      PROVE  KeyFits(o)'
  <2>1. KeyFits(o) /\ call'[o] = call[o]
    BY <1>1 DEF KeysFit
  <2>2. Stage(o) \in {"publishes", "records", "tells"} =>
          /\ call[o].key \in Keys
          /\ order'[call[o].key].status \in {"stored", "gone"}
    BY <2>1 DEF KeyFits, Making
  <2>3. At(o, "commits") => order'[call[o].key].status = "open"
    <3> SUFFICES ASSUME At(o, "commits")
                 PROVE  order'[call[o].key].status = "open"
      OBVIOUS
    <3>1. call[o].key \in Keys /\ order[call[o].key].status = "open"
      BY <2>1 DEF KeyFits, Stage, StageOf, At, Making
    <3>2. At(c, "commits") => call[o].key # call[c].key
      BY DEF KeysFit
    <3> QED
      BY <3>1, <3>2
  <2> QED
    BY <2>1, <2>2, <2>3 DEF KeyFits, Stage, At
<1>4. \A o, b \in Calls : o # b /\ At(o, "commits")' /\ At(b, "commits")'
                         => call'[o].key # call'[b].key
  <2>1. \A o \in Calls \ {c} : At(o, "commits")' =>
          /\ At(o, "commits") /\ call'[o].key = call[o].key
          /\ order[call[o].key].status = "open"
    BY <1>1 DEF At, KeysFit, KeyFits
  <2>2. At(c, "commits")' => order[call'[c].key].status # "open"
    BY <1>1 DEF At
  <2>3. \A o, b \in Calls \ {c} : o # b /\ At(o, "commits") /\ At(b, "commits")
                                => call[o].key # call[b].key
    BY DEF KeysFit
  <2> QED
    BY <2>1, <2>2, <2>3
<1> QED
  BY <1>2, <1>3, <1>4 DEF KeysFit

\* ... and none is changed
LEMMA OnlyTheCall ==
  ASSUME Fits, NEW c \in Calls, NEW q \in CallRec, Becomes(c, q),
         UNCHANGED order, UNCHANGED driver, UNCHANGED route, DialogueTyped',
         \A k \in finds' : k \in finds \/ (k \in Keys /\ order[k].status \in {"stored", "gone"}),
         q.pc = "writes" => q.next \in Nexts,
         StageOf(q) \in Making => q.key \in Keys,
         StageOf(q) \in {"publishes", "records", "tells"}
           => order[q.key].status \in {"stored", "gone"},
         q.pc # "commits"
  PROVE  Fits'
<1>1. KeysFit'
  <2>1. KeysFit /\ CallsTyped
    BY DEF Fits, Typed
  <2>2. \A k \in Keys :
          /\ order[k].status \in {"stored", "gone"} => order'[k].status \in {"stored", "gone"}
          /\ order[k].status = "open" => \/ order'[k].status = "open"
                                         \/ At(c, "commits") /\ k = call[c].key
    OBVIOUS
  <2>3. q.pc = "commits" => order'[q.key].status = "open" /\ order[q.key].status # "open"
    OBVIOUS
  <2>4. StageOf(q) \in {"publishes", "records", "tells"}
          => order'[q.key].status \in {"stored", "gone"}
    OBVIOUS
  <2> QED
    BY <2>1, <2>2, <2>3, <2>4, KeysStayFit
<1>2. CallsTyped'
  BY BecomesTyped DEF Fits, Typed
<1>3. OrdersFit'
  BY DEF Fits, OrdersFit, Made
<1> QED
  BY <1>1, <1>2, <1>3 DEF Fits, Typed, OrdersTyped, DriverTyped, RoutesTyped, driver

LEMMA DialogueStays ==
  ASSUME DialogueTyped, UNCHANGED <<state, data, dialogue, shared>>
  PROVE  DialogueTyped'
  BY DEF DialogueTyped

LEMMA ArrivalsFit ==
  ASSUME ConstantsFit, Fits, NEW c \in Calls, NEW d \in DataRec,
         NEW p \in Questions \cup {"finalizes"}, Arrives(c, d, p)
  PROVE  Fits'
<1> DialogueTyped /\ CallsTyped
  BY DEF Fits, Typed
<1>1. PICK q \in CallRec : /\ Becomes(c, q) /\ q.pc = "writes" /\ q.next = p
  <2>1. p \in Nexts
    BY DEF Nexts
  <2> QED
    BY <2>1, ArrivesBecomes
<1>2. shared' \subseteq 0 .. MaxDialogues
  <2>1. \A o \in Calls : call[o].of \in 0 .. MaxDialogues
    BY DEF CallsTyped, CallRec
  <2>2. {call[o].of : o \in Calls \ {c}} \subseteq 0 .. MaxDialogues
    BY <2>1
  <2> QED
    BY <2>2 DEF Arrives, Meets, DialogueTyped
<1>3. DialogueTyped'
  BY <1>2 DEF Arrives, DialogueTyped
<1>4. StageOf(q) = p
  BY <1>1 DEF StageOf
<1> QED
  BY <1>1, <1>3, <1>4, OnlyTheCall DEF Arrives, store, Questions, Nexts, Making

--------------------------------------------------------------------------------

LEMMA CallsStay ==
  ASSUME Fits, UNCHANGED <<call, order, finds>>, DialogueTyped', DriverTyped', RoutesTyped'
  PROVE  Fits'
<1>1. KeysFit'
  BY DEF Fits, KeysFit, KeyFits, Stage, At
<1>2. OrdersFit'
  BY DEF Fits, OrdersFit, Made
<1> QED
  BY <1>1, <1>2 DEF Fits, Typed, CallsTyped, OrdersTyped

\* finalize_order up to the commit: the orders change
LEMMA MakingFits ==
  ASSUME ConstantsFit, Fits, NEW c \in Calls, Finalizes(c) \/ Inserts(c) \/ Commits(c)
  PROVE  Fits'
<1> /\ DialogueTyped /\ CallsTyped /\ OrdersTyped /\ KeysFit /\ OrdersFit
    /\ order \in [Keys -> OrderRec] /\ KeyFits(c)
  BY DEF Fits, Typed, OrdersTyped, KeysFit
<1>0. UNCHANGED <<route, dialogue, shared, finds>> /\ UNCHANGED driver
  BY DEF Finalizes, Inserts, Commits
\* What such a step leaves to be shown
<1>1. ASSUME NEW k \in Keys, NEW o \in OrderRec, order' = [order EXCEPT ![k] = o],
             NEW q \in CallRec, Becomes(c, q), UNCHANGED <<state, data>>,
             q.pc \in {"keeps", "commits", "publishes"}, q.key = k,
             order[k].status \notin {"stored", "gone"},
             o.status = "stored" \/ (order[k].status # "open" /\ o.status # "none"),
             o.status \in {"none", "drawn"} => o.route = None,
             order[k].status = "open" => At(c, "commits") /\ call[c].key = k,
             q.pc = "publishes" => o.status = "stored",
             q.pc = "commits" => o.status = "open"
      PROVE  Fits'
  <2>1. order'[k] = o /\ \A j \in Keys \ {k} : order'[j] = order[j]
    BY <1>1
  <2>2. /\ \A j \in Keys :
             /\ order[j].status \in {"stored", "gone"} => order'[j].status \in {"stored", "gone"}
             /\ order[j].status = "open"
                  => order'[j].status = "open" \/ (At(c, "commits") /\ j = call[c].key)
        /\ StageOf(q) = q.pc /\ q.pc # "writes"
        /\ q.pc \in {"publishes", "records", "tells"} => order'[q.key].status \in {"stored", "gone"}
        /\ q.pc = "commits" => order'[q.key].status = "open" /\ order[q.key].status # "open"
    BY <1>1, <2>1 DEF StageOf
  <2>3. KeysFit'
    BY <1>1, <2>2, KeysStayFit
  <2>4. OrdersFit'
    <3>1. \A j \in finds' : j \in Keys /\ order'[j].status \in {"stored", "gone"}
      BY <1>0, <2>2 DEF OrdersFit
    <3>2. \A j \in Keys : ~(order'[j].status \in {"open", "stored", "gone"}) => order'[j].route = None
      BY <1>1, <2>1 DEF OrdersFit, Made, OrderRec
    <3> QED
      BY <3>1, <3>2 DEF OrdersFit, Made
  <2>5. OrdersTyped'
    BY <1>1 DEF OrdersTyped
  <2>6. DialogueTyped' /\ CallsTyped'
    BY <1>0, <1>1, DialogueStays, BecomesTyped
  <2> QED
    BY <1>0, <2>3, <2>4, <2>5, <2>6 DEF Fits, Typed, DriverTyped, RoutesTyped, driver
<1>2. CASE Finalizes(c)
  <2>1. CASE Ends(c) /\ (UNCHANGED <<state, data>> \/ Clears) /\ UNCHANGED order
    <3>1. DialogueTyped'
      BY <1>0, <2>1, NamesTyped DEF Clears, DialogueTyped
    <3>2. StageOf(Idle) = "idle" /\ Idle.pc = "idle" /\ Idle \in CallRec
      BY NamesTyped DEF StageOf
    <3> QED
      BY <1>0, <2>1, <3>1, <3>2, EndsBecomes, OnlyTheCall DEF Making
  <2>2. ASSUME NEW k \in Keys, Fresh(k), order' = [order EXCEPT ![k].status = "drawn"],
               call' = [call EXCEPT ![c].pc = "keeps", ![c].key = k, ![c].route = data.route],
               UNCHANGED <<state, data>>
        PROVE  Fits'
    <3>1. PICK r \in Routes \cup {None}, p \in Pcs : r = data.route /\ p = "keeps"
      BY DEF DialogueTyped, DataRec, Pcs, Making
    <3>2. PICK q \in CallRec : Becomes(c, q) /\ q.pc = "keeps" /\ q.key = k
      <4>1. Takes(c, p, k, r)
        BY <2>2, <3>1 DEF Takes
      <4> QED
        BY <3>1, <4>1, TakesTurns DEF Turns
    <3>3. PICK o : o = [order[k] EXCEPT !.status = "drawn"]
      OBVIOUS
    <3>4. o \in OrderRec /\ o.status = "drawn" /\ o.route = order[k].route
      BY <3>3 DEF OrderRec
    <3>5. order[k].status = "none" /\ order[k].route = None
      BY <2>2 DEF Fresh, OrdersFit, Made
    <3>6. order' = [order EXCEPT ![k] = o]
      BY <2>2, <3>3
    <3> QED
      BY <1>1, <2>2, <3>2, <3>4, <3>5, <3>6
  <2>3. CASE /\ call' = [call EXCEPT ![c].pc = "inserts", ![c].key = data.key, ![c].route = data.route]
             /\ data.key # 0 /\ UNCHANGED order /\ UNCHANGED <<state, data>>
    <3>1. PICK r \in Routes \cup {None}, p \in Pcs, k \in Keys :
            r = data.route /\ p = "inserts" /\ k = data.key
      BY <2>3 DEF DialogueTyped, DataRec, Pcs, Making
    <3>2. PICK q \in CallRec : Becomes(c, q) /\ q.pc = "inserts" /\ q.key = k
      <4>1. Takes(c, p, k, r)
        BY <2>3, <3>1 DEF Takes
      <4> QED
        BY <3>1, <4>1, TakesTurns DEF Turns
    <3>3. StageOf(q) = "inserts"
      BY <3>2 DEF StageOf
    <3> QED
      BY <1>0, <2>3, <3>1, <3>2, <3>3, DialogueStays, OnlyTheCall DEF Making
  <2> QED
    BY <1>2, <2>1, <2>2, <2>3 DEF Finalizes, Misses
<1>3. CASE Inserts(c)
  <2> DEFINE k == call[c].key
  <2>1. k \in Keys
    BY <1>3 DEF Inserts, KeyFits, Stage, StageOf, At, Making
  <2>2. CASE Goes(c, "clears") /\ UNCHANGED order
    <3>1. PICK q \in CallRec : Becomes(c, q) /\ q.pc = "clears"
      BY <2>2, GoesTurns DEF Turns, Pcs
    <3>2. StageOf(q) = "clears"
      BY <3>1 DEF StageOf
    <3> QED
      BY <1>0, <1>3, <2>2, <3>1, <3>2, DialogueStays, OnlyTheCall DEF Inserts, Making
  <2>3. CASE /\ order[k].status = "drawn" /\ RouteThere(c)
             /\ order' = [order EXCEPT ![k] =
                            [status |-> "open", route |-> call[c].route, of |-> call[c].of]]
             /\ call' = [call EXCEPT ![c].pc = "commits", ![c].route = None]
    <3>1. PICK o : o = [status |-> "open", route |-> call[c].route, of |-> call[c].of]
      OBVIOUS
    <3>2. o \in OrderRec /\ o.status = "open"
      BY <3>1 DEF CallsTyped, CallRec, OrderRec
    <3>3. PICK q \in CallRec : Becomes(c, q) /\ q.pc = "commits" /\ q.key = k
      BY <2>3, InsertedTurns DEF Turns
    <3> QED
      BY <1>1, <1>3, <2>1, <2>3, <3>1, <3>2, <3>3 DEF Inserts
  <2> QED
    BY <1>3, <2>2, <2>3 DEF Inserts
<1>4. CASE Commits(c)
  <2> DEFINE k == call[c].key
  <2>1. k \in Keys /\ order[k].status = "open" /\ At(c, "commits")
    BY <1>4 DEF Commits, KeyFits, Stage, StageOf, At, Making
  <2>2. PICK o : o = [order[k] EXCEPT !.status = "stored"]
    OBVIOUS
  <2>3. o \in OrderRec /\ o.status = "stored"
    BY <2>1, <2>2 DEF OrderRec
  <2>4. PICK q \in CallRec : Becomes(c, q) /\ q.pc = "publishes" /\ q.key = k
    BY <1>4, GoesTurns DEF Commits, Turns, Pcs, Making
  <2>5. order' = [order EXCEPT ![k] = o]
    BY <1>4, <2>2 DEF Commits
  <2> QED
    BY <1>1, <1>4, <2>1, <2>3, <2>4, <2>5 DEF Commits
<1> QED
  BY <1>2, <1>3, <1>4

\* The other steps of a call
LEMMA TalksFit ==
  ASSUME ConstantsFit, Fits, NEW c \in Calls, Talks(c)
  PROVE  Fits'
<1> /\ DialogueTyped /\ CallsTyped /\ data \in DataRec /\ KeyFits(c)
    /\ DriverTyped /\ RoutesTyped
  BY DEF Fits, Typed, DialogueTyped, KeysFit
<1> "finalizes" \in Nexts /\ "inserts" \in Nexts /\ "tells" \in Nexts /\ Questions \subseteq Nexts
  BY DEF Nexts
<1>1. CASE StartBooking(c)
  <2>1. DialogueTyped'
    BY <1>1 DEF ConstantsFit, StartBooking, DialogueTyped
  <2> QED
    BY <1>1, <2>1, CallsStay DEF StartBooking, store, driver, DriverTyped, RoutesTyped
<1>2. CASE RouteSelected(c)
  <2>1. PICK r \in Rows : Arrives(c, [data EXCEPT !.route = r], "send_location")
    BY <1>2 DEF RouteSelected
  <2>2. [data EXCEPT !.route = r] \in DataRec
    BY DEF DataRec, Rows
  <2> QED
    BY <2>1, <2>2, ArrivalsFit DEF Questions
<1>3. CASE LocationReceived(c)
  <2>1. [data EXCEPT !.place = TRUE] \in DataRec
    BY DEF DataRec
  <2> QED
    BY <1>3, <2>1, ArrivalsFit DEF LocationReceived, Questions
<1>4. CASE DescriptionReceived(c)
  BY <1>4, ArrivalsFit DEF DescriptionReceived, Questions
<1>5. CASE CountSelected(c)
  <2>1. [data EXCEPT !.count = TRUE] \in DataRec
    BY DEF DataRec
  <2> QED
    BY <1>5, <2>1, ArrivalsFit DEF CountSelected
<1>6. CASE Writes(c)
  <2>1. PICK q \in CallRec : Becomes(c, q) /\ q.pc = call[c].next /\ q.key = call[c].key
    BY <1>6, WritesTurns DEF Turns
  <2>2. call[c].next \in Nexts /\ StageOf(q) = Stage(c) /\ q.pc \notin {"writes", "commits"}
    BY <1>6, <2>1 DEF Writes, KeyFits, Stage, StageOf, At, Nexts, Questions
  <2>3. DialogueTyped'
    BY <1>6 DEF Writes, DialogueTyped, CallsTyped, CallRec
  <2> QED
    BY <1>6, <2>1, <2>2, <2>3, OnlyTheCall DEF Writes, store, KeyFits
<1>7. CASE Asks(c)
  <2>1. DialogueTyped'
    BY <1>7 DEF Asks, DialogueTyped, Questions
  <2>2. StageOf(Idle) = "idle" /\ Idle.pc = "idle" /\ Idle \in CallRec
    BY NamesTyped DEF StageOf
  <2> QED
    BY <1>7, <2>1, <2>2, EndsBecomes, OnlyTheCall DEF Asks, store, Making
<1>8. CASE Finalizes(c) \/ Inserts(c) \/ Commits(c)
  BY <1>8, MakingFits
<1>9. CASE KeepsKey(c)
  <2>1. call[c].key \in Keys
    BY <1>9 DEF KeepsKey, KeyFits, Stage, StageOf, At, Making
  <2>2. [data EXCEPT !.key = call[c].key] \in DataRec
    BY <2>1 DEF DataRec
  <2>3. PICK q \in CallRec :
          Becomes(c, q) /\ q.pc = "writes" /\ q.next = "inserts" /\ q.key = call[c].key
    BY <1>9, <2>2, UpdatesTurns DEF KeepsKey, Turns
  <2>4. StageOf(q) = "inserts"
    BY <2>3 DEF StageOf
  <2> QED
    BY <1>9, <2>1, <2>3, <2>4, DialogueStays, OnlyTheCall DEF KeepsKey, store
<1>10. CASE Publishes(c) \/ Tells(c)
  <2>1. call[c].key \in Keys /\ order[call[c].key].status \in {"stored", "gone"}
    BY <1>10 DEF Publishes, Tells, KeyFits, Stage, StageOf, At, Making
  <2>2. PICK p \in {"records", "clears"} : Goes(c, p)
    BY <1>10 DEF Publishes, Tells
  <2>3. PICK q \in CallRec : Becomes(c, q) /\ q.pc = p /\ q.key = call[c].key
    BY <2>2, GoesTurns DEF Turns, Pcs, Making
  <2>4. StageOf(q) = p
    BY <2>2, <2>3 DEF StageOf
  <2>5. /\ \A k \in finds' : k \in finds \/ k = call[c].key
        /\ UNCHANGED <<route, state, data, dialogue, shared, order>> /\ UNCHANGED driver
    BY <1>10 DEF Publishes, Tells
  <2> QED
    BY <2>1, <2>2, <2>3, <2>4, <2>5, DialogueStays, OnlyTheCall
<1>11. CASE RecordsOrder(c)
  <2>1. call[c].key \in Keys /\ order[call[c].key].status \in {"stored", "gone"}
    BY <1>11 DEF RecordsOrder, KeyFits, Stage, StageOf, At, Making
  <2>2. [data EXCEPT !.created = TRUE] \in DataRec
    BY DEF DataRec
  <2>3. PICK q \in CallRec :
          Becomes(c, q) /\ q.pc = "writes" /\ q.next = "tells" /\ q.key = call[c].key
    BY <1>11, <2>2, UpdatesTurns DEF RecordsOrder, Turns
  <2>4. StageOf(q) = "tells"
    BY <2>3 DEF StageOf
  <2> QED
    BY <1>11, <2>1, <2>3, <2>4, DialogueStays, OnlyTheCall DEF RecordsOrder, store
<1>12. CASE ClearsData(c)
  <2>1. DialogueTyped'
    BY <1>12, NamesTyped DEF ClearsData, Clears, DialogueTyped
  <2>2. StageOf(Idle) = "idle" /\ Idle.pc = "idle" /\ Idle \in CallRec
    BY NamesTyped DEF StageOf
  <2> QED
    BY <1>12, <2>1, <2>2, EndsBecomes, OnlyTheCall DEF ClearsData, store, Making
<1> QED
  BY <1>1, <1>2, <1>3, <1>4, <1>5, <1>6, <1>7, <1>8, <1>9, <1>10, <1>11, <1>12 DEF Talks

\* A restart
LEMMA CrashFits ==
  ASSUME ConstantsFit, Fits, Crash
  PROVE  Fits'
<1>1. /\ \A c \in Calls : call'[c] = Idle
      /\ call' \in [Calls -> CallRec]
  BY NamesTyped DEF Crash
<1>2. PICK o \in OrderRec : o = [NoOrder EXCEPT !.status = "drawn"]
  BY NamesTyped
<1>3. o.status = "drawn" /\ o.route = None
  BY <1>2, NamesTyped
<1>4. order' = [k \in Keys |-> IF order[k].status = "open" THEN o ELSE order[k]]
  BY <1>2 DEF Crash
<1>5. OrdersTyped' /\ CallsTyped'
  BY <1>1, <1>4 DEF Fits, Typed, OrdersTyped, CallsTyped
<1>6. KeysFit'
  <2>1. \A c \in Calls : StageOf(call'[c]) = "idle" /\ call'[c].pc = "idle"
    BY <1>1, NamesTyped DEF StageOf
  <2> QED
    BY <2>1 DEF KeysFit, KeyFits, Stage, At, Making
<1>7. OrdersFit'
  <2>1. \A k \in finds' : k \in Keys /\ order'[k].status \in {"stored", "gone"}
    BY <1>4 DEF Crash, Fits, OrdersFit
  <2>2. \A k \in Keys : ~(order'[k].status \in {"open", "stored", "gone"}) => order'[k].route = None
    BY <1>3, <1>4 DEF Fits, OrdersFit, Made
  <2> QED
    BY <2>1, <2>2 DEF OrdersFit, Made
<1> QED
  BY <1>5, <1>6, <1>7 DEF Crash, Fits, Typed, DialogueTyped, DriverTyped, RoutesTyped, driver

LEMMA DriverFits ==
  ASSUME Fits, Driver
  PROVE  Fits'
<1>1. UNCHANGED route /\ UNCHANGED talk /\ UNCHANGED store
  BY DEF Driver, DriverStarts, DriverLocates, DriverChooses, DriverTakesSeats, DriverStops
<1>2. chat \in ChatRec /\ row \in RowRec /\ stranded \in BOOLEAN
  BY DEF Fits, Typed, DriverTyped
<1>3. chat' \in ChatRec
  <2>1. \E s \in {"none", "send_location", "choose_route", "enter_seats", "waiting_orders"},
           r \in Routes \cup {None} : Chats(s, r)
    BY <1>2 DEF Driver, DriverStarts, DriverLocates, DriverChooses, DriverTakesSeats, DriverStops,
                Born, Rows, ChatRec
  <2> QED
    BY <2>1 DEF Chats, ChatRec
<1>4. row' \in RowRec /\ stranded' \in BOOLEAN
  <2>1. CASE DriverTakesSeats
    <3>1. chat.route \in Routes \cup {None}
      BY <1>2 DEF ChatRec
    <3>2. [active |-> TRUE, route |-> chat.route] \in RowRec
      BY <3>1 DEF RowRec
    <3> QED
      BY <1>2, <2>1, <3>2 DEF DriverTakesSeats
  <2>2. CASE ~DriverTakesSeats
    <3>1. UNCHANGED stranded /\ (row' = row \/ row' = [row EXCEPT !.active = FALSE])
      BY <2>2 DEF Driver, DriverStarts, DriverLocates, DriverChooses, DriverStops
    <3> QED
      BY <1>2, <3>1 DEF RowRec
  <2> QED
    BY <2>1, <2>2
<1> QED
  BY <1>1, <1>3, <1>4, CallsStay, DialogueStays
     DEF Fits, Typed, DriverTyped, RoutesTyped, talk, store

LEMMA OfficeFits ==
  ASSUME ConstantsFit, Fits, Office
  PROVE  Fits'
<1> DialogueTyped /\ DriverTyped /\ RoutesTyped /\ OrdersTyped
  BY DEF Fits, Typed
<1>1. ASSUME NEW r \in Routes, CreateRoute(r) \/ ToggleRoute(r)
      PROVE  Fits'
  <2>1. RoutesTyped'
    BY <1>1 DEF CreateRoute, ToggleRoute, RoutesTyped
  <2> QED
    BY <1>1, <2>1, CallsStay, DialogueStays
       DEF CreateRoute, ToggleRoute, DriverTyped, talk, store, driver
<1>2. ASSUME NEW r \in Routes, DeleteRoute(r)
      PROVE  Fits'
  <2>1. /\ UNCHANGED <<state, data, call, dialogue, shared, finds, chat>>
        /\ route' = [route EXCEPT ![r] = "gone"]
        /\ \A k \in Keys : order[k].status = "open" => order[k].route # r
        /\ order' = [k \in Keys |-> IF order[k].route = r
                                      THEN [order[k] EXCEPT !.status = "gone"] ELSE order[k]]
    BY <1>2 DEF DeleteRoute, talk
  <2>2. row' \in RowRec /\ stranded' \in BOOLEAN
    BY <1>2 DEF DeleteRoute, UnsetRoute, DriverTyped, RowRec
  <2>3. \A k \in Keys : [order[k] EXCEPT !.status = "gone"] \in OrderRec
                        /\ [order[k] EXCEPT !.status = "gone"].status = "gone"
    BY DEF OrdersTyped, OrderRec
  <2>4. OrdersTyped'
    BY <2>1, <2>3 DEF OrdersTyped
  <2>5. \A k \in Keys :
          /\ order[k].status \in {"stored", "gone"} => order'[k].status \in {"stored", "gone"}
          /\ order[k].status = "open" => order'[k].status = "open"
          /\ order'[k].status = "gone" \/ order'[k] = order[k]
    BY <2>1, <2>3
  <2>6. KeysFit'
    <3>1. \A c \in Calls : KeyFits(c) /\ call'[c] = call[c]
      BY <2>1 DEF Fits, KeysFit
    <3>2. \A c \in Calls : KeyFits(c)'
      <4> SUFFICES ASSUME NEW c \in Calls
                   PROVE  KeyFits(c)'
        OBVIOUS
      <4>1. Stage(c) \in Making => call[c].key \in Keys
        BY <3>1 DEF KeyFits
      <4>2. At(c, "commits") => Stage(c) = "commits"
        BY DEF At, Stage, StageOf
      <4> QED
        BY <2>1, <2>5, <3>1, <4>1, <4>2 DEF KeyFits, Stage, At, Making
    <3> QED
      BY <2>1, <3>2 DEF Fits, KeysFit, At
  <2>7. OrdersFit'
    <3>1. \A k \in finds' : k \in Keys /\ order'[k].status \in {"stored", "gone"}
      BY <2>1, <2>5 DEF Fits, OrdersFit
    <3>2. \A k \in Keys : ~(order'[k].status \in {"open", "stored", "gone"}) => order'[k].route = None
      BY <2>5 DEF Fits, OrdersFit, Made
    <3> QED
      BY <3>1, <3>2 DEF OrdersFit, Made
  <2> QED
    BY <2>1, <2>2, <2>4, <2>6, <2>7, DialogueStays
       DEF Fits, Typed, CallsTyped, DriverTyped, RoutesTyped
<1> QED
  BY <1>1, <1>2 DEF Office

LEMMA InitFits ==
  ASSUME ConstantsFit, Init
  PROVE  Fits
<1>0. DialogueTyped
  BY NamesTyped DEF ConstantsFit, Init, DialogueTyped
<1>1. DialogueTyped /\ DriverTyped
  <2>1. chat \in ChatRec
    BY DEF Init, ChatRec
  <2>2. row \in RowRec /\ stranded \in BOOLEAN
    BY DEF Init, RowRec
  <2> QED
    BY <1>0, <2>1, <2>2 DEF DriverTyped
<1>2. CallsTyped /\ OrdersTyped /\ RoutesTyped
  BY NamesTyped DEF Init, CallsTyped, OrdersTyped, RoutesTyped
<1>3. KeysFit
  <2>1. \A c \in Calls : StageOf(call[c]) = "idle" /\ call[c].pc = "idle"
    BY NamesTyped DEF Init, StageOf
  <2> QED
    BY <2>1 DEF KeysFit, KeyFits, Stage, At, Making
<1>4. OrdersFit
  BY NamesTyped DEF Init, OrdersFit
<1> QED
  BY <1>1, <1>2, <1>3, <1>4 DEF Fits, Typed

LEMMA StepFits ==
  ASSUME ConstantsFit, Fits, [Next]_vars
  PROVE  Fits'
<1>1. CASE Leaves
  <2>1. DialogueTyped'
    BY <1>1, NamesTyped DEF Leaves, Clears, Fits, Typed, DialogueTyped
  <2> QED
    BY <1>1, <2>1, CallsStay DEF Leaves, store, driver, Fits, Typed, DriverTyped, RoutesTyped
<1>2. CASE UNCHANGED vars
  BY <1>2, CallsStay, DialogueStays
     DEF vars, talk, store, driver, Fits, Typed, DriverTyped, RoutesTyped
<1> QED
  BY <1>1, <1>2, TalksFit, CrashFits, DriverFits, OfficeFits DEF Next, Passenger

--------------------------------------------------------------------------------
(* What is stored is on a route *)

LEMMA SameRows ==
  ASSUME UNCHANGED route
  PROVE  Rows' = Rows
  BY DEF Rows

LEMMA OrdersOnRoutes ==
  ASSUME ConstantsFit, Fits, NoDanglingRoute, [Next]_vars,
         NEW k \in Keys, order'[k].status \in {"open", "stored"}
  PROVE  order'[k].route \in Rows'
<1> OrdersTyped /\ CallsTyped /\ order \in [Keys -> OrderRec]
  BY DEF Fits, Typed, OrdersTyped
<1>0. order[k].status \in {"open", "stored"} => order[k].route \in Rows
  BY DEF NoDanglingRoute
<1>1. CASE UNCHANGED <<order, route>>
  BY <1>0, <1>1, SameRows
<1>2. ASSUME NEW c \in Calls, Finalizes(c)
      PROVE  order'[k].route \in Rows'
  <2>1. order' = order \/ \E j \in Keys : order' = [order EXCEPT ![j].status = "drawn"]
    BY <1>2 DEF Finalizes
  <2>2. order'[k] = order[k]
    BY <2>1 DEF OrderRec
  <2>3. UNCHANGED route
    BY <1>2 DEF Finalizes
  <2> QED
    BY <1>0, <2>2, <2>3, SameRows
<1>3. ASSUME NEW c \in Calls, Inserts(c)
      PROVE  order'[k].route \in Rows'
  <2>1. order'[k] = order[k] \/ (order'[k].route = call[c].route /\ call[c].route \in Rows)
    <3>1. PICK o : o = [status |-> "open", route |-> call[c].route, of |-> call[c].of]
      OBVIOUS
    <3>2. order' = order \/ (order' = [order EXCEPT ![call[c].key] = o] /\ call[c].route \in Rows)
      BY <1>3, <3>1 DEF Inserts, RouteThere
    <3>3. o.route = call[c].route
      BY <3>1
    <3> QED
      BY <3>2, <3>3
  <2> QED
    BY <1>0, <1>3, <2>1, SameRows DEF Inserts
<1>4. ASSUME NEW c \in Calls, Commits(c)
      PROVE  order'[k].route \in Rows'
  <2>1. order[call[c].key].status = "open"
    BY <1>4 DEF Commits, Fits, KeysFit, KeyFits
  <2>2. order'[k].route = order[k].route
    BY <1>4 DEF Commits, OrderRec
  <2>3. order'[k] = order[k] \/ k = call[c].key
    BY <1>4 DEF Commits, OrderRec
  <2> QED
    BY <1>0, <1>4, <2>1, <2>2, <2>3, SameRows DEF Commits
<1>5. CASE Crash
  <2>1. order'[k] = order[k]
    BY <1>5, NamesTyped DEF Crash
  <2> QED
    BY <1>0, <1>5, <2>1, SameRows DEF Crash
<1>6. ASSUME NEW r \in Routes, CreateRoute(r) \/ ToggleRoute(r)
      PROVE  order'[k].route \in Rows'
  <2>1. UNCHANGED order /\ Rows \subseteq Rows'
    BY <1>6 DEF CreateRoute, ToggleRoute, Rows, store, Fits, Typed, RoutesTyped
  <2> QED
    BY <1>0, <2>1
\* Its orders go with the route
<1>7. ASSUME NEW r \in Routes, DeleteRoute(r)
      PROVE  order'[k].route \in Rows'
  <2>1. Rows \ {r} \subseteq Rows'
    BY <1>7 DEF DeleteRoute, Rows, Fits, Typed, RoutesTyped
  <2>2. order[k].route # r /\ order'[k] = order[k]
    <3>1. [order[k] EXCEPT !.status = "gone"].status = "gone"
      BY DEF OrderRec
    <3> QED
      BY <1>7, <3>1 DEF DeleteRoute
  <2> QED
    BY <1>0, <2>1, <2>2
<1>8. CASE Leaves \/ Driver \/ UNCHANGED vars
  BY <1>1, <1>8 DEF Leaves, Driver, DriverStarts, DriverLocates, DriverChooses, DriverTakesSeats,
                    DriverStops, vars, store
<1>9. ASSUME NEW c \in Calls, Talks(c), ~Finalizes(c), ~Inserts(c), ~Commits(c)
      PROVE  order'[k].route \in Rows'
  <2>1. UNCHANGED <<order, route>>
    BY <1>9 DEF Talks, StartBooking, RouteSelected, LocationReceived, DescriptionReceived,
                CountSelected, Arrives, Writes, Asks, KeepsKey, Publishes, RecordsOrder, Tells,
                ClearsData, store
  <2> QED
    BY <1>1, <2>1
<1> QED
  BY <1>2, <1>3, <1>4, <1>5, <1>6, <1>7, <1>8, <1>9 DEF Next, Passenger, Office

LEMMA DriverOnRoute ==
  ASSUME ConstantsFit, Fits, NoDanglingRoute, [Next]_vars
  PROVE  row'.active => row'.route \in Rows' \/ (row'.route = None /\ stranded')
<1> row \in RowRec /\ stranded \in BOOLEAN
  BY DEF Fits, Typed, DriverTyped
<1>0. row.active => row.route \in Rows \/ (row.route = None /\ stranded)
  BY DEF NoDanglingRoute
<1>1. CASE UNCHANGED <<row, stranded, route>>
  BY <1>0, <1>1, SameRows
<1>2. CASE DriverTakesSeats
  BY <1>0, <1>2, SameRows DEF DriverTakesSeats
<1>3. CASE DriverStops
  <2>1. ~row'.active
    BY <1>3 DEF DriverStops, RowRec
  <2> QED
    BY <2>1
<1>4. CASE DriverStarts \/ DriverLocates \/ DriverChooses
  BY <1>1, <1>4 DEF DriverStarts, DriverLocates, DriverChooses
<1>5. ASSUME NEW r \in Routes, CreateRoute(r) \/ ToggleRoute(r)
      PROVE  row'.active => row'.route \in Rows' \/ (row'.route = None /\ stranded')
  <2>1. UNCHANGED <<row, stranded>> /\ Rows \subseteq Rows'
    BY <1>5 DEF CreateRoute, ToggleRoute, Rows, driver, Fits, Typed, RoutesTyped
  <2> QED
    BY <1>0, <2>1
<1>6. ASSUME NEW r \in Routes, DeleteRoute(r)
      PROVE  row'.active => row'.route \in Rows' \/ (row'.route = None /\ stranded')
  <2>1. Rows \ {r} \subseteq Rows'
    BY <1>6 DEF DeleteRoute, Rows, Fits, Typed, RoutesTyped
  <2>2. /\ row'.active = row.active
        /\ row'.route = IF row.route = r THEN None ELSE row.route
        /\ stranded' = (stranded \/ (row.active /\ row.route = r))
    BY <1>6 DEF DeleteRoute, UnsetRoute, RowRec
  <2> QED
    BY <1>0, <2>1, <2>2
<1>7. CASE Passenger \/ UNCHANGED vars
  <2>1. ASSUME NEW c \in Calls, Talks(c)
        PROVE  UNCHANGED <<row, stranded, route>>
    <3>1. CASE Finalizes(c) \/ Inserts(c) \/ Commits(c) \/ Publishes(c) \/ Tells(c)
      BY <3>1 DEF Finalizes, Inserts, Commits, Publishes, Tells, driver
    <3>2. CASE ~(Finalizes(c) \/ Inserts(c) \/ Commits(c) \/ Publishes(c) \/ Tells(c))
      BY <2>1, <3>2 DEF Talks, StartBooking, RouteSelected, LocationReceived,
                        DescriptionReceived, CountSelected, Arrives, Writes, Asks, KeepsKey,
                        RecordsOrder, ClearsData, driver
    <3> QED
      BY <3>1, <3>2
  <2>2. UNCHANGED <<row, stranded, route>>
    BY <1>7, <2>1 DEF Passenger, Leaves, Crash, vars, driver
  <2> QED
    BY <1>1, <2>2
<1> QED
  BY <1>2, <1>3, <1>4, <1>5, <1>6, <1>7 DEF Next, Driver, Office

--------------------------------------------------------------------------------
(* One dialogue, one order *)

WillOf(q, d) == IF q.pc = "writes" THEN q.seen ELSE d

\* These data do not let finalize_order make another order than j: they have its key, or
\* no route, and are cleared
Knows(d, j) == d.key = j \/ d.route = None

\* The conversation is still that dialogue
Now(n) == n = dialogue /\ state # "none"

Begun ==
  /\ \A c \in Calls : Busy(c) => call[c].of <= dialogue
  /\ \A k \in Keys : Made(k) => order[k].of <= dialogue

\* Messages handled at once are known
Alone == \A c, o \in Calls : c # o /\ Busy(c) /\ Busy(o) => call[c].of \in shared

\* The key an order is inserted with is in the data, to be found after a restart, and no
\* route is chosen any more
KeepsIt(q, d, s) ==
  /\ StageOf(q) \in {"finalizes", "keeps", "inserts"} => s # "choose_route"
  /\ StageOf(q) = "inserts" => WillOf(q, d).key = q.key

\* A call of the dialogue that has made j comes to no other key
Same(q, d, j) ==
  /\ StageOf(q) \in Questions \cup {"finalizes"} => Knows(WillOf(q, d), j)
  /\ StageOf(q) \in {"keeps", "inserts"} => q.key = j

Keeps ==
  \A c \in Calls :
    Busy(c) /\ call[c].of \notin shared /\ Now(call[c].of) => KeepsIt(call[c], data, state)

Follows(j) ==
  /\ \A k \in Keys : Made(k) /\ order[k].of = order[j].of => k = j
  /\ \A c \in Calls : Busy(c) => call[c].of >= order[j].of
  /\ \A c \in Calls : Busy(c) /\ call[c].of = order[j].of =>
       /\ Same(call[c], data, j)
       /\ Now(order[j].of) => Knows(WillOf(call[c], data), j)
  /\ Now(order[j].of) => Knows(data, j) /\ state # "choose_route"

Once == \A j \in Keys : Made(j) /\ order[j].of \notin shared => Follows(j)

Kept == Begun /\ Alone /\ Keeps /\ Once

LEMMA KeptImplies ==
  ASSUME Kept
  PROVE  OneOrderPerDialogue
BY DEF Kept, Once, Follows, Made, OneOrderPerDialogue

LEMMA Integers ==
  ASSUME Fits, ConstantsFit
  PROVE  /\ dialogue \in Int
         /\ \A c \in Calls : call[c].of \in Int
         /\ \A k \in Keys : order[k].of \in Int /\ k \in Int /\ k # 0
BY DEF Fits, Typed, DialogueTyped, CallsTyped, OrdersTyped, CallRec, OrderRec, ConstantsFit

\* Nobody speaks to the passenger, and no order is made
LEMMA KeptStays ==
  ASSUME Kept, UNCHANGED <<state, data, dialogue, shared>>,
         \A c \in Calls : Busy(c)' => call'[c] = call[c],
         \A k \in Keys : Made(k)' => Made(k) /\ order'[k].of = order[k].of
  PROVE  Kept'
<1>1. \A c \in Calls : Busy(c)' => Busy(c)
  BY DEF Busy, At
<1>2. Begun' /\ Alone'
  BY <1>1 DEF Kept, Begun, Alone
<1>3. Keeps'
  BY <1>1 DEF Kept, Keeps, Now
<1>4. Once'
  <2> SUFFICES ASSUME NEW j \in Keys, Made(j)', order'[j].of \notin shared
               PROVE  Follows(j)'
    BY DEF Once
  <2>1. Made(j) /\ order'[j].of = order[j].of /\ Follows(j)
    BY DEF Kept, Once
  <2>2. \A k \in Keys : Made(k)' /\ order'[k].of = order'[j].of => k = j
    BY <2>1 DEF Follows
  <2>3. \A c \in Calls : Busy(c)' => call'[c].of >= order'[j].of
    BY <1>1, <2>1 DEF Follows
  <2>4. \A c \in Calls : Busy(c)' /\ call'[c].of = order'[j].of =>
          /\ Same(call'[c], data', j)
          /\ Now(order[j].of) => Knows(WillOf(call'[c], data'), j)
    BY <1>1, <2>1 DEF Follows
  <2> QED
    BY <2>1, <2>2, <2>3, <2>4 DEF Follows, Now
<1> QED
  BY <1>2, <1>3, <1>4 DEF Kept

\* A step of a call that is in the handlers
LEMMA KeptByHisStep ==
  ASSUME ConstantsFit, Fits, Kept, NEW c \in Calls, Busy(c), NEW q \in CallRec, Becomes(c, q),
         q.pc = "idle" \/ q.of = call[c].of,
         UNCHANGED <<dialogue, shared>>,
         \A k \in Keys : Made(k)' => Made(k) /\ order'[k].of = order[k].of,
         call[c].of \notin shared /\ call[c].of = dialogue /\ state' # "none"
           => KeepsIt(q, data', state'),
         \A j \in Keys : Made(j) /\ order[j].of \notin shared /\ call[c].of = order[j].of =>
           /\ Same(q, data', j)
           /\ call[c].of = dialogue /\ state' # "none" =>
                Knows(WillOf(q, data'), j) /\ Knows(data', j) /\ state' # "choose_route"
  PROVE  Kept'
<1>1. /\ call'[c] = q /\ \A o \in Calls \ {c} : call'[o] = call[o]
      /\ Busy(c)' => q.of = call[c].of
      /\ \A o \in Calls \ {c} : Busy(o)' <=> Busy(o)
  BY BecomesTyped DEF Fits, Typed, Busy, At
<1>2. Begun' /\ Alone'
  BY <1>1 DEF Kept, Begun, Alone
\* The others share their dialogues
<1>3. \A o \in Calls \ {c} : Busy(o) => call[o].of \in shared
  BY DEF Kept, Alone
<1>4. Keeps'
  BY <1>1, <1>3 DEF Keeps, Now
<1>5. Once'
  <2> SUFFICES ASSUME NEW j \in Keys, Made(j)', order'[j].of \notin shared
               PROVE  Follows(j)'
    BY DEF Once
  <2>1. Made(j) /\ order'[j].of = order[j].of /\ Follows(j)
    BY DEF Kept, Once
  <2>2. \A k \in Keys : Made(k)' /\ order'[k].of = order'[j].of => k = j
    BY <2>1 DEF Follows
  <2>3. \A o \in Calls : Busy(o)' => call'[o].of >= order'[j].of
    BY <1>1, <2>1 DEF Follows
  <2>4. \A o \in Calls : Busy(o)' /\ call'[o].of = order'[j].of =>
          /\ Same(call'[o], data', j)
          /\ Now(order[j].of)' => Knows(WillOf(call'[o], data'), j)
    <3> SUFFICES ASSUME NEW o \in Calls, Busy(o)', call'[o].of = order'[j].of
                 PROVE  /\ Same(call'[o], data', j)
                        /\ Now(order[j].of)' => Knows(WillOf(call'[o], data'), j)
      OBVIOUS
    <3>1. o = c
      BY <1>1, <1>3, <2>1
    <3>2. call'[o] = q /\ call[c].of = order[j].of
      BY <1>1, <2>1, <3>1
    <3> QED
      BY <2>1, <3>2 DEF Now
  <2>5. Now(order[j].of)' => Knows(data', j) /\ state' # "choose_route"
    <3> SUFFICES ASSUME Now(order[j].of)'
                 PROVE  Knows(data', j) /\ state' # "choose_route"
      OBVIOUS
    <3>1. order[j].of = dialogue
      BY <2>1 DEF Now
    <3>2. call[c].of >= order[j].of /\ call[c].of <= dialogue
      BY <2>1 DEF Follows, Kept, Begun
    <3>3. call[c].of = order[j].of
      BY <3>1, <3>2, Integers
    <3> QED
      BY <2>1, <3>1, <3>3 DEF Now
  <2> QED
    BY <2>2, <2>3, <2>4, <2>5 DEF Follows
<1> QED
  BY <1>2, <1>4, <1>5 DEF Kept

\* A step that leaves the conversation alone and is past the insert, or at the end
LEMMA KeptPast ==
  ASSUME ConstantsFit, Fits, Kept, NEW c \in Calls, Busy(c), NEW q \in CallRec, Becomes(c, q),
         q.pc = "idle" \/ q.of = call[c].of,
         UNCHANGED <<state, data, dialogue, shared>>,
         \A k \in Keys : Made(k)' => Made(k) /\ order'[k].of = order[k].of,
         StageOf(q) \in {"idle", "clears", "publishes", "records", "tells"},
         WillOf(q, data).key = data.key, WillOf(q, data).route = data.route
  PROVE  Kept'
<1>1. KeepsIt(q, data', state') /\ \A j \in Keys : Same(q, data', j)
  BY DEF KeepsIt, Same, Questions
<1>2. \A j \in Keys : Made(j) /\ order[j].of \notin shared /\ call[c].of = order[j].of =>
        (call[c].of = dialogue /\ state' # "none" =>
           Knows(WillOf(q, data'), j) /\ Knows(data', j) /\ state' # "choose_route")
  BY DEF Kept, Once, Follows, Now, Knows
<1> QED
  BY <1>1, <1>2, KeptByHisStep

\* A step that leaves no conversation
LEMMA KeptCleared ==
  ASSUME ConstantsFit, Fits, Kept, NEW c \in Calls, Busy(c), Becomes(c, Idle), Clears,
         UNCHANGED <<dialogue, shared, order>>
  PROVE  Kept'
<1>1. Idle \in CallRec /\ Idle.pc = "idle" /\ StageOf(Idle) = "idle" /\ state' = "none"
  BY NamesTyped DEF StageOf, Clears
<1>2. \A j \in Keys : Same(Idle, data', j)
  BY <1>1 DEF Same, Questions
<1>3. \A k \in Keys : Made(k)' => Made(k) /\ order'[k].of = order[k].of
  BY DEF Made
<1> QED
  BY <1>1, <1>2, <1>3, KeptByHisStep

LEMMA ArrivalsKept ==
  ASSUME ConstantsFit, Fits, Kept, NEW c \in Calls, NEW d \in DataRec, NEW p \in Nexts,
         Arrives(c, d, p), state # "none", d.key = data.key,
         d.route = data.route \/ state = "choose_route",
         p \in Questions \/ (p = "finalizes" /\ state # "choose_route")
  PROVE  Kept'
<1>1. PICK q \in CallRec : /\ Becomes(c, q) /\ q.pc = "writes" /\ q.seen = d /\ q.next = p
                           /\ q.of = dialogue
  BY ArrivesBecomes DEF Fits, Typed
<1>2. /\ call'[c] = q /\ \A o \in Calls \ {c} : call'[o] = call[o]
      /\ UNCHANGED <<state, data, dialogue, order>> /\ ~Busy(c)
      /\ StageOf(q) = p /\ WillOf(q, data) = d
  BY <1>1, BecomesTyped DEF Fits, Typed, Busy, At, Arrives, store, StageOf, WillOf
<1>3. /\ shared \subseteq shared'
      /\ \A o \in Calls \ {c} : Busy(o) => dialogue \in shared' /\ call[o].of \in shared'
  BY DEF Arrives, Meets, Busy
<1>4. \A o \in Calls \ {c} : Busy(o)' <=> Busy(o)
  BY <1>2 DEF Busy, At
<1>5. Begun'
  <2>1. call'[c].of <= dialogue
    BY <1>1, <1>2, Integers
  <2>2. \A o \in Calls \ {c} : Busy(o)' => call'[o].of <= dialogue
    BY <1>2, <1>4 DEF Kept, Begun
  <2> QED
    BY <1>2, <2>1, <2>2 DEF Kept, Begun, Made
<1>6. Alone'
  BY <1>1, <1>2, <1>3, <1>4 DEF Kept, Alone
<1>7. Keeps'
  <2>1. KeepsIt(q, data, state)
    BY <1>2 DEF KeepsIt, Questions
  <2>2. \A o \in Calls \ {c} : Busy(o) /\ call[o].of \notin shared' /\ Now(call[o].of)
          => KeepsIt(call[o], data, state)
    BY <1>3 DEF Kept, Keeps
  <2> QED
    BY <1>2, <1>4, <2>1, <2>2 DEF Keeps, Now
<1>8. Once'
  <2> SUFFICES ASSUME NEW j \in Keys, Made(j)', order'[j].of \notin shared'
               PROVE  Follows(j)'
    BY DEF Once
  <2>1. Made(j) /\ Follows(j)
    BY <1>2, <1>3 DEF Kept, Once, Made
  <2>2. \A k \in Keys : Made(k)' /\ order'[k].of = order'[j].of => k = j
    BY <1>2, <2>1 DEF Follows, Made
  <2>3. \A o \in Calls : Busy(o)' => call'[o].of >= order'[j].of
    <3>1. order[j].of <= dialogue
      BY <2>1 DEF Kept, Begun
    <3>2. dialogue >= order[j].of
      BY <3>1, Integers
    <3>3. \A o \in Calls \ {c} : Busy(o) => call[o].of >= order[j].of
      BY <2>1 DEF Follows
    <3> QED
      BY <1>1, <1>2, <1>4, <3>2, <3>3
  <2>4. dialogue = order[j].of => Same(q, data, j) /\ Knows(d, j)
    <3>1. dialogue = order[j].of => Knows(data, j) /\ state # "choose_route"
      BY <2>1 DEF Follows, Now
    <3>2. dialogue = order[j].of => Knows(d, j)
      BY <3>1 DEF Knows
    <3> QED
      BY <1>2, <3>2 DEF Same, Questions
  <2>5. \A o \in Calls \ {c} : Busy(o) /\ call[o].of = order[j].of =>
          /\ Same(call[o], data, j)
          /\ Now(order[j].of) => Knows(WillOf(call[o], data), j)
    BY <2>1 DEF Follows
  <2>6. \A o \in Calls : Busy(o)' /\ call'[o].of = order'[j].of =>
          /\ Same(call'[o], data', j)
          /\ Now(order[j].of)' => Knows(WillOf(call'[o], data'), j)
    BY <1>1, <1>2, <1>4, <2>4, <2>5 DEF Now
  <2>7. Now(order[j].of)' => Knows(data', j) /\ state' # "choose_route"
    BY <1>2, <2>1 DEF Follows, Now
  <2> QED
    BY <2>2, <2>3, <2>6, <2>7 DEF Follows
<1> QED
  BY <1>5, <1>6, <1>7, <1>8 DEF Kept

LEMMA FinalizesKept ==
  ASSUME ConstantsFit, Fits, Kept, NEW c \in Calls, Finalizes(c)
  PROVE  Kept'
<1> /\ CallsTyped /\ OrdersTyped /\ order \in [Keys -> OrderRec] /\ data \in DataRec
  BY DEF Fits, Typed, OrdersTyped, DialogueTyped
<1>1. /\ Busy(c) /\ StageOf(call[c]) = "finalizes" /\ WillOf(call[c], data) = data
      /\ UNCHANGED <<dialogue, shared>>
  BY DEF Finalizes, Busy, At, StageOf, WillOf
<1>2. CASE Ends(c) /\ Clears /\ UNCHANGED order
  BY <1>1, <1>2, EndsBecomes, KeptCleared
<1>3. CASE Ends(c) /\ UNCHANGED <<state, data, order>>
  <2>1. Idle \in CallRec /\ Idle.pc = "idle" /\ StageOf(Idle) = "idle" /\ WillOf(Idle, data) = data
    BY NamesTyped DEF StageOf, WillOf
  <2>2. \A k \in Keys : Made(k)' => Made(k) /\ order'[k].of = order[k].of
    BY <1>3 DEF Made
  <2> QED
    BY <1>1, <1>3, <2>1, <2>2, EndsBecomes, KeptPast
\* It goes on with a key: of the order that is made already, if there is one
<1>4. ASSUME NEW k \in Keys, NEW p \in {"keeps", "inserts"}, Takes(c, p, k, data.route),
             data.route # None, UNCHANGED <<state, data>>,
             \/ p = "keeps" /\ data.key = 0
             \/ p = "inserts" /\ data.key = k,
             \A i \in Keys : Made(i)' => Made(i) /\ order'[i].of = order[i].of
      PROVE  Kept'
  <2>1. PICK r \in Routes \cup {None} : r = data.route /\ p \in Pcs
    BY DEF DataRec, Pcs, Making
  <2>2. PICK q \in CallRec : Becomes(c, q) /\ q.pc = p /\ q.key = k /\ q.of = call[c].of
    BY <1>4, <2>1, TakesTurns DEF Turns
  <2>3. StageOf(q) = p /\ WillOf(q, data) = data
    BY <2>2 DEF StageOf, WillOf
  <2>4. call[c].of \notin shared /\ call[c].of = dialogue /\ state' # "none"
          => KeepsIt(q, data', state')
    <3>1. call[c].of \notin shared /\ call[c].of = dialogue /\ state # "none"
            => state # "choose_route"
      BY <1>1 DEF Kept, Keeps, KeepsIt, Now
    <3> QED
      BY <1>4, <2>2, <2>3, <3>1 DEF KeepsIt
  <2>5. ASSUME NEW j \in Keys, Made(j), order[j].of \notin shared, call[c].of = order[j].of
        PROVE  /\ Same(q, data', j)
               /\ call[c].of = dialogue /\ state' # "none" =>
                    Knows(WillOf(q, data'), j) /\ Knows(data', j) /\ state' # "choose_route"
    <3>1. Follows(j)
      BY <2>5 DEF Kept, Once
    <3>2. Knows(data, j)
      BY <1>1, <2>5, <3>1 DEF Follows, Same
    <3>3. q.key = j
      BY <1>4, <2>2, <3>2, Integers DEF Knows
    <3>4. Same(q, data', j)
      BY <1>4, <2>3, <3>3 DEF Same, Questions
    <3>5. call[c].of = dialogue /\ state # "none" => state # "choose_route"
      BY <2>5, <3>1 DEF Follows, Now
    <3> QED
      BY <1>4, <2>3, <3>2, <3>4, <3>5
  <2> QED
    BY <1>1, <1>4, <2>2, <2>4, <2>5, KeptByHisStep
<1>5. ASSUME NEW k \in Keys, Fresh(k), order' = [order EXCEPT ![k].status = "drawn"],
             call' = [call EXCEPT ![c].pc = "keeps", ![c].key = k, ![c].route = data.route],
             UNCHANGED <<state, data>>, data.route # None, data.key = 0
      PROVE  Kept'
  <2>1. Takes(c, "keeps", k, data.route)
    BY <1>5 DEF Takes
  <2>2. /\ order'[k].status = "drawn" /\ order'[k].of = order[k].of
        /\ \A i \in Keys \ {k} : order'[i] = order[i]
    BY <1>5 DEF OrderRec
  <2>3. \A i \in Keys : Made(i)' => Made(i) /\ order'[i].of = order[i].of
    BY <2>2 DEF Made
  <2> QED
    BY <1>4, <1>5, <2>1, <2>3
<1>6. CASE /\ call' = [call EXCEPT ![c].pc = "inserts", ![c].key = data.key, ![c].route = data.route]
           /\ data.key # 0 /\ data.route # None /\ UNCHANGED order /\ UNCHANGED <<state, data>>
  <2>1. data.key \in Keys /\ Takes(c, "inserts", data.key, data.route)
    BY <1>6 DEF DataRec, Takes
  <2>2. \A i \in Keys : Made(i)' => Made(i) /\ order'[i].of = order[i].of
    BY <1>6 DEF Made
  <2> QED
    BY <1>4, <1>6, <2>1, <2>2
<1> QED
  BY <1>2, <1>3, <1>5, <1>6 DEF Finalizes, Misses

\* The order is made: of its dialogue there was none
LEMMA InsertsKept ==
  ASSUME ConstantsFit, Fits, Kept, NEW c \in Calls, Inserts(c)
  PROVE  Kept'
<1> /\ CallsTyped /\ OrdersTyped /\ order \in [Keys -> OrderRec]
  BY DEF Fits, Typed, OrdersTyped
<1>0. PICK k \in Keys : k = call[c].key
  BY DEF Inserts, At, StageOf, Fits, KeysFit, KeyFits, Stage, Making
<1>1. /\ Busy(c) /\ call[c].pc = "inserts" /\ StageOf(call[c]) = "inserts"
      /\ WillOf(call[c], data) = data
      /\ UNCHANGED <<state, data, dialogue, shared>>
  BY DEF Inserts, Busy, At, StageOf, WillOf
<1>2. CASE Goes(c, "clears") /\ UNCHANGED order
  <2>1. PICK q : Turns(c, q) /\ q.pc = "clears"
    BY <1>2, GoesTurns DEF Pcs
  <2>2. StageOf(q) = "clears" /\ WillOf(q, data) = data
    BY <2>1 DEF StageOf, WillOf
  <2>3. \A i \in Keys : Made(i)' => Made(i) /\ order'[i].of = order[i].of
    BY <1>2 DEF Made
  <2> QED
    BY <1>1, <2>1, <2>2, <2>3, KeptPast DEF Turns
<1>3. ASSUME NEW o, o = [status |-> "open", route |-> call[c].route, of |-> call[c].of],
             order[k].status = "drawn", order' = [order EXCEPT ![k] = o],
             call' = [call EXCEPT ![c].pc = "commits", ![c].route = None]
      PROVE  Kept'
  <2>1. PICK q : Turns(c, q) /\ q.pc = "commits" /\ q.key = k
    BY <1>0, <1>3, InsertedTurns
  <2>2. /\ call'[c] = q /\ q.of = call[c].of /\ \A b \in Calls \ {c} : call'[b] = call[b]
        /\ StageOf(q) = "commits" /\ WillOf(q, data) = data
        /\ \A b \in Calls : Busy(b)' <=> Busy(b)
    BY <1>1, <2>1, BecomesTyped DEF Turns, StageOf, WillOf, Busy, At
  <2>3. /\ o.of = call[c].of /\ order'[k].of = call[c].of
        /\ \A i \in Keys \ {k} : order'[i] = order[i] /\ (Made(i)' <=> Made(i))
    BY <1>1, <1>3 DEF Made
  <2>4. Begun'
    <3>1. call[c].of <= dialogue
      BY <1>1 DEF Kept, Begun
    <3>2. \A b \in Calls : Busy(b)' => call'[b].of <= dialogue
      BY <2>2 DEF Kept, Begun
    <3>3. \A i \in Keys \ {k} : Made(i)' => order'[i].of <= dialogue
      BY <2>3 DEF Kept, Begun
    <3> QED
      BY <1>1, <2>3, <3>1, <3>2, <3>3 DEF Begun
  <2>5. Alone'
    BY <1>1, <2>2 DEF Kept, Alone
  <2>6. Keeps'
    <3>1. KeepsIt(q, data, state)
      BY <2>2 DEF KeepsIt
    <3> QED
      BY <1>1, <2>2, <3>1 DEF Kept, Keeps, Now
\* The call alone comes to this key
  <2>7. ASSUME NEW j \in Keys \ {k}, Made(j), order[j].of \notin shared
        PROVE  order[j].of # call[c].of
    BY <1>0, <1>1, <2>7 DEF Kept, Once, Follows, Same
  <2>8. ASSUME call[c].of \notin shared
        PROVE  Follows(k)'
    <3>1. \A b \in Calls \ {c} : ~Busy(b)
      BY <1>1, <2>8 DEF Kept, Alone
    <3>2. Now(call[c].of) => Knows(data, k) /\ state # "choose_route"
      BY <1>0, <1>1, <2>8 DEF Kept, Keeps, KeepsIt, Knows
    <3>3. Same(q, data, k)
      BY <2>2 DEF Same, Questions
    <3>4. \A i \in Keys : Made(i)' /\ order'[i].of = order'[k].of => i = k
      BY <2>3, <2>7, <2>8
    <3>5. call[c].of >= call[c].of
      BY Integers
    <3> QED
      BY <1>1, <2>2, <2>3, <3>1, <3>2, <3>3, <3>4, <3>5 DEF Follows, Now
  <2>9. ASSUME NEW j \in Keys \ {k}, Made(j), order[j].of \notin shared
        PROVE  Follows(j)'
    <3>1. Follows(j) /\ order'[j].of = order[j].of /\ order[j].of # call[c].of
      BY <2>3, <2>7, <2>9 DEF Kept, Once
    <3>2. \A i \in Keys : Made(i)' /\ order'[i].of = order'[j].of => i = j
      BY <2>3, <3>1 DEF Follows
    <3>3. \A b \in Calls : Busy(b)' => call'[b].of >= order'[j].of
      BY <2>2, <3>1 DEF Follows
    <3>4. \A b \in Calls : Busy(b)' /\ call'[b].of = order'[j].of =>
            /\ Same(call'[b], data', j)
            /\ Now(order[j].of)' => Knows(WillOf(call'[b], data'), j)
      BY <1>1, <2>2, <3>1 DEF Follows, Now
    <3> QED
      BY <1>1, <3>1, <3>2, <3>3, <3>4 DEF Follows, Now
  <2>10. Once'
    <3> SUFFICES ASSUME NEW j \in Keys, Made(j)', order'[j].of \notin shared
                 PROVE  Follows(j)'
      BY <1>1 DEF Once
    <3>1. CASE j = k
      BY <2>3, <2>8, <3>1
    <3>2. CASE j # k
      BY <2>3, <2>9, <3>2
    <3> QED
      BY <3>1, <3>2
  <2> QED
    BY <2>4, <2>5, <2>6, <2>10 DEF Kept
<1>4. PICK o : o = [status |-> "open", route |-> call[c].route, of |-> call[c].of]
  OBVIOUS
<1> QED
  BY <1>0, <1>2, <1>3, <1>4 DEF Inserts

LEMMA WritesKept ==
  ASSUME ConstantsFit, Fits, Kept, NEW c \in Calls, Writes(c)
  PROVE  Kept'
<1>1. /\ CallsTyped /\ KeyFits(c) /\ Busy(c) /\ call[c].pc = "writes"
      /\ UNCHANGED <<state, dialogue, shared, order>> /\ data' = call[c].seen
  BY DEF Fits, Typed, KeysFit, Busy, At, Writes, store
<1>2. PICK q : Turns(c, q) /\ q.pc = call[c].next /\ q.key = call[c].key
  BY <1>1, WritesTurns
<1>3. q.pc # "writes"
  BY <1>1, <1>2 DEF KeyFits, At, Nexts, Questions
<1>4. /\ StageOf(q) = StageOf(call[c])
      /\ WillOf(q, data') = WillOf(call[c], data) /\ data' = WillOf(call[c], data)
  BY <1>1, <1>2, <1>3 DEF StageOf, WillOf
<1>5. call[c].of \notin shared /\ call[c].of = dialogue /\ state' # "none"
        => KeepsIt(q, data', state')
  BY <1>1, <1>2, <1>4 DEF Kept, Keeps, KeepsIt, Now
<1>6. ASSUME NEW j \in Keys, Made(j), order[j].of \notin shared, call[c].of = order[j].of
      PROVE  /\ Same(q, data', j)
             /\ call[c].of = dialogue /\ state' # "none" =>
                  Knows(WillOf(q, data'), j) /\ Knows(data', j) /\ state' # "choose_route"
  <2>1. Follows(j)
    BY <1>6 DEF Kept, Once
  <2>2. /\ Same(call[c], data, j)
        /\ Now(order[j].of) => Knows(WillOf(call[c], data), j) /\ state # "choose_route"
    BY <1>1, <1>6, <2>1 DEF Follows
  <2>3. Same(q, data', j)
    BY <1>2, <1>4, <2>2 DEF Same
  <2> QED
    BY <1>1, <1>4, <1>6, <2>2, <2>3 DEF Now
<1>7. \A i \in Keys : Made(i)' => Made(i) /\ order'[i].of = order[i].of
  BY <1>1 DEF Made
<1> QED
  BY <1>1, <1>2, <1>5, <1>6, <1>7, KeptByHisStep DEF Turns

\* The next question is not the first
LEMMA AsksKept ==
  ASSUME ConstantsFit, Fits, Kept, NEW c \in Calls, Asks(c)
  PROVE  Kept'
<1>1. /\ CallsTyped /\ Busy(c) /\ call[c].pc \in Questions /\ state' \in Questions
      /\ UNCHANGED <<data, dialogue, shared, order>> /\ Becomes(c, Idle)
  BY EndsBecomes DEF Fits, Typed, Busy, At, Asks, Questions, store
<1>2. /\ Idle \in CallRec /\ Idle.pc = "idle" /\ StageOf(Idle) = "idle" /\ WillOf(Idle, data) = data
      /\ StageOf(call[c]) = call[c].pc /\ WillOf(call[c], data) = data
  BY <1>1, NamesTyped DEF StageOf, WillOf, Questions
<1>3. KeepsIt(Idle, data', state') /\ state' # "choose_route"
  BY <1>1, <1>2 DEF KeepsIt, Questions
<1>4. ASSUME NEW j \in Keys, Made(j), order[j].of \notin shared, call[c].of = order[j].of
      PROVE  Same(Idle, data', j) /\ Knows(data, j)
  <2>1. Knows(data, j)
    BY <1>1, <1>2, <1>4 DEF Kept, Once, Follows, Same
  <2> QED
    BY <1>2, <2>1 DEF Same, Questions
<1>5. \A i \in Keys : Made(i)' => Made(i) /\ order'[i].of = order[i].of
  BY <1>1 DEF Made
<1> QED
  BY <1>1, <1>2, <1>3, <1>4, <1>5, KeptByHisStep

LEMMA KeepsKeyKept ==
  ASSUME ConstantsFit, Fits, Kept, NEW c \in Calls, KeepsKey(c)
  PROVE  Kept'
<1>1. /\ CallsTyped /\ KeyFits(c) /\ data \in DataRec
      /\ Busy(c) /\ StageOf(call[c]) = "keeps"
      /\ UNCHANGED <<state, data, dialogue, shared, order>>
  BY DEF Fits, Typed, DialogueTyped, KeysFit, Busy, At, StageOf, KeepsKey, store
<1>2. PICK d : d \in DataRec /\ d = [data EXCEPT !.key = call[c].key] /\ d.key = call[c].key
  <2>1. PICK d : d = [data EXCEPT !.key = call[c].key]
    OBVIOUS
  <2>2. call[c].key \in Keys
    BY <1>1 DEF KeyFits, Stage, Making
  <2> QED
    BY <1>1, <2>1, <2>2 DEF DataRec
<1>3. PICK q : Turns(c, q) /\ q.pc = "writes" /\ q.seen = d /\ q.next = "inserts"
               /\ q.key = call[c].key
  BY <1>1, <1>2, UpdatesTurns DEF KeepsKey, Nexts
<1>4. StageOf(q) = "inserts" /\ WillOf(q, data) = d
  BY <1>3 DEF StageOf, WillOf
<1>5. call[c].of \notin shared /\ call[c].of = dialogue /\ state' # "none"
        => KeepsIt(q, data', state')
  BY <1>1, <1>2, <1>3, <1>4 DEF Kept, Keeps, KeepsIt, Now
<1>6. ASSUME NEW j \in Keys, Made(j), order[j].of \notin shared, call[c].of = order[j].of
      PROVE  /\ Same(q, data', j)
             /\ call[c].of = dialogue /\ state' # "none" =>
                  Knows(WillOf(q, data'), j) /\ Knows(data', j) /\ state' # "choose_route"
  <2>1. Follows(j)
    BY <1>6 DEF Kept, Once
  <2>2. call[c].key = j
    BY <1>1, <1>6, <2>1 DEF Follows, Same
  <2>3. Same(q, data', j) /\ Knows(WillOf(q, data), j)
    BY <1>2, <1>3, <1>4, <2>2 DEF Same, Questions, Knows
  <2> QED
    BY <1>1, <1>6, <2>1, <2>3 DEF Follows, Now
<1>7. \A i \in Keys : Made(i)' => Made(i) /\ order'[i].of = order[i].of
  BY <1>1 DEF Made
<1> QED
  BY <1>1, <1>3, <1>5, <1>6, <1>7, KeptByHisStep DEF Turns

\* From the commit on
LEMMA EndingKept ==
  ASSUME ConstantsFit, Fits, Kept, NEW c \in Calls,
         Commits(c) \/ Publishes(c) \/ RecordsOrder(c) \/ Tells(c) \/ ClearsData(c)
  PROVE  Kept'
<1> CallsTyped /\ KeyFits(c) /\ data \in DataRec /\ order \in [Keys -> OrderRec]
  BY DEF Fits, Typed, KeysFit, DialogueTyped, OrdersTyped
<1>1. Busy(c) /\ UNCHANGED <<dialogue, shared>>
  BY DEF Busy, At, Commits, Publishes, RecordsOrder, Tells, ClearsData
<1>2. ASSUME NEW p \in {"clears", "publishes", "records"}, Goes(c, p),
             UNCHANGED <<state, data>>,
             \A i \in Keys : Made(i)' => Made(i) /\ order'[i].of = order[i].of
      PROVE  Kept'
  <2>1. PICK q : Turns(c, q) /\ q.pc = p
    BY <1>2, GoesTurns DEF Pcs, Making
  <2>2. StageOf(q) = p /\ WillOf(q, data) = data
    BY <2>1 DEF StageOf, WillOf
  <2> QED
    BY <1>1, <1>2, <2>1, <2>2, KeptPast DEF Turns
<1>3. CASE Commits(c)
  <2>1. order[call[c].key].status = "open"
    BY <1>3 DEF Commits, KeyFits
  <2>2. \A i \in Keys : /\ order'[i].of = order[i].of
                        /\ i # call[c].key => order'[i] = order[i]
    BY <1>3 DEF Commits, OrderRec
  <2>3. \A i \in Keys : Made(i)' => Made(i) /\ order'[i].of = order[i].of
    BY <2>1, <2>2 DEF Made
  <2> QED
    BY <1>2, <1>3, <2>3 DEF Commits
<1>4. CASE Publishes(c) \/ Tells(c)
  <2>1. \A i \in Keys : Made(i)' => Made(i) /\ order'[i].of = order[i].of
    BY <1>4 DEF Publishes, Tells, Made
  <2> QED
    BY <1>2, <1>4, <2>1 DEF Publishes, Tells
<1>5. CASE RecordsOrder(c)
  <2>0. PICK d : d = [data EXCEPT !.created = TRUE]
    OBVIOUS
  <2>1. d \in DataRec /\ d.key = data.key /\ d.route = data.route
    BY <2>0 DEF DataRec
  <2>2. PICK q : Turns(c, q) /\ q.pc = "writes" /\ q.seen = d /\ q.next = "tells"
    BY <1>5, <2>0, <2>1, UpdatesTurns DEF RecordsOrder, Nexts
  <2>3. StageOf(q) = "tells" /\ WillOf(q, data) = d
    BY <2>2 DEF StageOf, WillOf
  <2>4. /\ UNCHANGED <<state, data>>
        /\ \A i \in Keys : Made(i)' => Made(i) /\ order'[i].of = order[i].of
    BY <1>5 DEF RecordsOrder, Made, store
  <2> QED
    BY <1>1, <2>1, <2>2, <2>3, <2>4, KeptPast DEF Turns
<1>6. CASE ClearsData(c)
  BY <1>1, <1>6, EndsBecomes, KeptCleared DEF ClearsData, store
<1> QED
  BY <1>3, <1>4, <1>5, <1>6

\* A dialogue begins: no order is of it
LEMMA StartsKept ==
  ASSUME ConstantsFit, Fits, Kept, NEW c \in Calls, StartBooking(c)
  PROVE  Kept'
<1>1. UNCHANGED <<data, call, shared, order>> /\ dialogue' = dialogue + 1
  BY DEF StartBooking, store
<1>2. /\ \A o \in Calls : Busy(o) => call[o].of <= dialogue' /\ call[o].of # dialogue'
      /\ \A k \in Keys : Made(k) => order[k].of <= dialogue' /\ order[k].of # dialogue'
  <2>1. ASSUME NEW n \in Int, n <= dialogue
        PROVE  n <= dialogue' /\ n # dialogue'
    BY <1>1, <2>1, Integers
  <2> QED
    BY <2>1, Integers DEF Kept, Begun
<1>3. Begun' /\ Alone' /\ Keeps'
  BY <1>1, <1>2 DEF Kept, Begun, Alone, Keeps, Busy, At, Made, Now
<1>4. Once'
  BY <1>1, <1>2 DEF Kept, Once, Follows, Busy, At, Made, Now
<1> QED
  BY <1>3, <1>4 DEF Kept

LEMMA TalksKept ==
  ASSUME ConstantsFit, Fits, Kept, NEW c \in Calls, Talks(c)
  PROVE  Kept'
<1>1. data \in DataRec
  BY DEF Fits, Typed, DialogueTyped
<1>2. CASE RouteSelected(c)
  <2>1. PICK r \in Rows : /\ state = "choose_route"
                          /\ Arrives(c, [data EXCEPT !.route = r], "send_location")
    BY <1>2 DEF RouteSelected
  <2>2. PICK d : d = [data EXCEPT !.route = r]
    OBVIOUS
  <2>3. d \in DataRec /\ d.key = data.key
    BY <1>1, <2>2 DEF DataRec, Rows
  <2> QED
    BY <2>1, <2>2, <2>3, ArrivalsKept DEF Questions, Nexts
<1>3. CASE LocationReceived(c)
  <2>1. PICK d : d = [data EXCEPT !.place = TRUE]
    OBVIOUS
  <2>2. d \in DataRec /\ d.key = data.key /\ d.route = data.route
    BY <1>1, <2>1 DEF DataRec
  <2> QED
    BY <1>3, <2>1, <2>2, ArrivalsKept DEF LocationReceived, Questions, Nexts
<1>4. CASE DescriptionReceived(c)
  BY <1>1, <1>4, ArrivalsKept DEF DescriptionReceived, Questions, Nexts
<1>5. CASE CountSelected(c)
  <2>1. PICK d : d = [data EXCEPT !.count = TRUE]
    OBVIOUS
  <2>2. d \in DataRec /\ d.key = data.key /\ d.route = data.route
    BY <1>1, <2>1 DEF DataRec
  <2> QED
    BY <1>5, <2>1, <2>2, ArrivalsKept DEF CountSelected, Nexts
<1> QED
  BY <1>2, <1>3, <1>4, <1>5, StartsKept, WritesKept, AsksKept, FinalizesKept, KeepsKeyKept,
     InsertsKept, EndingKept DEF Talks

LEMMA LeavesKept ==
  ASSUME ConstantsFit, Fits, Kept, Leaves
  PROVE  Kept'
<1>1. /\ UNCHANGED <<call, dialogue, shared, order>> /\ state' = "none"
      /\ data' = Empty /\ Empty.route = None
  BY NamesTyped DEF Leaves, Clears, store
<1>2. Begun' /\ Alone' /\ Keeps'
  BY <1>1 DEF Kept, Begun, Alone, Keeps, Busy, At, Made, Now
<1>3. \A c \in Calls, j \in Keys : Same(call[c], data, j) => Same(call[c], data', j)
  BY <1>1 DEF Same, Knows, WillOf
<1>4. Once'
  BY <1>1, <1>3 DEF Kept, Once, Follows, Busy, At, Made, Now
<1> QED
  BY <1>2, <1>4 DEF Kept

\* What is left of a crash: the orders that were stored, and the conversation
LEMMA CrashKept ==
  ASSUME ConstantsFit, Fits, Kept, Crash
  PROVE  Kept'
<1>1. UNCHANGED <<state, data, dialogue, shared>>
  BY DEF Crash
<1>2. \A c \in Calls : Busy(c)' => call'[c] = call[c]
  BY NamesTyped DEF Crash, Busy, At
<1>3. \A k \in Keys : Made(k)' => Made(k) /\ order'[k].of = order[k].of
  BY NamesTyped DEF Crash, Made
<1> QED
  BY <1>1, <1>2, <1>3, KeptStays

\* An order goes with its route, and was made
LEMMA OthersKept ==
  ASSUME ConstantsFit, Fits, Kept, Driver \/ Office \/ UNCHANGED vars
  PROVE  Kept'
<1> order \in [Keys -> OrderRec]
  BY DEF Fits, Typed, OrdersTyped
<1>1. UNCHANGED <<call, state, data, dialogue, shared>>
  BY DEF Driver, DriverStarts, DriverLocates, DriverChooses, DriverTakesSeats, DriverStops,
         Office, CreateRoute, ToggleRoute, DeleteRoute, talk, vars
<1>2. \A k \in Keys : Made(k)' => Made(k) /\ order'[k].of = order[k].of
  <2>1. CASE UNCHANGED order
    BY <2>1 DEF Made
  <2>2. ASSUME NEW r \in Routes, DeleteRoute(r)
        PROVE  \A k \in Keys : Made(k)' => Made(k) /\ order'[k].of = order[k].of
    <3> SUFFICES ASSUME NEW k \in Keys, Made(k)'
                 PROVE  Made(k) /\ order'[k].of = order[k].of
      OBVIOUS
    <3>1. order'[k] = IF order[k].route = r THEN [order[k] EXCEPT !.status = "gone"] ELSE order[k]
      BY <2>2 DEF DeleteRoute
    <3>2. order'[k].of = order[k].of
      BY <3>1 DEF OrderRec
    <3>3. CASE order[k].route = r
      BY <3>2, <3>3 DEF Fits, OrdersFit, ConstantsFit
    <3>4. CASE order[k].route # r
      BY <3>1, <3>4 DEF Made
    <3> QED
      BY <3>2, <3>3, <3>4
  <2>3. CASE Driver \/ UNCHANGED vars
    BY <2>1, <2>3 DEF Driver, DriverStarts, DriverLocates, DriverChooses, DriverTakesSeats,
                      DriverStops, store, vars
  <2> QED
    BY <2>1, <2>2, <2>3 DEF Office, CreateRoute, ToggleRoute, store
<1>3. \A c \in Calls : Busy(c)' => call'[c] = call[c]
  BY <1>1
<1> QED
  BY <1>1, <1>2, <1>3, KeptStays

LEMMA InitKept ==
  ASSUME ConstantsFit, Init
  PROVE  Kept /\ NoDanglingRoute
<1>1. \A c \in Calls : ~Busy(c)
  BY NamesTyped DEF Init, Busy, At
<1>2. \A k \in Keys : order[k].status = "none"
  BY DEF Init, NoOrder
<1>3. Kept
  BY <1>1, <1>2 DEF Kept, Begun, Alone, Keeps, Once, Made
<1>4. ~row.active
  BY DEF Init
<1> QED
  BY <1>2, <1>3, <1>4 DEF NoDanglingRoute

LEMMA StepKept ==
  ASSUME ConstantsFit, Fits, Kept, [Next]_vars
  PROVE  Kept'
BY TalksKept, LeavesKept, CrashKept, OthersKept DEF Next, Passenger

--------------------------------------------------------------------------------
(* Theorems *)

\* Every value keeps to its type: in particular a find task is only ever published for an
\* order that was committed (finalize_order calls the broker after create_new_order)
THEOREM TypeCorrect ==
  ASSUME ConstantsFit
  PROVE  Spec => []TypeOK
<1>1. Init => Fits
  BY InitFits
<1>2. Fits /\ [Next]_vars => Fits'
  BY StepFits
<1>3. Fits => TypeOK
  BY FitsImplies
<1> QED
  BY <1>1, <1>2, <1>3, PTL DEF Spec

\* A stored order and an online driver are on a route that exists, whenever delete_route
\* comes between the choice of a route and the row that refers to it; only a driver
\* whose route was deleted under him is on none
THEOREM RoutesAreThere ==
  ASSUME ConstantsFit
  PROVE  Spec => []NoDanglingRoute
<1>1. Init => Fits /\ NoDanglingRoute
  BY InitFits, InitKept
<1>2. Fits /\ NoDanglingRoute /\ [Next]_vars => (Fits /\ NoDanglingRoute)'
  BY StepFits, OrdersOnRoutes, DriverOnRoute DEF NoDanglingRoute
<1> QED
  BY <1>1, <1>2, PTL DEF Spec

\* One dialogue stores one order, however often its last answer is pressed again after an
\* error, a cancelled conversation or a restart (the key finalize_order keeps in the
\* data), unless two of its messages were handled at once
THEOREM OneOrder ==
  ASSUME ConstantsFit
  PROVE  Spec => []OneOrderPerDialogue
<1>1. Init => Fits /\ Kept
  BY InitFits, InitKept
<1>2. Fits /\ Kept /\ [Next]_vars => (Fits /\ Kept)'
  BY StepFits, StepKept
<1>3. Kept => OneOrderPerDialogue
  BY KeptImplies
<1> QED
  BY <1>1, <1>2, <1>3, PTL DEF Spec

================================================================================
