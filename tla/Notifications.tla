----------------------------- MODULE Notifications -----------------------------
(***************************************************************************)
(* The tasks that send messages (tasks/notifications.py): notify_admins,   *)
(* notify_trip_completed and send_bulk_messages fan a text out, one        *)
(* send_telegram_message task for each chat, and this one counts what the  *)
(* chat was sent, waits a second, sends, and is retried after an error.    *)
(* Tasks are acknowledged when they have ended: the task of a worker that  *)
(* dies is run again from its start, so a message may come twice.          *)
(* send_broadcast of the admin panel (admin/routes/broadcast.py) sends     *)
(* from the request itself, chat by chat, and nobody goes on for it.       *)
(***************************************************************************)
EXTENDS Integers, FiniteSets

CONSTANTS
  Texts,       \* what is published to be sent to every chat
  Chats,       \* admin_ids_list, the two sides of a trip, or the users of a bulk message
  MaxTries,    \* max_retries of send_telegram_message
  Second,      \* life of tg_rate:{chat}, in ticks
  MaxFaults    \* bound: workers that die, and commands that Redis does not answer

VARIABLES
  published,   \* texts a task was published for
  fan,         \* text -> chats its task, or its request, has yet to come to
  casts,       \* texts that an admin's request sends
  dropped,     \* <<text, chat>>: a request died before it came to the chat
  tasks,       \* send_telegram_message: [text, to, tries, pc]
  settled,     \* <<text, chat>>: sent, refused for good, or given up
  rate,        \* tg_rate:{chat}: count, capped at 2, and what it has left to live
  faults

casting == <<casts, dropped>>
vars == <<published, fan, casting, tasks, settled, rate, faults>>

Forever == -1
NoKey   == [n |-> 0, ttl |-> 0]
Fault   == faults < MaxFaults /\ faults' = faults + 1

--------------------------------------------------------------------------------
(* The tasks that fan out *)

Publish(x) ==
  /\ x \notin published
  /\ published' = published \cup {x}
  /\ fan' = [fan EXCEPT ![x] = Chats]
  /\ casts' \in {casts, casts \cup {x}}
  /\ UNCHANGED <<tasks, dropped, settled, rate, faults>>

Queues(x, a) ==
  /\ a \in fan[x] /\ x \notin casts
  /\ fan' = [fan EXCEPT ![x] = @ \ {a}]
  /\ tasks' = tasks \cup {[text |-> x, to |-> a, tries |-> 0, pc |-> "counts"]}
  /\ UNCHANGED <<published, casting, settled, rate, faults>>

RunAgain(x) == Chats

FanDies(x) ==
  /\ fan[x] # {} /\ x \notin casts /\ Fault
  /\ fan' = [fan EXCEPT ![x] = RunAgain(x)]
  /\ UNCHANGED <<published, casting, tasks, settled, rate>>

--------------------------------------------------------------------------------
(* send_broadcast *)

\* Sent or refused: an error is counted and the next chat comes
Casts(x, a) ==
  /\ x \in casts /\ a \in fan[x]
  /\ fan' = [fan EXCEPT ![x] = @ \ {a}]
  /\ settled' = settled \cup {<<x, a>>}
  /\ UNCHANGED <<published, casting, tasks, rate, faults>>

CastDies(x) ==
  /\ x \in casts /\ fan[x] # {} /\ Fault
  /\ fan' = [fan EXCEPT ![x] = {}]
  /\ dropped' = dropped \cup {<<x, a>> : a \in fan[x]}
  /\ UNCHANGED <<published, casts, tasks, settled, rate>>

--------------------------------------------------------------------------------
(* send_telegram_message *)

Moves(m, to) == tasks' = (tasks \ {m}) \cup {[m EXCEPT !.pc = to]}
Ends(m)      == tasks' = tasks \ {m} /\ settled' = settled \cup {<<m.text, m.to>>}
Works        == UNCHANGED faults

\* INCR; a failed one reads as 0, and nothing is waited for
Counts(m) ==
  LET key == rate[m.to] IN
  /\ m \in tasks /\ m.pc = "counts"
  /\ \/ /\ Works
        /\ rate' = [rate EXCEPT ![m.to] =
             IF key = NoKey THEN [n |-> 1, ttl |-> Forever] ELSE [key EXCEPT !.n = 2]]
        /\ Moves(m, IF key = NoKey THEN "expires" ELSE "waits")
     \/ Fault /\ Moves(m, "sends") /\ UNCHANGED rate
  /\ UNCHANGED <<published, fan, casting, settled>>

\* EXPIRE, by whoever has counted one
Expires(m) ==
  /\ m \in tasks /\ m.pc = "expires"
  /\ \/ Works /\ rate' = [rate EXCEPT ![m.to].ttl = IF @ = 0 THEN 0 ELSE Second]
     \/ Fault /\ UNCHANGED rate
  /\ Moves(m, "sends")
  /\ UNCHANGED <<published, fan, casting, settled>>

\* asyncio.sleep(1); whatever the count is by then, the message is sent
Waits(m) ==
  /\ m \in tasks /\ m.pc = "waits"
  /\ Moves(m, "sends")
  /\ UNCHANGED <<published, fan, casting, settled, rate, faults>>

\* Sent, or Forbidden, or a bad request
Sends(m) ==
  /\ m \in tasks /\ m.pc = "sends"
  /\ Ends(m)
  /\ UNCHANGED <<published, fan, casting, rate, faults>>

\* Mutant: a retry does not count
SameTry(n) == n

NextTry(n) == n + 1

\* Flood wait, or another error: retried, and in the end given up
Stumbles(m) ==
  /\ m \in tasks /\ m.pc = "sends"
  /\ IF m.tries < MaxTries
       THEN /\ tasks' = (tasks \ {m}) \cup {[m EXCEPT !.tries = NextTry(@), !.pc = "counts"]}
            /\ UNCHANGED settled
       ELSE Ends(m)
  /\ UNCHANGED <<published, fan, casting, rate, faults>>

WorkerDies(m) ==
  /\ m \in tasks /\ m.pc # "counts" /\ Fault
  /\ Moves(m, "counts")
  /\ UNCHANGED <<published, fan, casting, settled, rate>>

\* The worker dies between the message and its acknowledgement
SentTwice(m) ==
  /\ m \in tasks /\ m.pc = "sends" /\ Fault
  /\ settled' = settled \cup {<<m.text, m.to>>}
  /\ Moves(m, "counts")
  /\ UNCHANGED <<published, fan, casting, rate>>

Tick ==
  /\ \E a \in Chats : rate[a].ttl > 0
  /\ rate' = [a \in Chats |-> IF rate[a].ttl = 1 THEN NoKey
                              ELSE IF rate[a].ttl > 1 THEN [rate[a] EXCEPT !.ttl = @ - 1]
                              ELSE rate[a]]
  /\ UNCHANGED <<published, fan, casting, tasks, settled, faults>>

--------------------------------------------------------------------------------

Init ==
  /\ published = {} /\ fan = [x \in Texts |-> {}]
  /\ casts = {} /\ dropped = {}
  /\ tasks = {} /\ settled = {}
  /\ rate = [a \in Chats |-> NoKey] /\ faults = 0

SendStep(x, a) ==
  \E m \in tasks :
    /\ m.text = x /\ m.to = a
    /\ Counts(m) \/ Expires(m) \/ Waits(m) \/ Sends(m) \/ Stumbles(m)

Step(x, a) == Queues(x, a) \/ Casts(x, a) \/ SendStep(x, a)

Next ==
  \/ \E x \in Texts : Publish(x) \/ FanDies(x) \/ CastDies(x) \/ \E a \in Chats : Step(x, a)
  \/ \E m \in tasks : WorkerDies(m) \/ SentTwice(m)
  \/ Tick

Spec == Init /\ [][Next]_vars

--------------------------------------------------------------------------------
(* Properties *)

TypeOK ==
  /\ published \subseteq Texts /\ fan \in [Texts -> SUBSET Chats]
  /\ tasks \subseteq [text: Texts, to: Chats, tries: 0..MaxTries,
                      pc: {"counts", "expires", "waits", "sends"}]
  /\ casts \subseteq published /\ dropped \subseteq casts \X Chats
  /\ settled \subseteq published \X Chats
  /\ rate \in [Chats -> [n: 0..2, ttl: {Forever} \cup 0..Second]]
  /\ faults \in 0..MaxFaults
================================================================================
