-------------------------------- MODULE Support --------------------------------
(***************************************************************************)
(* What a driver sends to the office, and what comes back: the two         *)
(* dialogues that ask for a deposit (bot/handlers/driver/balance.py and    *)
(* driver/support.py), complaints, and the panel's reply                   *)
(* (admin/routes/feedback.py).  Messages of the driver are handled         *)
(* concurrently; a handler writes the conversation, the database and the   *)
(* broker one after the other, and an error or a crash may fall between.   *)
(*                                                                         *)
(* A receipt or a complaint is an item: its row in transactions or         *)
(* feedbacks.  What becomes of an approved deposit is in Ledger, of the    *)
(* message to the administrators in Notifications.                         *)
(***************************************************************************)
EXTENDS Integers, FiniteSets

CONSTANTS
  Calls,       \* messages of the driver that may be in the handlers at once
  Clerks,      \* requests of the panel that may be handled at once
  Items,       \* rows that may be inserted
  MaxFaults    \* bound: errors of Telegram in a handler, crashes, lapsed keys

VARIABLES
  state, data,   \* the FSM state, and which amounts its data holds
  call,          \* call -> where its handling is and what it has read
  row,           \* item -> "none", "open" in a transaction, "stored", "undone"
  dialogue,      \* number of the amount in the data, and item -> that it was made of
  raced,         \* amounts that two receipts had read before either was done, and
                 \* those whose receipt left a row and not a cleared conversation
  told,          \* items a notify_admins task was published for
  feedback,      \* item -> status of its feedback
  clerk,         \* request of the panel -> item and status it has read
  faults

fsm   == <<state, data>>
rows  == <<row, dialogue, raced, told>>
desk  == <<feedback, clerk>>
vars  == <<fsm, call, rows, desk, faults>>

--------------------------------------------------------------------------------
(* Which handler a message reaches *)

AmountStates  == {"balance_topup", "support_receipt_amount"}
ReceiptStates == {"balance_receipt", "support_receipt_photo"}
States == {"none", "support_complaint"} \cup AmountStates \cup ReceiptStates

\* What is typed, the buttons included: "topup" alone is a button under a message
Texts  == {"amount", "words", "receipt", "support", "complain", "back", "cancel"}
Inputs == Texts \cup {"topup", "photo"}

\* An answer changes nothing: the fallback's, or that this is no amount
Amount(input) == IF input = "amount" THEN "takes_amount" ELSE "answers"

\* The balance router is asked before the one of support, and in each the question
\* for an amount before the buttons that come after it in the file
FirstHandler(input, s) ==
  CASE input = "topup"                                   -> "asks_topup"
    [] s = "balance_topup" /\ input \in Texts            -> Amount(input)
    [] input = "cancel"                                  -> "leaves"
    [] input = "support"                                 -> "opens_support"
    [] input = "receipt"                                 -> "asks_receipt"
    [] s = "support_receipt_amount" /\ input \in Texts   -> Amount(input)
    [] input = "complain"                                -> "opens_support"
    [] s \in ReceiptStates /\ input = "photo"            -> "takes_receipt"
    [] s \in {"support_complaint", "support_receipt_photo"} /\ input = "back" -> "leaves"
    [] s = "support_complaint" /\ input \in Texts        -> "takes_complaint"
    [] OTHER                                             -> "answers"

Idle == [pc |-> "idle", from |-> "none", item |-> "none", made |-> 0]

Takers     == {"takes_amount", "takes_receipt", "takes_complaint"}
At(c, p)   == call[c].pc = p
Goes(c, p) == call' = [call EXCEPT ![c].pc = p]
Ends(c)    == call' = [call EXCEPT ![c] = Idle]
Fault      == faults < MaxFaults /\ faults' = faults + 1

Clears == state' = "none" /\ data' = {}

Arrives(c, i) ==
  /\ At(c, "idle")
  /\ LET h == FirstHandler(i, state)
     IN  call' = [call EXCEPT ![c].pc = h, ![c].from = IF h \in Takers THEN state ELSE "none"]
  /\ UNCHANGED <<fsm, rows, desk, faults>>

--------------------------------------------------------------------------------
(* The dialogues *)

Moves(c, handler, to) ==
  /\ At(c, handler)
  /\ state' = to /\ Ends(c)
  /\ UNCHANGED <<data, rows, desk, faults>>

AsksTopup(c)    == Moves(c, "asks_topup", "balance_topup")
AsksReceipt(c)  == Moves(c, "asks_receipt", "support_receipt_amount")
\* support_menu, start_complaint and start_suggestion
OpensSupport(c) == Moves(c, "opens_support", "support_complaint")

Leaves(c) ==
  /\ At(c, "leaves")
  /\ Clears /\ Ends(c)
  /\ UNCHANGED <<rows, desk, faults>>

Answers(c) ==
  /\ At(c, "answers")
  /\ Ends(c)
  /\ UNCHANGED <<fsm, rows, desk, faults>>

\* topup_amount_entered and receipt_amount_entered: update_data ...
TakesAmount(c) ==
  /\ At(c, "takes_amount")
  /\ data' = data \cup {call[c].from}
  /\ dialogue' = [dialogue EXCEPT !.number = @ + 1]
  /\ dialogue.number < Cardinality(Items)
  /\ Goes(c, "asks_photo")
  /\ UNCHANGED <<state, row, raced, told, desk, faults>>

\* ... not of what is too small or too large ...
RefusesAmount(c) ==
  /\ At(c, "takes_amount")
  /\ Ends(c)
  /\ UNCHANGED <<fsm, rows, desk, faults>>

\* ... and set_state, after the answer
AsksPhoto(c) ==
  /\ At(c, "asks_photo")
  /\ state' = IF call[c].from = "balance_topup" THEN "balance_receipt"
              ELSE "support_receipt_photo"
  /\ Ends(c)
  /\ UNCHANGED <<data, rows, desk, faults>>

--------------------------------------------------------------------------------
(* receipt_uploaded, receipt_photo_uploaded and complaint_text_entered *)

AmountFor(s) == IF s = "balance_receipt" THEN "balance_topup" ELSE "support_receipt_amount"

\* Receipts that have read the amount of the data and not yet cleared it
Holders == {c \in Calls : call[c].made = dialogue.number /\ ~At(c, "idle")}

ReadsAmount(c) ==
  /\ At(c, "takes_receipt")
  /\ IF AmountFor(call[c].from) \in data
       THEN /\ call' = [call EXCEPT ![c].pc = "inserts", ![c].made = dialogue.number]
            /\ raced' = IF Holders = {} THEN raced ELSE raced \cup {dialogue.number}
       ELSE Goes(c, "clears") /\ UNCHANGED raced
  /\ UNCHANGED <<fsm, row, dialogue, told, desk, faults>>

ReadsComplaint(c) ==
  /\ At(c, "takes_complaint")
  /\ Goes(c, "inserts")
  /\ UNCHANGED <<fsm, rows, desk, faults>>

\* create_transaction or create_feedback in the handler's session.  balance.py
\* commits at once and tells nobody.
Inserts(c, i) ==
  LET alone == call[c].from = "balance_receipt" IN
  /\ At(c, "inserts") /\ row[i] = "none"
  /\ row' = [row EXCEPT ![i] = IF alone THEN "stored" ELSE "open"]
  /\ dialogue' = [dialogue EXCEPT !.of[i] = call[c].made]
  /\ call' = [call EXCEPT ![c].pc = IF alone THEN "clears" ELSE "tells", ![c].item = i]
  /\ UNCHANGED <<fsm, raced, told, desk, faults>>

\* notify_admins.delay
Tells(c) ==
  /\ At(c, "tells")
  /\ told' = told \cup {call[c].item}
  /\ Goes(c, "clears")
  /\ UNCHANGED <<fsm, row, dialogue, raced, desk, faults>>

\* Mutant: the question is over, the amount stays
ClearsQuestion(c) ==
  /\ At(c, "clears")
  /\ state' = "none" /\ UNCHANGED data
  /\ Goes(c, "commits")
  /\ UNCHANGED <<rows, desk, faults>>

\* state.clear, after the answer
ClearsAfter(c) ==
  /\ At(c, "clears")
  /\ Clears
  /\ Goes(c, "commits")
  /\ UNCHANGED <<rows, desk, faults>>

Closed(i, how) == IF i # "none" /\ row[i] = "open" THEN [row EXCEPT ![i] = how] ELSE row

\* The end of the session
Commits(c) ==
  /\ At(c, "commits")
  /\ row' = Closed(call[c].item, "stored")
  /\ feedback' = [i \in Items |-> IF i = call[c].item /\ dialogue.of[i] = 0
                                  THEN "open" ELSE feedback[i]]
  /\ Ends(c)
  /\ UNCHANGED <<fsm, dialogue, raced, told, clerk, faults>>

\* The guard, after an error: its own clear may fail, whole or after the state ...
GuardClears(c) ==
  \/ Clears /\ UNCHANGED raced
  \/ /\ state' \in {state, "none"} /\ UNCHANGED data
     /\ raced' = IF call[c].item = "none" THEN raced
                 ELSE raced \cup ({call[c].made} \ {0})

\* ... and what is not committed is rolled back
Fails(c) ==
  /\ ~At(c, "idle")
  /\ Fault
  /\ row' = Closed(call[c].item, "undone")
  /\ GuardClears(c) /\ Ends(c)
  /\ UNCHANGED <<dialogue, told, desk>>

\* The bot is restarted: what is not committed is lost, the conversation stays
Restart ==
  /\ \E c \in Calls : ~At(c, "idle")
  /\ Fault
  /\ row' = [i \in Items |-> IF row[i] = "open" THEN "undone" ELSE row[i]]
  /\ call' = [c \in Calls |-> Idle]
  /\ raced' = raced \cup ({call[c].made : c \in Calls} \ {0})
  /\ UNCHANGED <<fsm, dialogue, told, desk>>

--------------------------------------------------------------------------------
(* The panel *)

NoRequest == [item |-> "none", read |-> "none"]

\* reply_feedback: one UPDATE, whatever the status
Replies(i) ==
  /\ feedback[i] # "none"
  /\ feedback' = [feedback EXCEPT ![i] = "resolved"]
  /\ UNCHANGED <<fsm, call, rows, clerk, faults>>

\* mark_feedback_read: the status is read ...
MarkReads(k, i) ==
  /\ clerk[k] = NoRequest /\ feedback[i] # "none"
  /\ clerk' = [clerk EXCEPT ![k] = [item |-> i, read |-> feedback[i]]]
  /\ UNCHANGED <<fsm, call, rows, feedback, faults>>

Marks(read) == read = "open"

\* ... and what was open becomes in progress
MarkWrites(k) ==
  LET i == clerk[k].item IN
  /\ clerk[k] # NoRequest
  /\ feedback' = IF Marks(clerk[k].read)
                   THEN [feedback EXCEPT ![i] = "in_progress"] ELSE feedback
  /\ clerk' = [clerk EXCEPT ![k] = NoRequest]
  /\ UNCHANGED <<fsm, call, rows, faults>>

--------------------------------------------------------------------------------

Init ==
  /\ state = "none" /\ data = {}
  /\ call = [c \in Calls |-> Idle]
  /\ row = [i \in Items |-> "none"] /\ told = {}
  /\ dialogue = [number |-> 0, of |-> [i \in Items |-> 0]] /\ raced = {}
  /\ feedback = [i \in Items |-> "none"] /\ clerk = [k \in Clerks |-> NoRequest]
  /\ faults = 0

HandlerStep(c) ==
  \/ AsksTopup(c) \/ AsksReceipt(c) \/ OpensSupport(c) \/ Leaves(c) \/ Answers(c)
  \/ TakesAmount(c) \/ RefusesAmount(c) \/ AsksPhoto(c)
  \/ ReadsAmount(c) \/ ReadsComplaint(c) \/ Tells(c) \/ ClearsAfter(c) \/ Commits(c)
  \/ \E i \in Items : Inserts(c, i)

Next ==
  \/ \E c \in Calls : HandlerStep(c) \/ Fails(c) \/ \E s \in Inputs : Arrives(c, s)
  \/ Restart
  \/ \E i \in Items : Replies(i) \/ \E k \in Clerks : MarkReads(k, i)
  \/ \E k \in Clerks : MarkWrites(k)

Spec == Init /\ [][Next]_vars

--------------------------------------------------------------------------------
(* Properties *)

TypeOK ==
  /\ state \in States /\ data \subseteq AmountStates
  /\ \A i \in Items : /\ row[i] \in {"none", "open", "stored", "undone"}
                      /\ feedback[i] \in {"none", "open", "in_progress", "resolved"}
                      /\ feedback[i] # "none" => row[i] = "stored" /\ dialogue.of[i] = 0
                      /\ i \in told => row[i] # "none"
  /\ faults \in 0..MaxFaults

\* An amount entered once becomes one request, however often a receipt is sent for
\* it: a handler that was alone with it has cleared it.  Only receipts handled
\* together, a double tap or an album of photos, make more, or a restart or a clear
\* that failed between the row and the end of the conversation.
RequestPerAmount ==
  \A i, j \in Items :
    dialogue.of[i] = dialogue.of[j] /\ dialogue.of[i] > 0
      => i = j \/ dialogue.of[i] \in raced
================================================================================
