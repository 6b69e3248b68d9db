--------------------------------- MODULE Ledger ---------------------------------
(***************************************************************************)
(* Who pays whom: drivers' balances, the transaction log, deposit requests *)
(* and the commission an order carries (app/services/payment_service.py    *)
(* and its callers).                                                       *)
(*                                                                         *)
(* Everything that moves money runs in a PostgreSQL transaction under READ *)
(* COMMITTED.  A transaction is two or more steps here: it takes its row   *)
(* locks and reads, it may then fail (its writes are rolled back), or it   *)
(* commits all its writes at once.  A call is one press of a button, one   *)
(* request of an admin, or one delivery of a task; it is used once.  Seats *)
(* and the order's search are left to the other modules, and a driver has  *)
(* one trip.                                                               *)
(***************************************************************************)
EXTENDS Integers, Sequences, FiniteSets

CONSTANTS
  Orders, Drivers, Deposits, Calls, None,
  Owner,         \* deposit request -> the driver who made it
  StartBalance,  \* driver -> balance
  Fee,           \* COMMISSION_AMOUNT
  Amount         \* what an admin books, and what a receipt is about

ASSUME ConstantsAssumption ==
  /\ Orders \cap Drivers = {} /\ Orders \cap Deposits = {} /\ Drivers \cap Deposits = {}
  /\ None \notin Orders \cup Drivers \cup Deposits
  /\ Owner \in [Deposits -> Drivers]
  /\ StartBalance \in [Drivers -> Nat]
  /\ Fee \in Nat \ {0} /\ Amount \in Nat \ {0}

VARIABLES
  status,    \* orders.status
  holder,    \* orders.driver_id
  fee,       \* orders.commission_amount; 0 stands for NULL
  rides,     \* the driver whose trip orders.trip_id names, or None
  balance,   \* drivers.balance
  log,       \* driver -> rows of transaction_logs, oldest first
  deposit,   \* transactions.status
  call       \* call -> what it holds in its local variables and which rows it locks

orders == <<status, holder, fee, rides>>
money  == <<balance, log>>
vars   == <<orders, money, deposit, call>>

--------------------------------------------------------------------------------
(* Calls and their row locks *)

Rows == Orders \cup Drivers \cup Deposits

CallRec ==
  [pc: {"idle", "accepting", "cancelling", "refunding", "finding", "givingUp",
        "tripCancel", "tripOrder", "tripRefund", "approving", "adding", "deducting",
        "done"},
   order: Orders \cup {None}, driver: Drivers \cup {None}, deposit: Deposits \cup {None},
   fee: {0, Fee}, seen: Nat, locks: SUBSET Rows, todo: SUBSET Orders, gone: SUBSET Orders]

New == [pc |-> "idle", order |-> None, driver |-> None, deposit |-> None, fee |-> 0,
        seen |-> 0, locks |-> {}, todo |-> {}, gone |-> {}]

Over == [New EXCEPT !.pc = "done"]

\* Mutant: SELECT without FOR UPDATE, and no UPDATE waits for another
NeverLocked(row) == TRUE

Free(row) == \A c \in Calls : row \notin call[c].locks

Step(c, r) == call' = [call EXCEPT ![c] = r]

\* A crash, a lost connection, a deadlock victim: nothing of the transaction stays
Fails(c) ==
  /\ call[c].pc \notin {"idle", "done"}
  /\ Step(c, Over)
  /\ UNCHANGED <<orders, money, deposit>>

--------------------------------------------------------------------------------
(* payment_service: a balance changes together with a row of the log *)

\* The order and the deposit are in order_id or in the description of the row
Entry(o, t, x, old, new) == [order |-> o, deposit |-> t, amount |-> x, old |-> old, new |-> new]

\* Mutant: off by one
AlmostAffords(b, x) == b + 1 >= x

Affords(b, x) == b >= x

Logged(d, e) == log' = [log EXCEPT ![d] = Append(@, e)]

\* add_balance
Credit(d, x, o, t, seen) ==
  /\ balance' = [balance EXCEPT ![d] = @ + x]
  /\ Logged(d, Entry(o, t, x, seen, balance[d] + x))

\* deduct_commission: the WHERE repeats the check, its row count is not looked at
Debit(d, x, o, seen) ==
  LET left == IF Affords(balance[d], x) THEN balance[d] - x ELSE balance[d] IN
  /\ balance' = [balance EXCEPT ![d] = left]
  /\ Logged(d, Entry(o, None, -x, seen, left))

--------------------------------------------------------------------------------
(* accept_order_by_driver: order row, driver row, fee *)

StartAccept(c, d, o) ==
  /\ call[c].pc = "idle"
  /\ Free(o) /\ Free(d)
  /\ status[o] = "PENDING"
  /\ Affords(balance[d], Fee)
  /\ Step(c, [New EXCEPT !.pc = "accepting", !.order = o, !.driver = d,
                         !.seen = balance[d], !.locks = {o, d}])
  /\ UNCHANGED <<orders, money, deposit>>

FinishAccept(c) ==
  LET o == call[c].order
      d == call[c].driver
  IN
  /\ call[c].pc = "accepting"
  /\ Debit(d, Fee, o, call[c].seen)
  /\ status' = [status EXCEPT ![o] = "ACCEPTED"]
  /\ holder' = [holder EXCEPT ![o] = d]
  /\ fee' = [fee EXCEPT ![o] = Fee]
  /\ rides' = [rides EXCEPT ![o] = d]
  /\ Step(c, Over)
  /\ UNCHANGED deposit

--------------------------------------------------------------------------------
(* find_driver_for_order_task: reads a pending order, names a candidate later *)

FindReads(c, d, o) ==
  /\ call[c].pc = "idle"
  /\ status[o] = "PENDING"
  /\ Step(c, [New EXCEPT !.pc = "finding", !.order = o, !.driver = d])
  /\ UNCHANGED <<orders, money, deposit>>

FindWrites(c) ==
  /\ call[c].pc = "finding"
  /\ Free(call[c].order)
  /\ holder' = [holder EXCEPT ![call[c].order] = call[c].driver]
  /\ Step(c, Over)
  /\ UNCHANGED <<status, fee, rides, money, deposit>>

--------------------------------------------------------------------------------
(* passenger_cancel_order: driver and fee come from an earlier session *)

Cancellable == {"PENDING", "ACCEPTED"}

CancelReads(c, o) ==
  /\ call[c].pc = "idle"
  /\ status[o] \in Cancellable
  /\ Step(c, [New EXCEPT !.pc = "cancelling", !.order = o, !.driver = holder[o],
                         !.fee = fee[o]])
  /\ UNCHANGED <<orders, money, deposit>>

RefundDue(r) == r.driver # None /\ r.fee > 0

CancelLocksDriver(c) ==
  LET r == call[c] IN
  /\ r.pc = "cancelling"
  /\ RefundDue(r)
  /\ Free(r.driver)
  /\ Step(c, [r EXCEPT !.pc = "refunding", !.seen = balance[r.driver], !.locks = {r.driver}])
  /\ UNCHANGED <<orders, money, deposit>>

\* The refund stays even if the guarded UPDATE finds nothing: `return` commits
CancelCommits(c) ==
  LET r == call[c] IN
  /\ \/ /\ r.pc = "refunding"
        /\ Credit(r.driver, r.fee, r.order, None, r.seen)
     \/ /\ r.pc = "cancelling" /\ ~RefundDue(r)
        /\ UNCHANGED money
  /\ Free(r.order)
  /\ status' = [status EXCEPT ![r.order] = IF @ \in Cancellable THEN "CANCELLED" ELSE @]
  /\ Step(c, Over)
  /\ UNCHANGED <<holder, fee, rides, deposit>>

--------------------------------------------------------------------------------
(* confirm_cancellation: the driver hands an accepted order back, fee and all *)

GivesUpReads(c, d, o) ==
  /\ call[c].pc = "idle"
  /\ status[o] = "ACCEPTED" /\ holder[o] = d
  /\ Step(c, [New EXCEPT !.pc = "givingUp", !.order = o, !.driver = d])
  /\ UNCHANGED <<orders, money, deposit>>

GivesUpWrites(c) ==
  LET o == call[c].order IN
  /\ call[c].pc = "givingUp"
  /\ Free(o)
  /\ status' = [status EXCEPT ![o] = "PENDING"]
  /\ holder' = [holder EXCEPT ![o] = None]
  /\ Step(c, Over)
  /\ UNCHANGED <<fee, rides, money, deposit>>

--------------------------------------------------------------------------------
(* cancel_pending_orders_in_trip: an outer transaction around one transaction *)
(* of refund_commission_for_order per order                                   *)

TripCancelReads(c, d) ==
  LET accepted == {o \in Orders : rides[o] = d /\ status[o] = "ACCEPTED"} IN
  /\ call[c].pc = "idle"
  /\ accepted # {}
  /\ Step(c, [New EXCEPT !.pc = "tripCancel", !.todo = accepted])
  /\ UNCHANGED <<orders, money, deposit>>

\* The order FOR UPDATE; the driver comes along by selectinload, without a lock
TripOrderReads(c, o) ==
  LET r == call[c] IN
  /\ r.pc = "tripCancel" /\ o \in r.todo
  /\ Free(o)
  /\ Step(c, IF holder[o] = None
               THEN Over
               ELSE [r EXCEPT !.pc = "tripOrder", !.order = o, !.driver = holder[o],
                              !.fee = fee[o], !.seen = balance[holder[o]], !.locks = {o}])
  /\ UNCHANGED <<orders, money, deposit>>

\* FOR UPDATE, but the driver is in the session already: `seen` is not refreshed
TripLocksDriver(c) ==
  LET r == call[c] IN
  /\ r.pc = "tripOrder"
  /\ r.fee > 0
  /\ Free(r.driver)
  /\ Step(c, [r EXCEPT !.pc = "tripRefund", !.locks = {r.order, r.driver}])
  /\ UNCHANGED <<orders, money, deposit>>

TripOrderCommits(c) ==
  LET r == call[c] IN
  /\ \/ /\ r.pc = "tripRefund"
        /\ Credit(r.driver, r.fee, r.order, None, r.seen)
     \/ /\ r.pc = "tripOrder" /\ r.fee = 0
        /\ UNCHANGED money
  /\ status' = [status EXCEPT ![r.order] = "PENDING"]
  /\ holder' = [holder EXCEPT ![r.order] = None]
  /\ fee' = [fee EXCEPT ![r.order] = 0]
  /\ Step(c, [New EXCEPT !.pc = "tripCancel", !.todo = r.todo \ {r.order},
                         !.gone = r.gone \cup {r.order}])
  /\ UNCHANGED <<rides, deposit>>

\* The outer transaction, which has not seen the inner ones, flushes its objects
TripCancelCommits(c) ==
  LET r == call[c] IN
  /\ r.pc = "tripCancel" /\ r.todo = {}
  /\ \A o \in r.gone : Free(o)
  /\ status' = [o \in Orders |-> IF o \in r.gone THEN "CANCELLED" ELSE status[o]]
  /\ Step(c, Over)
  /\ UNCHANGED <<holder, fee, rides, money, deposit>>

--------------------------------------------------------------------------------
(* process_deposit_request *)

\* Mutant: the status is not looked at
AnyDeposit(t) == TRUE

IsPending(t) == deposit[t] = "PENDING"

ApproveLocks(c, t) ==
  /\ call[c].pc = "idle"
  /\ Free(t) /\ Free(Owner[t])
  /\ IsPending(t)
  /\ Step(c, [New EXCEPT !.pc = "approving", !.deposit = t, !.driver = Owner[t],
                         !.seen = balance[Owner[t]], !.locks = {t, Owner[t]}])
  /\ UNCHANGED <<orders, money, deposit>>

ApproveCommits(c) ==
  LET r == call[c] IN
  /\ r.pc = "approving"
  /\ deposit' = [deposit EXCEPT ![r.deposit] = "APPROVED"]
  /\ Credit(r.driver, Amount, None, r.deposit, r.seen)
  /\ Step(c, Over)
  /\ UNCHANGED orders

Rejects(c, t) ==
  /\ call[c].pc = "idle"
  /\ Free(t)
  /\ IsPending(t)
  /\ deposit' = [deposit EXCEPT ![t] = "REJECTED"]
  /\ Step(c, Over)
  /\ UNCHANGED <<orders, money>>

--------------------------------------------------------------------------------
(* update_driver_balance, by an admin *)

AdminLocks(c, d, op) ==
  /\ call[c].pc = "idle"
  /\ Free(d)
  /\ op = "deducting" => Affords(balance[d], Amount)
  /\ Step(c, [New EXCEPT !.pc = op, !.driver = d, !.seen = balance[d], !.locks = {d}])
  /\ UNCHANGED <<orders, money, deposit>>

AdminCommits(c) ==
  LET r == call[c] IN
  /\ \/ r.pc = "adding" /\ Credit(r.driver, Amount, None, None, r.seen)
     \/ r.pc = "deducting" /\ Debit(r.driver, Amount, None, r.seen)
  /\ Step(c, Over)
  /\ UNCHANGED <<orders, deposit>>

--------------------------------------------------------------------------------
Init ==
  /\ status = [o \in Orders |-> "PENDING"]
  /\ holder = [o \in Orders |-> None]
  /\ fee = [o \in Orders |-> 0]
  /\ rides = [o \in Orders |-> None]
  /\ balance = StartBalance
  /\ log = [d \in Drivers |-> <<>>]
  /\ deposit = [t \in Deposits |-> "PENDING"]
  /\ call = [c \in Calls |-> New]

OrderStep(c) ==
  \/ \E d \in Drivers, o \in Orders :
       StartAccept(c, d, o) \/ FindReads(c, d, o) \/ GivesUpReads(c, d, o)
  \/ FinishAccept(c) \/ FindWrites(c) \/ GivesUpWrites(c)

CancelStep(c) ==
  \/ \E o \in Orders : CancelReads(c, o) \/ TripOrderReads(c, o)
  \/ \E d \in Drivers : TripCancelReads(c, d)
  \/ CancelLocksDriver(c) \/ CancelCommits(c)
  \/ TripLocksDriver(c) \/ TripOrderCommits(c) \/ TripCancelCommits(c)

AdminStep(c) ==
  \/ \E t \in Deposits : ApproveLocks(c, t) \/ Rejects(c, t)
  \/ \E d \in Drivers, op \in {"adding", "deducting"} : AdminLocks(c, d, op)
  \/ ApproveCommits(c) \/ AdminCommits(c)

Next == \E c \in Calls : OrderStep(c) \/ CancelStep(c) \/ AdminStep(c) \/ Fails(c)

Spec == Init /\ [][Next]_vars

--------------------------------------------------------------------------------
(* Properties *)

EntryRec ==
  [order: Orders \cup {None}, deposit: Deposits \cup {None}, amount: Int, old: Nat, new: Nat]

TypeOK ==
  /\ status \in [Orders -> {"PENDING", "ACCEPTED", "CANCELLED"}]
  /\ holder \in [Orders -> Drivers \cup {None}]
  /\ fee \in [Orders -> {0, Fee}]
  /\ rides \in [Orders -> Drivers \cup {None}]
  /\ balance \in [Drivers -> Nat]
  /\ log \in [Drivers -> Seq(EntryRec)]
  /\ deposit \in [Deposits -> {"PENDING", "APPROVED", "REJECTED"}]
  /\ call \in [Calls -> CallRec]

\* "Every change of a balance is written here" (TransactionLog, the audit trail):
\* whoever moves money, and however their transactions interleave, a balance and
\* its log change together, and by the same amount.
LogsMove(d) ==
  LET e == log'[d][Len(log'[d])] IN
  /\ log'[d] = Append(log[d], e)
  /\ e.new = balance'[d]
  /\ e.amount = balance'[d] - balance[d]

MoveStep == \A d \in Drivers : UNCHANGED <<balance[d], log[d]>> \/ LogsMove(d)

MovesAreLogged == [][MoveStep]_vars

\* The old balance in a row of the log is the balance the driver had, though the call
\* read it in an earlier step: the row lock it took with that holds until it commits.
\* Only the refund of a cancelled trip logs what it read before it had the lock.
StaleRefund(d) == \E c \in Calls : call[c].pc = "tripRefund" /\ call[c].driver = d

OldStep ==
  \A d \in Drivers :
    log'[d] # log[d] => log'[d][Len(log'[d])].old = balance[d] \/ StaleRefund(d)

OldBalanceIsTrue == [][OldStep]_vars

\* Two admins, a double click and a retry credit a deposit request at most once,
\* and a request that reads APPROVED has been credited to the driver who made it.
Credits(d, t) == {i \in DOMAIN log[d] : log[d][i].deposit = t}

CreditedOnce ==
  \A t \in Deposits :
    /\ \A d \in Drivers : d # Owner[t] => Credits(d, t) = {}
    /\ IF deposit[t] = "APPROVED"
         THEN \E i \in DOMAIN log[Owner[t]] : Credits(Owner[t], t) = {i}
         ELSE Credits(Owner[t], t) = {}

\* What a call that holds row locks can rely on until it commits: the driver's row
\* is its own, the balance it has read is the driver's and covers what it takes, and
\* the deposit request it approves is still pending.
ReadLocked == {"accepting", "refunding", "approving", "adding", "deducting"}

Relies(r) ==
  /\ r.pc \in {"idle", "done", "tripCancel", "cancelling", "finding", "givingUp"} =>
       r.locks = {}
  /\ r.pc \in ReadLocked \cup {"tripRefund"} =>
       r.driver \in Drivers /\ r.driver \in r.locks
  /\ r.pc \in ReadLocked => r.seen = balance[r.driver]
  /\ r.pc \in {"tripOrder", "finding"} => r.driver \in Drivers
  /\ r.pc = "tripOrder" => r.order \in r.locks
  /\ r.pc \in {"accepting", "refunding", "cancelling", "finding", "givingUp", "tripOrder",
               "tripRefund"} => r.order \in Orders
  /\ r.pc = "accepting" => balance[r.driver] >= Fee
  /\ r.pc = "deducting" => balance[r.driver] >= Amount
  /\ r.pc = "approving" => /\ r.deposit \in Deposits /\ r.deposit \in r.locks
                           /\ r.driver = Owner[r.deposit]
                           /\ deposit[r.deposit] = "PENDING"

\* A row has one holder at a time, and what a holder has read stays true.
LocksProtect ==
  /\ \A c, e \in Calls : c # e => call[c].locks \cap call[e].locks = {}
  /\ \A c \in Calls : Relies(call[c])

\* The inductive invariant
Inv == TypeOK /\ LocksProtect /\ CreditedOnce

\* "The commission is returned to the driver (if there is one)"
\* (app/bot/handlers/passenger/booking.py:242): nobody gets back, for an order,
\* more than they have paid for it.
Charges(d, o) == {i \in DOMAIN log[d] : log[d][i].order = o /\ log[d][i].amount < 0}
Refunds(d, o) == {i \in DOMAIN log[d] : log[d][i].order = o /\ log[d][i].amount > 0}

RefundsOnlyPaid ==
  \A d \in Drivers, o \in Orders :
    Cardinality(Refunds(d, o)) <= Cardinality(Charges(d, o))
=================================================================================
