------------------------------ MODULE LedgerProofs ------------------------------
(***************************************************************************)
(* Proofs about Ledger for every set of orders, drivers, deposit requests  *)
(* and calls, every fee and every balance: types, the protection the row   *)
(* locks give, one credit per deposit request, and the log that tells      *)
(* every move of money.                                                    *)
(***************************************************************************)
EXTENDS Ledger, TLAPS

OrdersTyped ==
  /\ status \in [Orders -> {"PENDING", "ACCEPTED", "CANCELLED"}]
  /\ holder \in [Orders -> Drivers \cup {None}]
  /\ fee \in [Orders -> {0, Fee}]
  /\ rides \in [Orders -> Drivers \cup {None}]

\* Appending a row to the log of d adds at most its own position to the credits.
LEMMA AppendedCredits ==
  ASSUME TypeOK, NEW d \in Drivers, NEW e \in EntryRec, Logged(d, e), NEW t \in Deposits
  PROVE  /\ e.deposit # t => Credits(d, t)' = Credits(d, t)
         /\ e.deposit = t => Credits(d, t)' = Credits(d, t) \cup {Len(log[d]) + 1}
         /\ \A b \in Drivers \ {d} : Credits(b, t)' = Credits(b, t)
         /\ Len(log[d]) + 1 \in DOMAIN log'[d]
         /\ DOMAIN log[d] \subseteq DOMAIN log'[d]
<1>1. log[d] \in Seq(EntryRec) /\ log'[d] = Append(log[d], e)
  BY DEF TypeOK, Logged
<1>2. \A b \in Drivers \ {d} : log'[b] = log[b]
  BY DEF TypeOK, Logged
<1>3. /\ Len(log[d]) \in Nat /\ DOMAIN log[d] = 1..Len(log[d])
      /\ DOMAIN log'[d] = 1..(Len(log[d]) + 1)
      /\ \A i \in 1..Len(log[d]) : log'[d][i] = log[d][i]
      /\ log'[d][Len(log[d]) + 1] = e
  BY <1>1
<1> QED
  BY <1>2, <1>3 DEF Credits

\* A step that moves no money: it may take free rows, and it gives back any it held.
LEMMA QuietStep ==
  ASSUME Inv, NEW c \in Calls, NEW r \in CallRec, Step(c, r), Relies(r),
         \A x \in r.locks : x \in call[c].locks \/ Free(x),
         balance' = balance, log' = log, deposit' = deposit, OrdersTyped'
  PROVE  Inv' /\ MoveStep /\ OldStep
<1>1. /\ call' \in [Calls -> CallRec] /\ call'[c] = r
      /\ \A b \in Calls : b # c => call'[b] = call[b]
  BY DEF Inv, TypeOK, Step
<1>2. balance' = balance /\ log' = log /\ deposit' = deposit
  OBVIOUS
<1>3. TypeOK'
  BY <1>1, <1>2 DEF Inv, TypeOK, OrdersTyped
<1>4. \A a, b \in Calls : a # b => call'[a].locks \cap call'[b].locks = {}
  <2> SUFFICES ASSUME NEW a \in Calls, NEW b \in Calls, a # b
               PROVE  call'[a].locks \cap call'[b].locks = {}
    OBVIOUS
  <2>1. call[a].locks \cap call[b].locks = {}
    BY DEF Inv, LocksProtect
  <2>2. \A x \in r.locks, m \in Calls \ {c} : x \notin call[m].locks
    BY DEF Inv, LocksProtect, Free
  <2> QED
    BY <1>1, <2>1, <2>2
<1>5. ASSUME NEW a \in Calls
      PROVE  Relies(call[a])'
  <2>1. CASE a = c
    <3>1. Relies(r)'
      BY <1>2 DEF Relies, ReadLocked
    <3> QED
      BY <1>1, <2>1, <3>1 DEF Relies, ReadLocked
  <2>2. CASE a # c
    <3>1. Relies(call[a])
      BY DEF Inv, LocksProtect
    <3> QED
      BY <1>1, <1>2, <2>2, <3>1 DEF Relies, ReadLocked
  <2> QED
    BY <2>1, <2>2
<1>6. CreditedOnce'
  BY <1>2 DEF Inv, CreditedOnce, Credits
<1>7. MoveStep /\ OldStep
  BY <1>2 DEF MoveStep, OldStep
<1> QED
  BY <1>3, <1>4, <1>5, <1>6, <1>7 DEF Inv, LocksProtect

\* A commit that moves money: the call holds the row of the driver whose balance it
\* writes, the new row of the log says what happened, and no row stays locked.
LEMMA MoneyStep ==
  ASSUME Inv, NEW c \in Calls, NEW r \in CallRec, Step(c, r),
         r.pc \in {"done", "tripCancel"}, r.locks = {},
         NEW d \in Drivers, d = call[c].driver, d \in call[c].locks,
         NEW b \in Nat, balance' = [balance EXCEPT ![d] = b],
         NEW e \in EntryRec, Logged(d, e), e.new = b, e.amount = b - balance[d],
         e.old = balance[d] \/ call[c].pc = "tripRefund",
         \/ e.deposit = None /\ deposit' = deposit
         \/ /\ call[c].pc = "approving" /\ e.deposit = call[c].deposit
            /\ deposit' = [deposit EXCEPT ![call[c].deposit] = "APPROVED"],
         OrdersTyped'
  PROVE  Inv' /\ MoveStep /\ OldStep
<1>1. /\ call' \in [Calls -> CallRec] /\ call'[c] = r
      /\ \A a \in Calls : a # c => call'[a] = call[a]
  BY DEF Inv, TypeOK, Step
<1>2. /\ balance' \in [Drivers -> Nat] /\ balance'[d] = b
      /\ \A a \in Drivers : a # d => balance'[a] = balance[a]
  BY DEF Inv, TypeOK
<1>3. /\ log' \in [Drivers -> Seq(EntryRec)] /\ log'[d] = Append(log[d], e)
      /\ \A a \in Drivers : a # d => log'[a] = log[a]
  BY DEF Inv, TypeOK, Logged
<1>4. /\ DOMAIN log[d] \subseteq DOMAIN log'[d]
      /\ \A a \in Drivers : DOMAIN log[a] \subseteq DOMAIN log'[a]
  <2>1. log[d] \in Seq(EntryRec)
    BY DEF Inv, TypeOK
  <2>2. DOMAIN log[d] = 1..Len(log[d]) /\ DOMAIN log'[d] = 1..(Len(log[d]) + 1)
    BY <1>3, <2>1
  <2>3. Len(log[d]) \in Nat
    BY <2>1
  <2>4. \A n \in Nat : 1..n \subseteq 1..(n + 1)
    OBVIOUS
  <2>5. DOMAIN log[d] \subseteq DOMAIN log'[d]
    BY <2>2, <2>3, <2>4
  <2>6. ASSUME NEW a \in Drivers
        PROVE  DOMAIN log[a] \subseteq DOMAIN log'[a]
    BY <1>3, <2>5
  <2> QED
    BY <2>5, <2>6
<1>5. \A t \in Deposits : Owner[t] \in Drivers /\ t # None
  BY ConstantsAssumption
<1>6. /\ CreditedOnce'
      /\ deposit' \in [Deposits -> {"PENDING", "APPROVED", "REJECTED"}]
      /\ \A t \in Deposits : t \notin call[c].locks => deposit'[t] = deposit[t]
  <2>1. ASSUME e.deposit = None, deposit' = deposit
        PROVE  /\ CreditedOnce'
               /\ deposit' \in [Deposits -> {"PENDING", "APPROVED", "REJECTED"}]
               /\ \A t \in Deposits : t \notin call[c].locks => deposit'[t] = deposit[t]
    <3>1. ASSUME NEW t \in Deposits, NEW a \in Drivers
          PROVE  Credits(a, t)' = Credits(a, t)
      <4>1. e.deposit # t
        BY <1>5, <2>1
      <4> QED
        BY <4>1, AppendedCredits DEF Inv
    <3>2. CreditedOnce'
      BY <1>4, <1>5, <2>1, <3>1 DEF Inv, CreditedOnce
    <3> QED
      BY <2>1, <3>2 DEF Inv, TypeOK
  <2>2. ASSUME call[c].pc = "approving", e.deposit = call[c].deposit,
               deposit' = [deposit EXCEPT ![call[c].deposit] = "APPROVED"]
        PROVE  /\ CreditedOnce'
               /\ deposit' \in [Deposits -> {"PENDING", "APPROVED", "REJECTED"}]
               /\ \A t \in Deposits : t \notin call[c].locks => deposit'[t] = deposit[t]
    <3>1. PICK t \in Deposits : t = call[c].deposit
      BY <2>2 DEF Inv, LocksProtect, Relies, ReadLocked
    <3>2. t \in call[c].locks /\ d = Owner[t] /\ deposit[t] = "PENDING"
      BY <2>2, <3>1 DEF Inv, LocksProtect, Relies, ReadLocked
    <3>3. /\ deposit' \in [Deposits -> {"PENDING", "APPROVED", "REJECTED"}]
          /\ deposit'[t] = "APPROVED"
          /\ \A u \in Deposits : u # t => deposit'[u] = deposit[u]
      BY <2>2, <3>1 DEF Inv, TypeOK
    <3>4. \A a \in Drivers : Credits(a, t) = {}
      BY <3>2 DEF Inv, CreditedOnce
    <3>5. /\ Credits(d, t)' = {Len(log[d]) + 1} /\ Len(log[d]) + 1 \in DOMAIN log'[d]
          /\ \A a \in Drivers : a # d => Credits(a, t)' = {}
      BY <2>2, <3>1, <3>4, AppendedCredits DEF Inv
    <3>6. ASSUME NEW u \in Deposits, u # t, NEW a \in Drivers
          PROVE  Credits(a, u)' = Credits(a, u)
      BY <2>2, <3>1, <3>6, AppendedCredits DEF Inv
    <3>7. ASSUME NEW u \in Deposits
          PROVE  /\ \A a \in Drivers : a # Owner[u] => Credits(a, u)' = {}
                 /\ IF deposit'[u] = "APPROVED"
                      THEN \E i \in DOMAIN log'[Owner[u]] : Credits(Owner[u], u)' = {i}
                      ELSE Credits(Owner[u], u)' = {}
      <4>1. CASE u = t
        BY <3>2, <3>3, <3>5, <4>1
      <4>2. CASE u # t
        <5>1. /\ deposit'[u] = deposit[u] /\ Owner[u] \in Drivers
              /\ \A a \in Drivers : Credits(a, u)' = Credits(a, u)
          BY <1>5, <3>3, <3>6, <4>2
        <5>2. /\ \A a \in Drivers : a # Owner[u] => Credits(a, u) = {}
              /\ IF deposit[u] = "APPROVED"
                   THEN \E i \in DOMAIN log[Owner[u]] : Credits(Owner[u], u) = {i}
                   ELSE Credits(Owner[u], u) = {}
          BY DEF Inv, CreditedOnce
        <5>3. DOMAIN log[Owner[u]] \subseteq DOMAIN log'[Owner[u]]
          BY <1>4, <5>1
        <5>4. CASE deposit[u] = "APPROVED"
          BY <5>1, <5>2, <5>3, <5>4
        <5>5. CASE deposit[u] # "APPROVED"
          BY <5>1, <5>2, <5>5
        <5> QED
          BY <5>4, <5>5
      <4> QED
        BY <4>1, <4>2
    <3>8. CreditedOnce'
      BY <3>7 DEF CreditedOnce
    <3> QED
      BY <3>2, <3>3, <3>8
  <2> QED
    BY <2>1, <2>2
<1>7. TypeOK'
  BY <1>1, <1>2, <1>3, <1>6 DEF TypeOK, OrdersTyped
<1>8. \A a, m \in Calls : a # m => call'[a].locks \cap call'[m].locks = {}
  BY <1>1 DEF Inv, LocksProtect
<1>9. ASSUME NEW a \in Calls
      PROVE  Relies(call[a])'
  <2>1. CASE a = c
    BY <1>1, <2>1 DEF Relies, ReadLocked
  <2>2. CASE a # c
    <3>1. Relies(call[a]) /\ call[a].locks \cap call[c].locks = {}
      BY <2>2 DEF Inv, LocksProtect
    <3>2. call'[a] = call[a]
      BY <1>1, <2>2
    <3>3. call[a].driver \in Drivers /\ call[a].driver \in call[a].locks
            => balance'[call[a].driver] = balance[call[a].driver]
      BY <1>2, <3>1
    <3>4. call[a].deposit \in Deposits /\ call[a].deposit \in call[a].locks
            => deposit'[call[a].deposit] = deposit[call[a].deposit]
      BY <1>6, <3>1
    <3> QED
      BY <3>1, <3>2, <3>3, <3>4 DEF Relies, ReadLocked
  <2> QED
    BY <2>1, <2>2
<1>10. MoveStep
  <2>1. log'[d][Len(log'[d])] = e
    <3>1. log[d] \in Seq(EntryRec)
      BY DEF Inv, TypeOK
    <3> QED
      BY <1>3, <3>1
  <2>2. LogsMove(d)
    BY <1>2, <1>3, <2>1 DEF LogsMove
  <2> QED
    BY <1>2, <1>3, <2>2 DEF MoveStep
<1>11. OldStep
  <2>1. log'[d][Len(log'[d])] = e
    <3>1. log[d] \in Seq(EntryRec)
      BY DEF Inv, TypeOK
    <3> QED
      BY <1>3, <3>1
  <2> QED
    BY <1>3, <2>1 DEF OldStep, StaleRefund
<1> QED
  BY <1>6, <1>7, <1>8, <1>9, <1>10, <1>11 DEF Inv, LocksProtect

\* deduct_commission in a transaction that has checked the balance under the row lock.
LEMMA DebitStep ==
  ASSUME Inv, NEW c \in Calls, Step(c, Over),
         NEW d \in Drivers, d = call[c].driver, d \in call[c].locks,
         call[c].pc \in {"accepting", "deducting"},
         NEW x \in Nat, balance[d] >= x, NEW o \in Orders \cup {None},
         Debit(d, x, o, call[c].seen), deposit' = deposit, OrdersTyped'
  PROVE  Inv' /\ MoveStep /\ OldStep
<1>1. balance[d] \in Nat /\ call[c].seen \in Nat
  BY DEF Inv, TypeOK, CallRec
<1>2. PICK b \in Nat : b = balance[d] - x
  BY <1>1
<1>3. PICK e \in EntryRec : e = Entry(o, None, -x, call[c].seen, b)
  <2>1. Entry(o, None, -x, call[c].seen, b) \in EntryRec
    BY <1>1, <1>2 DEF EntryRec, Entry
  <2> QED
    BY <2>1
<1>4. balance' = [balance EXCEPT ![d] = b] /\ Logged(d, e)
  BY <1>1, <1>2, <1>3 DEF Debit, Affords
<1>5. /\ e.new = b /\ e.amount = b - balance[d] /\ e.deposit = None
      /\ e.old = balance[d]
  BY <1>1, <1>2, <1>3 DEF Entry, Inv, LocksProtect, Relies, ReadLocked
<1>6. Over \in CallRec /\ Over.pc = "done" /\ Over.locks = {}
  BY DEF Over, New, CallRec
<1> QED
  BY <1>4, <1>5, <1>6, MoneyStep

\* add_balance under the row lock; a deposit is approved in the same transaction.
LEMMA CreditStep ==
  ASSUME Inv, NEW c \in Calls, NEW r \in CallRec, Step(c, r),
         r.pc \in {"done", "tripCancel"}, r.locks = {},
         NEW d \in Drivers, d = call[c].driver, d \in call[c].locks,
         call[c].pc \in {"refunding", "tripRefund", "approving", "adding"},
         NEW x \in Nat, NEW o \in Orders \cup {None}, NEW t \in Deposits \cup {None},
         Credit(d, x, o, t, call[c].seen),
         \/ t = None /\ deposit' = deposit
         \/ /\ call[c].pc = "approving" /\ t = call[c].deposit
            /\ deposit' = [deposit EXCEPT ![call[c].deposit] = "APPROVED"],
         OrdersTyped'
  PROVE  Inv' /\ MoveStep /\ OldStep
<1>1. balance[d] \in Nat /\ call[c].seen \in Nat
  BY DEF Inv, TypeOK, CallRec
<1>2. PICK b \in Nat : b = balance[d] + x
  BY <1>1
<1>3. PICK e \in EntryRec : e = Entry(o, t, x, call[c].seen, b)
  <2>1. Entry(o, t, x, call[c].seen, b) \in EntryRec
    BY <1>1, <1>2 DEF EntryRec, Entry
  <2> QED
    BY <2>1
<1>4. balance' = [balance EXCEPT ![d] = b] /\ Logged(d, e)
  BY <1>1, <1>2, <1>3 DEF Credit
<1>5. /\ e.new = b /\ e.amount = b - balance[d] /\ e.deposit = t
      /\ e.old = balance[d] \/ call[c].pc = "tripRefund"
  BY <1>1, <1>2, <1>3 DEF Entry, Inv, LocksProtect, Relies, ReadLocked
<1> QED
  BY <1>4, <1>5, MoneyStep

\* accept_order_by_driver and the candidate the search names.
LEMMA OrderStepOK ==
  ASSUME Inv, NEW c \in Calls, OrderStep(c)
  PROVE  Inv' /\ MoveStep /\ OldStep
<1>1. Over \in CallRec /\ Over.pc = "done" /\ Over.locks = {} /\ Relies(Over)
  BY DEF Over, New, CallRec, Relies, ReadLocked
<1>2. ASSUME NEW d \in Drivers, NEW o \in Orders, StartAccept(c, d, o)
      PROVE  Inv' /\ MoveStep /\ OldStep
  <2>1. PICK r : r = [New EXCEPT !.pc = "accepting", !.order = o, !.driver = d,
                                 !.seen = balance[d], !.locks = {o, d}]
    OBVIOUS
  <2>2. balance[d] \in Nat
    BY DEF Inv, TypeOK
  <2>3. /\ r \in CallRec /\ r.pc = "accepting" /\ r.order = o /\ r.driver = d
        /\ r.locks = {o, d} /\ r.seen = balance[d]
    BY <2>1, <2>2 DEF New, CallRec, Rows
  <2>4. Relies(r)
    BY <1>2, <2>3 DEF Relies, ReadLocked, StartAccept, Affords
  <2>5. Step(c, r) /\ Free(o) /\ Free(d)
    BY <1>2, <2>1 DEF StartAccept
  <2>6. balance' = balance /\ log' = log /\ deposit' = deposit /\ OrdersTyped'
    BY <1>2 DEF StartAccept, money, orders, Inv, TypeOK, OrdersTyped
  <2> QED
    BY <2>3, <2>4, <2>5, <2>6, QuietStep
<1>3. ASSUME NEW d \in Drivers, NEW o \in Orders, FindReads(c, d, o)
      PROVE  Inv' /\ MoveStep /\ OldStep
  <2>1. PICK r : r = [New EXCEPT !.pc = "finding", !.order = o, !.driver = d]
    OBVIOUS
  <2>2. /\ r \in CallRec /\ r.pc = "finding" /\ r.order = o /\ r.driver = d /\ r.locks = {}
    BY <2>1 DEF New, CallRec
  <2>3. Relies(r) /\ Step(c, r)
    BY <1>3, <2>1, <2>2 DEF Relies, ReadLocked, FindReads
  <2>4. balance' = balance /\ log' = log /\ deposit' = deposit /\ OrdersTyped'
    BY <1>3 DEF FindReads, money, orders, Inv, TypeOK, OrdersTyped
  <2> QED
    BY <2>2, <2>3, <2>4, QuietStep
<1>4. ASSUME NEW d \in Drivers, NEW o \in Orders, GivesUpReads(c, d, o)
      PROVE  Inv' /\ MoveStep /\ OldStep
  <2>1. PICK r : r = [New EXCEPT !.pc = "givingUp", !.order = o, !.driver = d]
    OBVIOUS
  <2>2. /\ r \in CallRec /\ r.pc = "givingUp" /\ r.order = o /\ r.driver = d /\ r.locks = {}
    BY <2>1 DEF New, CallRec
  <2>3. Relies(r) /\ Step(c, r)
    BY <1>4, <2>1, <2>2 DEF Relies, ReadLocked, GivesUpReads
  <2>4. balance' = balance /\ log' = log /\ deposit' = deposit /\ OrdersTyped'
    BY <1>4 DEF GivesUpReads, money, orders, Inv, TypeOK, OrdersTyped
  <2> QED
    BY <2>2, <2>3, <2>4, QuietStep
<1>5. CASE FinishAccept(c)
  <2>1. PICK o \in Orders, d \in Drivers :
          o = call[c].order /\ d = call[c].driver /\ d \in call[c].locks /\ balance[d] >= Fee
    BY <1>5 DEF FinishAccept, Inv, LocksProtect, Relies, ReadLocked
  <2>2. /\ Debit(d, Fee, o, call[c].seen) /\ Step(c, Over) /\ deposit' = deposit
        /\ call[c].pc = "accepting"
    BY <1>5, <2>1 DEF FinishAccept
  <2>3. OrdersTyped'
    BY <1>5, <2>1 DEF FinishAccept, Inv, TypeOK, OrdersTyped
  <2> QED
    BY <2>1, <2>2, <2>3, DebitStep, ConstantsAssumption
<1>6. CASE FindWrites(c)
  <2>1. call[c].driver \in Drivers
    BY <1>6 DEF FindWrites, Inv, LocksProtect, Relies, ReadLocked
  <2>2. balance' = balance /\ log' = log /\ deposit' = deposit /\ OrdersTyped' /\ Step(c, Over)
    BY <1>6, <2>1 DEF FindWrites, money, Inv, TypeOK, OrdersTyped
  <2> QED
    BY <1>1, <2>2, QuietStep
<1>7. CASE GivesUpWrites(c)
  <2>1. balance' = balance /\ log' = log /\ deposit' = deposit /\ OrdersTyped' /\ Step(c, Over)
    BY <1>7 DEF GivesUpWrites, money, Inv, TypeOK, OrdersTyped
  <2> QED
    BY <1>1, <2>1, QuietStep
<1> QED
  BY <1>2, <1>3, <1>4, <1>5, <1>6, <1>7 DEF OrderStep

\* passenger_cancel_order and the cancellation of a trip.
LEMMA CancelStepOK ==
  ASSUME Inv, NEW c \in Calls, CancelStep(c)
  PROVE  Inv' /\ MoveStep /\ OldStep
<1>1. Over \in CallRec /\ Over.pc = "done" /\ Over.locks = {} /\ Relies(Over)
  BY DEF Over, New, CallRec, Relies, ReadLocked
<1>2. call[c] \in CallRec /\ Relies(call[c])
  BY DEF Inv, TypeOK, LocksProtect
<1>3. ASSUME NEW o \in Orders, CancelReads(c, o)
      PROVE  Inv' /\ MoveStep /\ OldStep
  <2>1. PICK r : r = [New EXCEPT !.pc = "cancelling", !.order = o, !.driver = holder[o],
                                 !.fee = fee[o]]
    OBVIOUS
  <2>2. holder[o] \in Drivers \cup {None} /\ fee[o] \in {0, Fee}
    BY DEF Inv, TypeOK
  <2>3. r \in CallRec /\ r.pc = "cancelling" /\ r.order = o /\ r.locks = {}
    BY <2>1, <2>2 DEF New, CallRec
  <2>4. Relies(r) /\ Step(c, r)
    BY <1>3, <2>1, <2>3 DEF Relies, ReadLocked, CancelReads
  <2>5. balance' = balance /\ log' = log /\ deposit' = deposit /\ OrdersTyped'
    BY <1>3 DEF CancelReads, money, orders, Inv, TypeOK, OrdersTyped
  <2> QED
    BY <2>3, <2>4, <2>5, QuietStep
<1>4. ASSUME NEW o \in Orders, TripOrderReads(c, o)
      PROVE  Inv' /\ MoveStep /\ OldStep
  <2>1. balance' = balance /\ log' = log /\ deposit' = deposit /\ OrdersTyped'
    BY <1>4 DEF TripOrderReads, money, orders, Inv, TypeOK, OrdersTyped
  <2>2. CASE holder[o] = None
    <3>1. Step(c, Over)
      BY <1>4, <2>2 DEF TripOrderReads
    <3> QED
      BY <1>1, <2>1, <3>1, QuietStep
  <2>3. CASE holder[o] # None
    <3>1. /\ holder[o] \in Drivers /\ fee[o] \in {0, Fee} /\ balance[holder[o]] \in Nat
      BY <2>3 DEF Inv, TypeOK
    <3>2. PICK r : r = [call[c] EXCEPT !.pc = "tripOrder", !.order = o, !.driver = holder[o],
                                       !.fee = fee[o], !.seen = balance[holder[o]],
                                       !.locks = {o}]
      OBVIOUS
    <3>3. /\ r \in CallRec /\ r.pc = "tripOrder" /\ r.order = o /\ r.driver = holder[o]
          /\ r.locks = {o}
      BY <1>2, <3>1, <3>2 DEF CallRec, Rows
    <3>4. Relies(r) /\ Step(c, r) /\ Free(o)
      BY <1>4, <2>3, <3>1, <3>2, <3>3 DEF Relies, ReadLocked, TripOrderReads
    <3> QED
      BY <2>1, <3>3, <3>4, QuietStep
  <2> QED
    BY <2>2, <2>3
<1>5. ASSUME NEW d \in Drivers, TripCancelReads(c, d)
      PROVE  Inv' /\ MoveStep /\ OldStep
  <2>1. PICK s \in SUBSET Orders : s = {o \in Orders : rides[o] = d /\ status[o] = "ACCEPTED"}
    OBVIOUS
  <2>2. PICK r : r = [New EXCEPT !.pc = "tripCancel", !.todo = s]
    OBVIOUS
  <2>3. r \in CallRec /\ r.pc = "tripCancel" /\ r.locks = {}
    BY <2>2 DEF New, CallRec
  <2>4. Relies(r) /\ Step(c, r)
    BY <1>5, <2>1, <2>2, <2>3 DEF Relies, ReadLocked, TripCancelReads
  <2>5. balance' = balance /\ log' = log /\ deposit' = deposit /\ OrdersTyped'
    BY <1>5 DEF TripCancelReads, money, orders, Inv, TypeOK, OrdersTyped
  <2> QED
    BY <2>3, <2>4, <2>5, QuietStep
<1>6. CASE CancelLocksDriver(c)
  <2>1. PICK d \in Drivers : d = call[c].driver
    BY <1>2, <1>6 DEF CancelLocksDriver, RefundDue, CallRec
  <2>2. PICK r : r = [call[c] EXCEPT !.pc = "refunding", !.seen = balance[d], !.locks = {d}]
    OBVIOUS
  <2>3. balance[d] \in Nat /\ call[c].order \in Orders
    BY <1>2, <1>6 DEF CancelLocksDriver, Inv, TypeOK, Relies, ReadLocked
  <2>4. /\ r \in CallRec /\ r.pc = "refunding" /\ r.order = call[c].order /\ r.driver = d
        /\ r.locks = {d}
    BY <1>2, <2>1, <2>2, <2>3 DEF CallRec, Rows
  <2>5. Relies(r) /\ Step(c, r) /\ Free(d)
    BY <1>6, <2>1, <2>2, <2>3, <2>4 DEF Relies, ReadLocked, CancelLocksDriver
  <2>6. balance' = balance /\ log' = log /\ deposit' = deposit /\ OrdersTyped'
    BY <1>6 DEF CancelLocksDriver, money, orders, Inv, TypeOK, OrdersTyped
  <2> QED
    BY <2>4, <2>5, <2>6, QuietStep
<1>7. CASE CancelCommits(c)
  <2>1. Step(c, Over) /\ deposit' = deposit
    BY <1>7 DEF CancelCommits
  <2>2. OrdersTyped'
    BY <1>7 DEF CancelCommits, Cancellable, Inv, TypeOK, OrdersTyped
  <2>3. CASE call[c].pc = "refunding"
    <3>1. PICK d \in Drivers, o \in Orders, x \in Nat :
            /\ d = call[c].driver /\ o = call[c].order /\ x = call[c].fee
            /\ d \in call[c].locks
      BY <1>2, <2>3, ConstantsAssumption DEF Relies, ReadLocked, CallRec
    <3>2. Credit(d, x, o, None, call[c].seen)
      BY <1>7, <2>3, <3>1 DEF CancelCommits
    <3> QED
      BY <1>1, <2>1, <2>2, <2>3, <3>1, <3>2, CreditStep
  <2>4. CASE call[c].pc # "refunding"
    <3>1. balance' = balance /\ log' = log
      BY <1>7, <2>4 DEF CancelCommits, money
    <3> QED
      BY <1>1, <2>1, <2>2, <3>1, QuietStep
  <2> QED
    BY <2>3, <2>4
<1>8. CASE TripLocksDriver(c)
  <2>1. PICK r : r = [call[c] EXCEPT !.pc = "tripRefund",
                                     !.locks = {call[c].order, call[c].driver}]
    OBVIOUS
  <2>2. /\ call[c].order \in Orders /\ call[c].order \in call[c].locks
        /\ call[c].driver \in Drivers
    BY <1>2, <1>8 DEF TripLocksDriver, Relies, ReadLocked
  <2>3. /\ r \in CallRec /\ r.pc = "tripRefund" /\ r.order = call[c].order
        /\ r.driver = call[c].driver /\ r.locks = {call[c].order, call[c].driver}
    BY <1>2, <2>1, <2>2 DEF CallRec, Rows
  <2>4. Relies(r) /\ Step(c, r) /\ Free(call[c].driver)
    BY <1>8, <2>1, <2>2, <2>3 DEF Relies, ReadLocked, TripLocksDriver
  <2>5. balance' = balance /\ log' = log /\ deposit' = deposit /\ OrdersTyped'
    BY <1>8 DEF TripLocksDriver, money, orders, Inv, TypeOK, OrdersTyped
  <2> QED
    BY <2>2, <2>3, <2>4, <2>5, QuietStep
<1>9. CASE TripOrderCommits(c)
  <2>1. PICK r : r = [New EXCEPT !.pc = "tripCancel", !.todo = call[c].todo \ {call[c].order},
                                 !.gone = call[c].gone \cup {call[c].order}]
    OBVIOUS
  <2>2. call[c].order \in Orders
    BY <1>2, <1>9 DEF TripOrderCommits, Relies, ReadLocked
  <2>3. r \in CallRec /\ r.pc = "tripCancel" /\ r.locks = {}
    BY <1>2, <2>1, <2>2 DEF New, CallRec
  <2>4. Relies(r) /\ Step(c, r) /\ deposit' = deposit
    BY <1>9, <2>1, <2>3 DEF Relies, ReadLocked, TripOrderCommits
  <2>5. OrdersTyped'
    BY <1>9 DEF TripOrderCommits, Inv, TypeOK, OrdersTyped
  <2>6. CASE call[c].pc = "tripRefund"
    <3>1. PICK d \in Drivers, o \in Orders, x \in Nat :
            /\ d = call[c].driver /\ o = call[c].order /\ x = call[c].fee
            /\ d \in call[c].locks
      BY <1>2, <2>6, ConstantsAssumption DEF Relies, ReadLocked, CallRec
    <3>2. Credit(d, x, o, None, call[c].seen)
      BY <1>9, <2>6, <3>1 DEF TripOrderCommits
    <3> QED
      BY <2>3, <2>4, <2>5, <2>6, <3>1, <3>2, CreditStep
  <2>7. CASE call[c].pc # "tripRefund"
    <3>1. balance' = balance /\ log' = log
      BY <1>9, <2>7 DEF TripOrderCommits, money
    <3> QED
      BY <2>3, <2>4, <2>5, <3>1, QuietStep
  <2> QED
    BY <2>6, <2>7
<1>10. CASE TripCancelCommits(c)
  <2>1. balance' = balance /\ log' = log /\ deposit' = deposit /\ OrdersTyped' /\ Step(c, Over)
    BY <1>10 DEF TripCancelCommits, money, Inv, TypeOK, OrdersTyped
  <2> QED
    BY <1>1, <2>1, QuietStep
<1> QED
  BY <1>3, <1>4, <1>5, <1>6, <1>7, <1>8, <1>9, <1>10 DEF CancelStep

\* Admins: deposit requests and balances.
LEMMA AdminStepOK ==
  ASSUME Inv, NEW c \in Calls, AdminStep(c)
  PROVE  Inv' /\ MoveStep /\ OldStep
<1>1. Over \in CallRec /\ Over.pc = "done" /\ Over.locks = {} /\ Relies(Over)
  BY DEF Over, New, CallRec, Relies, ReadLocked
<1>2. call[c] \in CallRec /\ Relies(call[c])
  BY DEF Inv, TypeOK, LocksProtect
<1>3. ASSUME NEW t \in Deposits, ApproveLocks(c, t)
      PROVE  Inv' /\ MoveStep /\ OldStep
  <2>1. PICK d \in Drivers : d = Owner[t]
    BY ConstantsAssumption
  <2>2. PICK r : r = [New EXCEPT !.pc = "approving", !.deposit = t, !.driver = d,
                                 !.seen = balance[d], !.locks = {t, d}]
    OBVIOUS
  <2>3. balance[d] \in Nat
    BY DEF Inv, TypeOK
  <2>4. /\ r \in CallRec /\ r.pc = "approving" /\ r.deposit = t /\ r.driver = d
        /\ r.locks = {t, d}
    BY <2>2, <2>3 DEF New, CallRec, Rows
  <2>5. Relies(r) /\ Step(c, r) /\ Free(t) /\ Free(d)
    BY <1>3, <2>1, <2>2, <2>4 DEF Relies, ReadLocked, ApproveLocks, IsPending
  <2>6. balance' = balance /\ log' = log /\ deposit' = deposit /\ OrdersTyped'
    BY <1>3 DEF ApproveLocks, money, orders, Inv, TypeOK, OrdersTyped
  <2> QED
    BY <2>4, <2>5, <2>6, QuietStep
<1>4. ASSUME NEW t \in Deposits, Rejects(c, t)
      PROVE  Inv' /\ MoveStep /\ OldStep
  <2>1. /\ call' \in [Calls -> CallRec] /\ call'[c] = Over
        /\ \A a \in Calls : a # c => call'[a] = call[a]
    BY <1>1, <1>4 DEF Rejects, Step, Inv, TypeOK
  <2>2. balance' = balance /\ log' = log /\ OrdersTyped'
    BY <1>4 DEF Rejects, money, orders, Inv, TypeOK, OrdersTyped
  <2>3. /\ deposit[t] = "PENDING"
        /\ deposit' \in [Deposits -> {"PENDING", "APPROVED", "REJECTED"}]
        /\ deposit'[t] = "REJECTED"
        /\ \A u \in Deposits : u # t => deposit'[u] = deposit[u]
    BY <1>4 DEF Rejects, IsPending, Inv, TypeOK
  <2>4. TypeOK'
    BY <2>1, <2>2, <2>3 DEF Inv, TypeOK, OrdersTyped
  <2>5. CreditedOnce'
    BY <2>2, <2>3 DEF Inv, CreditedOnce, Credits
  <2>6. \A a, m \in Calls : a # m => call'[a].locks \cap call'[m].locks = {}
    BY <1>1, <2>1 DEF Inv, LocksProtect
  <2>7. ASSUME NEW a \in Calls
        PROVE  Relies(call[a])'
    <3>1. CASE a = c
      BY <1>1, <2>1, <3>1 DEF Relies, ReadLocked
    <3>2. CASE a # c
      <4>1. call'[a] = call[a] /\ t \notin call[a].locks /\ Relies(call[a])
        BY <1>4, <2>1, <3>2 DEF Rejects, Free, Inv, LocksProtect
      <4> QED
        BY <2>2, <2>3, <4>1 DEF Relies, ReadLocked
    <3> QED
      BY <3>1, <3>2
  <2>8. MoveStep /\ OldStep
    BY <2>2 DEF MoveStep, OldStep
  <2> QED
    BY <2>4, <2>5, <2>6, <2>7, <2>8 DEF Inv, LocksProtect
<1>5. ASSUME NEW d \in Drivers, NEW op \in {"adding", "deducting"}, AdminLocks(c, d, op)
      PROVE  Inv' /\ MoveStep /\ OldStep
  <2>1. PICK r : r = [New EXCEPT !.pc = op, !.driver = d, !.seen = balance[d], !.locks = {d}]
    OBVIOUS
  <2>2. balance[d] \in Nat
    BY DEF Inv, TypeOK
  <2>3. r \in CallRec /\ r.pc = op /\ r.driver = d /\ r.locks = {d}
    BY <2>1, <2>2 DEF New, CallRec, Rows
  <2>4. Relies(r) /\ Step(c, r) /\ Free(d)
    BY <1>5, <2>1, <2>3 DEF Relies, ReadLocked, AdminLocks, Affords
  <2>5. balance' = balance /\ log' = log /\ deposit' = deposit /\ OrdersTyped'
    BY <1>5 DEF AdminLocks, money, orders, Inv, TypeOK, OrdersTyped
  <2> QED
    BY <2>3, <2>4, <2>5, QuietStep
<1>6. CASE ApproveCommits(c)
  <2>1. PICK d \in Drivers, t \in Deposits :
          d = call[c].driver /\ d \in call[c].locks /\ t = call[c].deposit
    BY <1>2, <1>6 DEF ApproveCommits, Relies, ReadLocked
  <2>2. /\ Credit(d, Amount, None, t, call[c].seen) /\ Step(c, Over)
        /\ call[c].pc = "approving" /\ deposit' = [deposit EXCEPT ![call[c].deposit] = "APPROVED"]
    BY <1>6, <2>1 DEF ApproveCommits
  <2>3. OrdersTyped'
    BY <1>6 DEF ApproveCommits, orders, Inv, TypeOK, OrdersTyped
  <2> QED
    BY <1>1, <2>1, <2>2, <2>3, CreditStep, ConstantsAssumption
<1>7. CASE AdminCommits(c)
  <2>1. Step(c, Over) /\ deposit' = deposit /\ OrdersTyped'
    BY <1>7 DEF AdminCommits, orders, Inv, TypeOK, OrdersTyped
  <2>2. PICK d \in Drivers : d = call[c].driver /\ d \in call[c].locks
    BY <1>2, <1>7 DEF AdminCommits, Relies, ReadLocked
  <2>3. CASE call[c].pc = "adding"
    <3>1. Credit(d, Amount, None, None, call[c].seen)
      BY <1>7, <2>2, <2>3 DEF AdminCommits
    <3> QED
      BY <1>1, <2>1, <2>2, <2>3, <3>1, CreditStep, ConstantsAssumption
  <2>4. CASE call[c].pc # "adding"
    <3>1. /\ Debit(d, Amount, None, call[c].seen) /\ balance[d] >= Amount
          /\ call[c].pc = "deducting"
      BY <1>2, <1>7, <2>2, <2>4 DEF AdminCommits, Relies, ReadLocked
    <3> QED
      BY <2>1, <2>2, <3>1, DebitStep, ConstantsAssumption
  <2> QED
    BY <2>3, <2>4
<1> QED
  BY <1>3, <1>4, <1>5, <1>6, <1>7 DEF AdminStep

LEMMA InitOK == Init => Inv
<1> SUFFICES ASSUME Init PROVE Inv
  OBVIOUS
<1> USE ConstantsAssumption
<1>1. /\ New \in CallRec /\ New.pc = "idle" /\ New.locks = {}
      /\ \A c \in Calls : call[c] = New
  BY DEF New, CallRec, Init
<1>2. log \in [Drivers -> Seq(EntryRec)] /\ \A d \in Drivers : log[d] = <<>>
  BY DEF Init
<1>3. TypeOK
  BY <1>1, <1>2 DEF Init, TypeOK
<1>4. CreditedOnce
  <2>1. \A d \in Drivers, t \in Deposits : Credits(d, t) = {}
    BY <1>2 DEF Credits
  <2> QED
    BY <2>1 DEF CreditedOnce, Init
<1>5. LocksProtect
  BY <1>1 DEF LocksProtect, Relies, ReadLocked
<1> QED
  BY <1>3, <1>4, <1>5 DEF Inv

LEMMA StepOK == Inv /\ [Next]_vars => Inv' /\ [MoveStep]_vars /\ [OldStep]_vars
<1> SUFFICES ASSUME Inv, [Next]_vars PROVE Inv' /\ [MoveStep]_vars /\ [OldStep]_vars
  OBVIOUS
<1>1. ASSUME NEW c \in Calls, Fails(c)
      PROVE  Inv' /\ MoveStep /\ OldStep
  <2>1. Over \in CallRec /\ Over.locks = {} /\ Relies(Over)
    BY DEF Over, New, CallRec, Relies, ReadLocked
  <2>2. balance' = balance /\ log' = log /\ deposit' = deposit /\ OrdersTyped' /\ Step(c, Over)
    BY <1>1 DEF Fails, money, orders, Inv, TypeOK, OrdersTyped
  <2> QED
    BY <2>1, <2>2, QuietStep
<1>2. CASE Next
  BY <1>1, <1>2, OrderStepOK, CancelStepOK, AdminStepOK DEF Next
<1>3. CASE UNCHANGED vars
  <2>1. TypeOK'
    BY <1>3 DEF vars, orders, money, Inv, TypeOK
  <2>2. call' = call /\ balance' = balance /\ deposit' = deposit /\ log' = log
    BY <1>3 DEF vars, money
  <2>3. LocksProtect'
    BY <2>2 DEF Inv, LocksProtect, Relies, ReadLocked
  <2>4. CreditedOnce'
    BY <2>2 DEF Inv, CreditedOnce, Credits
  <2> QED
    BY <1>3, <2>1, <2>3, <2>4 DEF Inv
<1> QED
  BY <1>2, <1>3

\* What the calls know and lock, the types and the credits hold in every reachable state.
THEOREM LedgerInvariance == Spec => []Inv
<1> QED
  BY InitOK, StepOK, PTL DEF Spec

\* Every balance stays a natural number (the CHECK of the drivers table is never hit),
\* whoever charges a driver at the same time.
THEOREM LedgerTypes == Spec => []TypeOK
<1>1. Inv => TypeOK
  BY DEF Inv
<1> QED
  BY <1>1, LedgerInvariance, PTL

\* FOR UPDATE in payment_service, order_service and trip_service: a row has one holder,
\* and what its holder has checked stays true until it commits.
THEOREM RowsAreProtected == Spec => []LocksProtect
<1>1. Inv => LocksProtect
  BY DEF Inv
<1> QED
  BY <1>1, LedgerInvariance, PTL

\* process_deposit_request: however often a request is approved, one credit, to its owner.
THEOREM DepositsCreditedOnce == Spec => []CreditedOnce
<1>1. Inv => CreditedOnce
  BY DEF Inv
<1> QED
  BY <1>1, LedgerInvariance, PTL

\* No balance changes without the row of the transaction log that says by how much.
THEOREM AuditTrail == Spec => MovesAreLogged
<1> QED
  BY LedgerInvariance, StepOK, PTL DEF Spec, MovesAreLogged

\* log_balance_change: the old balance in the log is the one the money was added to or
\* taken from, but for the refund of a cancelled trip.
THEOREM OldBalances == Spec => OldBalanceIsTrue
<1> QED
  BY LedgerInvariance, StepOK, PTL DEF Spec, OldBalanceIsTrue
=================================================================================
