-------------------------------- MODULE RateLimit --------------------------------
(***************************************************************************)
(* How often one user may write to the bot: the middleware every message   *)
(* and every button press passes (bot/middlewares/rate_limit.py) and the   *)
(* limiter of new bookings behind it (utils/rate_limiter.py).  Both keep   *)
(* their counts in Redis keys that lapse, and both read a key, decide, and *)
(* write it back in later commands: updates of one user are handled        *)
(* concurrently, time passes between the commands, the bot may be          *)
(* restarted, and a command, or a message of refusal, may fail.            *)
(*                                                                         *)
(* Every key names its user, so the keys of one user are modelled.  Time   *)
(* is what the keys have left to live: a Tick takes one unit from each.    *)
(***************************************************************************)
EXTENDS Integers, FiniteSets

CONSTANTS
  Calls,         \* updates of the user that may be in the handlers at once
  Kinds,         \* "message" and "callback": the middleware is registered for each
  Limit,         \* kind -> rate_limit
  Threshold,     \* kind -> ban_threshold
  Window,        \* time_window of the middleware
  Term,          \* life of the violations key and of the ban (ban_duration)
  MaxRequests,   \* of order_rate_limiter
  OrderWindow,   \* window_seconds of order_rate_limiter
  MaxFaults      \* bound: failed Redis commands and messages, restarts of the bot

VARIABLES
  counter,       \* rate_limit:requests:{user}
  violations,    \* rate_limit:violations:{user}
  ban,           \* rate_limit:ban:{user}
  stamps,        \* ratelimit:order_creation:{user}: age -> entries of that age
  term,          \* what that list has left to live
  began,         \* call -> age of the time check_limit took at its start
  calls,         \* call -> where its handling is and what it has read
  admitted,      \* calls let through since the counter key last came into being
  gone,          \* age -> entries of that age whose list has lapsed
  missed,        \* bookings let through with no entry, for an error
  faults         \* how much of MaxFaults has been used

keys == <<counter, violations, ban>>
list == <<stamps, term>>
past == <<gone, missed>>
vars == <<keys, list, began, calls, admitted, past, faults>>

--------------------------------------------------------------------------------
(* Redis *)

Forever == -1                     \* TTL of a key that has no expiry
NoKey   == [n |-> 0, ttl |-> 0]

Set(n, ex)  == [n |-> n, ttl |-> ex]
\* INCR of a key that is not there creates it, and gives it no expiry.  Counts
\* are only compared with limits: those past the largest are not told apart.
Largest(f)  == CHOOSE n \in {f[k] : k \in Kinds} : \A k \in Kinds : f[k] <= n
OneMore(n, f) == IF n >= Largest(f) THEN n ELSE n + 1
Incr(key)   == IF key = NoKey THEN Set(1, Forever)
               ELSE [key EXCEPT !.n = OneMore(@, Limit)]

Sooner(ttl) == IF ttl = Forever THEN Forever ELSE ttl - 1
Aged(key)   == IF key.ttl = 1 \/ key = NoKey THEN NoKey
               ELSE [key EXCEPT !.ttl = Sooner(@)]

\* The client's wrappers answer a failed command like an absent key
Fault == faults < MaxFaults /\ faults' = faults + 1
Works == UNCHANGED faults

Idle     == [pc |-> "idle", kind |-> "message", read |-> 0]
At(c, p) == calls[c].pc = p
Goes(c, p, v) == calls' = [calls EXCEPT ![c].pc = p, ![c].read = v]
Ends(c)  == calls' = [calls EXCEPT ![c] = Idle]

--------------------------------------------------------------------------------
(* RateLimitMiddleware.__call__ *)

booking == <<list, began, past>>

Arrive(c, k) ==
  /\ At(c, "idle")
  /\ calls' = [calls EXCEPT ![c] = [pc |-> "ban", kind |-> k, read |-> 0]]
  /\ UNCHANGED <<keys, booking, admitted, faults>>

ReadBan(c) ==
  /\ At(c, "ban")
  /\ \/ Works /\ Goes(c, IF ban.n > 0 THEN "answer" ELSE "count", 0)
     \/ Fault /\ Goes(c, "count", 0)
  /\ UNCHANGED <<keys, booking, admitted>>

\* What is done with the number of requests the call has read
Judged(k, n) == IF n = 0 THEN "first" ELSE IF n >= Limit[k] THEN "over" ELSE "more"

ReadCount(c) ==
  /\ At(c, "count")
  /\ \/ Works /\ Goes(c, Judged(calls[c].kind, counter.n), 0)
     \/ Fault /\ Goes(c, Judged(calls[c].kind, 0), 0)
  /\ UNCHANGED <<keys, booking, admitted>>

Admits(c) == Goes(c, "handler", 0) /\ admitted' = admitted + 1

FirstOfWindow(c) ==
  /\ At(c, "first")
  /\ \/ Works /\ counter' = Set(1, Window)
     \/ Fault /\ UNCHANGED counter
  /\ Admits(c)
  /\ UNCHANGED <<violations, ban, booking>>

CountOn(c) ==
  /\ At(c, "more")
  /\ \/ Works /\ counter' = Incr(counter)
     \/ Fault /\ UNCHANGED counter
  /\ Admits(c)
  /\ UNCHANGED <<violations, ban, booking>>

ReadViolations(c) ==
  /\ At(c, "over")
  /\ \/ Works /\ Goes(c, "strike", OneMore(violations.n, Threshold))
     \/ Fault /\ Goes(c, "strike", 1)
  /\ UNCHANGED <<keys, booking, admitted>>

Strike(c) ==
  /\ At(c, "strike")
  /\ \/ Works /\ violations' = Set(calls[c].read, Term)
     \/ Fault /\ UNCHANGED violations
  /\ Goes(c, IF calls[c].read >= Threshold[calls[c].kind] THEN "banning" ELSE "answer", 0)
  /\ UNCHANGED <<counter, ban, booking, admitted>>

\* Mutant: ... or for twice its time
BanTwice(c) ==
  /\ At(c, "banning")
  /\ ban' = Set(1, 2 * Term)
  /\ Goes(c, "answer", 0)
  /\ UNCHANGED <<counter, violations, booking, admitted, faults>>

\* Mutant: the ban is set without its expiry
BanForever(c) ==
  /\ At(c, "banning")
  /\ ban' = Set(1, Forever)
  /\ Goes(c, "answer", 0)
  /\ UNCHANGED <<counter, violations, booking, admitted, faults>>

Ban(c) ==
  /\ At(c, "banning")
  /\ \/ Works /\ ban' = Set(1, Term)
     \/ Fault /\ UNCHANGED ban
  /\ Goes(c, "answer", 0)
  /\ UNCHANGED <<counter, violations, booking, admitted>>

\* The user is told that he is banned, or to slow down.  An error of the message is
\* caught as one of Redis would be, and the handler is called after all, uncounted.
Refuses(c) ==
  /\ At(c, "answer")
  /\ \/ Works /\ Ends(c) /\ UNCHANGED admitted
     \/ Fault /\ Admits(c)
  /\ UNCHANGED <<keys, booking>>

--------------------------------------------------------------------------------
(* Behind the middleware: any handler, or start_booking and check_limit.   *)
(* A handler that finds the user in another role raises SkipHandler: the   *)
(* next handler that matches is called through the middleware again.       *)

Handle(c) ==
  /\ At(c, "handler")
  /\ Ends(c)
  /\ UNCHANGED <<keys, booking, admitted, faults>>

SkipToNext(c) ==
  /\ At(c, "handler")
  /\ Goes(c, "ban", 0)
  /\ UNCHANGED <<keys, booking, admitted, faults>>

StartBooking(c) ==
  /\ At(c, "handler") /\ calls[c].kind = "message"
  /\ Goes(c, "booking", 0)
  /\ UNCHANGED <<keys, booking, admitted, faults>>

\* The last age stands for every entry older than the window
Ages    == 0..(OrderWindow + 1)
NoEntry == [a \in Ages |-> 0]

\* The entries of the window, each told apart
Pairs(f) == UNION {{a} \X (1 .. f[a]) : a \in 0..OrderWindow}
Entries  == Pairs(stamps)
Lapsed   == Pairs(gone)

Fresh == Cardinality(Entries)

\* Mutant: the limit is compared before the booking is added
FullAlready == Fresh > MaxRequests

Full == Fresh + 1 > MaxRequests

\* An error, also of the TTL that is logged with a refusal, lets the booking go on
CheckLimit(c) ==
  /\ At(c, "booking")
  /\ \/ Works /\ UNCHANGED missed /\ IF Full THEN Ends(c) ELSE Goes(c, "push", 0)
     \/ Fault /\ missed' = missed + 1 /\ Ends(c)
  /\ UNCHANGED <<keys, list, began, admitted, gone>>

Push(c) ==
  /\ At(c, "push")
  /\ \/ /\ Works
        /\ stamps' = [stamps EXCEPT ![began[c]] = @ + 1]
        /\ term' = IF term = 0 THEN Forever ELSE term
        /\ Goes(c, "expire", 0)
        /\ UNCHANGED missed
     \/ Fault /\ missed' = missed + 1 /\ Ends(c) /\ UNCHANGED list
  /\ began' = [began EXCEPT ![c] = 0]
  /\ UNCHANGED <<keys, admitted, gone>>

Expiring == IF term = Forever THEN OrderWindow ELSE term

\* TTL, EXPIRE if there is none, and LREM of the entries out of the window
SetTerm(c) ==
  /\ At(c, "expire")
  /\ \/ /\ Works
        /\ stamps' = [stamps EXCEPT ![OrderWindow + 1] = 0]
        /\ term' = IF stamps' = NoEntry THEN 0 ELSE Expiring
     \/ Fault /\ UNCHANGED stamps /\ term' \in {term, Expiring}
  /\ Ends(c)
  /\ UNCHANGED <<keys, began, admitted, past>>

--------------------------------------------------------------------------------
(* Time and restarts *)

\* More entries out of the window than would fill it are not told apart
AtMost(n) == IF n > MaxRequests THEN MaxRequests ELSE n
Older == [a \in Ages |-> IF a = 0 THEN 0
                         ELSE IF a <= OrderWindow THEN stamps[a - 1]
                         ELSE AtMost(stamps[a - 1] + stamps[a])]

\* The list's key lapses with all its entries, those of the window too
LapsedThen == [a \in 0..OrderWindow |->
                 IF a = 0 THEN 0 ELSE gone[a - 1] + IF term = 1 THEN stamps[a - 1] ELSE 0]

Tick ==
  /\ counter' = Aged(counter) /\ violations' = Aged(violations) /\ ban' = Aged(ban)
  /\ IF term \in {0, 1}
       THEN term' = 0 /\ stamps' = NoEntry
       ELSE term' = Sooner(term) /\ stamps' = Older
  /\ gone' = LapsedThen
  /\ began' = [c \in Calls |-> IF At(c, "push") /\ began[c] <= OrderWindow
                               THEN began[c] + 1 ELSE began[c]]
  /\ admitted' = IF counter' = NoKey THEN 0 ELSE admitted
  /\ UNCHANGED <<calls, missed, faults>>

\* The bot is restarted: what its handlers had not done yet is never done
Restart ==
  /\ \E c \in Calls : ~At(c, "idle")
  /\ Fault
  /\ calls' = [c \in Calls |-> Idle] /\ began' = [c \in Calls |-> 0]
  /\ UNCHANGED <<keys, list, admitted, past>>

--------------------------------------------------------------------------------

Init ==
  /\ counter = NoKey /\ violations = NoKey /\ ban = NoKey
  /\ stamps = NoEntry /\ term = 0
  /\ calls = [c \in Calls |-> Idle] /\ began = [c \in Calls |-> 0]
  /\ admitted = 0 /\ gone = [a \in 0..OrderWindow |-> 0] /\ missed = 0 /\ faults = 0

Step(c) ==
  \/ ReadBan(c) \/ ReadCount(c) \/ FirstOfWindow(c) \/ CountOn(c)
  \/ ReadViolations(c) \/ Strike(c) \/ Ban(c) \/ Refuses(c)
  \/ Handle(c) \/ SkipToNext(c) \/ StartBooking(c)
  \/ CheckLimit(c) \/ Push(c) \/ SetTerm(c)

Next ==
  \/ \E c \in Calls : Step(c) \/ \E k \in Kinds : Arrive(c, k)
  \/ Tick
  \/ Restart

Spec == Init /\ [][Next]_vars

--------------------------------------------------------------------------------
(* Properties *)

TypeOK ==
  /\ \A key \in {counter, violations, ban} :
       key \in [n: Nat, ttl: {Forever} \cup 0..Window \cup 0..Term]
  /\ stamps \in [Ages -> Nat]
  /\ term \in {Forever} \cup 0..OrderWindow
  /\ began \in [Calls -> Ages]
  /\ calls \in [Calls ->
       [pc: {"idle", "ban", "count", "first", "more", "over", "strike", "banning", "answer",
             "handler", "booking", "push", "expire"}, kind: Kinds, read: Nat]]
  /\ admitted \in Nat /\ gone \in [0..OrderWindow -> Nat] /\ missed \in Nat
  /\ faults \in 0..MaxFaults

\* The middleware reads the count, and writes it back in a later command.  A
\* call that found no key sets it to 1 though others have counted on it since,
\* and so does one whose read failed: each such call begins the count again,
\* and from one beginning to the next no more get through than the limit and
\* the calls that judged the same count.  A refusal whose message fails lets one
\* more through.  No interleaving lets through more.
BurstIsBounded ==
  LET together == Cardinality(Calls)
  IN  admitted <= (together + MaxFaults) * (Largest(Limit) + together - 1)

\* check_limit counts the entries of the window and adds its own in a later
\* command: calls that count at the same time may all pass, and go over the
\* limit by no more than their number.  But the list gets its expiry with the first
\* entry only, and lapses with later ones that are still in the window: a user may
\* book so often once more, and never a third time.  An error lets one more through.
BookingsAreBounded ==
  LET most == MaxRequests + Cardinality(Calls) - 1
  IN  /\ Fresh <= most
      /\ Fresh + Cardinality(Lapsed) + missed <= 2 * most + MaxFaults
================================================================================
