----------------------------- MODULE MCConversation -----------------------------
(***************************************************************************)
(* Conversations with the bot for TLC: Conversation, where roles and       *)
(* states come from, beside Support, the driver's dialogues with the       *)
(* office.  They have no step in common, and a behaviour is one of one of  *)
(* them.                                                                   *)
(***************************************************************************)
EXTENDS Conversation, TLC

CONSTANTS
  Clerks, Items,    \* of Support
  MaxMishaps,       \* bound: faults and changes in Conversation together
  c1, c2, k1, i1, i2

VARIABLES
  part,
  topic, sums, sent, row, dialogue, raced, told, feedback, clerk, mishaps  \* of Support

office  == <<topic, sums, sent, row, dialogue, raced, told, feedback, clerk, mishaps>>
allVars == <<part, vars, office>>

SP == INSTANCE Support WITH
        state <- topic, data <- sums, call <- sent, faults <- mishaps

Symmetry == Permutations(Calls) \cup Permutations(Items)

NoOffice ==
  /\ topic = "-" /\ sums = "-" /\ sent = "-" /\ row = "-" /\ dialogue = "-"
  /\ raced = "-" /\ told = "-" /\ feedback = "-" /\ clerk = "-" /\ mishaps = "-"

PartsInit ==
  /\ Init
  /\ \/ part = "user" /\ NoOffice
     \/ part = "office" /\ SP!Init

PartsNext ==
  \/ part = "user" /\ Next /\ faults' + changes' <= MaxMishaps /\ UNCHANGED <<part, office>>
  \/ part = "office" /\ SP!Next /\ UNCHANGED <<part, vars>>

PartsSpec == PartsInit /\ [][PartsNext]_allVars

--------------------------------------------------------------------------------
(* The properties of Support *)

PartsTypeOK == TypeOK /\ (part = "office" => SP!TypeOK)

\* An amount entered once becomes one request of a deposit (driver/support.py,
\* driver/balance.py), but for receipts handled together, or cut short by a restart or a clear that failed.
RequestPerAmount == part = "office" => SP!RequestPerAmount
=================================================================================
