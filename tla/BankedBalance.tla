--------------------------- MODULE BankedBalance ---------------------------
(***************************************************************************)
(* The balance of banked resets: observe_banked_balance of                 *)
(* sentinel/codex_reset/store.py, and the evidence the tick of the reset   *)
(* monitor files for an increase, in codex_reset/engine.py.  The evidence  *)
(* is in the memory of the tick from the commit of the new balance until   *)
(* it is filed, over the calls of the sources and of the model.            *)
(***************************************************************************)
EXTENDS Integers

CONSTANTS
  Confirmations,  \* readings that make a balance stable
  MaxBalance,     \* bound: the balance of the account
  MaxGrants       \* bound: resets granted

ASSUME BankedAssumption ==
  /\ {Confirmations, MaxBalance} \subseteq Nat \ {0} /\ MaxGrants \in Nat

VARIABLES
  balance,   \* the balance of the account
  row,       \* its row in codex_reset_banked_balances
  increase,  \* what the tick has to file evidence of, 0 for nothing
  granted,   \* history: resets granted since the row was made
  credited,  \* history: the increases that were filed
  forgotten  \* history: the increases lost by a kill

bankedVars == <<balance, row, increase, granted, credited, forgotten>>

NoRead == [stable |-> -1, candidate |-> -1, seen |-> 0]

BankedTypeOK ==
  /\ {balance, granted} \subseteq 0..(MaxBalance + MaxGrants)
  /\ row \in [stable : 0..MaxBalance, candidate : -1..MaxBalance, seen : 0..Confirmations]
             \cup {NoRead}
  /\ {increase, credited, forgotten} \subseteq 0..MaxGrants

BankedInit ==
  /\ balance \in 0..1 /\ row = NoRead /\ increase = 0 /\ granted = 0 /\ credited = 0
  /\ forgotten = 0

Granted ==
  /\ balance < MaxBalance /\ granted < MaxGrants /\ balance' = balance + 1
  /\ granted' = IF row = NoRead THEN granted ELSE granted + 1
  /\ UNCHANGED <<row, increase, credited, forgotten>>

UsedOrExpired ==
  /\ balance > 0 /\ balance' = balance - 1
  /\ UNCHANGED <<row, increase, granted, credited, forgotten>>

-----------------------------------------------------------------------------
(* Mutant: every reading is the first of its candidate.                     *)
SeenOnce(c) == 1
Seen(c) == IF c = row.candidate THEN row.seen + 1 ELSE 1
StableNow(c) == [stable |-> c, candidate |-> -1, seen |-> 0]

Steady(c) == Seen(c) >= Confirmations

FirstReading ==
  row = NoRead /\ row' = StableNow(balance) /\ increase' = 0

Unchanged ==
  /\ row # NoRead /\ balance = row.stable
  /\ row' = [row EXCEPT !.candidate = -1, !.seen = 0] /\ increase' = 0

Candidate ==
  /\ row # NoRead /\ balance # row.stable
  /\ balance # row.candidate \/ ~Steady(balance)
  /\ row' = [row EXCEPT !.candidate = balance, !.seen = Seen(balance)] /\ increase' = 0

(* Mutant: the balance reported is not kept.                                *)
ConfirmedUnkept ==
  /\ row # NoRead /\ balance # row.stable
  /\ balance = row.candidate /\ Steady(balance)
  /\ row' = StableNow(row.stable)
  /\ increase' = IF balance > row.stable THEN balance - row.stable ELSE 0

Confirmed ==
  /\ row # NoRead /\ balance # row.stable
  /\ balance = row.candidate /\ Steady(balance)
  /\ row' = StableNow(balance)
  /\ increase' = IF balance > row.stable THEN balance - row.stable ELSE 0

(* The tick of a reading; a reading that fails changes nothing.             *)
Reading ==
  /\ increase = 0 /\ (FirstReading \/ Unchanged \/ Candidate \/ Confirmed)
  /\ UNCHANGED <<balance, granted, credited, forgotten>>

Filed ==
  /\ increase > 0 /\ credited' = credited + increase /\ increase' = 0
  /\ UNCHANGED <<balance, row, granted, forgotten>>

Killed ==
  /\ increase > 0 /\ forgotten' = forgotten + increase /\ increase' = 0
  /\ UNCHANGED <<balance, row, granted, credited>>

BankedNext == Granted \/ UsedOrExpired \/ Reading \/ Filed \/ Killed

-----------------------------------------------------------------------------
(* What is filed, under way or lost was granted, each reset at most once,   *)
(* whatever was used or expired between the readings; the balance found at  *)
(* the first reading is never among it.                                     *)
CreditedOnce == credited + increase + forgotten <= granted

(* A balance that no longer changes is the stored one in the end.           *)
BalanceIsFollowed == <>[](row.stable = balance)
=============================================================================
