------------------------------- MODULE Wallet -------------------------------
(***************************************************************************)
(* What the money path promises, whatever the interleaving of requests,    *)
(* retries and crashes: an operation is settled in one step, completely,   *)
(* at most once under its idempotency key, and never for money the account *)
(* does not hold.                                                          *)
(***************************************************************************)
EXTENDS Integers

CONSTANTS
  Account,
  InitialBalance,
  Operation    \* records: account, key, and the amounts it takes and gives

VARIABLES
  opened,      \* the accounts that exist
  balance,     \* what each account holds
  settled      \* the operations that happened

vars == <<opened, balance, settled>>

\* A player is first seen by a spin and starts with the configured balance.
Open(a) ==
  /\ a \notin opened
  /\ opened' = opened \cup {a}
  /\ balance' = [balance EXCEPT ![a] = InitialBalance]
  /\ UNCHANGED settled

\* An operation that takes something needs an open account holding it; one
\* that only gives opens the account if need be.
Settle(op) ==
  /\ \A done \in settled : done.key # op.key
  /\ op.takes > 0 => op.account \in opened /\ op.takes <= balance[op.account]
  /\ opened' = opened \cup {op.account}
  /\ balance' = [balance EXCEPT ![op.account] = @ - op.takes + op.gives]
  /\ settled' = settled \cup {op}

Init ==
  /\ opened = {}
  /\ balance = [a \in Account |-> 0]
  /\ settled = {}

Next ==
  \/ \E a \in Account : Open(a)
  \/ \E op \in Operation : Settle(op)

Spec == Init /\ [][Next]_vars
=============================================================================
