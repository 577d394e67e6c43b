--------------------------- MODULE EscrowAccounts ---------------------------
(***************************************************************************)
(* What the settlement contract promises about money: every trade has an   *)
(* account of its own, filled once by the depositor its deal names.  It is *)
(* given back whole while nothing was released of it, and otherwise paid   *)
(* out in two stages: a part to the beneficiary, and the rest to the       *)
(* beneficiary, or, once the ruling is reversed, to the corrector.  A      *)
(* frozen account is paid to nobody but the corrector.  There are no       *)
(* receipts, signers, windows or deadlines here, and no common balance one *)
(* trade could be paid from at the expense of another.                     *)
(***************************************************************************)
EXTENDS Integers

CONSTANTS Trades, Parties, Deals, Endowment, None

VARIABLES stage, deal, account, balance

avars == <<stage, deal, account, balance>>

Init ==
  /\ stage = [t \in Trades |-> "NONE"]
  /\ deal = [t \in Trades |-> None]
  /\ account = [t \in Trades |-> 0]
  /\ balance = [p \in Parties |-> Endowment]

Moves(t, from, to) == stage[t] = from /\ stage' = [stage EXCEPT ![t] = to]
Agree(t, d)        == deal' = [deal EXCEPT ![t] = d]
Keep(t, shares)    == account' = [account EXCEPT ![t] = shares]
Credit(p, shares)  == balance' = [balance EXCEPT ![p] = balance[p] + shares]
Debit(p, shares)   == /\ shares <= balance[p]
                      /\ balance' = [balance EXCEPT ![p] = balance[p] - shares]

Pay(t, p, shares) ==
  /\ shares \in 0 .. account[t]
  /\ Keep(t, account[t] - shares)
  /\ Credit(p, shares)

Open(t, d) ==
  /\ Moves(t, "NONE", "HELD") /\ Agree(t, d)
  /\ Keep(t, d.shares) /\ Debit(d.depositor, d.shares)

GiveBack(t) ==
  Moves(t, "HELD", "UNCLOSED") /\ Pay(t, deal[t].depositor, account[t]) /\ UNCHANGED deal

Release(t) ==
  /\ Moves(t, "HELD", "PRIMARY_RELEASED")
  /\ \E shares \in 0 .. account[t] : Pay(t, deal[t].beneficiary, shares)
  /\ UNCHANGED deal

PayRest(t) ==
  /\ Moves(t, "PRIMARY_RELEASED", "SETTLED")
  /\ Pay(t, deal[t].beneficiary, account[t])
  /\ UNCHANGED deal

Freeze(t) ==
  Moves(t, "PRIMARY_RELEASED", "FROZEN_PENDING_RULING") /\ UNCHANGED <<deal, account, balance>>

Divert(t) ==
  /\ \E from \in {"PRIMARY_RELEASED", "FROZEN_PENDING_RULING"} : Moves(t, from, "DIVERTED")
  /\ Pay(t, deal[t].corrector, account[t])
  /\ UNCHANGED deal

Next ==
  \E t \in Trades :
    \/ \E d \in Deals : Open(t, d)
    \/ GiveBack(t) \/ Release(t) \/ PayRest(t) \/ Freeze(t) \/ Divert(t)

Spec == Init /\ [][Next]_avars
=============================================================================
