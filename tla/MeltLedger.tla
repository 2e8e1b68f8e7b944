----------------------------- MODULE MeltLedger -----------------------------
(***************************************************************************)
(* What the melt side of the mint promises about value (spec 3 and 4.G),   *)
(* stated without requests, awaits or quotes' bookkeeping: each quote has  *)
(* one outgoing payment, a proof is free, held for a melt, or burnt, and a *)
(* held proof is burnt only while some payment has been delivered.  A      *)
(* burnt proof never comes back.                                           *)
(***************************************************************************)
CONSTANTS Quotes, Ys

VARIABLES
    pay,    \* pay[q]: the fate of quote q's outgoing payment
    coin    \* coin[y]: "Free", "Held" or "Burnt"

vars == <<pay, coin>>

CoinStates == {"Free", "Held", "Burnt"}

PayStates == {"Idle", "InFlight", "Succeeded", "Failed"}

TypeOK ==
    /\ pay \in [Quotes -> PayStates]
    /\ coin \in [Ys -> CoinStates]

(* Set the coins of S to state st.                                         *)
SetCoins(S, st) == coin' = [y \in Ys |-> IF y \in S THEN st ELSE coin[y]]

Init ==
    /\ pay = [q \in Quotes |-> "Idle"]
    /\ coin = [y \in Ys |-> "Free"]

(* Spec 4.G step 4: a melt holds free inputs.                              *)
Hold(S) ==
    /\ \A y \in S : coin[y] = "Free"
    /\ SetCoins(S, "Held")
    /\ UNCHANGED pay

(* Spec 4.G rollback: held inputs are released.                            *)
Release(S) ==
    /\ \A y \in S : coin[y] = "Held"
    /\ SetCoins(S, "Free")
    /\ UNCHANGED pay

(* Spec 4.G step 8: inputs are burnt behind a delivered payment.           *)
Burn(S) ==
    /\ \E q \in Quotes : pay[q] = "Succeeded"
    /\ \A y \in S : coin[y] \in {"Held", "Burnt"}
    /\ SetCoins(S, "Burnt")
    /\ UNCHANGED pay

(* Spec 4.C: a payment is launched when none is under way or delivered.    *)
Launch(q) ==
    /\ pay[q] \in {"Idle", "Failed"}
    /\ pay' \in {[pay EXCEPT ![q] = st] : st \in {"InFlight", "Succeeded", "Failed"}}
    /\ UNCHANGED coin

(* The Lightning network settles an in-flight payment.                     *)
Settle(q) ==
    /\ pay[q] = "InFlight"
    /\ pay' \in {[pay EXCEPT ![q] = st] : st \in {"Succeeded", "Failed"}}
    /\ UNCHANGED coin

Next ==
    \/ \E S \in SUBSET Ys : Hold(S) \/ Release(S) \/ Burn(S)
    \/ \E q \in Quotes : Launch(q) \/ Settle(q)

Spec == Init /\ [][Next]_vars

=============================================================================
