---------------------------- MODULE LedgerProofs ----------------------------
(* Proof that the melt model implements the abstract ledger of MeltLedger, *)
(* for every value of the constants, with a store whose remove_proofs      *)
(* checks the quote binding (RemoveChecksQuote, spec 4.B).                 *)
EXTENDS MeltProofs

(* The awaits of a call that holds its inputs Pending.                     *)
HeldPcs == {"Sig", "Pay", "Check", "Lookup", "Spend"}

(* The rows of a held or burnt input.                                      *)
HeldRows == {"Pending", "Spent"}

(* With the quote-checking store, rolling back removes nothing: no proof   *)
(* is bound to a quote, and remove_proofs(ys, Some(q)) only deletes rows   *)
(* bound to q.                                                             *)
LEMMA NothingRemoved ==
  ASSUME RemoveChecksQuote, NoQuoteBinding, NEW S \in SUBSET Ys, NEW q \in Quotes
  PROVE  RemovedProofs(S, q) = {}
  BY ConstantsAssumption DEF RemovedProofs, NoQuoteBinding

(* The argument common to all steps: a step keeps HeldInputs when held or  *)
(* burnt rows stay held or burnt, and a call that reaches a holding await  *)
(* was holding the same inputs already or finds them all held.             *)
LEMMA HeldPreserves ==
  ASSUME HeldInputs,
         \A y \in Ys : proofState[y] \in HeldRows => proofState'[y] \in HeldRows,
         \A s \in Requests : req'[s].pc \in HeldPcs =>
             \/ req[s].pc \in HeldPcs /\ req'[s].inputs = req[s].inputs
             \/ \A y \in req'[s].inputs : proofState'[y] \in HeldRows,
         \A s \in Requests : req[s].inputs \subseteq Ys
  PROVE  HeldInputs'
  BY DEF HeldInputs, HeldPcs, HeldRows

(* The steps that leave the proof rows alone and move at most one call,    *)
(* to an await that holds nothing or onward from a holding await.          *)
LEMMA QuietStep ==
  ASSUME HeldInputs, NEW r \in Requests,
         req \in [Requests -> ReqRecords],
         proofState' = proofState,
         \A s \in Requests \ {r} : req'[s] = req[s],
         req'[r].pc \in HeldPcs => req[r].pc \in HeldPcs /\ req'[r].inputs = req[r].inputs
  PROVE  HeldInputs'
  BY HeldPreserves DEF ReqRecords

(* The strengthened invariant holds initially.                             *)
LEMMA InitLedgerInv == Init => LedgerInv
  <1>1. Init => Holders = {}
    BY DEF Init, Holders
  <1>2. QED
    BY InitFinalizeInv, <1>1 DEF Init, LedgerInv, HeldInputs, PayerHeld, HoldersDisjoint


(* Every step keeps the inputs of a holding call held, given the           *)
(* quote-checking store.                                                   *)
LEMMA NextHeldInputs ==
  ASSUME RemoveChecksQuote, LedgerInv, [Next]_vars
  PROVE  HeldInputs'
  <1>1. TypeOK /\ FinalizeInv /\ HeldInputs /\ NoQuoteBinding
    BY DEF LedgerInv, FinalizeInv
  <1>2. /\ req \in [Requests -> ReqRecords]
        /\ \A s \in Requests : req[s].inputs \subseteq Ys /\ req[s].quote \in Quotes
        /\ proofState \in [Ys -> ProofStates]
    BY <1>1 DEF TypeOK, ReqRecords
  <1>3. ASSUME NEW r \in Requests, VerifyMeltQuoteState(r) PROVE HeldInputs'
    <2>1. req'[r].pc \in {"Verify", "RbRemove"} /\ \A s \in Requests \ {r} : req'[s] = req[s]
      BY <1>3, <1>2 DEF VerifyMeltQuoteState
    <2>2. QED
      BY <1>1, <1>2, <1>3, <2>1, QuietStep DEF VerifyMeltQuoteState, HeldPcs
  <1>4. ASSUME NEW r \in Requests, VerifyMeltInputs(r) PROVE HeldInputs'
    <2>1. PICK p \in {"RbRemove", "Spendable"}, e \in Errors : Goto(r, p, e)
      BY <1>4 DEF VerifyMeltInputs, Errors
    <2>2. /\ \A s \in Requests \ {r} : req'[s] = req[s]
          /\ req'[r].pc \notin HeldPcs
      BY <2>1, <1>2, GotoFrame DEF HeldPcs
    <2>3. \A y \in Ys : proofState[y] \in HeldRows => proofState'[y] = proofState[y]
      BY <1>4, <1>2 DEF VerifyMeltInputs, StoredProofs, HeldRows
    <2>4. QED
      BY <1>1, <1>2, <2>2, <2>3, HeldPreserves
  <1>5. ASSUME NEW r \in Requests, CheckYsSpendable(r) PROVE HeldInputs'
    <2>1. /\ \A s \in Requests : req'[s].inputs = req[s].inputs
          /\ \A s \in Requests \ {r} : req'[s] = req[s]
      BY <1>5, <1>2, GotoFrame DEF CheckYsSpendable
    <2>2. CASE \A y \in req[r].inputs : proofState[y] = "Unspent"
      <3>1. \A y \in req[r].inputs : proofState'[y] = "Pending"
        BY <2>2, <1>5, <1>2 DEF CheckYsSpendable
      <3>2. \A y \in Ys : proofState[y] \in HeldRows => proofState'[y] \in HeldRows
        BY <2>2, <1>5, <1>2 DEF CheckYsSpendable, HeldRows
      <3>3. QED
        BY <1>1, <1>2, <2>1, <3>1, <3>2, HeldPreserves DEF HeldRows
    <2>3. CASE ~\A y \in req[r].inputs : proofState[y] = "Unspent"
      <3>1. PICK e \in Errors : Goto(r, "RbRemove", e) /\ proofState' = proofState
        BY <2>3, <1>5 DEF CheckYsSpendable, Errors
      <3>2. req'[r].pc = "RbRemove"
        BY <3>1, <1>2, GotoFrame
      <3>3. QED
        BY <1>1, <1>2, <2>1, <3>1, <3>2, QuietStep DEF HeldPcs
    <2>4. QED
      BY <2>2, <2>3
  <1>6. ASSUME NEW r \in Requests, VerifySigFlag(r) PROVE HeldInputs'
    <2>1. PICK p \in {"RbRemove", "Pay"}, e \in Errors : Goto(r, p, e)
      BY <1>6 DEF VerifySigFlag, Errors
    <2>2. QED
      BY <1>1, <1>2, <1>6, <2>1, GotoFrame, QuietStep DEF VerifySigFlag, HeldPcs
  <1>7. ASSUME NEW r \in Requests, MakePayment(r) PROVE HeldInputs'
    <2>1. PICK p, e : Goto(r, p, e)
      BY <1>7 DEF MakePayment
    <2>2. QED
      BY <1>1, <1>2, <1>7, <2>1, GotoFrame, QuietStep DEF MakePayment, HeldPcs
  <1>8. ASSUME NEW r \in Requests, CheckPaymentState(r) PROVE HeldInputs'
    <2>1. /\ \A s \in Requests \ {r} : req'[s] = req[s]
          /\ req'[r].inputs = req[r].inputs
      BY <1>8, <1>2 DEF CheckPaymentState, ReqRecords
    <2>2. QED
      BY <1>1, <1>2, <1>8, <2>1, QuietStep DEF CheckPaymentState, HeldPcs
  <1>9. ASSUME NEW r \in Requests, UpdateLookupId(r) PROVE HeldInputs'
    BY <1>1, <1>2, <1>9, GotoFrame, QuietStep DEF UpdateLookupId, HeldPcs
  <1>10. ASSUME NEW r \in Requests, ProcessMeltSpend(r) PROVE HeldInputs'
    <2>1. PICK p \in {"MarkPaid", "Done"}, e \in Errors : Goto(r, p, e)
      BY <1>10 DEF ProcessMeltSpend, Errors
    <2>2. /\ \A s \in Requests \ {r} : req'[s] = req[s]
          /\ req'[r].pc \notin HeldPcs
      BY <2>1, <1>2, GotoFrame DEF HeldPcs
    <2>3. \A y \in Ys : proofState[y] \in HeldRows => proofState'[y] \in HeldRows
      BY <1>10, <1>2 DEF ProcessMeltSpend, HeldRows
    <2>4. QED
      BY <1>1, <1>2, <2>2, <2>3, HeldPreserves
  <1>11. ASSUME NEW r \in Requests, ProcessMeltPaid(r) PROVE HeldInputs'
    BY <1>1, <1>2, <1>11, GotoFrame, QuietStep DEF ProcessMeltPaid, HeldPcs
  <1>12. ASSUME NEW r \in Requests, ProcessUnpaidRemove(r) PROVE HeldInputs'
    <2>1. RemovedProofs(req[r].inputs, req[r].quote) = {}
      BY <1>1, <1>2, NothingRemoved
    <2>2. proofState' = proofState
      BY <1>12, <1>2, <2>1 DEF ProcessUnpaidRemove
    <2>3. /\ \A s \in Requests \ {r} : req'[s] = req[s]
          /\ req'[r].pc = "RbUnpaid"
      BY <1>12, <1>2 DEF ProcessUnpaidRemove, ReqRecords
    <2>4. QED
      BY <1>1, <1>2, <2>2, <2>3, QuietStep DEF HeldPcs
  <1>13. ASSUME NEW r \in Requests, ProcessUnpaidQuote(r) PROVE HeldInputs'
    <2>1. /\ \A s \in Requests \ {r} : req'[s] = req[s]
          /\ req'[r].pc = "Done"
      BY <1>13, <1>2 DEF ProcessUnpaidQuote, ReqRecords
    <2>2. QED
      BY <1>1, <1>2, <1>13, <2>1, QuietStep DEF ProcessUnpaidQuote, HeldPcs
  <1>14. ASSUME NEW q \in Quotes, CheckPendingMeltQuote(q) PROVE HeldInputs'
    <2>1. {y \in Ys : proofQuote[y] = q /\ proofState[y] = "Pending"} = {}
      BY <1>1, ConstantsAssumption DEF NoQuoteBinding
    <2>2. proofState' = proofState
      <3>1. [y \in Ys |-> IF y \in {} THEN "Spent" ELSE proofState[y]] = proofState
        BY <1>2
      <3>2. [y \in Ys |-> IF y \in {} THEN "Absent" ELSE proofState[y]] = proofState
        BY <1>2
      <3>3. QED
        BY <1>14, <2>1, <3>1, <3>2 DEF CheckPendingMeltQuote
    <2>3. QED
      BY <1>1, <2>2, <1>14 DEF CheckPendingMeltQuote, HeldInputs
  <1>15. CASE Crash
    <2>1. \A s \in Requests : req'[s].pc \in HeldPcs => req'[s] = req[s]
      BY <1>15, <1>2 DEF Crash, ReqRecords, HeldPcs
    <2>2. QED
      BY <1>1, <1>2, <1>15, <2>1, HeldPreserves DEF Crash
  <1>16. CASE \E q \in Quotes : PaymentSettles(q)
    BY <1>1, <1>16 DEF PaymentSettles, HeldInputs
  <1>17. CASE Reboot \/ BootAbort \/ Serve \/ UNCHANGED vars
    BY <1>1, <1>17 DEF Reboot, BootAbort, Serve, vars, HeldInputs
  <1>18. QED
    BY <1>3, <1>4, <1>5, <1>6, <1>7, <1>8, <1>9, <1>10, <1>11, <1>12, <1>13, <1>14,
       <1>15, <1>16, <1>17 DEF Next, MeltStep

(* A step that changes neither the payments nor any coin is a stutter of   *)
(* the ledger.                                                             *)
LEMMA LedgerStutter ==
  ASSUME lnState' = lnState,
         \A y \in Ys : CoinOf(proofState'[y]) = CoinOf(proofState[y])
  PROVE  [Ledger!Next]_(Ledger!vars)
  BY DEF Ledger!vars

(* A step that turns free coins S into held ones is a Hold of the ledger.  *)
LEMMA LedgerHold ==
  ASSUME NEW S \in SUBSET Ys, lnState' = lnState,
         \A y \in S : CoinOf(proofState[y]) = "Free",
         \A y \in Ys : CoinOf(proofState'[y]) =
                         IF y \in S THEN "Held" ELSE CoinOf(proofState[y])
  PROVE  [Ledger!Next]_(Ledger!vars)
  <1>1. Ledger!Hold(S)
    BY DEF Ledger!Hold, Ledger!SetCoins
  <1>2. QED
    BY <1>1 DEF Ledger!Next

(* A step that burns held or burnt coins S behind a delivered payment is a *)
(* Burn of the ledger.                                                     *)
LEMMA LedgerBurn ==
  ASSUME NEW S \in SUBSET Ys, NEW q \in Quotes, lnState' = lnState,
         lnState[q] = "Succeeded",
         \A y \in S : CoinOf(proofState[y]) \in {"Held", "Burnt"},
         \A y \in Ys : CoinOf(proofState'[y]) =
                         IF y \in S THEN "Burnt" ELSE CoinOf(proofState[y])
  PROVE  [Ledger!Next]_(Ledger!vars)
  <1>1. Ledger!Burn(S)
    BY DEF Ledger!Burn, Ledger!SetCoins
  <1>2. QED
    BY <1>1 DEF Ledger!Next

(* A step that launches quote q's payment, leaving the coins, is a Launch. *)
LEMMA LedgerLaunch ==
  ASSUME NEW q \in Quotes, NEW st \in {"InFlight", "Succeeded", "Failed"},
         lnState[q] \in {"Idle", "Failed"},
         lnState' = [lnState EXCEPT ![q] = st],
         \A y \in Ys : CoinOf(proofState'[y]) = CoinOf(proofState[y])
  PROVE  [Ledger!Next]_(Ledger!vars)
  <1>1. Ledger!Launch(q)
    BY DEF Ledger!Launch
  <1>2. QED
    BY <1>1 DEF Ledger!Next

(* A step that settles an in-flight payment, leaving the coins, is a Settle. *)
LEMMA LedgerSettle ==
  ASSUME NEW q \in Quotes, NEW st \in {"Succeeded", "Failed"},
         lnState[q] = "InFlight",
         lnState' = [lnState EXCEPT ![q] = st],
         \A y \in Ys : CoinOf(proofState'[y]) = CoinOf(proofState[y])
  PROVE  [Ledger!Next]_(Ledger!vars)
  <1>1. Ledger!Settle(q)
    BY DEF Ledger!Settle
  <1>2. QED
    BY <1>1 DEF Ledger!Next

(* Rows a step leaves alone keep their coin.                               *)
LEMMA SameRows ==
  ASSUME proofState' = proofState PROVE \A y \in Ys : CoinOf(proofState'[y]) = CoinOf(proofState[y])
  OBVIOUS

(* Every step of the melt model is a step of the ledger or leaves the      *)
(* ledger unchanged, given the quote-checking store.                       *)
LEMMA NextRefines ==
  ASSUME RemoveChecksQuote, LedgerInv, [Next]_vars
  PROVE  [Ledger!Next]_(Ledger!vars)
  <1>1. TypeOK /\ HeldInputs /\ NoQuoteBinding /\ PaidAnswerDelivered
    BY DEF LedgerInv, FinalizeInv
  <1>2. /\ req \in [Requests -> ReqRecords]
        /\ \A s \in Requests : req[s].inputs \subseteq Ys /\ req[s].quote \in Quotes
        /\ proofState \in [Ys -> ProofStates]
        /\ lnState \in [Quotes -> LnStates]
    BY <1>1 DEF TypeOK, ReqRecords
  <1>3. CASE proofState' = proofState /\ lnState' = lnState
    BY <1>3, SameRows, LedgerStutter
  <1>4. ASSUME NEW r \in Requests, VerifyMeltInputs(r) PROVE [Ledger!Next]_(Ledger!vars)
    <2>0. \/ proofState' = proofState
          \/ /\ StoredProofs(req[r].inputs) = {}
             /\ proofState' = [y \in Ys |-> IF y \in req[r].inputs THEN "Unspent"
                                                                 ELSE proofState[y]]
      BY <1>4 DEF VerifyMeltInputs
    <2>1. \A y \in Ys : (proofState'[y] = proofState[y])
                         \/ (proofState[y] = "Absent" /\ proofState'[y] = "Unspent")
      <3>1. CASE proofState' = proofState
        BY <3>1
      <3>2. CASE /\ StoredProofs(req[r].inputs) = {}
                 /\ proofState' = [y \in Ys |-> IF y \in req[r].inputs THEN "Unspent"
                                                                     ELSE proofState[y]]
        <4>1. \A y \in req[r].inputs : proofState[y] = "Absent"
          BY <3>2 DEF StoredProofs
        <4>2. QED
          BY <3>2, <4>1
      <3>3. QED
        BY <2>0, <3>1, <3>2
    <2>2. \A y \in Ys : CoinOf(proofState'[y]) = CoinOf(proofState[y])
      BY <2>1 DEF CoinOf
    <2>3. QED
      BY <1>4, <2>2, LedgerStutter DEF VerifyMeltInputs
  <1>5. ASSUME NEW r \in Requests, CheckYsSpendable(r) PROVE [Ledger!Next]_(Ledger!vars)
    <2>0. CASE \A y \in req[r].inputs : proofState[y] = "Unspent"
      <3>1. \A y \in req[r].inputs : CoinOf(proofState[y]) = "Free"
        BY <2>0 DEF CoinOf
      <3>2. \A y \in Ys : CoinOf(proofState'[y]) =
                           IF y \in req[r].inputs THEN "Held" ELSE CoinOf(proofState[y])
        BY <2>0, <1>5, <1>2 DEF CheckYsSpendable, CoinOf
      <3>3. QED
        BY <1>5, <1>2, <3>1, <3>2, LedgerHold DEF CheckYsSpendable
    <2>1. CASE ~\A y \in req[r].inputs : proofState[y] = "Unspent"
      <3>1. proofState' = proofState /\ lnState' = lnState
        BY <2>1, <1>5 DEF CheckYsSpendable
      <3>2. QED
        BY <3>1, SameRows, LedgerStutter
    <2>2. QED
      BY <2>0, <2>1
  <1>6. ASSUME NEW r \in Requests, MakePayment(r) PROVE [Ledger!Next]_(Ledger!vars)
    <2> DEFINE q == req[r].quote
    <2>1. q \in Quotes
      BY <1>2
    <2>2. CASE lnState' = lnState
      BY <1>6, <2>2, SameRows, LedgerStutter DEF MakePayment
    <2>3. CASE lnState' # lnState
      <3>1. PICK st \in {"InFlight", "Succeeded", "Failed"} :
                 /\ lnState[q] \in {"Idle", "Failed"}
                 /\ lnState' = [lnState EXCEPT ![q] = st]
        BY <1>6, <2>3 DEF MakePayment
      <3>2. QED
        BY <1>6, <2>1, <3>1, SameRows, LedgerLaunch DEF MakePayment
    <2>4. QED
      BY <2>2, <2>3
  <1>7. ASSUME NEW r \in Requests, ProcessMeltSpend(r) PROVE [Ledger!Next]_(Ledger!vars)
    <2> DEFINE S == req[r].inputs
    <2>1. CASE \A y \in S : proofState[y] # "Absent"
      <3>1. lnState[req[r].quote] = "Succeeded"
        BY <1>7, <1>1 DEF ProcessMeltSpend, PaidAnswerDelivered
      <3>2. \A y \in S : CoinOf(proofState[y]) \in {"Held", "Burnt"}
        BY <1>7, <1>1 DEF ProcessMeltSpend, HeldInputs, CoinOf
      <3>3. \A y \in Ys : CoinOf(proofState'[y]) =
                           IF y \in S THEN "Burnt" ELSE CoinOf(proofState[y])
        BY <1>7, <2>1, <1>2 DEF ProcessMeltSpend, CoinOf
      <3>4. QED
        BY <1>7, <1>2, <3>1, <3>2, <3>3, LedgerBurn DEF ProcessMeltSpend
    <2>2. CASE ~\A y \in S : proofState[y] # "Absent"
      BY <1>7, <2>2, SameRows, LedgerStutter DEF ProcessMeltSpend
    <2>3. QED
      BY <2>1, <2>2
  <1>8. ASSUME NEW r \in Requests, ProcessUnpaidRemove(r) PROVE [Ledger!Next]_(Ledger!vars)
    <2>1. RemovedProofs(req[r].inputs, req[r].quote) = {}
      BY <1>1, <1>2, NothingRemoved
    <2>2. proofState' = proofState
      BY <1>8, <1>2, <2>1 DEF ProcessUnpaidRemove
    <2>3. QED
      BY <1>8, <2>2, <1>3 DEF ProcessUnpaidRemove
  <1>9. ASSUME NEW q \in Quotes, CheckPendingMeltQuote(q) PROVE [Ledger!Next]_(Ledger!vars)
    <2>1. {y \in Ys : proofQuote[y] = q /\ proofState[y] = "Pending"} = {}
      BY <1>1, ConstantsAssumption DEF NoQuoteBinding
    <2>2. proofState' = proofState
      <3>1. [y \in Ys |-> IF y \in {} THEN "Spent" ELSE proofState[y]] = proofState
        BY <1>2
      <3>2. [y \in Ys |-> IF y \in {} THEN "Absent" ELSE proofState[y]] = proofState
        BY <1>2
      <3>3. QED
        BY <1>9, <2>1, <3>1, <3>2 DEF CheckPendingMeltQuote
    <2>3. QED
      BY <1>9, <2>2, <1>3 DEF CheckPendingMeltQuote
  <1>10. ASSUME NEW q \in Quotes, PaymentSettles(q) PROVE [Ledger!Next]_(Ledger!vars)
    <2>1. PICK st \in {"Succeeded", "Failed"} : lnState' = [lnState EXCEPT ![q] = st]
      BY <1>10 DEF PaymentSettles
    <2>2. QED
      BY <1>10, <2>1, SameRows, LedgerSettle DEF PaymentSettles
  <1>11. ASSUME NEW r \in Requests,
                \/ VerifyMeltQuoteState(r) \/ VerifySigFlag(r) \/ CheckPaymentState(r)
                \/ UpdateLookupId(r) \/ ProcessMeltPaid(r) \/ ProcessUnpaidQuote(r)
         PROVE  [Ledger!Next]_(Ledger!vars)
    <2>1. proofState' = proofState /\ lnState' = lnState
      BY <1>11 DEF VerifyMeltQuoteState, VerifySigFlag, CheckPaymentState,
                   UpdateLookupId, ProcessMeltPaid, ProcessUnpaidQuote
    <2>2. QED
      BY <2>1, <1>3
  <1>12. CASE Crash \/ Reboot \/ BootAbort \/ Serve \/ UNCHANGED vars
    BY <1>12, <1>3 DEF Crash, Reboot, BootAbort, Serve, vars
  <1>13. QED
    BY <1>4, <1>5, <1>6, <1>7, <1>8, <1>9, <1>10, <1>11, <1>12 DEF Next, MeltStep

(* With the quote-checking store a row only moves forward: a new row is   *)
(* Unspent, and a stored row is never deleted and may become held or burnt. *)
RowMoves ==
    \A y \in Ys : \/ proofState'[y] = proofState[y]
                  \/ proofState[y] = "Absent" /\ proofState'[y] = "Unspent"
                  \/ proofState[y] # "Absent" /\ proofState'[y] \in HeldRows

(* Every step moves the rows forward only, given the quote-checking store. *)
LEMMA RowsMoveForward ==
  ASSUME RemoveChecksQuote, LedgerInv, [Next]_vars
  PROVE  RowMoves
  <1>1. TypeOK /\ NoQuoteBinding
    BY DEF LedgerInv, FinalizeInv
  <1>2. /\ \A s \in Requests : req[s].inputs \subseteq Ys /\ req[s].quote \in Quotes
        /\ proofState \in [Ys -> ProofStates]
    BY <1>1 DEF TypeOK, ReqRecords
  <1>3. CASE proofState' = proofState
    BY <1>3 DEF RowMoves
  <1>4. ASSUME NEW r \in Requests, VerifyMeltInputs(r) PROVE RowMoves
    BY <1>4, <1>2 DEF VerifyMeltInputs, StoredProofs, HeldRows, RowMoves
  <1>5. ASSUME NEW r \in Requests, CheckYsSpendable(r) PROVE RowMoves
    BY <1>5, <1>2 DEF CheckYsSpendable, HeldRows, RowMoves
  <1>6. ASSUME NEW r \in Requests, ProcessMeltSpend(r) PROVE RowMoves
    BY <1>6, <1>2 DEF ProcessMeltSpend, HeldRows, RowMoves
  <1>7. ASSUME NEW r \in Requests, ProcessUnpaidRemove(r) PROVE proofState' = proofState
    <2>1. RemovedProofs(req[r].inputs, req[r].quote) = {}
      BY <1>1, <1>2, NothingRemoved
    <2>2. QED
      BY <1>7, <1>2, <2>1 DEF ProcessUnpaidRemove
  <1>8. ASSUME NEW q \in Quotes, CheckPendingMeltQuote(q) PROVE proofState' = proofState
    <2>1. {y \in Ys : proofQuote[y] = q /\ proofState[y] = "Pending"} = {}
      BY <1>1, ConstantsAssumption DEF NoQuoteBinding
    <2>2. [y \in Ys |-> IF y \in {} THEN "Spent" ELSE proofState[y]] = proofState
      BY <1>2
    <2>3. [y \in Ys |-> IF y \in {} THEN "Absent" ELSE proofState[y]] = proofState
      BY <1>2
    <2>4. QED
      BY <1>8, <2>1, <2>2, <2>3 DEF CheckPendingMeltQuote
  <1>9. ASSUME NEW r \in Requests,
               \/ VerifyMeltQuoteState(r) \/ VerifySigFlag(r) \/ MakePayment(r)
               \/ CheckPaymentState(r) \/ UpdateLookupId(r) \/ ProcessMeltPaid(r)
               \/ ProcessUnpaidQuote(r)
        PROVE  proofState' = proofState
    BY <1>9 DEF VerifyMeltQuoteState, VerifySigFlag, MakePayment, CheckPaymentState,
                UpdateLookupId, ProcessMeltPaid, ProcessUnpaidQuote
  <1>10. ASSUME \/ \E q \in Quotes : PaymentSettles(q)
                \/ Crash \/ Reboot \/ BootAbort \/ Serve \/ UNCHANGED vars
         PROVE  proofState' = proofState
    BY <1>10 DEF PaymentSettles, Crash, Reboot, BootAbort, Serve, vars
  <1>11. QED
    BY <1>3, <1>4, <1>5, <1>6, <1>7, <1>8, <1>9, <1>10 DEF Next, MeltStep

(* A held or burnt row stays held or burnt.                               *)
LEMMA RowsStayHeld ==
  ASSUME RemoveChecksQuote, LedgerInv, [Next]_vars
  PROVE  \A y \in Ys : proofState[y] \in HeldRows => proofState'[y] \in HeldRows
  BY RowsMoveForward DEF RowMoves, HeldRows

(* A stored row stays stored.                                              *)
LEMMA RowsStayStored ==
  ASSUME RemoveChecksQuote, LedgerInv, [Next]_vars
  PROVE  \A y \in Ys : proofState[y] # "Absent" => proofState'[y] # "Absent"
  BY RowsMoveForward DEF RowMoves, HeldRows

(* A call that has started stays started and keeps its inputs and quote.   *)
LEMMA CallsKeepInputs ==
  ASSUME TypeOK, [Next]_vars
  PROVE  \A s \in Requests : req[s].pc # "Idle" =>
             req'[s].pc # "Idle" /\ req'[s].inputs = req[s].inputs /\ req'[s].quote = req[s].quote
  <1>1. req \in [Requests -> ReqRecords]
    BY DEF TypeOK
  <1>2. CASE UNCHANGED req
    BY <1>2
  <1>3. ASSUME NEW r \in Requests, VerifyMeltQuoteState(r)
        PROVE  \A s \in Requests : req[s].pc # "Idle" =>
                   req'[s].pc # "Idle" /\ req'[s].inputs = req[s].inputs /\ req'[s].quote = req[s].quote
    BY <1>3, <1>1 DEF VerifyMeltQuoteState
  <1>4. ASSUME NEW r \in Requests, NEW p \in Pcs \ {"Idle"}, NEW e, Goto(r, p, e)
        PROVE  \A s \in Requests : req[s].pc # "Idle" =>
                   req'[s].pc # "Idle" /\ req'[s].inputs = req[s].inputs /\ req'[s].quote = req[s].quote
    BY <1>4, <1>1, GotoFrame
  <1>5. ASSUME NEW r \in Requests,
               \/ VerifyMeltInputs(r) \/ CheckYsSpendable(r) \/ VerifySigFlag(r)
               \/ UpdateLookupId(r) \/ ProcessMeltSpend(r) \/ ProcessMeltPaid(r)
        PROVE  \E p \in Pcs \ {"Idle"} : \E e : Goto(r, p, e)
    BY <1>5 DEF VerifyMeltInputs, CheckYsSpendable, VerifySigFlag,
                UpdateLookupId, ProcessMeltSpend, ProcessMeltPaid, Pcs
  <1>5a. ASSUME NEW r \in Requests, MakePayment(r)
         PROVE  \E p \in Pcs \ {"Idle"} : \E e : Goto(r, p, e)
    <2>1. \A resp : AfterMakePayment(resp) \in Pcs \ {"Idle"}
      BY AfterMakeType DEF Pcs
    <2>2. QED
      BY <1>5a, <2>1 DEF MakePayment, Pcs
  <1>6. ASSUME NEW r \in Requests, CheckPaymentState(r)
        PROVE  \A s \in Requests : req[s].pc # "Idle" =>
                   req'[s].pc # "Idle" /\ req'[s].inputs = req[s].inputs /\ req'[s].quote = req[s].quote
    <2>0. CheckPaymentResponses(lnState[req[r].quote]) \subseteq Responses
      BY <1>1, CheckResponsesType DEF TypeOK, ReqRecords
    <2>1. PICK resp \in Responses :
             req' = [req EXCEPT ![r].pc = AfterCheckPayment(resp),
                                ![r].err = CheckPaymentError(resp),
                                ![r].checked = resp]
      BY <1>6, <2>0 DEF CheckPaymentState
    <2>2. AfterCheckPayment(resp) \in {"Done", "RbRemove"}
      BY AfterCheckType
    <2>3. QED
      BY <2>1, <2>2, <1>1 DEF ReqRecords
  <1>7. ASSUME NEW r \in Requests, ProcessUnpaidRemove(r) \/ ProcessUnpaidQuote(r)
        PROVE  \A s \in Requests : req[s].pc # "Idle" =>
                   req'[s].pc # "Idle" /\ req'[s].inputs = req[s].inputs /\ req'[s].quote = req[s].quote
    BY <1>7, <1>1 DEF ProcessUnpaidRemove, ProcessUnpaidQuote, ReqRecords
  <1>8. CASE Crash
    BY <1>8, <1>1 DEF Crash, ReqRecords
  <1>9. CASE \/ \E q \in Quotes : PaymentSettles(q) \/ CheckPendingMeltQuote(q)
             \/ Reboot \/ BootAbort \/ Serve \/ UNCHANGED vars
    BY <1>9, <1>2 DEF PaymentSettles, CheckPendingMeltQuote, Reboot, BootAbort, Serve, vars
  <1>10. QED
    BY <1>3, <1>4, <1>5, <1>5a, <1>6, <1>7, <1>8, <1>9 DEF Next, MeltStep

(* Only make_payment changes who launched a quote's payment, and only the  *)
(* call that is making it.                                                 *)
LEMMA PayerChange ==
  ASSUME TypeOK, [Next]_vars
  PROVE  \A q \in Quotes : payer'[q] # payer[q] =>
             /\ payer'[q] \in Requests
             /\ req[payer'[q]].pc = "Pay" /\ req[payer'[q]].quote = q
  <1>1. ASSUME NEW r \in Requests, MakePayment(r)
        PROVE  \A q \in Quotes : payer'[q] # payer[q] =>
                   /\ payer'[q] \in Requests
                   /\ req[payer'[q]].pc = "Pay" /\ req[payer'[q]].quote = q
    BY <1>1 DEF MakePayment, TypeOK
  <1>2. QED
    BY <1>1 DEF Next, MeltStep, vars, VerifyMeltQuoteState, VerifyMeltInputs,
       CheckYsSpendable, VerifySigFlag, CheckPaymentState, UpdateLookupId,
       ProcessMeltSpend, ProcessMeltPaid, ProcessUnpaidRemove, ProcessUnpaidQuote,
       PaymentSettles, CheckPendingMeltQuote, Crash, Reboot, BootAbort, Serve

(* Every step keeps the payer of a quote started, holding its inputs.      *)
LEMMA NextPayerHeld ==
  ASSUME RemoveChecksQuote, LedgerInv, [Next]_vars
  PROVE  PayerHeld'
  <1>1. TypeOK /\ TypeOK' /\ PayerHeld /\ HeldInputs
    BY NextTypeOK DEF LedgerInv, FinalizeInv
  <1>2. \A y \in Ys : proofState[y] \in HeldRows => proofState'[y] \in HeldRows
    BY RowsStayHeld
  <1>3. \A s \in Requests : req[s].pc # "Idle" =>
            req'[s].pc # "Idle" /\ req'[s].inputs = req[s].inputs
    BY <1>1, CallsKeepInputs
  <1>4. \A q \in Quotes : payer'[q] # payer[q] =>
            payer'[q] \in Requests /\ req[payer'[q]].pc = "Pay"
    BY <1>1, PayerChange
  <1>5. \A s \in Requests : req[s].inputs \subseteq Ys
    BY <1>1 DEF TypeOK, ReqRecords
  <1>6. ASSUME NEW q \in Quotes, payer'[q] # NoReq
        PROVE  /\ req'[payer'[q]].pc # "Idle"
               /\ \A y \in req'[payer'[q]].inputs : proofState'[y] \in HeldRows
    <2>1. CASE payer'[q] = payer[q]
      BY <2>1, <1>6, <1>1, <1>2, <1>3, <1>5 DEF PayerHeld, HeldRows, TypeOK
    <2>2. CASE payer'[q] # payer[q]
      BY <2>2, <1>4, <1>1, <1>2, <1>3, <1>5 DEF HeldInputs, HeldRows
    <2>3. QED
      BY <2>1, <2>2
  <1>7. QED
    BY <1>6 DEF PayerHeld, HeldRows

(* The awaits of a call between add_proofs and make_payment.              *)
HoldPcs == {"Spendable", "Sig", "Pay"}

(* Call s enters those awaits in this step.                                *)
NewHolder(s) == req'[s].pc \in HoldPcs /\ req[s].pc \notin HoldPcs

(* A Goto that enters a holding await only from one keeps the set of       *)
(* holders by await.                                                       *)
LEMMA GotoNoNewHolder ==
  ASSUME NEW r \in Requests, NEW p, NEW e, req \in [Requests -> ReqRecords],
         Goto(r, p, e), p \in HoldPcs => req[r].pc \in HoldPcs
  PROVE  \A s \in Requests : ~NewHolder(s)
  BY GotoFrame DEF NewHolder

(* Only add_proofs makes a new holder, one call at a time, and only of     *)
(* proofs that had no row: it stores them Unspent.                         *)
LEMMA EnterHolding ==
  ASSUME TypeOK, [Next]_vars
  PROVE  /\ \A s1, s2 \in Requests : NewHolder(s1) /\ NewHolder(s2) => s1 = s2
         /\ \A s \in Requests : NewHolder(s) =>
                /\ req[s].pc = "Verify"
                /\ \A y \in req[s].inputs : proofState[y] = "Absent" /\ proofState'[y] = "Unspent"
  <1>1. req \in [Requests -> ReqRecords]
    BY DEF TypeOK
  <1>2. ASSUME \A s \in Requests : ~NewHolder(s)
        PROVE  /\ \A s1, s2 \in Requests : NewHolder(s1) /\ NewHolder(s2) => s1 = s2
               /\ \A s \in Requests : NewHolder(s) =>
                      /\ req[s].pc = "Verify"
                      /\ \A y \in req[s].inputs : proofState[y] = "Absent" /\ proofState'[y] = "Unspent"
    BY <1>2
  <1>3. ASSUME NEW r \in Requests, VerifyMeltInputs(r)
        PROVE  /\ \A s1, s2 \in Requests : NewHolder(s1) /\ NewHolder(s2) => s1 = s2
               /\ \A s \in Requests : NewHolder(s) =>
                      /\ req[s].pc = "Verify"
                      /\ \A y \in req[s].inputs : proofState[y] = "Absent" /\ proofState'[y] = "Unspent"
    <2>1. PICK p \in {"RbRemove", "Spendable"}, e \in Errors : Goto(r, p, e)
      BY <1>3 DEF VerifyMeltInputs, Errors
    <2>2. \A s \in Requests \ {r} : ~NewHolder(s)
      BY <2>1, <1>1, GotoFrame DEF NewHolder
    <2>3. ASSUME NewHolder(r)
          PROVE  /\ req[r].pc = "Verify"
                 /\ \A y \in req[r].inputs : proofState[y] = "Absent" /\ proofState'[y] = "Unspent"
      <3>1. req'[r].pc = "Spendable"
        BY <2>3, <2>1, <1>1, GotoFrame DEF NewHolder, HoldPcs
      <3>2. /\ StoredProofs(req[r].inputs) = {}
            /\ proofState' = [y \in Ys |-> IF y \in req[r].inputs THEN "Unspent"
                                                                ELSE proofState[y]]
        BY <1>3, <3>1, <1>1, GotoFrame DEF VerifyMeltInputs
      <3>3. req[r].inputs \subseteq Ys
        BY <1>1 DEF ReqRecords
      <3>4. QED
        BY <3>2, <3>3, <1>3 DEF StoredProofs, VerifyMeltInputs
    <2>4. QED
      BY <2>2, <2>3
  <1>4. ASSUME NEW r \in Requests,
               \/ CheckYsSpendable(r) \/ VerifySigFlag(r) \/ UpdateLookupId(r)
               \/ ProcessMeltSpend(r) \/ ProcessMeltPaid(r)
        PROVE  \A s \in Requests : ~NewHolder(s)
    <2>1. PICK p, e : /\ Goto(r, p, e)
                      /\ p \in HoldPcs => req[r].pc \in HoldPcs
      BY <1>4 DEF CheckYsSpendable, VerifySigFlag, UpdateLookupId, ProcessMeltSpend,
                  ProcessMeltPaid, HoldPcs
    <2>2. QED
      BY <2>1, <1>1, GotoNoNewHolder
  <1>5. ASSUME NEW r \in Requests, MakePayment(r)
        PROVE  \A s \in Requests : ~NewHolder(s)
    <2>1. PICK p, e : Goto(r, p, e)
      BY <1>5 DEF MakePayment
    <2>2. req[r].pc \in HoldPcs
      BY <1>5 DEF MakePayment, HoldPcs
    <2>3. QED
      BY <2>1, <2>2, <1>1, GotoNoNewHolder
  <1>6. ASSUME NEW r \in Requests, VerifyMeltQuoteState(r)
        PROVE  \A s \in Requests : ~NewHolder(s)
    BY <1>6, <1>1 DEF VerifyMeltQuoteState, NewHolder, HoldPcs
  <1>7. ASSUME NEW r \in Requests, CheckPaymentState(r)
        PROVE  \A s \in Requests : ~NewHolder(s)
    <2>1. req[r].pc \in {"Check"} /\ req[r].pc \notin HoldPcs
      BY <1>7 DEF CheckPaymentState, HoldPcs
    <2>2. CheckPaymentResponses(lnState[req[r].quote]) \subseteq Responses
      BY <1>1, CheckResponsesType DEF TypeOK, ReqRecords
    <2>3. PICK resp \in Responses :
             req' = [req EXCEPT ![r].pc = AfterCheckPayment(resp),
                                ![r].err = CheckPaymentError(resp),
                                ![r].checked = resp]
      BY <1>7, <2>2 DEF CheckPaymentState
    <2>4. AfterCheckPayment(resp) \in {"Done", "RbRemove"}
      BY AfterCheckType
    <2>5. QED
      BY <2>3, <2>4, <1>1 DEF NewHolder, HoldPcs, ReqRecords
  <1>8. ASSUME NEW r \in Requests, ProcessUnpaidRemove(r) \/ ProcessUnpaidQuote(r)
        PROVE  \A s \in Requests : ~NewHolder(s)
    BY <1>8, <1>1 DEF ProcessUnpaidRemove, ProcessUnpaidQuote, NewHolder, HoldPcs, ReqRecords
  <1>9. CASE Crash
    <2>1. \A s \in Requests : ~NewHolder(s)
      BY <1>9, <1>1 DEF Crash, NewHolder, HoldPcs, ReqRecords
    <2>2. QED
      BY <2>1, <1>2
  <1>10. CASE \/ \E q \in Quotes : PaymentSettles(q) \/ CheckPendingMeltQuote(q)
              \/ Reboot \/ BootAbort \/ Serve \/ UNCHANGED vars
    <2>1. \A s \in Requests : ~NewHolder(s)
      BY <1>10 DEF PaymentSettles, CheckPendingMeltQuote, Reboot, BootAbort, Serve, vars, NewHolder
    <2>2. QED
      BY <2>1, <1>2
  <1>11. QED
    BY <1>2, <1>3, <1>4, <1>5, <1>6, <1>7, <1>8, <1>9, <1>10 DEF Next, MeltStep

(* Every step keeps the holders' inputs stored and pairwise disjoint.     *)
LEMMA NextHoldersDisjoint ==
  ASSUME RemoveChecksQuote, LedgerInv, [Next]_vars
  PROVE  HoldersDisjoint'
  <1>1. TypeOK /\ PayerHeld /\ HoldersDisjoint
    BY DEF LedgerInv, FinalizeInv
  <1>2. \A y \in Ys : proofState[y] # "Absent" => proofState'[y] # "Absent"
    BY RowsStayStored
  <1>3. \A s \in Requests : req[s].pc # "Idle" =>
            req'[s].pc # "Idle" /\ req'[s].inputs = req[s].inputs /\ req'[s].quote = req[s].quote
    BY <1>1, CallsKeepInputs
  <1>4. \A q \in Quotes : payer'[q] # payer[q] =>
            /\ payer'[q] \in Requests
            /\ req[payer'[q]].pc = "Pay" /\ req[payer'[q]].quote = q
    BY <1>1, PayerChange
  <1>5. /\ \A s1, s2 \in Requests : NewHolder(s1) /\ NewHolder(s2) => s1 = s2
        /\ \A s \in Requests : NewHolder(s) =>
              /\ req[s].pc = "Verify"
              /\ \A y \in req[s].inputs : proofState[y] = "Absent" /\ proofState'[y] = "Unspent"
    BY <1>1, EnterHolding
  <1>6. /\ Holders \subseteq Requests
        /\ \A s \in Holders : req[s].pc # "Idle"
        /\ \A s \in Holders : \A y \in req[s].inputs : proofState[y] # "Absent"
        /\ \A s1, s2 \in Holders : s1 # s2 => req[s1].inputs \cap req[s2].inputs = {}
    BY <1>1 DEF PayerHeld, Holders, HoldersDisjoint, TypeOK
  <1>7. ASSUME NEW s \in Holders' PROVE s \in Holders \/ (s \in Requests /\ NewHolder(s))
    <2>1. CASE s \in Requests /\ req'[s].pc \in HoldPcs
      BY <2>1 DEF Holders, NewHolder, HoldPcs
    <2>2. CASE \E q \in Quotes : payer'[q] # NoReq /\ s = payer'[q]
      <3>1. PICK q \in Quotes : payer'[q] # NoReq /\ s = payer'[q]
        BY <2>2
      <3>2. CASE payer'[q] = payer[q]
        BY <3>1, <3>2 DEF Holders
      <3>3. CASE payer'[q] # payer[q]
        BY <3>1, <3>3, <1>4 DEF Holders
      <3>4. QED
        BY <3>2, <3>3
    <2>3. QED
      BY <1>7, <2>1, <2>2 DEF Holders, HoldPcs
  <1>8. \A s \in Holders' :
           /\ req'[s].inputs = req[s].inputs
           /\ \A y \in req'[s].inputs : proofState'[y] # "Absent"
    <2>1. SUFFICES ASSUME NEW s \in Holders'
                   PROVE  /\ req'[s].inputs = req[s].inputs
                          /\ \A y \in req'[s].inputs : proofState'[y] # "Absent"
      OBVIOUS
    <2>2. CASE s \in Holders
      <3>1. req'[s].inputs = req[s].inputs
        BY <2>2, <1>3, <1>6
      <3>2. QED
        BY <2>2, <3>1, <1>2, <1>6, <1>1 DEF TypeOK, ReqRecords
    <2>3. CASE s \in Requests /\ NewHolder(s)
      <3>1. req[s].pc = "Verify"
        BY <2>3, <1>5
      <3>2. req'[s].inputs = req[s].inputs
        BY <2>3, <3>1, <1>3
      <3>3. QED
        BY <2>3, <3>2, <1>5
    <2>4. QED
      BY <2>2, <2>3, <1>7
  <1>9. \A q \in Quotes : payer'[q] # NoReq => req'[payer'[q]].quote = q
    <2>1. SUFFICES ASSUME NEW q \in Quotes, payer'[q] # NoReq
                   PROVE  req'[payer'[q]].quote = q
      OBVIOUS
    <2>2. CASE payer'[q] = payer[q]
      BY <2>1, <2>2, <1>1, <1>3 DEF PayerHeld, HoldersDisjoint, TypeOK
    <2>3. CASE payer'[q] # payer[q]
      BY <2>1, <2>3, <1>3, <1>4
    <2>4. QED
      BY <2>2, <2>3
  <1>10. ASSUME NEW s1 \in Holders', NEW s2 \in Holders', s1 # s2
         PROVE  req'[s1].inputs \cap req'[s2].inputs = {}
    <2>1. CASE s1 \in Holders /\ s2 \in Holders
      BY <1>10, <2>1, <1>6, <1>8
    <2>2. CASE s1 \in Requests /\ NewHolder(s1) /\ s2 \in Holders
      BY <1>10, <2>2, <1>5, <1>6, <1>8
    <2>3. CASE s2 \in Requests /\ NewHolder(s2) /\ s1 \in Holders
      BY <1>10, <2>3, <1>5, <1>6, <1>8
    <2>4. CASE s1 \in Requests /\ NewHolder(s1) /\ s2 \in Requests /\ NewHolder(s2)
      BY <1>10, <2>4, <1>5
    <2>5. QED
      BY <1>7, <2>1, <2>2, <2>3, <2>4
  <1>11. QED
    BY <1>8, <1>9, <1>10 DEF HoldersDisjoint

(* Every step keeps the invariant behind the refinement.                   *)
LEMMA NextLedgerInv ==
  ASSUME RemoveChecksQuote, LedgerInv, [Next]_vars
  PROVE  LedgerInv'
  BY NextFinalizeInv, NextHeldInputs, NextPayerHeld, NextHoldersDisjoint DEF LedgerInv

(* With the quote-checking store, a melt call holds its inputs Pending     *)
(* from check_ys_spendable until process_melt_request spends them, whatever *)
(* other calls' rollbacks, crashes and the boot reconciliation do.         *)
THEOREM LedgerInvariant ==
  ASSUME RemoveChecksQuote
  PROVE  Spec => []LedgerInv
  BY InitLedgerInv, NextLedgerInv, PTL DEF Spec

(* The melt code implements the ledger: with the quote-checking store,     *)
(* every behaviour of melt_bolt11 calls, crashes and boots is a behaviour  *)
(* of MeltLedger, so proofs are burnt only from held inputs behind a       *)
(* delivered payment and never come back.                                  *)
THEOREM LedgerRefines ==
  ASSUME RemoveChecksQuote
  PROVE  Spec => LedgerRefinement
  <1>1. Init => Ledger!Init
    BY DEF Init, Ledger!Init, CoinOf
  <1>2. LedgerInv /\ [Next]_vars => [Ledger!Next]_(Ledger!vars)
    BY NextRefines
  <1>3. QED
    BY <1>1, <1>2, LedgerInvariant, PTL DEF Spec, LedgerRefinement, Ledger!Spec

(* With the quote-checking store, the mint never gives back the inputs of  *)
(* a payment it made: once a melt's payment is delivered its inputs stay   *)
(* Pending or Spent, whatever rollback, crash or reconciliation follows.   *)
THEOREM DeliveredInputsSafe ==
  ASSUME RemoveChecksQuote
  PROVE  Spec => []DeliveredInputsHeld
  <1>1. LedgerInv => DeliveredInputsHeld
    BY DEF LedgerInv, PayerHeld, DeliveredInputsHeld
  <1>2. QED
    BY <1>1, LedgerInvariant, PTL

(* With the quote-checking store, no input is spent twice: the inputs of   *)
(* the delivered payments of two different quotes are disjoint, because    *)
(* add_proofs stores only fresh rows and no row is deleted again.          *)
THEOREM NoDoubleSpendSafe ==
  ASSUME RemoveChecksQuote
  PROVE  Spec => []NoDoubleSpend
  <1>1. LedgerInv => NoDoubleSpend
    <2>1. SUFFICES ASSUME LedgerInv, NEW q1 \in Quotes, NEW q2 \in Quotes, q1 # q2,
                          payer[q1] # NoReq, payer[q2] # NoReq
                   PROVE  req[payer[q1]].inputs \cap req[payer[q2]].inputs = {}
      BY DEF NoDoubleSpend
    <2>2. payer[q1] \in Holders /\ payer[q2] \in Holders
      BY <2>1 DEF Holders
    <2>3. payer[q1] # payer[q2]
      BY <2>1 DEF LedgerInv, HoldersDisjoint
    <2>4. QED
      BY <2>1, <2>2, <2>3 DEF LedgerInv, HoldersDisjoint
  <1>2. QED
    BY <1>1, LedgerInvariant, PTL

=============================================================================
