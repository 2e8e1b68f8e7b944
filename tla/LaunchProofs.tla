---------------------------- MODULE LaunchProofs ----------------------------
(* Proof that only the call that launched a quote's payment finalises it, *)
(* and that make_payment is launched only with inputs held Pending, for   *)
(* every value of the constants, with the quote-checking store.           *)
EXTENDS LedgerProofs

(* What a call that moves to another await in a step must have behind it: *)
(* check_ys_spendable marks its inputs Pending, make_payment follows      *)
(* enforce_sig_flag, a Paid answer comes only to the launching call, and  *)
(* update_proofs_states follows the lookup-id update.                     *)
EntryOK(s) ==
    req'[s].pc # req[s].pc =>
        /\ req'[s].pc = "Sig" => /\ req'[s].inputs = req[s].inputs
                                 /\ \A y \in req[s].inputs : proofState'[y] = "Pending"
        /\ req'[s].pc = "Pay" => req[s].pc = "Sig"
        /\ req'[s].pc = "Lookup" => /\ req'[s].quote = req[s].quote
                                    /\ payer'[req[s].quote] = s
        /\ req'[s].pc = "Spend" => req[s].pc = "Lookup"

(* A Goto to any other await needs nothing behind it.                     *)
LEMMA GotoEntry ==
  ASSUME NEW r \in Requests, NEW p, NEW e, req \in [Requests -> ReqRecords],
         Goto(r, p, e), p \notin {"Sig", "Pay", "Lookup", "Spend"}
  PROVE  \A s \in Requests : EntryOK(s)
  BY GotoFrame DEF EntryOK

(* Every step moves calls only along the edges EntryOK allows.             *)
LEMMA PcEntries ==
  ASSUME TypeOK, [Next]_vars
  PROVE  \A s \in Requests : EntryOK(s)
  <1>1. req \in [Requests -> ReqRecords]
    BY DEF TypeOK
  <1>2. CASE UNCHANGED req
    BY <1>2 DEF EntryOK
  <1>3. ASSUME NEW r \in Requests, VerifyMeltQuoteState(r)
        PROVE  \A s \in Requests : EntryOK(s)
    BY <1>3, <1>1 DEF VerifyMeltQuoteState, EntryOK
  <1>4. ASSUME NEW r \in Requests,
               \/ VerifyMeltInputs(r) \/ ProcessMeltSpend(r) \/ ProcessMeltPaid(r)
        PROVE  \A s \in Requests : EntryOK(s)
    <2>1. PICK p \in {"RbRemove", "Spendable", "MarkPaid", "Done"} : \E e : Goto(r, p, e)
      BY <1>4 DEF VerifyMeltInputs, ProcessMeltSpend, ProcessMeltPaid
    <2>2. PICK e : Goto(r, p, e)
      BY <2>1
    <2>3. QED
      BY <2>2, <1>1, GotoEntry
  <1>5. ASSUME NEW r \in Requests, CheckYsSpendable(r)
        PROVE  \A s \in Requests : EntryOK(s)
    <2>0. CASE \A y \in req[r].inputs : proofState[y] = "Unspent"
      <3>1. /\ Goto(r, "Sig", "None")
            /\ proofState' = [y \in Ys |-> IF y \in req[r].inputs THEN "Pending"
                                                                 ELSE proofState[y]]
        BY <2>0, <1>5 DEF CheckYsSpendable
      <3>2. req[r].inputs \subseteq Ys
        BY <1>1 DEF ReqRecords
      <3>3. QED
        BY <3>1, <3>2, <1>1, GotoFrame DEF EntryOK
    <2>1. CASE ~\A y \in req[r].inputs : proofState[y] = "Unspent"
      <3>1. PICK e : Goto(r, "RbRemove", e)
        BY <2>1, <1>5 DEF CheckYsSpendable
      <3>2. QED
        BY <3>1, <1>1, GotoEntry
    <2>2. QED
      BY <2>0, <2>1
  <1>6. ASSUME NEW r \in Requests, VerifySigFlag(r)
        PROVE  \A s \in Requests : EntryOK(s)
    <2>1. /\ req[r].pc = "Sig"
          /\ \E p \in {"RbRemove", "Pay"}, e \in Errors : Goto(r, p, e)
      BY <1>6 DEF VerifySigFlag, Errors
    <2>2. QED
      BY <2>1, <1>1, GotoFrame DEF EntryOK
  <1>7. ASSUME NEW r \in Requests, UpdateLookupId(r)
        PROVE  \A s \in Requests : EntryOK(s)
    <2>1. req[r].pc = "Lookup" /\ Goto(r, "Spend", "None")
      BY <1>7 DEF UpdateLookupId
    <2>2. QED
      BY <2>1, <1>1, GotoFrame DEF EntryOK
  <1>8. ASSUME NEW r \in Requests, MakePayment(r)
        PROVE  \A s \in Requests : EntryOK(s)
    <2>1. CASE lnState[req[r].quote] = "Succeeded"
      <3>1. Goto(r, "RbRemove", "RequestAlreadyPaid")
        BY <1>8, <2>1 DEF MakePayment
      <3>2. QED
        BY <3>1, <1>1, GotoEntry
    <2>2. CASE lnState[req[r].quote] = "InFlight"
      <3>1. PICK resp \in {"Pending", "Unknown", "Err"} :
                 Goto(r, AfterMakePayment(resp),
                      IF resp = "Pending" THEN "PendingQuote" ELSE "None")
        BY <1>8, <2>2 DEF MakePayment
      <3>2. AfterMakePayment(resp) \in {"Done", "Check"}
        BY AfterMakeType
      <3>3. QED
        BY <3>1, <3>2, <1>1, GotoEntry
    <2>3. CASE lnState[req[r].quote] \in {"Idle", "Failed"}
      <3>1. /\ payer' = [payer EXCEPT ![req[r].quote] = r]
            /\ \E resp, e : Goto(r, AfterMakePayment(resp), e)
        BY <1>8, <2>3 DEF MakePayment
      <3>2. PICK resp, e : Goto(r, AfterMakePayment(resp), e)
        BY <3>1
      <3>3. /\ req[r].quote \in Quotes
            /\ payer \in [Quotes -> Requests \cup {NoReq}]
        BY <1>1 DEF TypeOK, ReqRecords
      <3>4. AfterMakePayment(resp) \in {"Lookup", "Done", "Check"}
        BY AfterMakeType
      <3>5. payer'[req[r].quote] = r
        BY <3>1, <3>3
      <3>6. QED
        BY <3>2, <3>4, <3>5, <1>1, GotoFrame DEF EntryOK
    <2>4. QED
      BY <1>8, <2>1, <2>2, <2>3 DEF MakePayment
  <1>9. ASSUME NEW r \in Requests, CheckPaymentState(r)
        PROVE  \A s \in Requests : EntryOK(s)
    <2>1. CheckPaymentResponses(lnState[req[r].quote]) \subseteq Responses
      BY <1>1, CheckResponsesType DEF TypeOK, ReqRecords
    <2>2. PICK resp \in Responses :
             req' = [req EXCEPT ![r].pc = AfterCheckPayment(resp),
                                ![r].err = CheckPaymentError(resp),
                                ![r].checked = resp]
      BY <1>9, <2>1 DEF CheckPaymentState
    <2>3. AfterCheckPayment(resp) \in {"Done", "RbRemove"}
      BY AfterCheckType
    <2>4. /\ req'[r].pc \in {"Done", "RbRemove"}
          /\ \A s \in Requests \ {r} : req'[s] = req[s]
      BY <2>2, <2>3, <1>1
    <2>5. QED
      BY <2>4 DEF EntryOK
  <1>10. ASSUME NEW r \in Requests, ProcessUnpaidRemove(r) \/ ProcessUnpaidQuote(r)
         PROVE  \A s \in Requests : EntryOK(s)
    <2>1. \E p \in {"Done", "RbUnpaid"} : req' = [req EXCEPT ![r].pc = p]
      BY <1>10 DEF ProcessUnpaidRemove, ProcessUnpaidQuote
    <2>2. PICK p \in {"Done", "RbUnpaid"} : req' = [req EXCEPT ![r].pc = p]
      BY <2>1
    <2>3. /\ req'[r].pc \in {"Done", "RbUnpaid"}
          /\ \A s \in Requests \ {r} : req'[s] = req[s]
      BY <2>2, <1>1 DEF ReqRecords
    <2>4. QED
      BY <2>3 DEF EntryOK
  <1>11. CASE Crash
    <2>1. \A s \in Requests : req'[s].pc \in {req[s].pc, "Done"}
      BY <1>11, <1>1 DEF Crash, ReqRecords
    <2>2. QED
      BY <2>1 DEF EntryOK
  <1>12. CASE \/ \E q \in Quotes : PaymentSettles(q) \/ CheckPendingMeltQuote(q)
              \/ Reboot \/ BootAbort \/ Serve \/ UNCHANGED vars
    BY <1>12, <1>2 DEF PaymentSettles, CheckPendingMeltQuote, Reboot, BootAbort, Serve, vars
  <1>13. QED
    BY <1>3, <1>4, <1>5, <1>6, <1>7, <1>8, <1>9, <1>10, <1>11, <1>12 DEF Next, MeltStep

(* make_payment launches a payment, and names a new payer, only when the  *)
(* invoice's payment is not delivered or in flight.                       *)
LEMMA PayerLaunch ==
  ASSUME TypeOK, [Next]_vars
  PROVE  \A q \in Quotes : payer'[q] # payer[q] => lnState[q] \in {"Idle", "Failed"}
  <1>1. ASSUME NEW r \in Requests, MakePayment(r)
        PROVE  \A q \in Quotes : payer'[q] # payer[q] => lnState[q] \in {"Idle", "Failed"}
    BY <1>1 DEF MakePayment, TypeOK
  <1>2. QED
    BY <1>1 DEF Next, MeltStep, vars, VerifyMeltQuoteState, VerifyMeltInputs,
       CheckYsSpendable, VerifySigFlag, CheckPaymentState, UpdateLookupId,
       ProcessMeltSpend, ProcessMeltPaid, ProcessUnpaidRemove, ProcessUnpaidQuote,
       PaymentSettles, CheckPendingMeltQuote, Crash, Reboot, BootAbort, Serve

(* With the quote-checking store a Pending row leaves Pending only through *)
(* update_proofs_states(Spent) of a call at process_melt_request that     *)
(* spends it: rollbacks and the boot reconciliation remove no row.        *)
LEMMA PendingLeaves ==
  ASSUME RemoveChecksQuote, LedgerInv, [Next]_vars
  PROVE  \A y \in Ys : proofState[y] = "Pending" /\ proofState'[y] # "Pending" =>
             \E r \in Requests : req[r].pc = "Spend" /\ y \in req[r].inputs
  <1>1. TypeOK /\ NoQuoteBinding
    BY DEF LedgerInv, FinalizeInv
  <1>2. /\ \A s \in Requests : req[s].inputs \subseteq Ys /\ req[s].quote \in Quotes
        /\ proofState \in [Ys -> ProofStates]
    BY <1>1 DEF TypeOK, ReqRecords
  <1>3. CASE proofState' = proofState
    BY <1>3
  <1>4. ASSUME NEW r \in Requests, VerifyMeltInputs(r)
        PROVE  \A y \in Ys : proofState[y] = "Pending" => proofState'[y] = "Pending"
    BY <1>4, <1>2 DEF VerifyMeltInputs, StoredProofs
  <1>5. ASSUME NEW r \in Requests, CheckYsSpendable(r)
        PROVE  \A y \in Ys : proofState[y] = "Pending" => proofState'[y] = "Pending"
    BY <1>5, <1>2 DEF CheckYsSpendable
  <1>6. ASSUME NEW r \in Requests, ProcessMeltSpend(r)
        PROVE  \A y \in Ys : proofState[y] = "Pending" /\ proofState'[y] # "Pending" =>
                   \E s \in Requests : req[s].pc = "Spend" /\ y \in req[s].inputs
    BY <1>6, <1>2 DEF ProcessMeltSpend
  <1>7. ASSUME NEW r \in Requests, ProcessUnpaidRemove(r) PROVE proofState' = proofState
    <2>1. RemovedProofs(req[r].inputs, req[r].quote) = {}
      BY <1>1, <1>2, NothingRemoved
    <2>2. QED
      BY <1>7, <1>2, <2>1 DEF ProcessUnpaidRemove
  <1>8. ASSUME NEW q \in Quotes, CheckPendingMeltQuote(q) PROVE proofState' = proofState
    <2>1. {y \in Ys : proofQuote[y] = q /\ proofState[y] = "Pending"} = {}
      BY <1>1, ConstantsAssumption DEF NoQuoteBinding
    <2>2. [y \in Ys |-> IF y \in {} THEN "Spent" ELSE proofState[y]] = proofState
      BY <1>2
    <2>3. [y \in Ys |-> IF y \in {} THEN "Absent" ELSE proofState[y]] = proofState
      BY <1>2
    <2>4. QED
      BY <1>8, <2>1, <2>2, <2>3 DEF CheckPendingMeltQuote
  <1>9. ASSUME NEW r \in Requests,
               \/ VerifyMeltQuoteState(r) \/ VerifySigFlag(r) \/ MakePayment(r)
               \/ CheckPaymentState(r) \/ UpdateLookupId(r) \/ ProcessMeltPaid(r)
               \/ ProcessUnpaidQuote(r)
        PROVE  proofState' = proofState
    BY <1>9 DEF VerifyMeltQuoteState, VerifySigFlag, MakePayment, CheckPaymentState,
                UpdateLookupId, ProcessMeltPaid, ProcessUnpaidQuote
  <1>10. ASSUME \/ \E q \in Quotes : PaymentSettles(q)
                \/ Crash \/ Reboot \/ BootAbort \/ Serve \/ UNCHANGED vars
         PROVE  proofState' = proofState
    BY <1>10 DEF PaymentSettles, Crash, Reboot, BootAbort, Serve, vars
  <1>11. QED
    BY <1>3, <1>4, <1>5, <1>6, <1>7, <1>8, <1>9, <1>10 DEF Next, MeltStep

(* The strengthened invariant holds initially: no call has started.       *)
LEMMA InitLaunchInv == Init => LaunchInv
  BY InitLedgerInv DEF Init, LaunchInv, PaidCallIsPayer, ReservedBeforePay

(* Every step keeps a call past a Paid answer the payer of its quote: it   *)
(* keeps its quote, whose payment is delivered and so is never relaunched, *)
(* and a call enters the lookup-id update only from the launching          *)
(* make_payment.                                                          *)
LEMMA NextPaidCallIsPayer ==
  ASSUME FinalizeInv, PaidCallIsPayer, [Next]_vars
  PROVE  PaidCallIsPayer'
  <1>1. TypeOK /\ PaidCallIsPayer /\ PaidAnswerDelivered
    BY DEF FinalizeInv
  <1>2. \A s \in Requests : req[s].pc # "Idle" =>
            req'[s].pc # "Idle" /\ req'[s].inputs = req[s].inputs /\ req'[s].quote = req[s].quote
    BY <1>1, CallsKeepInputs
  <1>3. \A q \in Quotes : payer'[q] # payer[q] => lnState[q] \in {"Idle", "Failed"}
    BY <1>1, PayerLaunch
  <1>4. \A s \in Requests : EntryOK(s)
    BY <1>1, PcEntries
  <1>5. SUFFICES ASSUME NEW s \in Requests, req'[s].pc \in {"Lookup", "Spend"}
                 PROVE  payer'[req'[s].quote] = s
    BY DEF PaidCallIsPayer
  <1>6. CASE req[s].pc \in {"Lookup", "Spend"}
    <2>1. req[s].quote \in Quotes
      BY <1>1 DEF TypeOK, ReqRecords
    <2>2. /\ payer[req[s].quote] = s
          /\ lnState[req[s].quote] = "Succeeded"
          /\ req'[s].quote = req[s].quote
      BY <1>6, <1>1, <1>2 DEF PaidCallIsPayer, PaidAnswerDelivered
    <2>3. QED
      BY <2>1, <2>2, <1>3
  <1>7. CASE req[s].pc \notin {"Lookup", "Spend"}
    <2>1. req'[s].pc = "Lookup"
      BY <1>7, <1>5, <1>4 DEF EntryOK
    <2>2. QED
      BY <2>1, <1>7, <1>4 DEF EntryOK
  <1>8. QED
    BY <1>6, <1>7

(* Every step keeps the inputs of a call between check_ys_spendable and    *)
(* make_payment Pending: the only call that may spend a Pending row is at  *)
(* process_melt_request, hence the payer of its quote, and the holders'    *)
(* inputs are disjoint.                                                    *)
LEMMA NextReservedBeforePay ==
  ASSUME RemoveChecksQuote, LaunchInv, [Next]_vars
  PROVE  ReservedBeforePay'
  <1>1. /\ TypeOK /\ LedgerInv /\ HoldersDisjoint
        /\ PaidCallIsPayer /\ ReservedBeforePay
    BY DEF LaunchInv, LedgerInv, FinalizeInv
  <1>2. \A s \in Requests : req[s].pc # "Idle" =>
            req'[s].pc # "Idle" /\ req'[s].inputs = req[s].inputs /\ req'[s].quote = req[s].quote
    BY <1>1, CallsKeepInputs
  <1>3. \A s \in Requests : EntryOK(s)
    BY <1>1, PcEntries
  <1>4. \A y \in Ys : proofState[y] = "Pending" /\ proofState'[y] # "Pending" =>
            \E r \in Requests : req[r].pc = "Spend" /\ y \in req[r].inputs
    BY <1>1, PendingLeaves
  <1>5. SUFFICES ASSUME NEW s \in Requests, req'[s].pc \in {"Sig", "Pay"},
                        NEW y \in req'[s].inputs
                 PROVE  proofState'[y] = "Pending"
    BY DEF ReservedBeforePay
  <1>6. CASE req[s].pc \in {"Sig", "Pay"}
    <2>1. y \in req[s].inputs /\ y \in Ys
      BY <1>6, <1>5, <1>2, <1>1 DEF TypeOK, ReqRecords
    <2>2. proofState[y] = "Pending"
      BY <2>1, <1>6, <1>1 DEF ReservedBeforePay
    <2>3. SUFFICES ASSUME proofState'[y] # "Pending" PROVE FALSE
      OBVIOUS
    <2>4. PICK r \in Requests : req[r].pc = "Spend" /\ y \in req[r].inputs
      BY <2>1, <2>2, <2>3, <1>4
    <2>5. /\ req[r].quote \in Quotes
          /\ payer[req[r].quote] = r
          /\ r # NoReq
      BY <2>4, <1>1, ConstantsAssumption DEF TypeOK, ReqRecords, PaidCallIsPayer
    <2>6. r \in Holders /\ s \in Holders
      BY <2>5, <1>6 DEF Holders
    <2>7. r # s
      BY <2>4, <1>6
    <2>8. QED
      BY <2>1, <2>4, <2>6, <2>7, <1>1 DEF HoldersDisjoint
  <1>7. CASE req[s].pc \notin {"Sig", "Pay"}
    <2>1. req'[s].pc = "Sig"
      BY <1>7, <1>5, <1>3 DEF EntryOK
    <2>2. QED
      BY <2>1, <1>7, <1>5, <1>3 DEF EntryOK
  <1>8. QED
    BY <1>6, <1>7

(* Every step keeps the strengthened invariant.                           *)
LEMMA NextLaunchInv ==
  ASSUME RemoveChecksQuote, LaunchInv, [Next]_vars
  PROVE  LaunchInv'
  BY NextLedgerInv, NextPaidCallIsPayer, NextReservedBeforePay DEF LaunchInv, LedgerInv

(* With the quote-checking store, only the call that launched a quote's    *)
(* payment gets past make_payment with a Paid answer (melt_bolt11 then     *)
(* update_melt_quote and process_melt_request), and a call between         *)
(* check_ys_spendable and make_payment keeps all its inputs Pending.       *)
THEOREM LaunchInvariant ==
  ASSUME RemoveChecksQuote
  PROVE  Spec => []LaunchInv
  BY InitLaunchInv, NextLaunchInv, PTL DEF Spec

(* With the quote-checking store, make_payment launches a quote's payment  *)
(* only for a call whose inputs are all Pending at that moment.            *)
THEOREM PayWithHeldInputsSafe ==
  ASSUME RemoveChecksQuote
  PROVE  Spec => PayWithHeldInputs
  <1>1. ASSUME LaunchInv, [Next]_vars
        PROVE  \A q \in Quotes : payer'[q] # payer[q] =>
                   \A y \in req[payer'[q]].inputs : proofState[y] = "Pending"
    <2>1. TypeOK /\ ReservedBeforePay
      BY <1>1 DEF LaunchInv, LedgerInv, FinalizeInv
    <2>2. \A q \in Quotes : payer'[q] # payer[q] =>
              payer'[q] \in Requests /\ req[payer'[q]].pc = "Pay"
      BY <1>1, <2>1, PayerChange
    <2>3. QED
      BY <2>1, <2>2 DEF ReservedBeforePay
  <1>2. QED
    BY <1>1, LaunchInvariant, PTL DEF Spec, PayWithHeldInputs


-----------------------------------------------------------------------------
(* Who burns proofs, for either reading of remove_proofs.                  *)

(* The strengthened invariant holds initially: no call has started.       *)
LEMMA InitPaidInv == Init => PaidInv
  BY InitFinalizeInv DEF Init, PaidInv, PaidCallIsPayer

(* Every step keeps it, whatever remove_proofs deletes.                    *)
LEMMA NextPaidInv == PaidInv /\ [Next]_vars => PaidInv'
  BY NextFinalizeInv, NextPaidCallIsPayer DEF PaidInv

(* A row becomes Spent only through update_proofs_states(Spent) of a call  *)
(* at process_melt_request that presented it: the rollback only deletes    *)
(* rows, and the boot reconciliation finds no proof bound to a quote.      *)
LEMMA SpentOnlyBySpend ==
  ASSUME FinalizeInv, [Next]_vars
  PROVE  \A y \in Ys : proofState[y] # "Spent" /\ proofState'[y] = "Spent" =>
             \E r \in Requests : req[r].pc = "Spend" /\ y \in req[r].inputs
  <1>1. TypeOK /\ NoQuoteBinding
    BY DEF FinalizeInv
  <1>2. /\ \A s \in Requests : req[s].inputs \subseteq Ys /\ req[s].quote \in Quotes
        /\ proofState \in [Ys -> ProofStates]
    BY <1>1 DEF TypeOK, ReqRecords
  <1>3. CASE proofState' = proofState
    BY <1>3
  <1>4. ASSUME NEW r \in Requests,
               \/ VerifyMeltInputs(r) \/ CheckYsSpendable(r) \/ ProcessUnpaidRemove(r)
        PROVE  \A y \in Ys : proofState'[y] = "Spent" => proofState[y] = "Spent"
    BY <1>4, <1>2 DEF VerifyMeltInputs, CheckYsSpendable, ProcessUnpaidRemove
  <1>5. ASSUME NEW r \in Requests, ProcessMeltSpend(r)
        PROVE  \A y \in Ys : proofState[y] # "Spent" /\ proofState'[y] = "Spent" =>
                   \E s \in Requests : req[s].pc = "Spend" /\ y \in req[s].inputs
    BY <1>5, <1>2 DEF ProcessMeltSpend
  <1>6. ASSUME NEW q \in Quotes, CheckPendingMeltQuote(q) PROVE proofState' = proofState
    <2>1. {y \in Ys : proofQuote[y] = q /\ proofState[y] = "Pending"} = {}
      BY <1>1, ConstantsAssumption DEF NoQuoteBinding
    <2>2. [y \in Ys |-> IF y \in {} THEN "Spent" ELSE proofState[y]] = proofState
      BY <1>2
    <2>3. [y \in Ys |-> IF y \in {} THEN "Absent" ELSE proofState[y]] = proofState
      BY <1>2
    <2>4. QED
      BY <1>6, <2>1, <2>2, <2>3 DEF CheckPendingMeltQuote
  <1>7. ASSUME NEW r \in Requests,
               \/ VerifyMeltQuoteState(r) \/ VerifySigFlag(r) \/ MakePayment(r)
               \/ CheckPaymentState(r) \/ UpdateLookupId(r) \/ ProcessMeltPaid(r)
               \/ ProcessUnpaidQuote(r)
        PROVE  proofState' = proofState
    BY <1>7 DEF VerifyMeltQuoteState, VerifySigFlag, MakePayment, CheckPaymentState,
                UpdateLookupId, ProcessMeltPaid, ProcessUnpaidQuote
  <1>8. ASSUME \/ \E q \in Quotes : PaymentSettles(q)
               \/ Crash \/ Reboot \/ BootAbort \/ Serve \/ UNCHANGED vars
        PROVE  proofState' = proofState
    BY <1>8 DEF PaymentSettles, Crash, Reboot, BootAbort, Serve, vars
  <1>9. QED
    BY <1>3, <1>4, <1>5, <1>6, <1>7, <1>8 DEF Next, MeltStep

(* For either reading of remove_proofs, only a call that got Paid from the *)
(* make_payment it launched gets past it, and every such call has a        *)
(* delivered payment behind it.                                            *)
THEOREM PaidInvariant == Spec => []PaidInv
  BY InitPaidInv, NextPaidInv, PTL DEF Spec

(* For either reading of remove_proofs, update_proofs_states(Spent) burns  *)
(* a proof only for the call that launched a quote's payment and only once *)
(* that payment is delivered: a call that learns of another call's         *)
(* payment, and the boot reconciliation, never burn.                       *)
THEOREM BurnOnlyByPayerSafe == Spec => BurnOnlyByPayer
  <1>1. ASSUME PaidInv, [Next]_vars
        PROVE  \A y \in Ys : proofState[y] # "Spent" /\ proofState'[y] = "Spent" =>
                   \E q \in Quotes : /\ payer[q] # NoReq
                                     /\ y \in req[payer[q]].inputs
                                     /\ lnState[q] = "Succeeded"
    <2>1. SUFFICES ASSUME NEW y \in Ys, proofState[y] # "Spent", proofState'[y] = "Spent"
                   PROVE  \E q \in Quotes : /\ payer[q] # NoReq
                                            /\ y \in req[payer[q]].inputs
                                            /\ lnState[q] = "Succeeded"
      OBVIOUS
    <2>2. FinalizeInv /\ TypeOK /\ PaidCallIsPayer /\ PaidAnswerDelivered
      BY <1>1 DEF PaidInv, FinalizeInv
    <2>3. PICK r \in Requests : req[r].pc = "Spend" /\ y \in req[r].inputs
      BY <1>1, <2>1, <2>2, SpentOnlyBySpend
    <2>4. /\ req[r].quote \in Quotes
          /\ payer[req[r].quote] = r
          /\ lnState[req[r].quote] = "Succeeded"
      BY <2>2, <2>3 DEF TypeOK, ReqRecords, PaidCallIsPayer, PaidAnswerDelivered
    <2>5. r # NoReq
      BY ConstantsAssumption
    <2>6. QED
      BY <2>3, <2>4, <2>5
  <1>2. QED
    BY <1>1, PaidInvariant, PTL DEF Spec, BurnOnlyByPayer

====
