----------------------------- MODULE MeltProofs -----------------------------
(* Proofs about the melt model, for every value of its constants.          *)
EXTENDS Melt, TLAPS

(* The initial state of the mint (empty proof table, all quotes Unpaid,    *)
(* no payment tried, no call running) is well typed.                       *)
LEMMA InitTypeOK == Init => TypeOK
  BY ConstantsAssumption DEF Init, TypeOK, ReqRecords, Pcs, Flaws, Errors,
                            Responses, ProofStates, QuoteStates, LnStates

(* Goto moves a call to a known await with a known error.                 *)
LEMMA GotoType ==
  ASSUME NEW r \in Requests, NEW p \in Pcs, NEW e \in Errors,
         req \in [Requests -> ReqRecords], Goto(r, p, e)
  PROVE  req' \in [Requests -> ReqRecords]
  BY DEF Goto, ReqRecords

(* Moving a request to another await keeps the request records typed.     *)
LEMMA PcType ==
  ASSUME NEW r \in Requests, NEW p \in Pcs,
         req \in [Requests -> ReqRecords]
  PROVE  [req EXCEPT ![r].pc = p] \in [Requests -> ReqRecords]
  BY DEF ReqRecords

(* Every answer of check_outgoing_payment leads to a known await and a    *)
(* known error.                                                            *)
LEMMA AfterCheckType ==
  ASSUME NEW resp \in Responses
  PROVE  /\ AfterCheckPayment(resp) \in {"Done", "RbRemove"}
         /\ AfterCheckPayment(resp) \in Pcs
         /\ CheckPaymentError(resp) \in Errors
  <1>1. CASE resp \in {"Err", "Paid", "Pending"}
    BY <1>1 DEF AfterCheckPayment, CheckPaymentError, Pcs, Errors
  <1>2. CASE resp \in {"Unpaid", "Unknown", "Failed"}
    BY <1>2 DEF AfterCheckPayment, CheckPaymentError, Pcs, Errors
  <1>3. QED
    BY <1>1, <1>2 DEF Responses

(* check_outgoing_payment only gives answers the code knows.              *)
LEMMA CheckResponsesType ==
  ASSUME NEW st \in LnStates
  PROVE  CheckPaymentResponses(st) \subseteq Responses
  BY DEF CheckPaymentResponses, Responses, LnStates

(* After make_payment a call goes on to finalise only on a Paid answer.   *)
LEMMA AfterMakeType ==
  ASSUME NEW resp
  PROVE  /\ AfterMakePayment(resp) \in {"Lookup", "Done", "Check"}
         /\ AfterMakePayment(resp) = "Lookup" => resp = "Paid"
  BY DEF AfterMakePayment

(* Goto changes only the await and the error of one call.                  *)
LEMMA GotoFrame ==
  ASSUME NEW r \in Requests, NEW p, NEW e,
         req \in [Requests -> ReqRecords], Goto(r, p, e)
  PROVE  /\ \A s \in Requests : /\ req'[s].inputs = req[s].inputs
                                /\ req'[s].quote = req[s].quote
         /\ \A s \in Requests \ {r} : req'[s] = req[s]
         /\ req'[r].pc = p
  BY DEF Goto, ReqRecords

(* A call that records an answer of the backend stays well typed.         *)
LEMMA CheckedRecordType ==
  ASSUME NEW x \in ReqRecords, NEW p \in Pcs, NEW e \in Errors,
         NEW c \in Responses
  PROVE  [x EXCEPT !.pc = p, !.err = e, !.checked = c] \in ReqRecords
  BY DEF ReqRecords

(* A call killed by a crash ends with a well-typed record.                 *)
LEMMA CrashedRecordType ==
  ASSUME NEW x \in ReqRecords
  PROVE  [x EXCEPT !.pc = "Done", !.err = "Crashed"] \in ReqRecords
  BY DEF ReqRecords, Pcs, Errors

(* Every step of a melt call, of the backend, of a crash or of the boot    *)
(* reconciliation keeps the state well typed.                              *)
LEMMA NextTypeOK == TypeOK /\ [Next]_vars => TypeOK'
  <1> SUFFICES ASSUME TypeOK, [Next]_vars PROVE TypeOK'
    OBVIOUS
  <1> USE ConstantsAssumption DEF TypeOK, ProofStates, QuoteStates, LnStates
  <1>1. ASSUME NEW r \in Requests, VerifyMeltQuoteState(r) PROVE TypeOK'
    BY <1>1 DEF VerifyMeltQuoteState, ReqRecords, Pcs, Errors, Flaws, Responses
  <1>2. ASSUME NEW r \in Requests, VerifyMeltInputs(r) PROVE TypeOK'
    BY <1>2, GotoType DEF VerifyMeltInputs, AddProofsQuoteId, Pcs, Errors
  <1>2a. ASSUME NEW r \in Requests, CheckYsSpendable(r) PROVE TypeOK'
    <2>1. PICK p \in Pcs, e \in Errors : Goto(r, p, e)
      BY <1>2a DEF CheckYsSpendable, Pcs, Errors
    <2>2. req' \in [Requests -> ReqRecords]
      BY <2>1, GotoType
    <2>3. QED
      BY <1>2a, <2>2 DEF CheckYsSpendable
  <1>3. ASSUME NEW r \in Requests, VerifySigFlag(r) PROVE TypeOK'
    BY <1>3, GotoType DEF VerifySigFlag, Pcs, Errors
  <1>4. ASSUME NEW r \in Requests, MakePayment(r) PROVE TypeOK'
    BY <1>4, GotoType DEF MakePayment, AfterMakePayment, MakePaymentResponses, Pcs, Errors
  <1>5. ASSUME NEW r \in Requests, CheckPaymentState(r) PROVE TypeOK'
    <2>1. PICK resp \in CheckPaymentResponses(lnState[req[r].quote]) :
                req' = [req EXCEPT ![r].pc = AfterCheckPayment(resp),
                                   ![r].err = CheckPaymentError(resp),
                                   ![r].checked = resp]
      BY <1>5 DEF CheckPaymentState
    <2>2. resp \in Responses
      <3>1. req[r].quote \in Quotes
        BY DEF ReqRecords
      <3>2. QED
        BY <2>1, <3>1, CheckResponsesType
    <2>3. AfterCheckPayment(resp) \in Pcs /\ CheckPaymentError(resp) \in Errors
      BY <2>2, AfterCheckType
    <2>4. req' \in [Requests -> ReqRecords]
      BY <2>1, <2>2, <2>3, CheckedRecordType
    <2>5. QED
      BY <1>5, <2>4 DEF CheckPaymentState
  <1>6. ASSUME NEW r \in Requests, UpdateLookupId(r) PROVE TypeOK'
    BY <1>6, GotoType DEF UpdateLookupId, Pcs, Errors
  <1>7. ASSUME NEW r \in Requests, ProcessMeltSpend(r) PROVE TypeOK'
    BY <1>7, GotoType DEF ProcessMeltSpend, Pcs, Errors
  <1>8. ASSUME NEW r \in Requests, ProcessMeltPaid(r) PROVE TypeOK'
    BY <1>8, GotoType DEF ProcessMeltPaid, Pcs, Errors
  <1>9. ASSUME NEW r \in Requests, ProcessUnpaidRemove(r) PROVE TypeOK'
    <2>1. req' \in [Requests -> ReqRecords]
      BY <1>9, PcType DEF ProcessUnpaidRemove, TypeOK, Pcs
    <2>2. QED
      BY <1>9, <2>1 DEF ProcessUnpaidRemove, RemovedProofs, TypeOK, ProofStates
  <1>10. ASSUME NEW r \in Requests, ProcessUnpaidQuote(r) PROVE TypeOK'
    <2>1. req' \in [Requests -> ReqRecords]
      BY <1>10, PcType DEF ProcessUnpaidQuote, TypeOK, Pcs
    <2>2. QED
      BY <1>10, <2>1 DEF ProcessUnpaidQuote, TypeOK, QuoteStates
  <1>11. ASSUME NEW q \in Quotes, PaymentSettles(q) PROVE TypeOK'
    BY <1>11 DEF PaymentSettles
  <1>12. ASSUME NEW q \in Quotes, CheckPendingMeltQuote(q) PROVE TypeOK'
    BY <1>12 DEF CheckPendingMeltQuote, CheckPaymentResponses
  <1>13. CASE Crash
    <2>1. \A r \in Requests :
            (IF req[r].pc \in {"Idle", "Done"} THEN req[r]
             ELSE [req[r] EXCEPT !.pc = "Done", !.err = "Crashed"]) \in ReqRecords
      BY CrashedRecordType
    <2>3. req' \in [Requests -> ReqRecords]
      BY <1>13, <2>1 DEF Crash
    <2>4. crashes' \in 0..MaxCrashes
      <3>1. crashes \in 0..MaxCrashes /\ crashes < MaxCrashes /\ crashes' = crashes + 1
        BY <1>13 DEF Crash
      <3>2. MaxCrashes \in Nat
        BY ConstantsAssumption
      <3>3. QED
        BY <3>1, <3>2
    <2>2. QED
      BY <1>13, <2>3, <2>4 DEF Crash
  <1>14. CASE Reboot
    BY <1>14 DEF Reboot
  <1>14a. CASE BootAbort
    BY <1>14a DEF BootAbort
  <1>15. CASE Serve
    BY <1>15 DEF Serve
  <1>16. CASE UNCHANGED vars
    BY <1>16 DEF vars
  <1>17. QED
    BY <1>1, <1>2, <1>2a, <1>3, <1>4, <1>5, <1>6, <1>7, <1>8, <1>9, <1>10, <1>11,
       <1>12, <1>13, <1>14, <1>14a, <1>15, <1>16 DEF Next, MeltStep

(* The type invariant TypeOK holds in every reachable state.               *)
THEOREM TypeCorrect == Spec => []TypeOK
  BY InitTypeOK, NextTypeOK, PTL DEF Spec

-----------------------------------------------------------------------------
(* The awaits past a Paid answer of the backend.                           *)
PaidPcs == {"Lookup", "Spend", "MarkPaid"}

(* A delivered payment stays delivered: no step of the mint or of the      *)
(* backend moves a Succeeded invoice payment back.                         *)
LEMMA SucceededStable ==
  ASSUME TypeOK, [Next]_vars, NEW q \in Quotes, lnState[q] = "Succeeded"
  PROVE  lnState'[q] = "Succeeded"
  <1>1. ASSUME NEW r \in Requests, MakePayment(r) PROVE lnState'[q] = "Succeeded"
    BY <1>1 DEF MakePayment, TypeOK
  <1>2. ASSUME NEW p \in Quotes, PaymentSettles(p) PROVE lnState'[q] = "Succeeded"
    BY <1>2 DEF PaymentSettles, TypeOK
  <1>3. QED
    BY <1>1, <1>2 DEF Next, MeltStep, vars, VerifyMeltQuoteState, VerifyMeltInputs,
       CheckYsSpendable,
       VerifySigFlag, CheckPaymentState, UpdateLookupId, ProcessMeltSpend,
       ProcessMeltPaid, ProcessUnpaidRemove, ProcessUnpaidQuote,
       CheckPendingMeltQuote, Crash, Reboot, BootAbort, Serve

(* The initial state satisfies the strengthened invariant.                 *)
LEMMA InitFinalizeInv == Init => FinalizeInv
  BY InitTypeOK DEF Init, FinalizeInv, NoQuoteBinding, IdleHasNoInputs,
                    PaidAnswerDelivered, FinalizeOnlyAfterPayment

(* The argument common to all steps: a step keeps FinalizeInv when it      *)
(* changes the inputs and quote only of a call that presented none, makes  *)
(* no call idle, starts finalising only behind a delivered payment, binds  *)
(* no proof, and spends proofs and pays quotes only behind one.            *)
LEMMA StepPreserves ==
  ASSUME FinalizeInv, TypeOK',
         \A q \in Quotes : lnState[q] = "Succeeded" => lnState'[q] = "Succeeded",
         \A s \in Requests :
             \/ req[s].inputs = {}
             \/ req'[s].inputs = req[s].inputs /\ req'[s].quote = req[s].quote,
         \A s \in Requests : req'[s].pc = "Idle" => req'[s] = req[s],
         \A s \in Requests : req'[s].pc \in PaidPcs =>
                                 lnState'[req'[s].quote] = "Succeeded",
         \A y \in Ys : proofQuote'[y] = NoQuote,
         \A y \in Ys : proofState'[y] = "Spent" =>
             \/ proofState[y] = "Spent"
             \/ \E s \in Requests : /\ y \in req[s].inputs
                                    /\ lnState[req[s].quote] = "Succeeded",
         \A q \in Quotes : quoteState'[q] = "Paid" =>
             quoteState[q] = "Paid" \/ lnState[q] = "Succeeded"
  PROVE  FinalizeInv'
  <1>1. \A s \in Requests : req[s].quote \in Quotes
    BY DEF FinalizeInv, TypeOK, ReqRecords
  <1>2. \A q \in Quotes : quoteState'[q] = "Paid" => lnState'[q] = "Succeeded"
    BY DEF FinalizeInv, FinalizeOnlyAfterPayment
  <1>3. ASSUME NEW y \in Ys, proofState'[y] = "Spent"
        PROVE  \E s \in Requests : /\ y \in req'[s].inputs
                                   /\ lnState'[req'[s].quote] = "Succeeded"
    <2>1. PICK s \in Requests : /\ y \in req[s].inputs
                                /\ lnState[req[s].quote] = "Succeeded"
      BY <1>3 DEF FinalizeInv, FinalizeOnlyAfterPayment
    <2>2. req'[s].inputs = req[s].inputs /\ req'[s].quote = req[s].quote
      BY <2>1
    <2>3. QED
      BY <1>1, <2>1, <2>2
  <1>4. IdleHasNoInputs'
    BY DEF FinalizeInv, IdleHasNoInputs
  <1>5. QED
    BY <1>2, <1>3, <1>4 DEF FinalizeInv, FinalizeOnlyAfterPayment, NoQuoteBinding,
                          PaidAnswerDelivered, PaidPcs

(* The backend answers Paid only for a delivered payment (spec 4.C).       *)
LEMMA PaidAnswerMeansDelivered ==
  ASSUME NEW st \in LnStates
  PROVE  /\ "Paid" \in MakePaymentResponses(st) => st = "Succeeded"
         /\ "Paid" \in CheckPaymentResponses(st) => st = "Succeeded"
  BY DEF MakePaymentResponses, CheckPaymentResponses, LnStates

(* Every step keeps the strengthened invariant.                            *)
LEMMA NextFinalizeInv == FinalizeInv /\ [Next]_vars => FinalizeInv'
  <1> SUFFICES ASSUME FinalizeInv, [Next]_vars PROVE FinalizeInv'
    OBVIOUS
  <1>1. TypeOK /\ TypeOK'
    BY NextTypeOK DEF FinalizeInv
  <1>2. \A q \in Quotes : lnState[q] = "Succeeded" => lnState'[q] = "Succeeded"
    BY <1>1, SucceededStable
  <1>3. /\ req \in [Requests -> ReqRecords]
        /\ \A s \in Requests : req[s].quote \in Quotes
        /\ lnState \in [Quotes -> LnStates]
    BY <1>1 DEF TypeOK, ReqRecords
  <1>4. /\ NoQuoteBinding /\ IdleHasNoInputs /\ PaidAnswerDelivered
    BY DEF FinalizeInv
  <1> HIDE DEF FinalizeInv
  <1>5. ASSUME NEW r \in Requests, VerifyMeltQuoteState(r) PROVE FinalizeInv'
    <2>1. req[r].inputs = {}
      BY <1>5, <1>4 DEF VerifyMeltQuoteState, IdleHasNoInputs
    <2>2. /\ req'[r].pc \in {"Verify", "RbRemove"}
          /\ \A s \in Requests \ {r} : req'[s] = req[s]
      BY <1>5, <1>3 DEF VerifyMeltQuoteState
    <2>3. \A q \in Quotes : quoteState'[q] \in {quoteState[q], "Pending"}
      BY <1>5, <1>1 DEF VerifyMeltQuoteState, TypeOK
    <2>4. QED
      BY <1>1, <1>2, <1>4, <2>1, <2>2, <2>3, <1>5, StepPreserves
         DEF VerifyMeltQuoteState, NoQuoteBinding, PaidAnswerDelivered, PaidPcs
  <1>6. ASSUME NEW r \in Requests, VerifyMeltInputs(r) PROVE FinalizeInv'
    <2>1. PICK p \in {"RbRemove", "Spendable"}, e \in Errors : Goto(r, p, e)
      BY <1>6 DEF VerifyMeltInputs, Errors
    <2>2. /\ \A y \in Ys : proofQuote'[y] = NoQuote
          /\ \A y \in Ys : proofState'[y] = "Spent" => proofState[y] = "Spent"
      BY <1>6, <1>4 DEF VerifyMeltInputs, AddProofsQuoteId, NoQuoteBinding
    <2>3. QED
      BY <1>1, <1>2, <1>3, <1>4, <2>1, <2>2, <1>6, GotoFrame, StepPreserves
         DEF VerifyMeltInputs, PaidAnswerDelivered, PaidPcs
  <1>6a. ASSUME NEW r \in Requests, CheckYsSpendable(r) PROVE FinalizeInv'
    <2>1. \A y \in Ys : proofState'[y] = "Spent" => proofState[y] = "Spent"
      BY <1>6a DEF CheckYsSpendable
    <2>2. PICK p \in {"Sig", "RbRemove"}, e \in Errors : Goto(r, p, e)
      BY <1>6a DEF CheckYsSpendable, Errors
    <2>3. QED
      BY <1>1, <1>2, <1>3, <1>4, <2>1, <2>2, <1>6a, GotoFrame, StepPreserves
         DEF CheckYsSpendable, PaidAnswerDelivered, PaidPcs, NoQuoteBinding
  <1>7. ASSUME NEW r \in Requests, VerifySigFlag(r) PROVE FinalizeInv'
    <2>1. PICK p \in {"RbRemove", "Pay"}, e \in Errors : Goto(r, p, e)
      BY <1>7 DEF VerifySigFlag, Errors
    <2>2. QED
      BY <1>1, <1>2, <1>3, <1>4, <2>1, <1>7, GotoFrame, StepPreserves
         DEF VerifySigFlag, PaidAnswerDelivered, PaidPcs, NoQuoteBinding
  <1>8. ASSUME NEW r \in Requests, MakePayment(r) PROVE FinalizeInv'
    <2> DEFINE q == req[r].quote
    <2>1. PICK p \in Pcs, e \in Errors :
              /\ Goto(r, p, e)
              /\ p \notin {"Idle", "Spend", "MarkPaid"}
              /\ p = "Lookup" => lnState'[q] = "Succeeded"
      <3>1. CASE lnState[q] = "Succeeded"
        BY <3>1, <1>8 DEF MakePayment, Pcs, Errors
      <3>2. CASE lnState[q] = "InFlight"
        <4>1. PICK resp \in {"Pending", "Unknown", "Err"} :
                 /\ Goto(r, AfterMakePayment(resp),
                         IF resp = "Pending" THEN "PendingQuote" ELSE "None")
                 /\ UNCHANGED lnState
          BY <3>2, <1>8 DEF MakePayment
        <4>2. QED
          BY <4>1, AfterMakeType DEF Pcs, Errors
      <3>3. CASE lnState[q] \in {"Idle", "Failed"}
        <4>1. PICK st \in {"InFlight", "Succeeded", "Failed"} :
                 /\ lnState' = [lnState EXCEPT ![q] = st]
                 /\ \E resp \in MakePaymentResponses(st) :
                      Goto(r, AfterMakePayment(resp),
                           IF resp = "Pending" THEN "PendingQuote" ELSE "None")
          BY <3>3, <1>8 DEF MakePayment
        <4>2. PICK resp \in MakePaymentResponses(st) :
                 Goto(r, AfterMakePayment(resp),
                      IF resp = "Pending" THEN "PendingQuote" ELSE "None")
          BY <4>1
        <4>3. lnState'[q] = st
          BY <4>1, <1>3
        <4>4. AfterMakePayment(resp) = "Lookup" => st = "Succeeded"
          BY <4>2, AfterMakeType, PaidAnswerMeansDelivered DEF LnStates
        <4>5. QED
          BY <4>2, <4>3, <4>4, AfterMakeType DEF Pcs, Errors
      <3>4. QED
        BY <3>1, <3>2, <3>3, <1>3, <1>8 DEF MakePayment
    <2>2. /\ \A s \in Requests : /\ req'[s].inputs = req[s].inputs
                                /\ req'[s].quote = req[s].quote
          /\ \A s \in Requests \ {r} : req'[s] = req[s]
          /\ req'[r].pc \notin {"Idle", "Spend", "MarkPaid"}
          /\ req'[r].pc = "Lookup" => lnState'[q] = "Succeeded"
      BY <2>1, <1>3, GotoFrame
    <2>3. \A s \in Requests : req'[s].pc \in PaidPcs =>
                                 lnState'[req'[s].quote] = "Succeeded"
      <3>1. SUFFICES ASSUME NEW s \in Requests, req'[s].pc \in PaidPcs
                     PROVE  lnState'[req'[s].quote] = "Succeeded"
        OBVIOUS
      <3>3. CASE s = r
        BY <3>1, <3>3, <2>2 DEF PaidPcs
      <3>4. CASE s # r
        BY <3>1, <3>4, <2>2, <1>2, <1>3, <1>4 DEF PaidAnswerDelivered, PaidPcs
      <3>5. QED
        BY <3>3, <3>4
    <2>4. QED
      BY <1>1, <1>2, <1>3, <1>4, <2>2, <2>3, <1>8, StepPreserves
         DEF MakePayment, NoQuoteBinding
  <1>9. ASSUME NEW r \in Requests, CheckPaymentState(r) PROVE FinalizeInv'
    <2>1. PICK resp \in CheckPaymentResponses(lnState[req[r].quote]) :
                req' = [req EXCEPT ![r].pc = AfterCheckPayment(resp),
                                   ![r].err = CheckPaymentError(resp),
                                   ![r].checked = resp]
      BY <1>9 DEF CheckPaymentState
    <2>2. AfterCheckPayment(resp) \in {"Done", "RbRemove"}
      BY <2>1, <1>3, CheckResponsesType, AfterCheckType
    <2>3. /\ \A s \in Requests \ {r} : req'[s] = req[s]
          /\ req'[r].pc \in {"Done", "RbRemove"}
          /\ req'[r].inputs = req[r].inputs /\ req'[r].quote = req[r].quote
      BY <2>1, <2>2, <1>3 DEF ReqRecords
    <2>4. QED
      BY <1>1, <1>2, <1>3, <1>4, <2>3, <1>9, StepPreserves
         DEF CheckPaymentState, PaidAnswerDelivered, PaidPcs, NoQuoteBinding
  <1>10. ASSUME NEW r \in Requests, UpdateLookupId(r) PROVE FinalizeInv'
    <2>1. lnState[req[r].quote] = "Succeeded"
      BY <1>10, <1>4 DEF UpdateLookupId, PaidAnswerDelivered
    <2>2. \A q \in Quotes : quoteState'[q] \in {quoteState[q], "Pending"}
      BY <1>10, <1>1 DEF UpdateLookupId, TypeOK
    <2>3. QED
      BY <1>1, <1>2, <1>3, <1>4, <2>1, <2>2, <1>10, GotoFrame, StepPreserves
         DEF UpdateLookupId, PaidAnswerDelivered, PaidPcs, NoQuoteBinding
  <1>11. ASSUME NEW r \in Requests, ProcessMeltSpend(r) PROVE FinalizeInv'
    <2>1. lnState[req[r].quote] = "Succeeded"
      BY <1>11, <1>4 DEF ProcessMeltSpend, PaidAnswerDelivered
    <2>2. \A y \in Ys : proofState'[y] = "Spent" =>
             proofState[y] = "Spent" \/ y \in req[r].inputs
      BY <1>11 DEF ProcessMeltSpend
    <2>3. PICK p \in {"MarkPaid", "Done"}, e \in Errors : Goto(r, p, e)
      BY <1>11 DEF ProcessMeltSpend, Errors
    <2>4. QED
      BY <1>1, <1>2, <1>3, <1>4, <2>1, <2>2, <2>3, <1>11, GotoFrame, StepPreserves
         DEF ProcessMeltSpend, PaidAnswerDelivered, PaidPcs, NoQuoteBinding
  <1>12. ASSUME NEW r \in Requests, ProcessMeltPaid(r) PROVE FinalizeInv'
    <2>1. lnState[req[r].quote] = "Succeeded"
      BY <1>12, <1>4 DEF ProcessMeltPaid, PaidAnswerDelivered
    <2>2. \A q \in Quotes : quoteState'[q] = "Paid" =>
             quoteState[q] = "Paid" \/ q = req[r].quote
      BY <1>12, <1>1 DEF ProcessMeltPaid, TypeOK
    <2>3. QED
      BY <1>1, <1>2, <1>3, <1>4, <2>1, <2>2, <1>12, GotoFrame, StepPreserves
         DEF ProcessMeltPaid, PaidAnswerDelivered, PaidPcs, NoQuoteBinding
  <1>13. ASSUME NEW r \in Requests, ProcessUnpaidRemove(r) PROVE FinalizeInv'
    <2>1. /\ \A s \in Requests \ {r} : req'[s] = req[s]
          /\ req'[r].pc = "RbUnpaid"
          /\ req'[r].inputs = req[r].inputs /\ req'[r].quote = req[r].quote
      BY <1>13, <1>3 DEF ProcessUnpaidRemove, ReqRecords
    <2>2. /\ \A y \in Ys : proofQuote'[y] = NoQuote
          /\ \A y \in Ys : proofState'[y] = "Spent" => proofState[y] = "Spent"
      BY <1>13, <1>4 DEF ProcessUnpaidRemove, RemovedProofs, NoQuoteBinding
    <2>3. QED
      BY <1>1, <1>2, <1>3, <1>4, <2>1, <2>2, <1>13, StepPreserves
         DEF ProcessUnpaidRemove, PaidAnswerDelivered, PaidPcs
  <1>14. ASSUME NEW r \in Requests, ProcessUnpaidQuote(r) PROVE FinalizeInv'
    <2>1. /\ \A s \in Requests \ {r} : req'[s] = req[s]
          /\ req'[r].pc = "Done"
          /\ req'[r].inputs = req[r].inputs /\ req'[r].quote = req[r].quote
      BY <1>14, <1>3 DEF ProcessUnpaidQuote, ReqRecords
    <2>2. \A q \in Quotes : quoteState'[q] \in {quoteState[q], "Unpaid"}
      BY <1>14, <1>1 DEF ProcessUnpaidQuote, TypeOK
    <2>3. QED
      BY <1>1, <1>2, <1>3, <1>4, <2>1, <2>2, <1>14, StepPreserves
         DEF ProcessUnpaidQuote, PaidAnswerDelivered, PaidPcs, NoQuoteBinding
  <1>15. ASSUME NEW q \in Quotes, PaymentSettles(q) PROVE FinalizeInv'
    BY <1>1, <1>2, <1>4, <1>15, StepPreserves
       DEF PaymentSettles, PaidAnswerDelivered, PaidPcs, NoQuoteBinding
  <1>16. ASSUME NEW q \in Quotes, CheckPendingMeltQuote(q) PROVE FinalizeInv'
    <2>1. {y \in Ys : proofQuote[y] = q /\ proofState[y] = "Pending"} = {}
      BY <1>4, ConstantsAssumption DEF NoQuoteBinding
    <2>2. proofState' = proofState /\ proofQuote' = proofQuote
      <3>1. [y \in Ys |-> IF y \in {} THEN "Spent" ELSE proofState[y]] = proofState
        BY <1>1 DEF TypeOK
      <3>2. [y \in Ys |-> IF y \in {} THEN "Absent" ELSE proofState[y]] = proofState
        BY <1>1 DEF TypeOK
      <3>3. [y \in Ys |-> IF y \in {} THEN NoQuote ELSE proofQuote[y]] = proofQuote
        BY <1>1 DEF TypeOK
      <3>4. QED
        BY <1>16, <2>1, <3>1, <3>2, <3>3 DEF CheckPendingMeltQuote
    <2>3. quoteState'[q] = "Paid" => quoteState[q] = "Paid" \/ lnState[q] = "Succeeded"
      <3>1. quoteState'[q] = "Paid" =>
               quoteState[q] = "Paid" \/ "Paid" \in CheckPaymentResponses(lnState[q])
        BY <1>16, <1>1 DEF CheckPendingMeltQuote, TypeOK
      <3>2. QED
        BY <3>1, <1>3, PaidAnswerMeansDelivered
    <2>4. \A p \in Quotes \ {q} : quoteState'[p] = quoteState[p]
      BY <1>16, <1>1 DEF CheckPendingMeltQuote, TypeOK
    <2>5. QED
      BY <1>1, <1>2, <1>4, <2>2, <2>3, <2>4, <1>16, StepPreserves
         DEF CheckPendingMeltQuote, PaidAnswerDelivered, PaidPcs, NoQuoteBinding
  <1>17. CASE Crash
    <2>1. \A s \in Requests :
             /\ req'[s].inputs = req[s].inputs /\ req'[s].quote = req[s].quote
             /\ req'[s].pc \in {"Idle", "Done"} \/ req'[s] = req[s]
             /\ req'[s].pc = "Idle" => req'[s] = req[s]
      BY <1>17, <1>3 DEF Crash, ReqRecords
    <2>2. \A s \in Requests : req'[s].pc \in PaidPcs => req'[s] = req[s]
      BY <2>1 DEF PaidPcs
    <2>3. \A s \in Requests : req'[s].pc \in PaidPcs =>
                                 lnState'[req'[s].quote] = "Succeeded"
      BY <2>2, <1>2, <1>3, <1>4 DEF PaidAnswerDelivered, PaidPcs
    <2>4. QED
      BY <1>1, <1>2, <1>4, <2>1, <2>3, <1>17, StepPreserves
         DEF Crash, NoQuoteBinding
  <1>18. CASE Reboot \/ BootAbort \/ Serve \/ UNCHANGED vars
    BY <1>1, <1>2, <1>4, <1>18, StepPreserves
       DEF Reboot, BootAbort, Serve, vars, PaidAnswerDelivered, PaidPcs, NoQuoteBinding
  <1>19. QED
    BY <1>5, <1>6, <1>6a, <1>7, <1>8, <1>9, <1>10, <1>11, <1>12, <1>13, <1>14, <1>15,
       <1>16, <1>17, <1>18 DEF Next, MeltStep

(* The mint burns value only for delivered payments: in every reachable    *)
(* state a Paid melt quote and a Spent proof are backed by a payment the   *)
(* backend delivered (melt_bolt11 and the boot reconciliation finalise     *)
(* only on a Paid answer).                                                 *)
THEOREM FinalizeSafe == Spec => []FinalizeOnlyAfterPayment
  <1>1. FinalizeInv => FinalizeOnlyAfterPayment
    BY DEF FinalizeInv
  <1>2. QED
    BY InitFinalizeInv, NextFinalizeInv, <1>1, PTL DEF Spec


(* The strengthened invariant itself holds in every reachable state: no    *)
(* proof is bound to a quote (add_proofs(inputs, None)), a call that has   *)
(* not started presents no inputs, and every call past a Paid answer of    *)
(* make_payment or check_outgoing_payment has a delivered payment behind   *)
(* it, whatever crashes and reconciliations happened in between.           *)
THEOREM FinalizeInvariant == Spec => []FinalizeInv
  BY InitFinalizeInv, NextFinalizeInv, PTL DEF Spec
=============================================================================
