-------------------------------- MODULE Melt --------------------------------
(***************************************************************************)
(* The melt side of the mint (crates/cdk/src/mint/melt.rs): concurrent     *)
(* melt_bolt11 calls, each a task that suspends at every call into the     *)
(* persistence port or the Lightning backend, the rollback path            *)
(* process_unpaid_melt, the finalisation process_melt_request, and the     *)
(* process boot of cdk-mintd (main.rs), which reconciles Pending melt      *)
(* quotes before it serves requests again after a crash.                  *)
(*                                                                         *)
(* Each step of a request is one await: the persistence calls are atomic   *)
(* (linearizable, spec 4.B) and the code between two awaits touches no     *)
(* shared state.  Proofs are their y; amounts are small naturals.          *)
(***************************************************************************)
EXTENDS Naturals, FiniteSets, FiniteSetsExt

CONSTANTS
    Requests,           \* concurrent melt_bolt11 calls (one call each)
    Quotes,             \* melt quote ids
    Ys,                 \* proof identifiers y = H2C(secret)
    NoQuote,            \* the None of add_proofs(proofs, None)
    NoReq,              \* no request
    Val,                \* amount of each proof
    QuoteAmount,        \* quote.amount
    FeeReserve,         \* quote.fee_reserve
    InputFeePpk,        \* input_fee_ppk of the (single) keyset
    RemoveChecksQuote,  \* does remove_proofs(ys, Some(q)) only remove proofs bound to q?
    MaxCrashes          \* bound on process crashes

ASSUME ConstantsAssumption ==
    /\ Quotes # {}
    /\ NoQuote \notin Quotes
    /\ NoReq \notin Requests
    /\ Val \in [Ys -> Nat \ {0}]
    /\ QuoteAmount \in [Quotes -> Nat]
    /\ FeeReserve \in [Quotes -> Nat]
    /\ InputFeePpk \in Nat
    /\ RemoveChecksQuote \in BOOLEAN
    /\ MaxCrashes \in Nat

(* States a proof can be in, Absent meaning "no row for this y".           *)
ProofStates == {"Absent", "Unspent", "Pending", "Spent"}

(* Persisted melt quote states (Unknown is never stored).                   *)
QuoteStates == {"Unpaid", "Pending", "Paid", "Failed"}

(* The Lightning backend's view of the outgoing payment of a quote's       *)
(* invoice: never tried, in flight, delivered (irreversible), failed.       *)
LnStates == {"Idle", "InFlight", "Succeeded", "Failed"}

(* What a request is doing: the await it is suspended at.                  *)
Pcs == {"Idle", "Verify", "Spendable", "Sig", "Pay", "Check", "Lookup",
        "Spend", "MarkPaid", "RbRemove", "RbUnpaid", "Done"}

(* Defects a melt request can carry: invalid inputs (verify_inputs or the  *)
(* unit check fail), or a SIG_ALL input / bad outputs (checks made after   *)
(* the inputs are stored as Pending).                                      *)
Flaws == {"None", "BadInputs", "SigAll"}

Errors == {"None", "PendingQuote", "PaidQuote", "BadInputs", "Unbalanced",
           "TokenPending", "TokenAlreadySpent", "SigAllUsedInMelt",
           "RequestAlreadyPaid", "PaymentFailed", "Internal", "Database",
           "Crashed"}

(* Responses of make_payment / check_outgoing_payment, "Err" for Err(_).   *)
Responses == {"Paid", "Pending", "Failed", "Unpaid", "Unknown", "Err"}

VARIABLES
    proofState,   \* y -> state of the stored proof
    proofQuote,   \* y -> quote id the stored proof is bound to
    quoteState,   \* melt quote id -> state
    lnState,      \* quote id -> backend state of the invoice's payment
    payer,        \* quote id -> request that launched the current payment
    req,          \* request -> its melt_bolt11 call
    phase,        \* "Up", "Down" or "Booting" (cdk-mintd process)
    toReconcile,  \* Pending melt quotes check_pending_melt_quotes still visits
    crashes       \* number of crashes so far

vars == <<proofState, proofQuote, quoteState, lnState, payer, req, phase,
          toReconcile, crashes>>

ReqRecords == [pc : Pcs, quote : Quotes, inputs : SUBSET Ys, flaw : Flaws,
               err : Errors, checked : Responses \cup {"None"}]

TypeOK ==
    /\ proofState \in [Ys -> ProofStates]
    /\ proofQuote \in [Ys -> Quotes \cup {NoQuote}]
    /\ quoteState \in [Quotes -> QuoteStates]
    /\ lnState \in [Quotes -> LnStates]
    /\ payer \in [Quotes -> Requests \cup {NoReq}]
    /\ req \in [Requests -> ReqRecords]
    /\ phase \in {"Up", "Down", "Booting"}
    /\ toReconcile \subseteq Quotes
    /\ crashes \in 0..MaxCrashes

-----------------------------------------------------------------------------
(* Helpers translated from the code the actions call.                      *)

(* proofs_amount(): the sum of the input amounts.                          *)
ProofsAmount(S) == MapThenSumSet(LAMBDA y : Val[y], S)

(* get_proofs_fee: ceil(sum of input_fee_ppk / 1000) over the inputs.      *)
ProofsFee(S) == (Cardinality(S) * InputFeePpk + 999) \div 1000

(* Mutant: add_proofs bound to the quote, as the persistence contract of  *)
(* remove_proofs(ys, Some(quote)) expects.                                 *)
AddProofsBoundToQuote(q) == q

(* The quote id add_proofs is called with in verify_melt_request.          *)
AddProofsQuoteId(q) == NoQuote

(* Mutant: add_proofs that only refuses proofs already Spent.              *)
StoredProofsSpentOnly(S) == {y \in S : proofState[y] = "Spent"}

(* add_proofs: the inputs that already have a row; any makes it fail,      *)
(* with AttemptUpdateSpentProof (TokenAlreadySpent) when one is Spent and  *)
(* Duplicate (TokenPending) otherwise.                                     *)
StoredProofs(S) == {y \in S : proofState[y] # "Absent"}

(* What make_payment may answer when the payment ends in state st: Paid    *)
(* only for a delivered payment, Failed only for a failed one (spec 4.C).  *)
MakePaymentResponses(st) ==
    {"Unknown", "Err"} \cup
    CASE st = "Succeeded" -> {"Paid"}
      [] st = "InFlight"  -> {"Pending"}
      [] st = "Failed"    -> {"Failed"}
      [] st = "Idle"      -> {}

(* What check_outgoing_payment may answer for a payment in state st.       *)
CheckPaymentResponses(st) ==
    {"Unknown", "Err"} \cup
    CASE st = "Succeeded" -> {"Paid"}
      [] st = "InFlight"  -> {"Pending"}
      [] st = "Failed"    -> {"Failed"}
      [] st = "Idle"      -> {"Unpaid"}

(* Mutant: an Unknown answer of make_payment taken as Paid.                *)
AfterMakePaymentUnknownPaid(resp) ==
    CASE resp \in {"Paid", "Unknown"} -> "Lookup"
      [] resp = "Pending" -> "Done"
      [] OTHER            -> "Check"

(* melt_bolt11: where a request goes once make_payment answered resp.      *)
AfterMakePayment(resp) ==
    CASE resp = "Paid"    -> "Lookup"
      [] resp = "Pending" -> "Done"
      [] OTHER            -> "Check"

(* Mutant: a Paid answer of the check finalises the melt (spec 4.G step 7) *)
(* instead of returning Internal.                                          *)
AfterCheckPaymentFinalise(resp) ==
    CASE resp = "Paid"                             -> "Lookup"
      [] resp \in {"Err", "Pending"}               -> "Done"
      [] resp \in {"Unpaid", "Unknown", "Failed"}  -> "RbRemove"

(* melt_bolt11: where a request goes once check_outgoing_payment answered. *)
AfterCheckPayment(resp) ==
    CASE resp \in {"Err", "Paid", "Pending"}       -> "Done"
      [] resp \in {"Unpaid", "Unknown", "Failed"}  -> "RbRemove"

(* The error melt_bolt11 returns with that answer.                         *)
CheckPaymentError(resp) ==
    CASE resp \in {"Err", "Paid"}                  -> "Internal"
      [] resp = "Pending"                          -> "PendingQuote"
      [] resp \in {"Unpaid", "Unknown", "Failed"}  -> "PaymentFailed"

(* Mutant: remove_proofs that ignores the quote it is given.               *)
RemovedProofsIgnoreQuote(S, q) == {y \in S : proofState[y] = "Pending"}

(* remove_proofs(ys, Some(q)): the proofs it deletes.                      *)
RemovedProofs(S, q) ==
    {y \in S : /\ proofState[y] = "Pending"
               /\ RemoveChecksQuote => proofQuote[y] = q}

-----------------------------------------------------------------------------
Init ==
    /\ proofState = [y \in Ys |-> "Absent"]
    /\ proofQuote = [y \in Ys |-> NoQuote]
    /\ quoteState = [q \in Quotes |-> "Unpaid"]
    /\ lnState = [q \in Quotes |-> "Idle"]
    /\ payer = [q \in Quotes |-> NoReq]
    /\ req = [r \in Requests |-> [pc |-> "Idle", quote |-> CHOOSE q \in Quotes : TRUE,
                                  inputs |-> {}, flaw |-> "None", err |-> "None",
                                  checked |-> "None"]]
    /\ phase = "Up"
    /\ toReconcile = {}
    /\ crashes = 0

(* Move request r to pc p, returning error e.                              *)
Goto(r, p, e) == req' = [req EXCEPT ![r].pc = p, ![r].err = e]

(* A client calls melt_bolt11 for quote q with inputs S; the first await   *)
(* is update_melt_quote_state(q, Pending), which writes Pending and        *)
(* returns the previous state.  Any state but Unpaid/Failed is an error,   *)
(* and every error of verify_melt_request goes to process_unpaid_melt.     *)
VerifyMeltQuoteState(r) ==
    /\ phase = "Up"
    /\ req[r].pc = "Idle"
    /\ \E q \in Quotes, S \in SUBSET Ys \ {{}}, f \in Flaws :
         /\ quoteState' = [quoteState EXCEPT ![q] = "Pending"]
         /\ req' = [req EXCEPT ![r] =
               [pc |-> IF quoteState[q] \in {"Unpaid", "Failed"} THEN "Verify"
                                                                  ELSE "RbRemove",
                quote |-> q, inputs |-> S, flaw |-> f, checked |-> "None",
                err |-> CASE quoteState[q] \in {"Unpaid", "Failed"} -> "None"
                          [] quoteState[q] = "Pending" -> "PendingQuote"
                          [] quoteState[q] = "Paid" -> "PaidQuote"]]
    /\ UNCHANGED <<proofState, proofQuote, lnState, payer, phase, toReconcile, crashes>>

(* verify_inputs, the balance check, then add_proofs(inputs, None), which  *)
(* stores fresh rows only, all Unspent.                                    *)
VerifyMeltInputs(r) ==
    LET S == req[r].inputs
        q == req[r].quote
        stored == StoredProofs(S)
    IN
    /\ phase = "Up"
    /\ req[r].pc = "Verify"
    /\ \/ /\ req[r].flaw = "BadInputs"
          /\ Goto(r, "RbRemove", "BadInputs")
          /\ UNCHANGED <<proofState, proofQuote>>
       \/ /\ req[r].flaw # "BadInputs"
          /\ ProofsAmount(S) < QuoteAmount[q] + FeeReserve[q] + ProofsFee(S)
          /\ Goto(r, "RbRemove", "Unbalanced")
          /\ UNCHANGED <<proofState, proofQuote>>
       \/ /\ req[r].flaw # "BadInputs"
          /\ ProofsAmount(S) >= QuoteAmount[q] + FeeReserve[q] + ProofsFee(S)
          /\ stored # {}
          /\ Goto(r, "RbRemove", IF \E y \in stored : proofState[y] = "Spent"
                                 THEN "TokenAlreadySpent" ELSE "TokenPending")
          /\ UNCHANGED <<proofState, proofQuote>>
       \/ /\ req[r].flaw # "BadInputs"
          /\ ProofsAmount(S) >= QuoteAmount[q] + FeeReserve[q] + ProofsFee(S)
          /\ stored = {}
          /\ proofState' = [y \in Ys |-> IF y \in S THEN "Unspent" ELSE proofState[y]]
          /\ proofQuote' = [y \in Ys |-> IF y \in S THEN AddProofsQuoteId(q)
                                                    ELSE proofQuote[y]]
          /\ Goto(r, "Spendable", "None")
    /\ UNCHANGED <<quoteState, lnState, payer, phase, toReconcile, crashes>>

(* check_ys_spendable(ys, Pending), the next await (line 359): it moves   *)
(* the rows to Pending when all are still Unspent; a row another call has  *)
(* spent or reserved meanwhile fails it (TokenAlreadySpent, TokenPending), *)
(* and the ? sends the call to process_unpaid_melt.                        *)
CheckYsSpendable(r) ==
    LET S == req[r].inputs IN
    /\ phase = "Up"
    /\ req[r].pc = "Spendable"
    /\ \/ /\ \A y \in S : proofState[y] = "Unspent"
          /\ proofState' = [y \in Ys |-> IF y \in S THEN "Pending" ELSE proofState[y]]
          /\ Goto(r, "Sig", "None")
       \/ /\ \E y \in S : proofState[y] # "Unspent"
          /\ Goto(r, "RbRemove", IF \E y \in S : proofState[y] = "Spent"
                                 THEN "TokenAlreadySpent" ELSE "TokenPending")
          /\ UNCHANGED proofState
    /\ UNCHANGED <<proofQuote, quoteState, lnState, payer, phase, toReconcile, crashes>>

(* enforce_sig_flag and verify_outputs, with the inputs already Pending.   *)
VerifySigFlag(r) ==
    /\ phase = "Up"
    /\ req[r].pc = "Sig"
    /\ \/ /\ req[r].flaw = "SigAll"
          /\ Goto(r, "RbRemove", "SigAllUsedInMelt")
       \/ /\ req[r].flaw # "SigAll"
          /\ Goto(r, "Pay", "None")
    /\ UNCHANGED <<proofState, proofQuote, quoteState, lnState, payer, phase,
                   toReconcile, crashes>>

(* make_payment(quote, partial_amount, Some(fee_reserve)).  An invoice     *)
(* already delivered answers Err(InvoiceAlreadyPaid); one in flight gets   *)
(* no second attempt; otherwise the backend launches a payment whose       *)
(* outcome (delivered, in flight, failed) it may or may not report.        *)
MakePayment(r) ==
    LET q == req[r].quote IN
    /\ phase = "Up"
    /\ req[r].pc = "Pay"
    /\ \/ /\ lnState[q] = "Succeeded"
          /\ Goto(r, "RbRemove", "RequestAlreadyPaid")
          /\ UNCHANGED <<lnState, payer>>
       \/ /\ lnState[q] = "InFlight"
          /\ \E resp \in {"Pending", "Unknown", "Err"} :
               Goto(r, AfterMakePayment(resp),
                    IF resp = "Pending" THEN "PendingQuote" ELSE "None")
          /\ UNCHANGED <<lnState, payer>>
       \/ /\ lnState[q] \in {"Idle", "Failed"}
          /\ \E st \in {"InFlight", "Succeeded", "Failed"} :
               /\ lnState' = [lnState EXCEPT ![q] = st]
               /\ payer' = [payer EXCEPT ![q] = r]
               /\ \E resp \in MakePaymentResponses(st) :
                    Goto(r, AfterMakePayment(resp),
                         IF resp = "Pending" THEN "PendingQuote" ELSE "None")
    /\ UNCHANGED <<proofState, proofQuote, quoteState, phase, toReconcile, crashes>>

(* check_payment_state after make_payment answered Unknown, Failed or an   *)
(* error, and the match on the status it returns.                          *)
CheckPaymentState(r) ==
    /\ phase = "Up"
    /\ req[r].pc = "Check"
    /\ \E resp \in CheckPaymentResponses(lnState[req[r].quote]) :
         req' = [req EXCEPT ![r].pc = AfterCheckPayment(resp),
                            ![r].err = CheckPaymentError(resp),
                            ![r].checked = resp]
    /\ UNCHANGED <<proofState, proofQuote, quoteState, lnState, payer, phase,
                   toReconcile, crashes>>

(* When the backend reports a payment_lookup_id other than the quote's,    *)
(* add_melt_quote writes back the quote read at verify time, whose state   *)
(* is Pending.                                                             *)
UpdateLookupId(r) ==
    /\ phase = "Up"
    /\ req[r].pc = "Lookup"
    /\ \/ UNCHANGED quoteState
       \/ quoteState' = [quoteState EXCEPT ![req[r].quote] = "Pending"]
    /\ Goto(r, "Spend", "None")
    /\ UNCHANGED <<proofState, proofQuote, lnState, payer, phase, toReconcile, crashes>>

(* process_melt_request: update_proofs_states(ys, Spent), all or nothing.  *)
ProcessMeltSpend(r) ==
    LET S == req[r].inputs IN
    /\ phase = "Up"
    /\ req[r].pc = "Spend"
    /\ IF \A y \in S : proofState[y] # "Absent"
       THEN /\ proofState' = [y \in Ys |-> IF y \in S THEN "Spent" ELSE proofState[y]]
            /\ Goto(r, "MarkPaid", "None")
       ELSE /\ Goto(r, "Done", "Database")
            /\ UNCHANGED proofState
    /\ UNCHANGED <<proofQuote, quoteState, lnState, payer, phase, toReconcile, crashes>>

(* process_melt_request: update_melt_quote_state(q, Paid); the call        *)
(* returns Paid to the client.                                             *)
ProcessMeltPaid(r) ==
    /\ phase = "Up"
    /\ req[r].pc = "MarkPaid"
    /\ quoteState' = [quoteState EXCEPT ![req[r].quote] = "Paid"]
    /\ Goto(r, "Done", "None")
    /\ UNCHANGED <<proofState, proofQuote, lnState, payer, phase, toReconcile, crashes>>

(* process_unpaid_melt: remove_proofs(input_ys, Some(quote)).              *)
ProcessUnpaidRemove(r) ==
    LET gone == RemovedProofs(req[r].inputs, req[r].quote) IN
    /\ phase = "Up"
    /\ req[r].pc = "RbRemove"
    /\ proofState' = [y \in Ys |-> IF y \in gone THEN "Absent" ELSE proofState[y]]
    /\ proofQuote' = [y \in Ys |-> IF y \in gone THEN NoQuote ELSE proofQuote[y]]
    /\ req' = [req EXCEPT ![r].pc = "RbUnpaid"]
    /\ UNCHANGED <<quoteState, lnState, payer, phase, toReconcile, crashes>>

(* process_unpaid_melt: update_melt_quote_state(quote, Unpaid); the call   *)
(* then returns its error.                                                 *)
ProcessUnpaidQuote(r) ==
    /\ phase = "Up"
    /\ req[r].pc = "RbUnpaid"
    /\ quoteState' = [quoteState EXCEPT ![req[r].quote] = "Unpaid"]
    /\ req' = [req EXCEPT ![r].pc = "Done"]
    /\ UNCHANGED <<proofState, proofQuote, lnState, payer, phase, toReconcile, crashes>>

-----------------------------------------------------------------------------
(* The environment: the Lightning network settles an in-flight payment.    *)
PaymentSettles(q) ==
    /\ lnState[q] = "InFlight"
    /\ \E st \in {"Succeeded", "Failed"} : lnState' = [lnState EXCEPT ![q] = st]
    /\ UNCHANGED <<proofState, proofQuote, quoteState, payer, req, phase,
                   toReconcile, crashes>>

(* The mint process dies: every call in progress is lost, the store and    *)
(* the Lightning node keep their state.                                    *)
Crash ==
    /\ phase = "Up"
    /\ crashes < MaxCrashes
    /\ crashes' = crashes + 1
    /\ phase' = "Down"
    /\ req' = [r \in Requests |->
                 IF req[r].pc \in {"Idle", "Done"} THEN req[r]
                 ELSE [req[r] EXCEPT !.pc = "Done", !.err = "Crashed"]]
    /\ UNCHANGED <<proofState, proofQuote, quoteState, lnState, payer, toReconcile>>

(* main.rs restarts: after building the mint it runs                       *)
(* check_pending_melt_quotes over the melt quotes stored as Pending.       *)
Reboot ==
    /\ phase = "Down"
    /\ phase' = "Booting"
    /\ toReconcile' = {q \in Quotes : quoteState[q] = "Pending"}
    /\ UNCHANGED <<proofState, proofQuote, quoteState, lnState, payer, req, crashes>>

(* check_pending_melt_quotes for one quote: check_outgoing_payment; Paid   *)
(* finalises the proofs bound to the quote, Failed/Unpaid rolls them back, *)
(* anything else leaves the quote Pending.                                 *)
CheckPendingMeltQuote(q) ==
    LET bound == {y \in Ys : proofQuote[y] = q /\ proofState[y] = "Pending"} IN
    /\ phase = "Booting"
    /\ q \in toReconcile
    /\ toReconcile' = toReconcile \ {q}
    /\ \E resp \in CheckPaymentResponses(lnState[q]) :
         \/ /\ resp = "Paid"
            /\ proofState' = [y \in Ys |-> IF y \in bound THEN "Spent" ELSE proofState[y]]
            /\ quoteState' = [quoteState EXCEPT ![q] = "Paid"]
            /\ UNCHANGED proofQuote
         \/ /\ resp \in {"Failed", "Unpaid"}
            /\ proofState' = [y \in Ys |-> IF y \in bound THEN "Absent" ELSE proofState[y]]
            /\ proofQuote' = [y \in Ys |-> IF y \in bound THEN NoQuote ELSE proofQuote[y]]
            /\ quoteState' = [quoteState EXCEPT ![q] = "Unpaid"]
         \/ /\ resp \in {"Pending", "Unknown", "Err"}
            /\ UNCHANGED <<proofState, proofQuote, quoteState>>
    /\ UNCHANGED <<lnState, payer, req, phase, crashes>>

(* main.rs 284-297: building the mint, check_pending_mint_quotes or        *)
(* check_pending_melt_quotes returns Err, the ? ends main and mintd exits  *)
(* with the reconciliation done so far; its supervisor starts it again.   *)
BootAbort ==
    /\ phase = "Booting"
    /\ phase' = "Down"
    /\ toReconcile' = {}
    /\ UNCHANGED <<proofState, proofQuote, quoteState, lnState, payer, req, crashes>>

(* main.rs: reconciliation done, the HTTP server accepts requests again.   *)
Serve ==
    /\ phase = "Booting"
    /\ toReconcile = {}
    /\ phase' = "Up"
    /\ UNCHANGED <<proofState, proofQuote, quoteState, lnState, payer, req,
                   toReconcile, crashes>>

-----------------------------------------------------------------------------
MeltStep(r) ==
    \/ VerifyMeltQuoteState(r)
    \/ VerifyMeltInputs(r)
    \/ CheckYsSpendable(r)
    \/ VerifySigFlag(r)
    \/ MakePayment(r)
    \/ CheckPaymentState(r)
    \/ UpdateLookupId(r)
    \/ ProcessMeltSpend(r)
    \/ ProcessMeltPaid(r)
    \/ ProcessUnpaidRemove(r)
    \/ ProcessUnpaidQuote(r)

Next ==
    \/ \E r \in Requests : MeltStep(r)
    \/ \E q \in Quotes : PaymentSettles(q) \/ CheckPendingMeltQuote(q)
    \/ Crash
    \/ Reboot
    \/ BootAbort
    \/ Serve

Spec == Init /\ [][Next]_vars

-----------------------------------------------------------------------------
(* Properties.                                                             *)

(* Request r holds quote q: its update_melt_quote_state(q, Pending) found  *)
(* the quote Unpaid or Failed and the call has not returned yet.           *)
Owns(r, q) ==
    /\ req[r].pc \notin {"Idle", "Done"}
    /\ req[r].quote = q
    /\ req[r].err \notin {"PendingQuote", "PaidQuote"}

(* The mint burns value only for delivered payments: a melt quote is Paid  *)
(* and a proof is Spent only if the backend really delivered the payment   *)
(* of a quote that proof was presented for (melt_bolt11 finalises only on  *)
(* a Paid answer of make_payment or check_outgoing_payment).               *)
FinalizeOnlyAfterPayment ==
    /\ \A q \in Quotes : quoteState[q] = "Paid" => lnState[q] = "Succeeded"
    /\ \A y \in Ys : proofState[y] = "Spent" =>
          \E r \in Requests : /\ y \in req[r].inputs
                              /\ lnState[req[r].quote] = "Succeeded"

(* No double spend across melts: the inputs of two delivered payments of   *)
(* different quotes are disjoint (add_proofs refuses a y it already has,   *)
(* whatever happens to the requests that presented it).                    *)
NoDoubleSpend ==
    \A q1, q2 \in Quotes :
        /\ q1 # q2
        /\ lnState[q1] = "Succeeded" /\ payer[q1] # NoReq
        /\ lnState[q2] = "Succeeded" /\ payer[q2] # NoReq
        => req[payer[q1]].inputs \cap req[payer[q2]].inputs = {}

(* The mint never gives back the inputs of a payment it made: once the     *)
(* payment launched by a melt is delivered, that melt's inputs stay        *)
(* Pending or Spent, whatever rollback, crash or reconciliation follows.   *)
DeliveredInputsHeld ==
    \A q \in Quotes :
        lnState[q] = "Succeeded" /\ payer[q] # NoReq =>
            \A y \in req[payer[q]].inputs : proofState[y] \in {"Pending", "Spent"}

(* Spec 3 invariant 4 and 4.G rollback: a Paid melt quote is terminal; no  *)
(* melt_bolt11 call, rollback or lookup-id update moves it back.           *)
QuotePaidIsFinal ==
    [][\A q \in Quotes : quoteState[q] = "Paid" => quoteState'[q] = "Paid"]_vars

(* Spec 5: of concurrent melt_bolt11 calls on one quote exactly one gets   *)
(* it; the others fail with PendingQuote/PaidQuote and leave it alone.     *)
OneMeltPerQuote ==
    \A r1, r2 \in Requests, q \in Quotes :
        Owns(r1, q) /\ Owns(r2, q) => r1 = r2

(* Spec 5 and 4.G step 7: once the backend reports the payment Paid, the   *)
(* inputs are Spent before the call returns to the client.                 *)
AckAfterFinalize ==
    \A r \in Requests :
        req[r].pc = "Done" /\ req[r].checked = "Paid" =>
            \A y \in req[r].inputs : proofState[y] = "Spent"

(* Spec 3 invariant 2 and scenario S6: a Pending proof belongs to a melt   *)
(* that is still in flight, either a running call or a Pending quote; a    *)
(* rolled-back melt returns its inputs.                                    *)
PendingProofsInFlight ==
    \A y \in Ys : proofState[y] = "Pending" =>
        \E r \in Requests :
            /\ y \in req[r].inputs
            /\ req[r].pc \notin {"Idle", "Done"} \/ quoteState[req[r].quote] = "Pending"

(* Spec 4.G step 4 and 4.I: the mint stores a melt's inputs to hold them  *)
(* Pending; a stored Unspent row exists only while its melt_bolt11 call   *)
(* is between add_proofs and check_ys_spendable (a row nobody holds makes  *)
(* every later add_proofs of that proof fail with Duplicate).              *)
UnspentRowsInFlight ==
    \A y \in Ys : proofState[y] = "Unspent" =>
        \E r \in Requests : y \in req[r].inputs /\ req[r].pc = "Spendable"

(* melt_bolt11 binds no proof to a quote: add_proofs(inputs, None).       *)
NoQuoteBinding == \A y \in Ys : proofQuote[y] = NoQuote

(* A melt_bolt11 call that has not yet read its quote has presented no    *)
(* inputs.                                                                 *)
IdleHasNoInputs == \A r \in Requests : req[r].pc = "Idle" => req[r].inputs = {}

(* A call past a Paid answer of the backend (updating the lookup id,       *)
(* spending the inputs, marking the quote Paid) has a delivered payment    *)
(* behind it.                                                              *)
PaidAnswerDelivered ==
    \A r \in Requests : req[r].pc \in {"Lookup", "Spend", "MarkPaid"} =>
                        lnState[req[r].quote] = "Succeeded"

(* Inductive strengthening of FinalizeOnlyAfterPayment: because no proof   *)
(* is bound to a quote, the boot reconciliation finalises none, and        *)
(* because a call past a Paid answer has a delivered payment behind it,    *)
(* process_melt_request spends and marks Paid only after delivery, which   *)
(* no later step undoes.                                                   *)
FinalizeInv ==
    /\ TypeOK
    /\ NoQuoteBinding
    /\ IdleHasNoInputs
    /\ PaidAnswerDelivered
    /\ FinalizeOnlyAfterPayment


(* A call that has moved its inputs to Pending holds them until it spends  *)
(* them: from check_ys_spendable up to update_proofs_states(Spent) its     *)
(* inputs stay Pending or Spent, whatever the rollbacks of other calls     *)
(* (whose remove_proofs(ys, Some(quote)) misses proofs stored with no      *)
(* quote) and the boot reconciliation do.                                  *)
HeldInputs ==
    \A r \in Requests :
        req[r].pc \in {"Sig", "Pay", "Check", "Lookup", "Spend"} =>
            \A y \in req[r].inputs : proofState[y] \in {"Pending", "Spent"}

(* The call that launched a quote's payment has started and still holds   *)
(* its inputs Pending or Spent, through its own rollback (which misses    *)
(* proofs stored with no quote), crashes and the boot reconciliation.      *)
PayerHeld ==
    \A q \in Quotes : payer[q] # NoReq =>
        /\ req[payer[q]].pc # "Idle"
        /\ \A y \in req[payer[q]].inputs : proofState[y] \in {"Pending", "Spent"}

(* The calls that own stored inputs: those between add_proofs and          *)
(* make_payment, and the launchers of the quotes' payments.                *)
Holders ==
    {s \in Requests : req[s].pc \in {"Spendable", "Sig", "Pay"}} \cup
    {payer[q] : q \in {p \in Quotes : payer[p] # NoReq}}

(* add_proofs stores only fresh rows and no row is ever deleted again, so  *)
(* the holders' inputs are stored and pairwise disjoint, and the launcher  *)
(* of a quote's payment is a call on that quote.                           *)
HoldersDisjoint ==
    /\ \A q \in Quotes : payer[q] # NoReq => req[payer[q]].quote = q
    /\ \A s \in Holders : \A y \in req[s].inputs : proofState[y] # "Absent"
    /\ \A s1, s2 \in Holders : s1 # s2 => req[s1].inputs \cap req[s2].inputs = {}

(* Inductive invariant behind the ledger refinement, DeliveredInputsHeld   *)
(* and NoDoubleSpend.                                                      *)
LedgerInv == FinalizeInv /\ HeldInputs /\ PayerHeld /\ HoldersDisjoint

(* Only the launcher of a quote's payment gets a Paid answer from          *)
(* make_payment, so a call updating the lookup id or spending its inputs   *)
(* is the payer of its quote (a delivered payment is never relaunched).    *)
PaidCallIsPayer ==
    \A r \in Requests : req[r].pc \in {"Lookup", "Spend"} => payer[req[r].quote] = r

(* Between check_ys_spendable and make_payment a call's inputs are all     *)
(* Pending: no other call spends them and no rollback or reconciliation    *)
(* releases them.                                                          *)
ReservedBeforePay ==
    \A r \in Requests : req[r].pc \in {"Sig", "Pay"} =>
        \A y \in req[r].inputs : proofState[y] = "Pending"

(* Inductive invariant behind PayWithHeldInputs.                            *)
LaunchInv == LedgerInv /\ PaidCallIsPayer /\ ReservedBeforePay

(* The inductive invariant behind BurnOnlyByPayer, for either reading of   *)
(* remove_proofs: FinalizeInv and PaidCallIsPayer.                         *)
PaidInv == FinalizeInv /\ PaidCallIsPayer

-----------------------------------------------------------------------------
(* Refinement: the abstract ledger of MeltLedger seen through the proof    *)
(* rows.  A Spent row is a burnt coin, a Pending row a held one, and a     *)
(* proof with no row or an Unspent row (stored by add_proofs, not yet      *)
(* checked by check_ys_spendable) is free.                                 *)
CoinOf(st) ==
    CASE st = "Spent"   -> "Burnt"
      [] st = "Pending" -> "Held"
      [] OTHER          -> "Free"

Ledger == INSTANCE MeltLedger WITH pay <- lnState,
                                   coin <- [y \in Ys |-> CoinOf(proofState[y])]

(* The melt code implements the ledger: every await of melt_bolt11, every  *)
(* rollback, crash and reconciliation step either leaves the coins and     *)
(* payments alone or is a Hold, Release, Burn, Launch or Settle of the     *)
(* ledger; in particular process_melt_request burns only held inputs and   *)
(* only once a payment is delivered, and no step revives a Spent proof.    *)
LedgerRefinement == Ledger!Spec

(* Spec 4.G steps 4-5: the mint launches an outgoing payment only while    *)
(* every input paying for it is reserved: a step in which make_payment     *)
(* (melt.rs 516) makes a call the payer of a quote finds all of that       *)
(* call's inputs Pending, whatever other calls, their rollbacks            *)
(* (remove_proofs, line 394), crashes and the boot reconciliation did      *)
(* since its check_ys_spendable.                                           *)
PayWithHeldInputs ==
    [][\A q \in Quotes : payer'[q] # payer[q] =>
          \A y \in req[payer'[q]].inputs : proofState[y] = "Pending"]_vars


(* update_proofs_states(ys, Spent) burns a proof only for the call that    *)
(* launched a quote's payment, once that payment is delivered: a call that *)
(* learns of a delivered payment it did not launch (InvoiceAlreadyPaid, or *)
(* a Paid check answer, which returns Internal) and the boot              *)
(* reconciliation never burn its inputs (melt.rs 538-557, 627-646).        *)
BurnOnlyByPayer ==
    [][\A y \in Ys : proofState[y] # "Spent" /\ proofState'[y] = "Spent" =>
          \E q \in Quotes : /\ payer[q] # NoReq
                            /\ y \in req[payer[q]].inputs
                            /\ lnState[q] = "Succeeded"]_vars

=============================================================================
