# A TLA+ model of the cdk-bitcredit mint's melt path

These modules model the part of the Cashu mint in `src/` that redeems proofs for
an outgoing Lightning payment. That part is `melt_bolt11` and its helpers in
`crates/cdk/src/mint/melt.rs`. The model also covers the boot of the
`cdk-mintd` process (`crates/cdk-mintd/src/main.rs`), which reconciles Pending
melt quotes after a crash and only then serves requests again, or exits when
any step of that fails. TLC checks the
model on a small instance, and TLAPS proves its main safety results and a
refinement for every value of the constants.

## The system

The components come from `spec.md` §2.

| Part | In `src/`? | Here |
|---|---|---|
| A Keyset and blind signatures | no | `blind_sign` abstracted to success or a missing key in `MeltChange.tla`; the cryptography is not modelled |
| B Persistence port | no | spec-modelled as atomic steps on the proof rows and the melt quotes |
| C Payment port | no | spec-modelled: one outgoing payment per quote, and what `make_payment` and `check_outgoing_payment` may answer about it |
| D Pub/sub | calls in melt.rs | not modelled: notifications change no mint state |
| E Verification | calls in melt.rs | abstracted to a request's defect (bad inputs, SigAll) plus the balance check with amounts and fees |
| F Mint quotes | no | not yet |
| G Melt quotes | melt.rs | `Melt.tla`, its change outputs in `MeltChange.tla`, and its promise in `MeltLedger.tla` |
| H Swap | no | not yet |
| I Startup reconciler | main.rs 292–297 | melt half in `Melt.tla` |
| J Internal settlement | called at melt.rs 459 | not yet |

How the parts interact on one call of `melt_bolt11`:

1. The call first runs `verify_melt_request` (melt.rs 296–383):
   - it exchanges the quote's state for Pending (B);
   - it verifies the inputs (E) and checks the balance;
   - it stores the inputs with `add_proofs(inputs, None)`;
   - it moves them to Pending with `check_ys_spendable`;
   - it rejects SigAll.
2. It calls `make_payment` (C). After an answer of Unknown, Failed or an error, it calls `check_outgoing_payment`.
3. If the payment is reported Paid, `process_melt_request` marks the inputs Spent and the quote Paid (B).
4. Every error before the payment calls `process_unpaid_melt`, and so do a failed payment and an `InvoiceAlreadyPaid` error. That call removes the proofs with `remove_proofs(ys, Some(quote))` and sets the quote Unpaid.
5. Many calls run at once on the tokio runtime. A call can be suspended at every `.await`, and between two awaits it touches no shared state.

## Modules

- `Melt.tla`: the melt component with its environment: the Lightning network, crashes and the boot.
  - **State:**
    - `proofState[y]` and `proofQuote[y]` are the proof rows, with `Absent` meaning no row;
    - `quoteState[q]` is the melt quotes;
    - `lnState[q]` and `payer[q]` are the real fate of the outgoing payment and the call that launched it;
    - `req[r]` is one `melt_bolt11` call: the await it is suspended at (`pc`), its quote, inputs, defect, the error it returns, and the last check answer;
    - `phase`, `toReconcile` and `crashes` describe the process.
  - **Actions:** one per await of the code, named after it. Each is listed in `PROJECT.json` "map" with its source lines:
    - `VerifyMeltQuoteState`
    - `VerifyMeltInputs`
    - `CheckYsSpendable`
    - `VerifySigFlag`
    - `MakePayment`
    - `CheckPaymentState`
    - `UpdateLookupId`
    - `ProcessMeltSpend`
    - `ProcessMeltPaid`
    - `ProcessUnpaidRemove`
    - `ProcessUnpaidQuote`
  - **Environment:**
    - `PaymentSettles`: an in-flight payment succeeds or fails;
    - `Crash`: every running call is lost, and the store and the Lightning node keep their state;
    - `Reboot` and `CheckPendingMeltQuote`: `check_pending_melt_quotes`, §4.I;
    - `BootAbort`: building the mint or a reconciliation returns `Err`, and the `?` at main.rs 284, 292 or 297 ends `main`. The supervisor then restarts mintd. This can happen at any point of the reconciliation, with part of the quotes done;
    - `Serve`: the HTTP server starts.
  - `CheckYsSpendable` fails when a row is no longer Unspent: another call spent it, or reserved it, meanwhile. The `?` at line 359 then sends the call to `process_unpaid_melt`. This path is only reachable with a store whose `remove_proofs` ignores the quote binding, and the `melt_unbound_store` run exercises it.
  - **Data abstraction:**
    - a proof is its `y`;
    - amounts are small naturals;
    - the fee is `ceil(n * ppk / 1000)` for one keyset;
    - faults of the store itself (the `Database(err)` arm at line 355, the `?` at 303 and at 395) are not modelled. A failing `remove_proofs` at 395 would skip the Unpaid update at 397 and leave the quote Pending until the next boot;
    - the unit conversions and the `handle_internal_melt_mint`, `check_melt_expected_ln_fees` and backend-lookup error paths are not separate steps. Their rollback is the same as the modelled SigAll rollback: an error after the inputs are Pending, followed by `process_unpaid_melt`.
  - **The `RemoveChecksQuote` constant:** the persistence code is not in `src/`, so it chooses between two readings of `remove_proofs`:
    - TRUE is the spec §4.B reading: remove only Pending proofs bound to the quote;
    - FALSE is a store that ignores the binding.
- `MCMelt.tla`: the TLC instance:
  - three requests, two quotes and two proofs of value 2 each;
  - quote amount 1, fee reserve 0, and `input_fee_ppk` 1000, so one unit per input;
  - at most one crash;
  - with a quote of 1 and one unit of fee per input, a call with one proof and a call with both are both balanced, so two calls can hold disjoint inputs or overlapping ones;
  - symmetry over requests, over quotes and over proofs. This is sound because no property or constant tells two requests apart, and the quotes have equal amounts, and so do the proofs;
  - `MCMeltUnboundStore.cfg` gives the proofs amounts 1 and 2 instead, with no symmetry over them. Then `{y1}` is unbalanced, so the `Unbalanced` error happens too.
- `MeltProofs.tla`: the TLAPS proofs of type correctness and `FinalizeSafe`.
- `MeltLedger.tla`: the abstract specification of what the melt side promises about value.
  - **State:** `pay[q]` is quote q's outgoing payment, and `coin[y]` is Free, Held or Burnt.
  - **Actions:**
    - `Hold` holds free coins, and `Release` frees held ones;
    - `Burn` burns held coins, and only while some payment is delivered;
    - `Launch` starts a payment, and `Settle` settles one.
  - A burnt coin never comes back.
  - `Melt.tla` instantiates it as `Ledger`. The mapping is `pay <- lnState`, and the coin is Burnt for a Spent row, Held for a Pending row, and Free otherwise (no row, or an Unspent row).
  - The property `LedgerRefinement == Ledger!Spec` states that every step of the melt model is a ledger step or a stutter.
- `LedgerProofs.tla`: the TLAPS proofs of the ledger invariant, the refinement, `NoDoubleSpend` and `DeliveredInputsHeld`.
- `LaunchProofs.tla`: the TLAPS proofs of `LaunchInv` and of the action property `PayWithHeldInputs`.
- `MeltChange.tla`: the change outputs of `process_melt_request` (melt.rs 662–725) for several concurrent melts.
  - **State:**
    - `mreq[r]`: what melt r brings, fixed at the start. It holds the input amount, the input fee, the real `spent`, the `reported` amount_spent of line 588, and the optional output list of distinct blinded messages.
    - `pc[r]` and `err[r]`: where call r is, and the error it returns.
    - `change[r]`: the amounts it returns change for.
    - `signedFor[b]`: the melt whose signature on blinded message b is stored.
  - **Actions:**
    - `LookupSignatures`: the guard of line 665, then `get_blind_signatures` (671–683).
    - `SignChange`: the fee, the target of line 687, `split`, the descending sort when the outputs are too few, one `blind_sign` per zipped pair, then `add_blind_signatures`. It has four outcomes:
      - a panic on the underflow of line 687 (builds with overflow checks);
      - a missing key for a piece;
      - a database error when an output was signed meanwhile;
      - success.
  - **Amounts:** Amount is kept at `AmountBits` bits, so a build without overflow checks wraps the subtraction. Amounts from 2^`KeyOrder` upward have no key.
  - `Split` and `AmountSub` are spec-modelled, because `Amount` lives in cdk-common, which is not in `src/`.
  - `Split(a)` lists the powers of two of `a`'s binary digits in ascending order: piece i is the bit with i-1 set bits below it.
  - `SortBy(s, descending)` is `sort_by` (line 701): `s` permuted so that each element is at least (descending) or at most the next one. It is written with CHOOSE rather than TLC's `SortSeq`, so that the prover can read the length and domain of the result.
- `MeltChangeProofs.tla`: the TLAPS proof of `SignedOnce`, through its inductive invariant `SignedInv`.
- `MCMeltChange.tla`: two melts and two blinded messages, with symmetry over both.

## Runs

The `Melt` runs use `MCMelt` and the same constants, with two exceptions. `MCMeltUnboundRemove.cfg` sets `RemoveChecksQuote = FALSE`. `MCMeltUnboundStore.cfg` sets it too, uses the proofs of amounts 1 and 2, and allows no crash (`MaxCrashes = 0`). The two properties it checks are about payment and burning, not recovery, and `melt_safety` already covers the crash paths. Without crashes the state space stays small enough for the mutant runs. The change runs use `MCMeltChange` with 3-bit amounts, keys for 1 and 2, inputs up to 5 and fees up to 2.

| Run | cfg | Expect | Checks |
|---|---|---|---|
| melt_safety | MCMelt.cfg | pass (about 1.64M distinct states, 1.5 min) | `FinalizeInv`, `PaidInv`, `FinalizeOnlyAfterPayment`, `NoDoubleSpend`, `DeliveredInputsHeld`, `BurnOnlyByPayer` |
| paid_quote_final | MCMeltPaidFinal.cfg | violation | `QuotePaidIsFinal` |
| one_melt_per_quote | MCMeltOneMelt.cfg | violation | `OneMeltPerQuote` |
| ack_after_finalize | MCMeltAck.cfg | violation | `AckAfterFinalize` |
| pending_in_flight | MCMeltPendingInFlight.cfg | violation | `PendingProofsInFlight` |
| unbound_remove | MCMeltUnboundRemove.cfg | violation | `DeliveredInputsHeld` |
| stranded_unspent | MCMeltStranded.cfg | violation | `UnspentRowsInFlight` |
| melt_ledger | MCMeltLedger.cfg | pass (about 1.64M distinct states, 2 min) | `LedgerInv`, `LaunchInv`, `LedgerRefinement`, `PayWithHeldInputs` |
| melt_unbound_store | MCMeltUnboundStore.cfg | pass (about 770k distinct states, 35 s) | `PaidInv`, `BurnOnlyByPayer` |
| melt_change | MCMeltChange.cfg | pass (about 254k distinct states, 15 s) | `NoChangeInflation`, `SignedOnce` |
| change_optimal | MCMeltChangeOptimal.cfg | pass | `OptimalChange` |
| change_conversion | MCMeltChangeConvert.cfg | violation | `NoChangeInflation` |

What the passing runs show:

- **`FinalizeOnlyAfterPayment`:** a quote is Paid and a proof is Spent only behind a payment the backend delivered.
- **`NoDoubleSpend`:** two delivered payments never share an input.
- **`DeliveredInputsHeld`:** once a payment is delivered, its inputs stay Pending or Spent, through every rollback, crash and reconciliation.
- **`FinalizeInv`:** the inductive invariant behind the proof.
- **`PaidInv`:** `FinalizeInv` plus `PaidCallIsPayer` (below): a call past a Paid answer is the payer of its quote. It needs none of the ledger facts, so it holds under either reading of `remove_proofs`. TLC checks it, and `BurnOnlyByPayer`, with each reading: `melt_safety` uses the quote-checking store, and `melt_unbound_store` uses a store that ignores the binding. In that second run another call's rollback can release the payer's inputs and a later call can store them again. On that store `NoDoubleSpend` fails too, which is finding 5 carried one step further.
- **`BurnOnlyByPayer`** (action property): a proof turns Spent (`process_melt_request`, lines 538–557 and 627–646) only as an input of the payer of a quote whose payment was delivered. A Paid answer from the check after `make_payment` (line 528) comes from the quote's payment, which may have been launched by another call; finalising on it, as spec §4.G step 7 asks, would burn this call's inputs for that other call's payment. The mutant below does exactly that, and TLC finds it, while `FinalizeOnlyAfterPayment` and `NoDoubleSpend` still hold under it.
- **`LedgerInv`:** the inductive invariant behind `NoDoubleSpend` and the refinement. It says three things:
  - a call between `check_ys_spendable` and finalisation holds its inputs Pending or Spent;
  - the payer of a quote is such a call;
  - the inputs of two holders are disjoint.
- **`LaunchInv`:** `LedgerInv` plus two facts:
  - `PaidCallIsPayer`: a call at the lookup-id update or at `process_melt_request` is the payer of its quote. Only the call that launched the payment gets Paid from `make_payment`, and a delivered payment is never launched again.
  - `ReservedBeforePay`: between `check_ys_spendable` and `make_payment`, all of a call's inputs are Pending. No other call's rollback or spend touches them.
- **`PayWithHeldInputs`** (action property): `make_payment` launches a payment (line 517) only for a call whose inputs are all Pending in that step (spec §4.G steps 4–5).
- **`LedgerRefinement`:** `Melt` implements `MeltLedger`.
- **`NoChangeInflation`:** the change a melt gets, plus what its payment spent and the input fee, never exceeds its inputs. This holds even when the subtraction at line 687 underflows. It panics in builds with overflow checks. Without them it wraps to an amount whose top piece has no key, so `blind_sign` fails.
- **`SignedOnce`:** a blinded message is signed for one melt only (spec §3 invariant 5). This holds even though two melts with the same outputs can both pass `get_blind_signatures` (line 673) before either stores. `add_blind_signatures` refuses the second, and that melt returns a database error.
- **`OptimalChange`:** a melt returns as much change as its outputs can carry. TLC compares the result with a brute-force reference, `BestChange`, which takes the best subset of at most k canonical pieces.

Every property of a passing run has a mutant in `PROJECT.json`, a plausible bug that TLC catches:

- treating a make_payment Unknown as Paid;
- finalising on a Paid answer of the check after `make_payment`;
- an `add_proofs` that only refuses Spent rows;
- an `add_proofs` that binds the inputs to the quote;
- a `remove_proofs` that ignores the quote;
- a change target without the fee;
- an `add_blind_signatures` that overwrites;
- the change pieces sorted ascending.

Why these bounds are enough:

- Three requests let two calls race on one quote while a third rolls back.
- Two proofs let inputs overlap between calls, or not.
- Two quotes let payments of different quotes share an input.
- One crash reaches every crash point of a call, and then the reconciliation. `BootAbort` is not bounded, so the reconciliation can also stop after any of its quotes and start over.

`CHECK_DEADLOCK FALSE`: each request is one call. Once every call is Done, the system really does stop.

No run assumes fairness, and no liveness property is stated. After a crash the mint serves again only once `check_pending_melt_quotes` returns Ok. That depends on the backend and the store eventually answering, which the code cannot ensure. It also depends on the reconciler's own code, which is not in `src/`. A liveness run with a reconciler that always goes on would hold by construction, whatever `main.rs` does.

The melt bounds of `MCMeltChange` are chosen so that every outcome of `SignChange` happens: an underflow needs a fee of 2 against an excess of 1, and a missing key needs a target of 4 or more.

## Findings

Each finding is a violation run. `PROJECT.json` "findings" has the details.

1. **A Paid quote is downgraded.** A call on a Paid quote first writes Pending over it (melt.rs 300–303) and then fails with `PaidQuote` (line 308). Its rollback (`process_unpaid_melt`, lines 442–456 and 397–400) then sets the quote Unpaid. This contradicts spec §3 invariant 4.
2. **Two owners of one quote.**
   - Call A holds a Pending quote.
   - Call B fails with `PendingQuote`, and its rollback sets the quote Unpaid.
   - Call C then takes the quote as well.

   This contradicts spec §5.
3. **A Paid check answer is not finalised.** When `make_payment` answers Unknown, Failed or an error, and the check then answers Paid, the call returns Internal with the inputs Pending (lines 525–531 and 551–557). Spec §4.G step 7 says it finalises.
4. **Rolled-back inputs stay Pending.** `add_proofs(inputs, None)` (line 346) binds the inputs to no quote. The quote-bound `remove_proofs` of the rollback (line 394) therefore never removes them.
5. **A store that ignores the binding releases delivered inputs.** `make_payment` answers Unknown, the check also answers Unknown, and the code rolls back (lines 563–573). Spec §4.G step 7 says to leave the inputs Pending instead. With `RemoveChecksQuote = TRUE`, the quote check in `remove_proofs` hides this, but only because of finding 4.
6. **A crash strands the inputs.** A crash between `add_proofs` (line 346) and `check_ys_spendable` (line 359) leaves the inputs stored Unspent with nobody to release them. The boot reconciliation does not see them, and every later `add_proofs` of those proofs fails with Duplicate.

7. **A failed unit conversion returns the spent amount as change.** `to_unit(total_spent, ..).unwrap_or_default()` (line 588) turns a failed conversion into 0 spent, and `process_melt_request` then signs change for `inputs - 0 - fee`. The comment at lines 584–586 says the conversion cannot fail, and also that the proofs should still be burnt. Spec §4.G step 9 bounds the change by inputs − spent − fee. The run assumes the conversion may fail, and shows the consequence if it does.

## Proofs (checked by `tlapm`)

Every proof takes `Next` as it is now. That includes the boot abort (`BootAbort`) and the error branch of `CheckYsSpendable`, where the call rolls back because an input is already Pending or Spent.

`MeltProofs.tla` holds three theorems (the third, `FinalizeInvariant`, is below):

- **`TypeCorrect`:** `Spec => []TypeOK`.
  - One step per action of `Next`.
  - Lemmas about `Goto` and the record updates keep each step small.
- **`FinalizeSafe`:** `Spec => []FinalizeOnlyAfterPayment`. It holds for all values of the constants: any number of requests, quotes, proofs and crashes, any `RemoveChecksQuote`.
  - `FinalizeOnlyAfterPayment` is not inductive on its own. It is strengthened to `FinalizeInv`, which TLC also checks in the passing run. `FinalizeInv` adds three facts:
    - `NoQuoteBinding`: no proof is bound to a quote. Therefore the reconciliation never spends or removes a proof.
    - `IdleHasNoInputs`: a call that has not started presents no inputs.
    - `PaidAnswerDelivered`: a call past a Paid answer has a delivered payment behind it.
  - `SucceededStable` shows that a delivered payment stays delivered.
  - `StepPreserves` reduces preservation to seven per-step facts. `NextFinalizeInv` discharges them for each action.

`LedgerProofs.tla` (EXTENDS `MeltProofs`) holds four theorems. Each assumes `RemoveChecksQuote`, the spec §4.B reading of `remove_proofs`. Without it, run `unbound_remove` shows that `DeliveredInputsHeld` fails.

- **`LedgerInvariant`:** `Spec => []LedgerInv`.
  - `NoDoubleSpend` is not inductive: a rollback could release inputs that another call holds. `LedgerInv` adds the facts that rule this out:
    - `HeldInputs`: a call holds its inputs;
    - `PayerHeld`: the payer of a quote holds its inputs;
    - `HoldersDisjoint`: no two holders share an input.
  - Under `RemoveChecksQuote` and `NoQuoteBinding`, `remove_proofs` removes nothing (lemma `NothingRemoved`).
  - The rows only move forward, Unspent→Pending→Spent (`RowsMoveForward`). Therefore a holder keeps its inputs.
  - The `add_proofs` duplicate check makes a new holder's inputs disjoint from every row (`EnterHolding`).
  - One lemma covers each conjunct, and `NextLedgerInv` combines them.
- **`LedgerRefines`:** `Spec => LedgerRefinement`.
  - The initial state maps to `Ledger!Init`.
  - `NextRefines` matches every step with `Hold` (`CheckYsSpendable`), `Burn` (`ProcessMeltSpend`, behind the delivered payment of `PaidAnswerDelivered`), `Launch` (`MakePayment`), `Settle` (`PaymentSettles`) or a stutter.
  - It uses `LedgerInv` and `FinalizeInv`.
- **`NoDoubleSpendSafe`** and **`DeliveredInputsSafe`:** these two properties of `melt_safety` follow from `LedgerInv` and `FinalizeInv`.

`MeltProofs.tla` also states **`FinalizeInvariant`**, `Spec => []FinalizeInv`: the invariant that the `melt_safety` run checks.

`LaunchProofs.tla` (EXTENDS `LedgerProofs`) holds two theorems, both under `RemoveChecksQuote`:

- **`LaunchInvariant`:** `Spec => []LaunchInv`.
  - `PcEntries` lists what lies behind each move of a call:
    - into `Sig`: its inputs are made Pending;
    - into `Pay`: the call was at `Sig`;
    - into `Lookup`: the call is made the payer of its quote;
    - into `Spend`: the call was at `Lookup`.
  - `PaidCallIsPayer` is preserved for two reasons. A call that is already past Paid keeps its quote (`CallsKeepInputs`). Its payment is delivered (`PaidAnswerDelivered`), and `make_payment` names a new payer only for an idle or failed payment (`PayerLaunch`).
  - `ReservedBeforePay` needs the ledger invariant. A Pending row leaves Pending only when a call at `Spend` spends it (`PendingLeaves`). That call is the payer of its quote (`PaidCallIsPayer`), so it is a holder. A call at `Sig` or `Pay` is also a holder, and by `HoldersDisjoint` the two share no input.
- **`PayWithHeldInputsSafe`:** `Spec => PayWithHeldInputs`. A new payer is a call at `Pay` (`PayerChange`), and by `ReservedBeforePay` its inputs are Pending.

`LaunchProofs.tla` also holds two theorems that do not assume `RemoveChecksQuote`:

- **`PaidInvariant`:** `Spec => []PaidInv`. Preserving `PaidCallIsPayer` needs only `FinalizeInv`: the argument above (`CallsKeepInputs`, `PaidAnswerDelivered`, `PayerLaunch`) never uses the ledger facts.
- **`BurnOnlyByPayerSafe`:** `Spec => BurnOnlyByPayer`. A row turns Spent only in a step of a call at `Spend` with the proof among its inputs (`SpentOnlyBySpend`: no quote binding, so the reconciliation never spends). A call at `Spend` is the payer of its quote by `PaidCallIsPayer`, and its payment is delivered by `PaidAnswerDelivered`.

`MeltChangeProofs.tla` proves, for all values of the constants:

- **`SignedOnceSafe`:** `Spec => []SignedOnce`, through `SignedInvariant`, `Spec => []SignedInv`.

`SignedOnce` alone is not inductive: a second melt with the same outputs could seem to take them over. `SignedInv` adds three facts:
- only a Done melt has change;
- its change has at most as many pieces as it has outputs;
- the state keeps its shape.

In `SignChange`, `add_blind_signatures` fails when an output is already signed. So a successful step writes only outputs that were unsigned, and no other melt's change is among them. The lemmas `SplitShape` and `PiecesShape` give the length and domain of the pieces that `Split` and `SortBy` return.

What stays with TLC:

- `NoChangeInflation` and `OptimalChange`: they compare sums over sequences (`SeqSum` is a fold), so a proof would need induction over the data, which the provers cannot instantiate;
- the violation runs.

`PaidInv` and `BurnOnlyByPayer` hold under both readings of the store. `PaidInvariant` and `BurnOnlyByPayerSafe` do not assume `RemoveChecksQuote`. The `melt_unbound_store` run also checks both properties on a store that ignores the binding.

`MeltChange`'s `TypeOK` is neither proved nor listed in any run. The piece values come from CHOOSE in `Split` and `SortBy`. A proof would need a witness that some order exists, which is again an induction over data. The proof of `SignedInv` needs only lengths and domains, and it gets them without that witness.

## Not modelled yet, and the plan

1. **Quote creation:**
   - `get_melt_bolt11_quote`;
   - `check_melt_request_acceptable`;
   - `check_melt_expected_ln_fees`.

   These are planned as pure operators over bounded amounts.
2. **Composing `MeltChange` with `Melt`.** It is a separate module today. It takes the melt records `melt_bolt11` hands over as its initial states.
3. **Mint quotes, the internal settlement shortcut, and the swap.** These are spec-modelled, because their code is not in `src/`. They will be composed with `Melt` over the shared proof store.

Pub/sub, configuration, HTTP, RPC and the cdk-js bindings hold no mint state, and stay out.
