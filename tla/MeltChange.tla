----------------------------- MODULE MeltChange -----------------------------
(***************************************************************************)
(* The change outputs of process_melt_request (crates/cdk/src/mint/        *)
(* melt.rs): once a melt's inputs are Spent and its quote Paid, the mint   *)
(* signs the wallet's blank outputs for the excess of the inputs over      *)
(* what the payment spent and the input fee.  Several melts run this at    *)
(* once, and the blinded messages of two melts may coincide (a wallet      *)
(* replays its outputs).                                                   *)
(*                                                                         *)
(* A melt request enters here with what melt_bolt11 computed: the input    *)
(* amount, the input fee, amount_spent = to_unit(pre.total_spent, ..)      *)
(* .unwrap_or_default() and its optional outputs.  Amounts are Amount      *)
(* (u64) of AmountBits bits; the subtraction of line 687 is unchecked and  *)
(* either panics or wraps, depending on the build's overflow checks.       *)
(***************************************************************************)
EXTENDS Naturals, Sequences, SequencesExt, FiniteSets, FiniteSetsExt, TLC

CONSTANTS
    Requests,           \* concurrent melts that reached process_melt_request
    Blinded,            \* blinded secrets B_ of the wallets' outputs
    NoReq,              \* no request
    AmountBits,         \* width of Amount (64 in the code)
    KeyOrder,           \* the keyset has keys for the amounts 2^0 .. 2^(KeyOrder-1)
    MaxInput,           \* bound on the input amount of one melt
    MaxFee,             \* bound on the input fee of one melt
    Overspend,          \* how far the backend's total_spent may exceed max_fee
    ConversionMayFail   \* may to_unit(total_spent, backend unit, quote unit) fail?

ASSUME ChangeAssumption ==
    /\ NoReq \notin Requests
    /\ AmountBits \in Nat \ {0}
    /\ KeyOrder \in 1..AmountBits
    /\ MaxInput \in 1..(2^AmountBits - 1)
    /\ MaxFee \in Nat /\ Overspend \in Nat
    /\ ConversionMayFail \in BOOLEAN

VARIABLES
    mreq,       \* mreq[r]: what the melt request r brings (fixed)
    pc,         \* pc[r]: the await r is at
    err,        \* err[r]: the error r returns, or "None"
    change,     \* change[r]: the amounts of the change signatures r returns
    signedFor   \* signedFor[b]: the melt whose blind signature on b is stored

vars == <<mreq, pc, err, change, signedFor>>

Amounts == 0..(2^AmountBits - 1)

(* The output lists a wallet may send: distinct blinded messages.           *)
OutputLists == {s \in BoundedSeq(Blinded, Cardinality(Blinded)) : IsInjective(s)}

(* A melt as process_melt_request sees it.  melt_bolt11 only gets here      *)
(* after the balance check (inputs >= amount + fee_reserve + fee) and a     *)
(* Paid answer; the backend pays at most amount + max_fee, plus Overspend.  *)
MeltRecords ==
    {m \in [inputs : 1..MaxInput, fee : 0..MaxFee, spent : Amounts, reported : Amounts,
            hasOutputs : BOOLEAN, outputs : OutputLists] :
        /\ m.fee <= m.inputs
        /\ m.spent <= m.inputs - m.fee + Overspend
        /\ m.reported \in IF ConversionMayFail THEN {m.spent, 0} ELSE {m.spent}
        /\ ~m.hasOutputs => m.outputs = <<>>}

Pcs == {"Lookup", "Sign", "Done"}

Errors == {"None", "BlindedMessageAlreadySigned", "Panic", "AmountKey", "Database"}

TypeOK ==
    /\ mreq \in [Requests -> MeltRecords]
    /\ pc \in [Requests -> Pcs]
    /\ err \in [Requests -> Errors]
    /\ change \in [Requests -> BoundedSeq(Amounts, Cardinality(Blinded))]
    /\ signedFor \in [Blinded -> Requests \cup {NoReq}]

-----------------------------------------------------------------------------
(* Amount arithmetic and the helpers of the change computation.            *)

(* Amount - Amount on u64 (cdk-common): with overflow checks the task      *)
(* panics, without them the difference wraps.                              *)
AmountSub(a, b) == (a - b) % (2^AmountBits)

(* Amount::split: one piece per set bit, in increasing order (spec 4.G     *)
(* step 9: canonical power-of-two denominations); piece i is 2^j for the   *)
(* set bit j with i - 1 set bits below it.                                 *)
Split(a) ==
    LET bits == {j \in 0..(AmountBits - 1) : (a \div 2^j) % 2 = 1}
    IN  [i \in 1..Cardinality(bits) |->
            2^(CHOOSE j \in bits : Cardinality({b \in bits : b < j}) = i - 1)]

(* slice::sort_by: s rearranged by a permutation under which every piece   *)
(* is at least (descending, b.cmp(a)) or at most (a.cmp(b)) the next one.  *)
SortBy(s, descending) ==
    LET n    == Len(s)
        perm == CHOOSE p \in [1..n -> 1..n] :
                    /\ \A i, j \in 1..n : p[i] = p[j] => i = j
                    /\ \A i \in 1..(n - 1) : IF descending THEN s[p[i]] >= s[p[i + 1]]
                                                       ELSE s[p[i]] <= s[p[i + 1]]
    IN  [i \in 1..n |-> s[perm[i]]]

(* Mutant: the pieces sorted ascending (a.cmp(b) for b.cmp(a)).           *)
ChangePiecesAscending(amounts, nOutputs) ==
    IF nOutputs < Len(amounts) THEN SortBy(amounts, FALSE) ELSE amounts

(* melt.rs 690-703: with fewer outputs than pieces the pieces are sorted   *)
(* descending so that the largest are signed; zip signs the first          *)
(* min(outputs, pieces) of them.                                           *)
ChangePieces(amounts, nOutputs) ==
    IF nOutputs < Len(amounts) THEN SortBy(amounts, TRUE) ELSE amounts

(* Mutant: the fee left out of the change target.                           *)
ChangeTargetNoFee(m) == AmountSub(m.inputs, m.reported)

(* melt.rs 687: proofs_amount - total_spent - fee, left to right.  The     *)
(* first subtraction is guarded by line 665; the second is not.            *)
ChangeTarget(m) == AmountSub(AmountSub(m.inputs, m.reported), m.fee)

(* Does the second subtraction underflow?                                  *)
Underflows(m) == m.inputs - m.reported < m.fee

(* Mutant: add_blind_signatures that overwrites signatures already stored. *)
StoredAlreadyLenient(bs) == {}

(* add_blind_signatures (spec 4.B): fails if any blinded secret already    *)
(* has a stored signature; the outputs of a melt are written together.     *)
StoredAlready(bs) == {b \in bs : signedFor[b] # NoReq}

-----------------------------------------------------------------------------
Init ==
    /\ mreq \in [Requests -> MeltRecords]
    /\ pc = [r \in Requests |-> "Lookup"]
    /\ err = [r \in Requests |-> "None"]
    /\ change = [r \in Requests |-> <<>>]
    /\ signedFor = [b \in Blinded |-> NoReq]

(* melt.rs 665-683: change only if proofs_amount > total_spent and the     *)
(* wallet sent outputs; then get_blind_signatures on all of them, and any  *)
(* signature already stored ends the call with BlindedMessageAlreadySigned. *)
LookupSignatures(r) ==
    LET m == mreq[r] IN
    /\ pc[r] = "Lookup"
    /\ IF m.inputs > m.reported /\ m.hasOutputs
       THEN IF StoredAlready(Range(m.outputs)) # {}
            THEN /\ pc' = [pc EXCEPT ![r] = "Done"]
                 /\ err' = [err EXCEPT ![r] = "BlindedMessageAlreadySigned"]
            ELSE /\ pc' = [pc EXCEPT ![r] = "Sign"]
                 /\ UNCHANGED err
       ELSE /\ pc' = [pc EXCEPT ![r] = "Done"]
            /\ UNCHANGED err
    /\ UNCHANGED <<mreq, change, signedFor>>

(* melt.rs 685-725: get_proofs_fee, the change target, the pieces, one     *)
(* blind_sign per zipped (piece, output) (failing for a piece the keyset   *)
(* has no key for), then add_blind_signatures of the signed outputs.       *)
SignChange(r) ==
    LET m      == mreq[r]
        pieces == ChangePieces(Split(ChangeTarget(m)), Len(m.outputs))
        k      == IF Len(pieces) <= Len(m.outputs) THEN Len(pieces) ELSE Len(m.outputs)
        signed == SubSeq(pieces, 1, k)
        outs   == Range(SubSeq(m.outputs, 1, k))
    IN
    /\ pc[r] = "Sign"
    /\ pc' = [pc EXCEPT ![r] = "Done"]
    /\ \/ /\ Underflows(m)
          /\ err' = [err EXCEPT ![r] = "Panic"]
          /\ UNCHANGED <<change, signedFor>>
       \/ /\ \E i \in 1..k : signed[i] >= 2^KeyOrder
          /\ err' = [err EXCEPT ![r] = "AmountKey"]
          /\ UNCHANGED <<change, signedFor>>
       \/ /\ \A i \in 1..k : signed[i] < 2^KeyOrder
          /\ StoredAlready(outs) # {}
          /\ err' = [err EXCEPT ![r] = "Database"]
          /\ UNCHANGED <<change, signedFor>>
       \/ /\ \A i \in 1..k : signed[i] < 2^KeyOrder
          /\ StoredAlready(outs) = {}
          /\ signedFor' = [b \in Blinded |-> IF b \in outs THEN r ELSE signedFor[b]]
          /\ change' = [change EXCEPT ![r] = signed]
          /\ UNCHANGED err
    /\ UNCHANGED mreq

Next == \E r \in Requests : LookupSignatures(r) \/ SignChange(r)

Spec == Init /\ [][Next]_vars

-----------------------------------------------------------------------------
(* Properties.                                                             *)

SeqSum(s) == FoldSeq(LAMBDA x, y : x + y, 0, s)

(* Reference for the change computation: the most change k outputs can    *)
(* carry, over every choice of at most k canonical pieces of target.        *)
BestChange(target, k) ==
    Max({SumSet(S) : S \in {T \in SUBSET Range(Split(target)) : Cardinality(T) <= k}})

(* The mint never issues more change than the melt left over: the change   *)
(* signed for a melt, plus what its payment really spent and the input     *)
(* fee, is at most its inputs (process_melt_request, from the amount_spent *)
(* melt_bolt11 hands it to the blind signatures it stores).                *)
NoChangeInflation ==
    \A r \in Requests :
        change[r] # <<>> => SeqSum(change[r]) + mreq[r].spent + mreq[r].fee <= mreq[r].inputs

(* Spec 4.G step 9: a melt that returns change returns as much of          *)
(* inputs - spent - fee as its outputs can carry (the descending sort when *)
(* the outputs are too few, and zip).                                      *)
OptimalChange ==
    \A r \in Requests :
        LET m == mreq[r] IN
        /\ pc[r] = "Done" /\ err[r] = "None"
        /\ m.hasOutputs /\ m.inputs > m.reported /\ ~Underflows(m)
        => SeqSum(change[r]) = BestChange(m.inputs - m.reported - m.fee, Len(m.outputs))

(* Spec 3 invariant 5: a blinded message is signed for one melt only; the  *)
(* signatures a melt returns are the ones stored for it, even when two     *)
(* melts with the same outputs both pass get_blind_signatures before       *)
(* either stores (melt.rs 673 and 715).                                    *)
SignedOnce ==
    \A r \in Requests : \A i \in 1..Len(change[r]) :
        signedFor[mreq[r].outputs[i]] = r

(* The inductive invariant behind SignedOnce: the state keeps its shape, a *)
(* melt returns change only once it is Done, never more pieces than it     *)
(* sent outputs, and each returned piece is stored as signed for it.  A    *)
(* second melt with the same outputs finds them signed at                  *)
(* add_blind_signatures (melt.rs 715) even if get_blind_signatures (673)   *)
(* found nothing, so no later step can take them over.                     *)
SignedInv ==
    /\ mreq \in [Requests -> MeltRecords]
    /\ pc \in [Requests -> Pcs]
    /\ signedFor \in [Blinded -> Requests \cup {NoReq}]
    /\ DOMAIN change = Requests
    /\ \A r \in Requests :
          /\ Len(change[r]) \in 0..Len(mreq[r].outputs)
          /\ DOMAIN change[r] = 1..Len(change[r])
          /\ pc[r] # "Done" => change[r] = <<>>
    /\ SignedOnce

=============================================================================
