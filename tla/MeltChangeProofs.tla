-------------------------- MODULE MeltChangeProofs --------------------------
(***************************************************************************)
(* Proofs about the change outputs of process_melt_request (MeltChange).   *)
(***************************************************************************)
EXTENDS MeltChange, FiniteSetTheorems, TLAPS

(* A function on 1..n is a sequence of length n.                           *)
LEMMA LenOfDomain ==
  ASSUME NEW n \in Nat, NEW f, DOMAIN f = 1..n
  PROVE  Len(f) = n
  OBVIOUS

(* Amount::split yields as many pieces as its argument has set bits below  *)
(* AmountBits: a sequence whatever the argument.                            *)
LEMMA SplitShape ==
  ASSUME NEW a
  PROVE  /\ Len(Split(a)) \in Nat
         /\ DOMAIN Split(a) = 1..Len(Split(a))
  <1> DEFINE bits == {j \in 0..(AmountBits - 1) : (a \div 2^j) % 2 = 1}
  <1>1. IsFiniteSet(0..(AmountBits - 1))
    BY ChangeAssumption, FS_Interval
  <1>2. Cardinality(bits) \in Nat
    BY <1>1, FS_Subset, FS_CardinalityType
  <1>3. DOMAIN Split(a) = 1..Cardinality(bits)
    BY DEF Split
  <1>4. QED
    BY <1>2, <1>3, LenOfDomain
(* The descending sort of line 702 keeps the number of pieces.             *)
LEMMA PiecesShape ==
  ASSUME NEW s, NEW n \in Nat, DOMAIN s = 1..n, NEW nOutputs
  PROVE  /\ Len(ChangePieces(s, nOutputs)) = n
         /\ DOMAIN ChangePieces(s, nOutputs) = 1..n
  <1>1. Len(s) = n
    BY LenOfDomain
  <1>2. DOMAIN SortBy(s, TRUE) = 1..n
    BY <1>1 DEF SortBy
  <1>3. DOMAIN ChangePieces(s, nOutputs) = 1..n
    BY <1>2 DEF ChangePieces
  <1>4. QED
    BY <1>3, LenOfDomain

(* The outputs of a melt are a sequence of at most |Blinded| distinct      *)
(* blinded messages.                                                        *)
LEMMA OutputsShape ==
  ASSUME NEW m \in MeltRecords
  PROVE  /\ m.outputs \in Seq(Blinded)
         /\ Len(m.outputs) \in Nat
  <1>1. m.outputs \in BoundedSeq(Blinded, Cardinality(Blinded))
    BY DEF MeltRecords, OutputLists
  <1>2. PICK n \in 0..Cardinality(Blinded) : m.outputs \in [1..n -> Blinded]
    BY <1>1 DEF BoundedSeq, SeqOf
  <1>3. n \in Nat
    BY <1>2
  <1>4. QED
    BY <1>2, <1>3, LenOfDomain

LEMMA InitSignedInv == Init => SignedInv
  <1> SUFFICES ASSUME Init PROVE SignedInv
    OBVIOUS
  <1>1. \A r \in Requests : mreq[r] \in MeltRecords
    BY DEF Init
  <1>2. \A r \in Requests : Len(mreq[r].outputs) \in Nat
    BY <1>1, OutputsShape
  <1>3. QED
    BY <1>2 DEF Init, SignedInv, SignedOnce, Pcs

(* get_blind_signatures moves a melt on and stores nothing.                *)
LEMMA LookupSignedInv ==
  ASSUME SignedInv, NEW r \in Requests, LookupSignatures(r)
  PROVE  SignedInv'
  <1>1. /\ UNCHANGED <<mreq, change, signedFor>>
        /\ pc[r] = "Lookup"
        /\ pc' \in {[pc EXCEPT ![r] = "Done"], [pc EXCEPT ![r] = "Sign"]}
    BY DEF LookupSignatures
  <1>2. pc' \in [Requests -> Pcs]
    BY <1>1 DEF SignedInv, Pcs
  <1>3. \A s \in Requests : pc'[s] # "Done" => change'[s] = <<>>
    BY <1>1 DEF SignedInv
  <1>4. QED
    BY <1>1, <1>2, <1>3 DEF SignedInv, SignedOnce

(* The signing step: one of the three errors stores nothing, and success   *)
(* stores the signatures of the first k outputs for r, none of which was   *)
(* signed before (add_blind_signatures refuses otherwise).                 *)
LEMMA SignSignedInv ==
  ASSUME SignedInv, NEW r \in Requests, SignChange(r)
  PROVE  SignedInv'
  <1> DEFINE m      == mreq[r]
             pieces == ChangePieces(Split(ChangeTarget(m)), Len(m.outputs))
             k      == IF Len(pieces) <= Len(m.outputs) THEN Len(pieces) ELSE Len(m.outputs)
             signed == SubSeq(pieces, 1, k)
             outs   == Range(SubSeq(m.outputs, 1, k))
  <1>1. /\ pc[r] = "Sign"
        /\ pc' = [pc EXCEPT ![r] = "Done"]
        /\ mreq' = mreq
        /\ \/ UNCHANGED <<change, signedFor>>
           \/ /\ StoredAlready(outs) = {}
              /\ signedFor' = [b \in Blinded |-> IF b \in outs THEN r ELSE signedFor[b]]
              /\ change' = [change EXCEPT ![r] = signed]
    BY DEF SignChange
  <1>2. /\ m \in MeltRecords
        /\ m.outputs \in Seq(Blinded)
        /\ Len(m.outputs) \in Nat
    BY OutputsShape DEF SignedInv
  <1>3. Len(pieces) \in Nat
    BY SplitShape, PiecesShape
  <1>4. k \in 0..Len(m.outputs)
    BY <1>2, <1>3
  <1>5. /\ DOMAIN signed = 1..k
        /\ Len(signed) = k
    BY <1>4, LenOfDomain
  <1>6. /\ outs \subseteq Blinded
        /\ \A i \in 1..k : m.outputs[i] \in outs
    BY <1>2, <1>4 DEF Range
  <1>7. pc' \in [Requests -> Pcs] /\ pc'[r] = "Done"
    BY <1>1 DEF SignedInv, Pcs
  <1>8. CASE UNCHANGED <<change, signedFor>>
    <2>1. \A s \in Requests : pc'[s] # "Done" => change'[s] = <<>>
      BY <1>1, <1>7, <1>8 DEF SignedInv
    <2>2. QED
      BY <1>1, <1>7, <1>8, <2>1 DEF SignedInv, SignedOnce
  <1>9. CASE /\ StoredAlready(outs) = {}
             /\ signedFor' = [b \in Blinded |-> IF b \in outs THEN r ELSE signedFor[b]]
             /\ change' = [change EXCEPT ![r] = signed]
    <2>1. \A b \in outs : signedFor[b] = NoReq
      BY <1>9, <1>6 DEF StoredAlready
    <2>2. signedFor' \in [Blinded -> Requests \cup {NoReq}]
      BY <1>9 DEF SignedInv
    <2>3. DOMAIN change' = Requests /\ change'[r] = signed
      BY <1>9 DEF SignedInv
    <2>4. \A s \in Requests \ {r} : change'[s] = change[s] /\ pc'[s] = pc[s]
      BY <1>1, <1>9 DEF SignedInv
    <2>5. \A s \in Requests :
             /\ Len(change'[s]) \in 0..Len(mreq'[s].outputs)
             /\ DOMAIN change'[s] = 1..Len(change'[s])
             /\ pc'[s] # "Done" => change'[s] = <<>>
      BY <1>1, <1>4, <1>5, <1>7, <2>3, <2>4 DEF SignedInv
    <2>6. \A i \in 1..Len(change'[r]) : signedFor'[mreq'[r].outputs[i]] = r
      BY <1>1, <1>5, <1>6, <1>9, <2>3
    <2>7. ASSUME NEW s \in Requests \ {r}, NEW i \in 1..Len(change'[s])
          PROVE  signedFor'[mreq'[s].outputs[i]] = s
      <3>1. mreq[s].outputs \in Seq(Blinded) /\ i \in 1..Len(mreq[s].outputs)
        BY <2>4, OutputsShape DEF SignedInv
      <3>2. mreq[s].outputs[i] \in Blinded
        BY <3>1
      <3>3. signedFor[mreq[s].outputs[i]] = s
        BY <2>4 DEF SignedInv, SignedOnce
      <3>4. mreq[s].outputs[i] \notin outs
        BY <3>3, <2>1, ChangeAssumption
      <3>5. QED
        BY <1>1, <1>9, <3>2, <3>3, <3>4
    <2>8. QED
      BY <1>1, <1>7, <2>2, <2>3, <2>5, <2>6, <2>7 DEF SignedInv, SignedOnce
  <1>10. QED
    BY <1>1, <1>8, <1>9

LEMMA NextSignedInv == SignedInv /\ [Next]_vars => SignedInv'
  <1> SUFFICES ASSUME SignedInv, [Next]_vars PROVE SignedInv'
    OBVIOUS
  <1>1. CASE UNCHANGED vars
    BY <1>1 DEF SignedInv, SignedOnce, vars
  <1>2. QED
    BY <1>1, LookupSignedInv, SignSignedInv DEF Next

(* Spec 3 invariant 5 for every number of melts and outputs: a blinded     *)
(* message is signed for one melt only, and the change signatures a melt   *)
(* returns are the ones add_blind_signatures stored for it, although       *)
(* get_blind_signatures (melt.rs 673) and add_blind_signatures (715) are   *)
(* two awaits between which another melt may sign the same outputs.       *)
THEOREM SignedOnceSafe == Spec => []SignedOnce
  <1>1. SignedInv => SignedOnce
    BY DEF SignedInv
  <1>2. QED
    BY InitSignedInv, NextSignedInv, <1>1, PTL DEF Spec

(* The inductive invariant itself: no melt returns change before it is     *)
(* Done or for more outputs than it sent.                                  *)
THEOREM SignedInvariant == Spec => []SignedInv
  BY InitSignedInv, NextSignedInv, PTL DEF Spec
=============================================================================
