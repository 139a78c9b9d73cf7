----------------------- MODULE MailboxOnboarding_proofs -----------------------
(***************************************************************************)
(* For any number of wallets, keys, lost answers and other devices: a key  *)
(* is registered for the wallet that its passkey was made for, twice only  *)
(* if the page lost the answer of a registration; an envelope is stored    *)
(* under the id of its key; what was prepared is kept for a retry.         *)
(*                                                                         *)
(* Three invariants, each proved with the ones before it: IInv (the types  *)
(* and the owners of keys), CallInvariant (what a running call knows of    *)
(* the transaction it waits for), RetryInvariant (where an unlost key is). *)
(***************************************************************************)
EXTENDS MailboxOnboarding, TLAPS

-----------------------------------------------------------------------------
(* The contract. *)

\* No mailbox is open without a key.
ActiveHasKey == \A o \in Address : mailboxActive[o] => currentKeyId[o] # 0

LEMMA EventTypes ==
    /\ \A o \in Address, k \in 1..KeyIdMax, p \in PublicKey :
          [event |-> "MailboxKeyRegistered", owner |-> o, keyId |-> k,
           publicKey |-> p] \in Chain!Ledger!Event
    /\ \A o \in Address, k \in 1..KeyIdMax :
          [event |-> "MailboxDeactivated", owner |-> o, keyId |-> k]
              \in Chain!Ledger!Event
  BY DEF Chain!Ledger!Event, Chain!Ledger!MailboxKeyRegistered,
     Chain!Ledger!MailboxDeactivated, Chain!Ledger!KeyId

\* An event of the contract belongs at the end of its log.
LEMMA EmitTyped ==
    ASSUME log \in Seq(Chain!Ledger!Event), NEW e \in Chain!Ledger!Event,
           log' = Append(log, e)
    PROVE  log' \in Seq(Chain!Ledger!Event)
  OBVIOUS


LEMMA RegisterTyped ==
    ASSUME Chain!TypeOK, ActiveHasKey, NEW w \in Address, NEW p \in PublicKey,
           Chain!RegisterMailboxKey(w, p)
    PROVE  /\ Chain!TypeOK' /\ ActiveHasKey'
           /\ mailboxPublicKeys' = [mailboxPublicKeys EXCEPT
                                      ![w][currentKeyId[w] + 1] = p]
<1> USE OnboardingAssumption
<1> DEFINE k == currentKeyId[w] + 1
           e == [event |-> "MailboxKeyRegistered", owner |-> w,
                 keyId |-> k, publicKey |-> p]
<1>1. /\ k \in 1..KeyIdMax
      /\ currentKeyId' = [currentKeyId EXCEPT ![w] = k]
      /\ mailboxPublicKeys' = [mailboxPublicKeys EXCEPT ![w][k] = p]
      /\ mailboxActive' = [mailboxActive EXCEPT ![w] = TRUE]
      /\ sealedLetters' = sealedLetters /\ log' = Append(log, e)
  BY DEF Chain!RegisterMailboxKey, Chain!RegisterError, Chain!NextKeyId,
         Chain!TypeOK, Chain!Ledger!Emit
<1>2. log' \in Seq(Chain!Ledger!Event)
  <2>1. e \in Chain!Ledger!Event
    BY <1>1, EventTypes
  <2> QED
    BY <1>1, <2>1, EmitTyped DEF Chain!TypeOK
<1> QED
  BY <1>1, <1>2 DEF Chain!TypeOK, ActiveHasKey

LEMMA DeactivateTyped ==
    ASSUME Chain!TypeOK, ActiveHasKey, NEW w \in Address,
           Chain!DeactivateMailbox(w)
    PROVE  /\ Chain!TypeOK' /\ ActiveHasKey'
           /\ mailboxPublicKeys' = mailboxPublicKeys
<1> USE OnboardingAssumption
<1> DEFINE e == [event |-> "MailboxDeactivated", owner |-> w,
                 keyId |-> currentKeyId[w]]
<1>1. /\ currentKeyId[w] \in 1..KeyIdMax
      /\ mailboxActive' = [mailboxActive EXCEPT ![w] = FALSE]
      /\ UNCHANGED <<currentKeyId, mailboxPublicKeys, sealedLetters>>
      /\ log' = Append(log, e)
  BY DEF Chain!DeactivateMailbox, Chain!DeactivateError, Chain!TypeOK,
         Chain!Ledger!Emit
<1>2. log' \in Seq(Chain!Ledger!Event)
  BY <1>1, EventTypes, EmitTyped DEF Chain!TypeOK
<1> QED
  BY <1>1, <1>2 DEF Chain!TypeOK, ActiveHasKey

-----------------------------------------------------------------------------
(* The inductive invariant. *)

Made(key, w) == key \in PublicKey /\ madeFor[key] = w

OpOK ==
    /\ op.kind # "none" => op.address \in Address
    /\ op.pc \in {"passkey", "recovery"} => op.kind = "prepare"
    /\ op.pc \in {"provider", "approve", "receipt"} =>
          op.kind \in {"register", "deactivate"}
    /\ op.pc = "readKey" => op.kind = "register"
    /\ op.kind = "register" \/ op.pc = "recovery" => Made(op.key, op.address)

PreparedOK == prepared # None => Made(prepared.key, prepared.address)

PoolOK ==
    \A w \in Address : \A i \in DOMAIN pool[w] :
        pool[w][i].kind = "register" => Made(pool[w][i].key, w)

IInv ==
    /\ TypeOK /\ ActiveHasKey /\ OpOK /\ PreparedOK /\ PoolOK
    /\ KeyOfItsWallet

\* What is known of made keys stays known: only new keys are made.
MadeStays ==
    \A p \in PublicKey : madeFor[p] # None => madeFor'[p] = madeFor[p]

LEMMA MakeForStays ==
    ASSUME IInv, NEW p \in PublicKey, Fresh(p), NEW w \in Address, MakeFor(p, w)
    PROVE  /\ MadeStays /\ madeFor'[p] = w
           /\ madeFor' \in [PublicKey -> Address \cup {None}]
  BY DEF IInv, TypeOK, Fresh, MakeFor, MadeStays

LEMMA ChainQuiet ==
    ASSUME Chain!TypeOK, ActiveHasKey, KeyOfItsWallet, MadeStays,
           UNCHANGED contractVars, madeFor \in [PublicKey -> Address \cup {None}]
    PROVE  Chain!TypeOK' /\ ActiveHasKey' /\ KeyOfItsWallet'
<1>1. UNCHANGED <<currentKeyId, mailboxPublicKeys, mailboxActive,
                  sealedLetters, log>>
  BY DEF contractVars
<1>2. \A w \in Address, k \in 1..KeyIdMax :
          mailboxPublicKeys[w][k] # ZeroKey =>
              /\ mailboxPublicKeys[w][k] \in PublicKey /\ None \notin Address
              /\ madeFor[mailboxPublicKeys[w][k]] = w
  BY OnboardingAssumption DEF KeyOfItsWallet, Chain!TypeOK
<1>3. KeyOfItsWallet'
  <2>1. \A w \in Address, k \in 1..KeyIdMax :
            mailboxPublicKeys[w][k] # ZeroKey =>
                madeFor'[mailboxPublicKeys[w][k]] = w
    BY <1>2 DEF MadeStays
  <2> QED
    BY <1>1, <2>1 DEF KeyOfItsWallet
<1> QED
  BY <1>1, <1>3 DEF Chain!TypeOK, ActiveHasKey

\* What the screen shows changes, what was prepared may be forgotten, and no
\* call goes on.
LEMMA ScreenInv ==
    ASSUME IInv,
           \/ \E a \in Address \cup {None} : SetAddress(a)
           \/ LoadKeyId \/ LoadActive \/ LoadFails
           \/ AskDeactivate \/ CancelDeactivate
    PROVE  IInv'
<1> USE OnboardingAssumption
<1>1. /\ UNCHANGED <<contractVars, outside, op, envelopes, stage>>
      /\ prepared' \in {prepared, None}
  BY DEF SetAddress, LoadKeyId, LoadActive, LoadFails, AskDeactivate,
         CancelDeactivate, screen, shown
<1>2. UNCHANGED <<pool, madeFor, lost, losses, elsewhere, op, envelopes, stage>>
  BY <1>1 DEF outside
<1>3. Chain!TypeOK' /\ ActiveHasKey' /\ KeyOfItsWallet'
  <2>1. MadeStays
    BY <1>2 DEF MadeStays
  <2> QED
    BY <1>1, <2>1, ChainQuiet DEF IInv, TypeOK
<1>4. OpOK' /\ PreparedOK' /\ PoolOK'
  BY <1>1, <1>2 DEF IInv, OpOK, PreparedOK, PoolOK, Made
<1>5. /\ address' \in Address \cup {None} /\ keyId' \in 0..KeyIdMax \cup {None}
      /\ active' \in BOOLEAN \cup {None} /\ confirming' \in BOOLEAN
      /\ load' \in [pc: {"idle", "keyId", "active"},
                    keyId: 0..KeyIdMax \cup {None}]
      /\ load'.pc # "idle" => address' \in Address
  <2>1. /\ Chain!TypeOK
        /\ address \in Address \cup {None} /\ keyId \in 0..KeyIdMax \cup {None}
        /\ active \in BOOLEAN \cup {None} /\ confirming \in BOOLEAN
        /\ load \in [pc: {"idle", "keyId", "active"},
                     keyId: 0..KeyIdMax \cup {None}]
        /\ load.pc # "idle" => address \in Address
    BY DEF IInv, TypeOK
  <2>2. CASE \E a \in Address \cup {None} : SetAddress(a)
    BY <2>1, <2>2 DEF SetAddress, NoLoad, shown
  <2>3. CASE LoadKeyId
    BY <2>1, <2>3 DEF LoadKeyId, Chain!TypeOK, screen, shown
  <2>4. CASE LoadActive
    BY <2>1, <2>4 DEF LoadActive, Chain!TypeOK, NoLoad
  <2>5. CASE LoadFails
    BY <2>1, <2>5 DEF LoadFails, NoLoad
  <2>6. CASE AskDeactivate \/ CancelDeactivate
    BY <2>1, <2>6 DEF AskDeactivate, CancelDeactivate, shown
  <2> QED
    BY <2>2, <2>3, <2>4, <2>5, <2>6
<1>6. TypeOK'
  BY <1>1, <1>2, <1>3, <1>5 DEF IInv, TypeOK
<1> QED
  BY <1>3, <1>4, <1>6 DEF IInv

\* A page that is closed awaits no transaction any more.
Unheard(q) == [i \in DOMAIN q |-> [q[i] EXCEPT !.awaited = FALSE]]

LEMMA Unawaited ==
    ASSUME NEW q \in Seq(Tx), NEW r, r = Unheard(q)
    PROVE  /\ r \in Seq(Tx) /\ DOMAIN r = DOMAIN q
           /\ \A i \in DOMAIN q : r[i].kind = q[i].kind /\ r[i].key = q[i].key
<1> USE DEF Unheard
<1>1. \A i \in DOMAIN q : q[i] \in Tx
  OBVIOUS
<1>2. ASSUME NEW i \in DOMAIN q
      PROVE  r[i] \in Tx /\ r[i].kind = q[i].kind /\ r[i].key = q[i].key
  <2>1. PICK tx \in Tx : tx = q[i]
    BY <1>1
  <2>2. r[i] = [tx EXCEPT !.awaited = FALSE]
    BY <2>1
  <2> QED
    BY <2>1, <2>2 DEF Tx
<1>3. DOMAIN q = 1..Len(q) /\ Len(q) \in Nat /\ DOMAIN r = DOMAIN q
  OBVIOUS
<1>4. r \in [1..Len(q) -> Tx]
  <2>1. r = [i \in 1..Len(q) |-> r[i]]
    BY <1>3
  <2>2. \A i \in 1..Len(q) : r[i] \in Tx
    BY <1>2, <1>3
  <2> QED
    BY <2>1, <2>2
<1>5. r \in Seq(Tx)
  BY <1>3, <1>4
<1> QED
  BY <1>2, <1>3, <1>5

LEMMA ReloadInv ==
    ASSUME IInv, Reload
    PROVE  IInv'
<1> USE OnboardingAssumption
<1>1. /\ UNCHANGED <<contractVars, envelopes, madeFor, lost, elsewhere>>
      /\ address' = None /\ keyId' = None /\ active' = None /\ stage' = None
      /\ confirming' = FALSE /\ load' = NoLoad /\ prepared' = None /\ op' = Idle
      /\ losses' <= MaxLost /\ losses' \in {losses, losses + 1}
  BY DEF Reload
<1>2. Chain!TypeOK' /\ ActiveHasKey' /\ KeyOfItsWallet'
  <2>1. MadeStays
    BY <1>1 DEF MadeStays
  <2> QED
    BY <1>1, <2>1, ChainQuiet DEF IInv, TypeOK
<1>3. /\ pool' \in [Address -> Seq(Tx)]
      /\ \A w \in Address :
            /\ DOMAIN pool'[w] = DOMAIN pool[w]
            /\ \A i \in DOMAIN pool[w] : /\ pool'[w][i].kind = pool[w][i].kind
                                         /\ pool'[w][i].key = pool[w][i].key
  <2>1. \A w \in Address :
            pool'[w] = [i \in DOMAIN pool[w] |->
                           [pool[w][i] EXCEPT !.awaited = FALSE]]
    BY DEF Reload
  <2>2. \A w \in Address : pool[w] \in Seq(Tx)
    BY DEF IInv, TypeOK
  <2>3. \A w \in Address :
            /\ pool'[w] \in Seq(Tx) /\ DOMAIN pool'[w] = DOMAIN pool[w]
            /\ \A i \in DOMAIN pool[w] : /\ pool'[w][i].kind = pool[w][i].kind
                                         /\ pool'[w][i].key = pool[w][i].key
    <3>1. TAKE w \in Address
    <3>2. PICK q \in Seq(Tx) : q = pool[w]
      BY <2>2
    <3>3. PICK r : r = pool'[w]
      OBVIOUS
    <3>4. r = Unheard(q)
      BY <2>1, <3>2, <3>3 DEF Unheard
    <3>5. /\ r \in Seq(Tx) /\ DOMAIN r = DOMAIN q
          /\ \A i \in DOMAIN q : r[i].kind = q[i].kind /\ r[i].key = q[i].key
      BY <3>4, Unawaited
    <3> QED
      BY <3>2, <3>3, <3>5
  <2>4. pool' = [w \in Address |-> pool'[w]]
    BY DEF Reload
  <2> QED
    BY <2>3, <2>4
<1>4. OpOK' /\ PreparedOK' /\ PoolOK'
  BY <1>1, <1>3 DEF IInv, OpOK, PreparedOK, PoolOK, Made, Idle
<1>5. losses' \in 0..MaxLost
  BY <1>1 DEF IInv, TypeOK
<1>6. TypeOK'
  BY <1>1, <1>2, <1>3, <1>5 DEF IInv, TypeOK, NoLoad, Idle
<1> QED
  BY <1>2, <1>4, <1>6 DEF IInv

OpType == [pc: {"idle", "passkey", "recovery", "provider", "approve",
                "receipt", "mined", "reverted", "readKey"},
           kind: {"none", "prepare", "register", "deactivate"},
           address: Address \cup {None}, key: PublicKey \cup {None}]

\* The call goes on, or ends, and neither the chain nor the pool changes.
LEMMA QuietInv ==
    ASSUME IInv, UNCHANGED <<contractVars, outside, envelopes, address, load>>,
           keyId' \in 0..KeyIdMax \cup {None}, active' \in BOOLEAN \cup {None},
           stage' \in Stage \cup {None}, confirming' \in BOOLEAN,
           prepared' \in Prepared \cup {None}, op' \in OpType,
           OpOK', PreparedOK'
    PROVE  IInv'
<1>1. UNCHANGED <<pool, madeFor, lost, losses, elsewhere>>
  BY DEF outside
<1>2. Chain!TypeOK' /\ ActiveHasKey' /\ KeyOfItsWallet'
  <2>1. MadeStays
    BY <1>1 DEF MadeStays
  <2> QED
    BY <2>1, ChainQuiet DEF IInv, TypeOK
<1>3. PoolOK'
  BY <1>1 DEF IInv, PoolOK, Made
<1>4. TypeOK'
  BY <1>1, <1>2 DEF IInv, TypeOK, OpType
<1> QED
  BY <1>2, <1>3, <1>4 DEF IInv

LEMMA CallInv ==
    ASSUME IInv,
           \/ Prepare \/ LockRecovery \/ PrepareFails \/ Register \/ Deactivate
           \/ EnsureProvider \/ CallFails \/ Receipt \/ Deactivated
    PROVE  IInv'
<1> USE OnboardingAssumption
<1>1. /\ keyId \in 0..KeyIdMax \cup {None} /\ active \in BOOLEAN \cup {None}
      /\ stage \in Stage \cup {None} /\ confirming \in BOOLEAN
      /\ prepared \in Prepared \cup {None} /\ op \in OpType
      /\ address \in Address \cup {None} /\ OpOK /\ PreparedOK
      /\ madeFor \in [PublicKey -> Address \cup {None}]
  BY DEF IInv, TypeOK, OpType
<1>2. CASE Prepare
  <2>1. /\ UNCHANGED <<contractVars, outside, envelopes, address, load, keyId,
                       active, confirming, prepared, madeFor>>
        /\ address \in Address
        /\ op' = [pc |-> "passkey", kind |-> "prepare", address |-> address,
                  key |-> None]
        /\ stage' = "creating-passkey"
    BY <1>1, <1>2 DEF Prepare, Start, shown, outside
  <2>2. op' \in OpType /\ OpOK'
    BY <2>1 DEF OpType, OpOK
  <2>3. PreparedOK'
    BY <1>1, <2>1 DEF PreparedOK, Made
  <2> QED
    BY <1>1, <2>1, <2>2, <2>3, QuietInv DEF Stage
<1>3. CASE LockRecovery
  <2>1. /\ UNCHANGED <<contractVars, outside, envelopes, address, load, keyId,
                       active, confirming, madeFor>>
        /\ op' = Idle /\ stage' = "awaiting-wallet"
        /\ prepared' = [address |-> op.address, key |-> op.key]
        /\ op.address \in Address /\ Made(op.key, op.address)
    BY <1>1, <1>3 DEF LockRecovery, shown, outside, OpOK
  <2>2. op' \in OpType /\ OpOK'
    BY <2>1 DEF OpType, OpOK, Idle
  <2>3. prepared' \in Prepared /\ PreparedOK'
    BY <2>1 DEF Prepared, PreparedOK, Made
  <2> QED
    BY <1>1, <2>1, <2>2, <2>3, QuietInv DEF Stage
<1>4. CASE PrepareFails
  <2>1. /\ UNCHANGED <<contractVars, outside, envelopes, address, load, keyId,
                       active, confirming>>
        /\ op' = Idle /\ stage' = None /\ prepared' = None
    BY <1>4 DEF PrepareFails, shown
  <2>2. op' \in OpType /\ OpOK' /\ PreparedOK'
    BY <2>1 DEF OpType, OpOK, Idle, PreparedOK
  <2> QED
    BY <1>1, <2>1, <2>2, QuietInv
<1>5. CASE Register
  <2>1. /\ UNCHANGED <<contractVars, outside, envelopes, address, load, keyId,
                       active, confirming, prepared, madeFor>>
        /\ address \in Address /\ prepared # None /\ prepared.address = address
        /\ op' = [pc |-> "provider", kind |-> "register", address |-> address,
                  key |-> prepared.key]
        /\ stage' = "awaiting-wallet"
    BY <1>1, <1>5 DEF Register, IsPrepared, Start, shown, outside
  <2>2. Made(prepared.key, address)
    BY <1>1, <2>1 DEF PreparedOK
  <2>3. op' \in OpType /\ OpOK' /\ PreparedOK'
    BY <1>1, <2>1, <2>2 DEF OpType, OpOK, PreparedOK, Made
  <2> QED
    BY <1>1, <2>1, <2>3, QuietInv DEF Stage
<1>6. CASE Deactivate
  <2>1. /\ UNCHANGED <<contractVars, outside, envelopes, address, load, keyId,
                       active, prepared, madeFor>>
        /\ address \in Address /\ confirming' = FALSE
        /\ op' = [pc |-> "provider", kind |-> "deactivate",
                  address |-> address, key |-> None]
        /\ stage' = "deactivating"
    BY <1>1, <1>6 DEF Deactivate, Start, shown, outside
  <2>2. op' \in OpType /\ OpOK' /\ PreparedOK'
    BY <1>1, <2>1 DEF OpType, OpOK, PreparedOK, Made
  <2> QED
    BY <1>1, <2>1, <2>2, QuietInv DEF Stage
<1>7. CASE EnsureProvider \/ Receipt
  <2>1. /\ UNCHANGED <<contractVars, outside, envelopes, address, load, keyId,
                       active, confirming, prepared, stage, madeFor>>
        /\ \/ op.pc = "provider" /\ op' = [op EXCEPT !.pc = "approve"]
           \/ op.kind = "register" /\ op' = [op EXCEPT !.pc = "readKey"]
    BY <1>7 DEF EnsureProvider, Receipt, screen, shown, outside
  <2>2. op' \in OpType
    BY <1>1, <2>1 DEF OpType
  <2>3. OpOK' /\ PreparedOK'
    BY <1>1, <2>1 DEF OpType, OpOK, PreparedOK, Made
  <2> QED
    BY <1>1, <2>1, <2>2, <2>3, QuietInv
<1>8. CASE CallFails
  <2>1. /\ UNCHANGED <<contractVars, outside, envelopes, address, load, keyId,
                       active, confirming, prepared, madeFor>>
        /\ op' = Idle /\ stage' \in Stage \cup {None}
    BY <1>1, <1>8 DEF CallFails, Catch, shown, outside, Stage
  <2>2. op' \in OpType /\ OpOK' /\ PreparedOK'
    BY <1>1, <2>1 DEF OpType, OpOK, Idle, PreparedOK, Made
  <2> QED
    BY <1>1, <2>1, <2>2, QuietInv
<1>9. CASE Deactivated
  <2>1. /\ UNCHANGED <<contractVars, outside, envelopes, address, load, keyId,
                       confirming, prepared, madeFor>>
        /\ op' = Idle /\ stage' = None /\ active' = FALSE
    BY <1>9 DEF Deactivated, outside
  <2>2. op' \in OpType /\ OpOK' /\ PreparedOK'
    BY <1>1, <2>1 DEF OpType, OpOK, Idle, PreparedOK, Made
  <2> QED
    BY <1>1, <2>1, <2>2, QuietInv
<1> QED
  BY <1>2, <1>3, <1>4, <1>5, <1>6, <1>7, <1>8, <1>9

\* The wallet submits what the running call asks for.
LEMMA Submitted ==
    ASSUME IInv, op.pc = "approve", NEW b \in BOOLEAN, Submit(b),
           UNCHANGED madeFor
    PROVE  pool' \in [Address -> Seq(Tx)] /\ PoolOK'
<1>1. PICK tx : tx = [kind |-> op.kind, key |-> op.key, awaited |-> b]
  OBVIOUS
<1>2. /\ op.address \in Address /\ op.kind \in {"register", "deactivate"}
      /\ op.key \in PublicKey \cup {None}
      /\ op.kind = "register" => Made(op.key, op.address)
  BY DEF IInv, TypeOK, OpOK
<1>3. tx \in Tx /\ (tx.kind = "register" => Made(tx.key, op.address))
  BY <1>1, <1>2 DEF Tx
<1>4. PICK w \in Address : w = op.address
  BY <1>2
<1>5. pool' = [pool EXCEPT ![w] = Append(pool[w], tx)]
  BY <1>1, <1>4 DEF Submit
<1>6. pool \in [Address -> Seq(Tx)]
  BY DEF IInv, TypeOK
<1>7. pool' \in [Address -> Seq(Tx)]
  BY <1>3, <1>5, <1>6
<1>8. PICK q \in Seq(Tx) : q = pool[w]
  BY <1>6
<1>9. pool' = [pool EXCEPT ![w] = Append(q, tx)]
  BY <1>5, <1>8
<1>10. \A i \in DOMAIN Append(q, tx) :
          \/ i \in DOMAIN q /\ Append(q, tx)[i] = q[i]
          \/ Append(q, tx)[i] = tx
  BY <1>3
<1>11. \A i \in DOMAIN Append(q, tx) :
          Append(q, tx)[i].kind = "register" => Made(Append(q, tx)[i].key, w)
  BY <1>3, <1>4, <1>8, <1>10 DEF IInv, PoolOK
<1>12. PICK r : r = Append(q, tx)
  OBVIOUS
<1>13. /\ pool' = [pool EXCEPT ![w] = r]
       /\ \A i \in DOMAIN r : r[i].kind = "register" => Made(r[i].key, w)
  BY <1>9, <1>11, <1>12
<1>14. PoolOK'
  BY <1>6, <1>13 DEF IInv, PoolOK, Made
<1> QED
  BY <1>7, <1>14

\* Nobody waits for the transaction any more, or the key id is not read.
LEMMA Unheeded ==
    ASSUME IInv, UNCHANGED madeFor, NEW w \in Address,
           pool' = [pool EXCEPT ![w] = Unheard(pool[w])]
    PROVE  pool' \in [Address -> Seq(Tx)] /\ PoolOK'
<1>1. PICK q \in Seq(Tx) : q = pool[w]
  BY DEF IInv, TypeOK
<1>2. PICK r : r = Unheard(q)
  OBVIOUS
<1>3. /\ r \in Seq(Tx) /\ DOMAIN r = DOMAIN q
      /\ \A i \in DOMAIN q : r[i].kind = q[i].kind /\ r[i].key = q[i].key
  BY <1>2, Unawaited
<1>4. pool' = [pool EXCEPT ![w] = r] /\ pool \in [Address -> Seq(Tx)]
  BY <1>1, <1>2 DEF IInv, TypeOK
<1>5. \A i \in DOMAIN r : r[i].kind = "register" => Made(r[i].key, w)
  BY <1>1, <1>3 DEF IInv, PoolOK
<1>6. PoolOK'
  BY <1>4, <1>5 DEF IInv, PoolOK, Made
<1> QED
  BY <1>3, <1>4, <1>6

LEMMA PoolInv ==
    ASSUME IInv, Approve \/ AnswerLost
    PROVE  IInv'
<1> USE OnboardingAssumption
<1>1. /\ UNCHANGED <<contractVars, madeFor, elsewhere, envelopes, address,
                     load, keyId, active, confirming, prepared>>
  BY DEF Approve, AnswerLost, Lose, Catch, shown
<1>2. op \in OpType /\ OpOK /\ stage \in Stage \cup {None}
  BY DEF IInv, TypeOK, OpType
<1>3. op' \in OpType /\ OpOK'
  <2>1. CASE Approve
    <3>1. op' = [op EXCEPT !.pc = "receipt"] /\ op.pc = "approve"
      BY <2>1 DEF Approve
    <3>2. op' \in OpType
      BY <1>2, <3>1 DEF OpType
    <3> QED
      BY <1>1, <1>2, <3>1, <3>2 DEF OpType, OpOK, Made
  <2>2. CASE AnswerLost
    BY <2>2 DEF AnswerLost, Catch, OpType, OpOK, Idle
  <2> QED
    BY <2>1, <2>2
<1>4. stage' \in Stage \cup {None}
  BY <1>2 DEF Approve, AnswerLost, Catch, Stage
<1>5. lost' \subseteq PublicKey /\ losses' \in 0..MaxLost
  <2>1. lost \subseteq PublicKey /\ losses \in 0..MaxLost
    BY DEF IInv, TypeOK
  <2>2. CASE Approve
    BY <2>1, <2>2 DEF Approve
  <2>3. CASE AnswerLost
    BY <1>2, <2>1, <2>3 DEF AnswerLost, Lose, OpType
  <2> QED
    BY <2>2, <2>3
<1>6. pool' \in [Address -> Seq(Tx)] /\ PoolOK'
  <2>1. \/ op.pc = "approve" /\ Submit(TRUE)
        \/ op.pc = "approve" /\ Submit(FALSE)
        \/ /\ op.pc = "receipt"
           /\ pool' = [pool EXCEPT ![op.address] = Unheard(pool[op.address])]
        \/ UNCHANGED pool
    BY DEF Approve, AnswerLost, Unheard
  <2>2. CASE op.pc = "approve" /\ Submit(TRUE)
    BY <1>1, <2>2, Submitted
  <2>3. CASE op.pc = "approve" /\ Submit(FALSE)
    BY <1>1, <2>3, Submitted
  <2>4. CASE /\ op.pc = "receipt"
             /\ pool' = [pool EXCEPT ![op.address] = Unheard(pool[op.address])]
    <3>1. PICK w \in Address : w = op.address
      BY <1>2, <2>4 DEF OpOK
    <3> QED
      BY <1>1, <2>4, <3>1, Unheeded
  <2>5. CASE UNCHANGED pool
    BY <1>1, <2>5 DEF IInv, TypeOK, PoolOK, Made
  <2> QED
    BY <2>1, <2>2, <2>3, <2>4, <2>5
<1>7. Chain!TypeOK' /\ ActiveHasKey' /\ KeyOfItsWallet'
  <2>1. MadeStays
    BY <1>1 DEF MadeStays
  <2> QED
    BY <1>1, <2>1, ChainQuiet DEF IInv, TypeOK
<1>8. PreparedOK'
  BY <1>1 DEF IInv, PreparedOK, Made
<1>9. TypeOK'
  BY <1>1, <1>3, <1>4, <1>5, <1>6, <1>7 DEF IInv, TypeOK, OpType
<1> QED
  BY <1>3, <1>6, <1>7, <1>8, <1>9 DEF IInv

LEMMA ReadKeyInv ==
    ASSUME IInv, ReadKey
    PROVE  IInv'
<1> USE OnboardingAssumption
<1>1. /\ UNCHANGED <<contractVars, outside, address, load, confirming>>
      /\ op' = Idle /\ prepared' = None /\ stage' = None /\ active' = TRUE
      /\ op.address \in Address /\ op.key \in PublicKey
      /\ keyId' = currentKeyId[op.address]
      /\ envelopes' = [envelopes EXCEPT ![op.address][keyId'] = op.key]
  BY DEF ReadKey, IInv, OpOK, Made
<1>2. UNCHANGED <<pool, madeFor, lost, losses, elsewhere>>
  BY <1>1 DEF outside
<1>3. Chain!TypeOK' /\ ActiveHasKey' /\ KeyOfItsWallet'
  <2>1. MadeStays
    BY <1>2 DEF MadeStays
  <2> QED
    BY <1>1, <2>1, ChainQuiet DEF IInv, TypeOK
<1>4. keyId' \in 0..KeyIdMax
  BY <1>1 DEF IInv, TypeOK, Chain!TypeOK
<1>5. envelopes' \in [Address -> [1..KeyIdMax -> PublicKey \cup {None}]]
  <2>1. PICK w \in Address, p \in PublicKey, k \in 0..KeyIdMax :
            w = op.address /\ p = op.key /\ k = keyId'
    BY <1>1, <1>4
  <2>2. envelopes' = [envelopes EXCEPT ![w][k] = p]
    BY <1>1, <2>1
  <2>3. envelopes \in [Address -> [1..KeyIdMax -> PublicKey \cup {None}]]
    BY DEF IInv, TypeOK
  <2> QED
    BY <2>2, <2>3
<1>6. OpOK' /\ PreparedOK' /\ PoolOK'
  BY <1>1, <1>2 DEF IInv, OpOK, PreparedOK, PoolOK, Made, Idle
<1>7. TypeOK'
  BY <1>1, <1>2, <1>3, <1>4, <1>5 DEF IInv, TypeOK, Idle
<1> QED
  BY <1>3, <1>6, <1>7 DEF IInv

-----------------------------------------------------------------------------
(* New keys, and the chain. *)

\* What was made for a wallet stays made for it when another key is made.
LEMMA StillMade ==
    ASSUME MadeStays
    PROVE  \A p \in PublicKey, w \in Address :
               madeFor[p] = w => madeFor'[p] = w
  BY OnboardingAssumption DEF MadeStays

LEMMA CreatePasskeyInv ==
    ASSUME IInv, CreatePasskey
    PROVE  IInv'
<1> USE OnboardingAssumption
<1>1. PICK p \in PublicKey, w \in Address :
          /\ Fresh(p) /\ MakeFor(p, w) /\ w = op.address
          /\ op' = [op EXCEPT !.pc = "recovery", !.key = p]
  BY DEF CreatePasskey, IInv, OpOK
<1>2. /\ op \in OpType /\ op.kind = "prepare" /\ stage' = "locking-recovery"
      /\ UNCHANGED <<contractVars, pool, lost, losses, elsewhere, address,
                     keyId, active, confirming, load, prepared, envelopes>>
  BY DEF CreatePasskey, IInv, OpOK, TypeOK, OpType, shown
<1>3. /\ MadeStays /\ madeFor'[p] = w
      /\ madeFor' \in [PublicKey -> Address \cup {None}]
  BY <1>1, MakeForStays
<1>4. Chain!TypeOK' /\ ActiveHasKey' /\ KeyOfItsWallet'
  BY <1>2, <1>3, ChainQuiet DEF IInv, TypeOK
<1>5. /\ op' \in OpType /\ op'.pc = "recovery" /\ op'.kind = "prepare"
      /\ op'.address = w /\ op'.key = p
  BY <1>1, <1>2 DEF OpType
<1>6. OpOK'
  BY <1>3, <1>5 DEF OpOK, Made
<1>7. PreparedOK'
  BY <1>2, <1>3, StillMade DEF IInv, TypeOK, Prepared, PreparedOK, Made
<1>8. PoolOK'
  BY <1>2, <1>3, StillMade DEF IInv, PoolOK, Made
<1>9. TypeOK'
  BY <1>2, <1>3, <1>4, <1>5 DEF IInv, TypeOK, OpType, Stage
<1> QED
  BY <1>4, <1>6, <1>7, <1>8, <1>9 DEF IInv

\* A key that is registered for the wallet it was made for.
LEMMA RegisteredOfItsWallet ==
    ASSUME Chain!TypeOK, ActiveHasKey, KeyOfItsWallet, MadeStays,
           madeFor \in [PublicKey -> Address \cup {None}],
           NEW w \in Address, NEW p \in PublicKey, madeFor'[p] = w,
           Chain!RegisterMailboxKey(w, p)
    PROVE  Chain!TypeOK' /\ ActiveHasKey' /\ KeyOfItsWallet'
<1>1. /\ Chain!TypeOK' /\ ActiveHasKey'
      /\ mailboxPublicKeys' = [mailboxPublicKeys EXCEPT
                                 ![w][currentKeyId[w] + 1] = p]
  BY RegisterTyped
<1>2. /\ mailboxPublicKeys \in
             [Address -> [0..KeyIdMax -> PublicKey \cup {ZeroKey}]]
      /\ currentKeyId[w] \in Nat
  BY OnboardingAssumption DEF Chain!TypeOK
<1>3. PICK n \in Nat : n = currentKeyId[w] + 1
  BY <1>2
<1>4. \A o \in Address, k \in 1..KeyIdMax :
          mailboxPublicKeys'[o][k] =
              IF o = w /\ k = n THEN p ELSE mailboxPublicKeys[o][k]
  <2>1. \A k \in 1..KeyIdMax : k \in 0..KeyIdMax
    BY OnboardingAssumption
  <2>2. mailboxPublicKeys' = [mailboxPublicKeys EXCEPT ![w][n] = p]
    BY <1>1, <1>3
  <2> QED
    BY <1>2, <2>1, <2>2
<1>5. ASSUME NEW o \in Address, NEW k \in 1..KeyIdMax,
             mailboxPublicKeys'[o][k] # ZeroKey
      PROVE  madeFor'[mailboxPublicKeys'[o][k]] = o
  <2>1. CASE o = w /\ k = n
    BY <1>4, <2>1
  <2>2. CASE ~(o = w /\ k = n)
    <3>1. mailboxPublicKeys'[o][k] = mailboxPublicKeys[o][k]
      BY <1>4, <2>2
    <3>2. PICK old : old = mailboxPublicKeys[o][k]
      OBVIOUS
    <3>3. old # ZeroKey /\ k \in 0..KeyIdMax
      BY <1>5, <3>1, <3>2, OnboardingAssumption
    <3>4. old \in PublicKey
      BY <1>2, <3>2, <3>3
    <3>5. madeFor[old] = o
      BY <3>2, <3>3 DEF KeyOfItsWallet
    <3>6. madeFor'[old] = o
      BY <3>4, <3>5, StillMade
    <3> QED
      BY <3>1, <3>2, <3>6
  <2> QED
    BY <2>1, <2>2
<1> QED
  BY <1>1, <1>5 DEF KeyOfItsWallet

LEMMA DeactivatedOfItsWallet ==
    ASSUME Chain!TypeOK, ActiveHasKey, KeyOfItsWallet, UNCHANGED madeFor,
           NEW w \in Address, Chain!DeactivateMailbox(w)
    PROVE  Chain!TypeOK' /\ ActiveHasKey' /\ KeyOfItsWallet'
  BY DeactivateTyped DEF KeyOfItsWallet

LEMMA MineInv ==
    ASSUME IInv, NEW w \in Address, Mine(w)
    PROVE  IInv'
<1> USE OnboardingAssumption
<1>1. /\ UNCHANGED <<madeFor, lost, losses, elsewhere, address, keyId, active,
                     stage, confirming, load, prepared, envelopes>>
      /\ pool \in [Address -> Seq(Tx)] /\ op \in OpType /\ OpOK
      /\ pool[w] # << >> /\ pool' = [pool EXCEPT ![w] = Tail(pool[w])]
  BY DEF Mine, screen, shown, IInv, TypeOK, OpType
<1>2. PICK q \in Seq(Tx) : q = pool[w] /\ q # << >>
  BY <1>1
<1>3. PICK tx \in Tx : tx = Head(q) /\ (tx.kind = "register" => Made(tx.key, w))
  BY <1>2 DEF IInv, PoolOK
<1>4. Chain!TypeOK' /\ ActiveHasKey' /\ KeyOfItsWallet'
  <2>1. MadeStays /\ madeFor \in [PublicKey -> Address \cup {None}]
    BY <1>1 DEF MadeStays, IInv, TypeOK
  <2>2. CASE UNCHANGED contractVars
    BY <2>1, <2>2, ChainQuiet DEF IInv, TypeOK
  <2>3. CASE tx.kind = "register" /\ Chain!RegisterMailboxKey(w, tx.key)
    <3>1. PICK p \in PublicKey : p = tx.key /\ madeFor'[p] = w
      BY <1>1, <1>3, <2>3 DEF Made
    <3> QED
      BY <2>1, <2>3, <3>1, RegisteredOfItsWallet DEF IInv, TypeOK
  <2>4. CASE Chain!DeactivateMailbox(w)
    BY <1>1, <2>4, DeactivatedOfItsWallet DEF IInv, TypeOK
  <2>5. \/ UNCHANGED contractVars
        \/ tx.kind = "register" /\ Chain!RegisterMailboxKey(w, tx.key)
        \/ Chain!DeactivateMailbox(w)
    BY <1>2, <1>3 DEF Mine, Execute
  <2> QED
    BY <2>2, <2>3, <2>4, <2>5
<1>5. op' \in OpType /\ OpOK'
  <2>1. \/ op' = op
        \/ op' = [op EXCEPT !.pc = "reverted"] \/ op' = [op EXCEPT !.pc = "mined"]
    BY <1>2 DEF Mine
  <2>2. op' \in OpType
    BY <1>1, <2>1 DEF OpType
  <2> QED
    BY <1>1, <2>1, <2>2 DEF OpType, OpOK, Made
<1>6. pool' \in [Address -> Seq(Tx)] /\ PoolOK'
  <2>1. PICK r \in Seq(Tx) : r = Tail(q)
    <3>1. Tail(q) \in Seq(Tx)
      BY <1>2
    <3> QED
      BY <3>1
  <2>2. \A i \in DOMAIN r : i + 1 \in DOMAIN q /\ r[i] = q[i + 1]
    BY <1>2, <2>1
  <2>3. \A i \in DOMAIN r : r[i].kind = "register" => Made(r[i].key, w)
    BY <1>2, <2>2 DEF IInv, PoolOK
  <2>4. pool' = [pool EXCEPT ![w] = r]
    BY <1>1, <1>2, <2>1
  <2> QED
    BY <1>1, <2>3, <2>4 DEF IInv, PoolOK, Made
<1>7. PreparedOK'
  BY <1>1 DEF IInv, PreparedOK, Made
<1>8. TypeOK'
  BY <1>1, <1>4, <1>5, <1>6 DEF IInv, TypeOK, OpType
<1> QED
  BY <1>4, <1>5, <1>6, <1>7, <1>8 DEF IInv

LEMMA ElsewhereInv ==
    ASSUME IInv, NEW w \in Address, Elsewhere(w)
    PROVE  IInv'
<1> USE OnboardingAssumption
<1>1. /\ UNCHANGED <<pool, lost, losses, address, keyId, active, stage,
                     confirming, load, prepared, op, envelopes>>
      /\ elsewhere' \in 0..MaxElsewhere
  BY DEF Elsewhere, screen, shown, IInv, TypeOK
<1>2. /\ Chain!TypeOK' /\ ActiveHasKey' /\ KeyOfItsWallet' /\ MadeStays
      /\ madeFor' \in [PublicKey -> Address \cup {None}]
  <2>1. CASE \E p \in PublicKey :
                Fresh(p) /\ MakeFor(p, w) /\ Chain!RegisterMailboxKey(w, p)
    <3>1. PICK p \in PublicKey :
              Fresh(p) /\ MakeFor(p, w) /\ Chain!RegisterMailboxKey(w, p)
      BY <2>1
    <3>2. /\ MadeStays /\ madeFor'[p] = w
          /\ madeFor' \in [PublicKey -> Address \cup {None}]
      BY <3>1, MakeForStays
    <3> QED
      BY <3>1, <3>2, RegisteredOfItsWallet DEF IInv, TypeOK
  <2>2. CASE Chain!DeactivateMailbox(w) /\ UNCHANGED madeFor
    BY <2>2, DeactivatedOfItsWallet DEF IInv, TypeOK, MadeStays
  <2> QED
    BY <2>1, <2>2 DEF Elsewhere
<1>3. OpOK'
  BY <1>1, <1>2, StillMade DEF IInv, TypeOK, OpOK, Made
<1>4. PreparedOK'
  BY <1>1, <1>2, StillMade DEF IInv, TypeOK, Prepared, PreparedOK, Made
<1>5. PoolOK'
  BY <1>1, <1>2, StillMade DEF IInv, PoolOK, Made
<1>6. TypeOK'
  BY <1>1, <1>2 DEF IInv, TypeOK
<1> QED
  BY <1>2, <1>3, <1>4, <1>5, <1>6 DEF IInv

-----------------------------------------------------------------------------
(* The theorems. *)

LEMMA InitInv == Init => IInv
<1> SUFFICES ASSUME Init PROVE IInv
  OBVIOUS
<1> USE OnboardingAssumption
<1>1. Chain!TypeOK /\ ActiveHasKey /\ KeyOfItsWallet
  BY DEF Init, Chain!Init, Chain!TypeOK, ActiveHasKey, KeyOfItsWallet
<1>2. OpOK /\ PreparedOK /\ PoolOK
  BY DEF Init, OpOK, PreparedOK, PoolOK, Idle
<1>3. /\ pool \in [Address -> Seq(Tx)]
      /\ envelopes \in [Address -> [1..KeyIdMax -> PublicKey \cup {None}]]
      /\ madeFor \in [PublicKey -> Address \cup {None}]
  <2>1. << >> \in Seq(Tx)
    OBVIOUS
  <2> QED
    BY <2>1 DEF Init
<1>4. /\ op \in OpType /\ load.pc = "idle"
      /\ load \in [pc: {"idle", "keyId", "active"},
                   keyId: 0..KeyIdMax \cup {None}]
  BY DEF Init, Idle, NoLoad, OpType
<1>5. /\ address \in Address \cup {None} /\ keyId \in 0..KeyIdMax \cup {None}
      /\ active \in BOOLEAN \cup {None} /\ stage \in Stage \cup {None}
      /\ confirming \in BOOLEAN /\ prepared \in Prepared \cup {None}
      /\ lost \subseteq PublicKey
  BY DEF Init
<1>6. losses \in 0..MaxLost /\ elsewhere \in 0..MaxElsewhere
  BY DEF Init
<1>7. TypeOK
  BY <1>1, <1>3, <1>4, <1>5, <1>6 DEF TypeOK, OpType
<1> QED
  BY <1>1, <1>2, <1>7 DEF IInv

LEMMA StutterInv ==
    ASSUME IInv, UNCHANGED vars
    PROVE  IInv'
<1>1. /\ UNCHANGED <<contractVars, outside, envelopes, address, load, keyId,
                     active, stage, confirming, prepared, op, madeFor>>
  BY DEF vars, screen, shown, outside
<1>2. OpOK' /\ PreparedOK'
  BY <1>1 DEF IInv, OpOK, PreparedOK, Made
<1> QED
  BY <1>1, <1>2, QuietInv DEF IInv, TypeOK, OpType

LEMMA StepInv == IInv /\ [Next]_vars => IInv'
<1> SUFFICES ASSUME IInv, [Next]_vars PROVE IInv'
  OBVIOUS
<1>1. CASE \/ \E a \in Address \cup {None} : SetAddress(a)
           \/ LoadKeyId \/ LoadActive \/ LoadFails
           \/ AskDeactivate \/ CancelDeactivate
  BY <1>1, ScreenInv
<1>2. CASE Reload
  BY <1>2, ReloadInv
<1>3. CASE \/ Prepare \/ LockRecovery \/ PrepareFails \/ Register \/ Deactivate
           \/ EnsureProvider \/ CallFails \/ Receipt \/ Deactivated
  BY <1>3, CallInv
<1>4. CASE CreatePasskey
  BY <1>4, CreatePasskeyInv
<1>5. CASE Approve \/ AnswerLost
  BY <1>5, PoolInv
<1>6. CASE ReadKey
  BY <1>6, ReadKeyInv
<1>7. CASE \E w \in Address : Mine(w) \/ Elsewhere(w)
  BY <1>7, MineInv, ElsewhereInv
<1>8. CASE UNCHANGED vars
  BY <1>8, StutterInv
<1> QED
  BY <1>1, <1>2, <1>3, <1>4, <1>5, <1>6, <1>7, <1>8 DEF Next, OpStep

\* The page, the wallet and the contract always satisfy the inductive
\* invariant.  (use-mailbox-onboarding.ts, register and deactivate)
THEOREM SafetyInvariant == Spec => []IInv
  BY InitInv, StepInv, PTL DEF Spec

\* The page, the pending transactions and the contract keep their types.
\* (use-mailbox-onboarding.ts)
THEOREM TypeCorrect == Spec => []TypeOK
<1>1. IInv => TypeOK
  BY DEF IInv
<1> QED
  BY <1>1, SafetyInvariant, PTL

\* However often the wallet changes while a passkey is made or a transaction
\* is pending, a key is registered for the wallet that its passkey was made
\* for.  (register, line 99)
THEOREM KeyOfItsWalletAlways == Spec => []KeyOfItsWallet
<1>1. IInv => KeyOfItsWallet
  BY DEF IInv
<1> QED
  BY <1>1, SafetyInvariant, PTL
-----------------------------------------------------------------------------
(* What a call knows while it waits. *)

OnChain(w, p) == \E k \in 1..KeyIdMax : mailboxPublicKeys[w][k] = p

\* Only the newest transaction of the running call is awaited.
Awaited ==
    \A w \in Address : \A i \in DOMAIN pool[w] : pool[w][i].awaited =>
        /\ op.pc = "receipt" /\ w = op.address /\ i = Len(pool[w])
        /\ pool[w][i].kind = op.kind /\ pool[w][i].key = op.key

\* What is prepared while a call runs is what the call registers, or is of
\* another wallet than the one a passkey is being made for.
Asked ==
    /\ op.kind = "register" /\ prepared # None =>
          prepared.key = op.key /\ prepared.address = op.address
    /\ op.kind = "prepare" /\ prepared # None => prepared.address # address

\* A mined registration: nothing else of its owner is pending, so that the
\* current key is the registered one unless another device acted.
Landed ==
    op.kind = "register" /\ op.pc \in {"mined", "readKey"} =>
        /\ pool[op.address] = << >> /\ OnChain(op.address, op.key)
        /\ elsewhere = 0 =>
              mailboxPublicKeys[op.address][currentKeyId[op.address]] = op.key

\* Key ids are given in order.
KeysBelow ==
    \A o \in Address, k \in 0..KeyIdMax :
        mailboxPublicKeys[o][k] # ZeroKey => k <= currentKeyId[o]

CallInvariant ==
    Awaited /\ Asked /\ Landed /\ KeysBelow /\ EnvelopeUnderItsKey

\* What the following proofs use of the first invariant.
LEMMA Types ==
    ASSUME IInv
    PROVE  /\ op \in OpType /\ OpOK /\ prepared \in Prepared \cup {None}
           /\ pool \in [Address -> Seq(Tx)]
           /\ currentKeyId \in [Address -> 0..KeyIdMax]
           /\ mailboxPublicKeys \in
                 [Address -> [0..KeyIdMax -> PublicKey \cup {ZeroKey}]]
           /\ envelopes \in [Address -> [1..KeyIdMax -> PublicKey \cup {None}]]
           /\ madeFor \in [PublicKey -> Address \cup {None}]
           /\ elsewhere \in Nat /\ lost \subseteq PublicKey
           /\ address \in Address \cup {None}
  BY OnboardingAssumption DEF IInv, TypeOK, OpType, Chain!TypeOK

\* The call waits for nothing before or after the step, or does not change;
\* what a mined call learned is kept.
LEMMA GoesOn ==
    ASSUME IInv, CallInvariant,
           UNCHANGED <<pool, mailboxPublicKeys, currentKeyId, elsewhere,
                       envelopes>>,
           \/ op' = op
           \/ /\ op.pc # "receipt"
              /\ op'.kind = "register" /\ op'.pc \in {"mined", "readKey"} =>
                    /\ op.kind = "register" /\ op.pc = "mined"
                    /\ op'.address = op.address /\ op'.key = op.key
    PROVE  Awaited' /\ Landed' /\ KeysBelow' /\ EnvelopeUnderItsKey'
<1>1. Awaited'
  BY DEF CallInvariant, Awaited
<1>2. Landed'
  BY DEF CallInvariant, Landed, OnChain
<1> QED
  BY <1>1, <1>2 DEF CallInvariant, KeysBelow, EnvelopeUnderItsKey

LEMMA ScreenCall ==
    ASSUME IInv, CallInvariant,
           \/ \E a \in Address \cup {None} : SetAddress(a)
           \/ LoadKeyId \/ LoadActive \/ LoadFails
           \/ AskDeactivate \/ CancelDeactivate \/ UNCHANGED vars
    PROVE  CallInvariant'
<1>1. /\ UNCHANGED <<contractVars, outside, op, envelopes>>
      /\ \/ prepared' = None
         \/ prepared' = prepared /\ address' = address
  BY DEF SetAddress, LoadKeyId, LoadActive, LoadFails, AskDeactivate,
         CancelDeactivate, screen, shown, vars
<1>2. UNCHANGED <<pool, mailboxPublicKeys, currentKeyId, elsewhere, envelopes,
                  op>>
  BY <1>1 DEF contractVars, outside
<1>3. Asked'
  BY <1>1, <1>2 DEF CallInvariant, Asked
<1> QED
  BY <1>2, <1>3, GoesOn DEF CallInvariant

LEMMA QuietCall ==
    ASSUME IInv, CallInvariant,
           \/ Prepare \/ CreatePasskey \/ LockRecovery \/ PrepareFails
           \/ Register \/ Deactivate \/ EnsureProvider \/ CallFails
           \/ Receipt \/ Deactivated
    PROVE  CallInvariant'
<1>1. op \in OpType /\ OpOK
  BY Types
<1>2. UNCHANGED <<pool, mailboxPublicKeys, currentKeyId, elsewhere, envelopes,
                  address>>
  BY DEF Prepare, CreatePasskey, LockRecovery, PrepareFails, Register,
         Deactivate, Start, EnsureProvider, CallFails, Catch, Receipt,
         Deactivated, contractVars, outside
<1>3. /\ op.pc # "receipt"
      /\ op'.kind = "register" /\ op'.pc \in {"mined", "readKey"} =>
            /\ op.kind = "register" /\ op.pc = "mined"
            /\ op'.address = op.address /\ op'.key = op.key
      /\ Asked'
  <2>1. Asked
    BY DEF CallInvariant
  <2>2. CASE Prepare
    <3>1. /\ op = Idle /\ op'.kind = "prepare" /\ prepared' = prepared
          /\ ~IsPrepared(address)
      BY <2>2 DEF Prepare, Start
    <3> QED
      BY <1>2, <3>1 DEF Asked, IsPrepared, Idle
  <2>3. CASE CreatePasskey
    <3>1. /\ op.pc = "passkey" /\ prepared' = prepared
          /\ \E p \in PublicKey : op' = [op EXCEPT !.pc = "recovery", !.key = p]
      BY <2>3 DEF CreatePasskey
    <3>2. op.kind = "prepare"
      BY <1>1, <3>1 DEF OpOK
    <3>3. op'.kind = "prepare"
      BY <1>1, <3>1, <3>2 DEF OpType
    <3> QED
      BY <1>2, <2>1, <3>1, <3>2, <3>3 DEF Asked
  <2>4. CASE LockRecovery
    BY <2>4 DEF LockRecovery, Asked, Idle
  <2>5. CASE PrepareFails
    BY <1>1, <2>5 DEF PrepareFails, Asked, Idle, OpOK
  <2>6. CASE Register
    <3>1. /\ op = Idle /\ op'.kind = "register" /\ op'.pc = "provider"
          /\ op'.key = prepared.key /\ op'.address = address
          /\ prepared' = prepared /\ prepared.address = address
      BY <2>6 DEF Register, IsPrepared, Start
    <3> QED
      BY <3>1 DEF Asked, Idle
  <2>7. CASE Deactivate
    BY <2>7 DEF Deactivate, Start, Asked, Idle
  <2>8. CASE EnsureProvider
    <3>1. op.pc = "provider" /\ op' = [op EXCEPT !.pc = "approve"]
      BY <2>8 DEF EnsureProvider
    <3>2. /\ op'.pc = "approve" /\ op'.kind = op.kind /\ op'.key = op.key
          /\ op'.address = op.address /\ prepared' = prepared
      BY <1>1, <2>8, <3>1 DEF EnsureProvider, OpType
    <3> QED
      BY <1>2, <2>1, <3>1, <3>2 DEF Asked
  <2>9. CASE CallFails
    BY <2>9 DEF CallFails, Catch, Asked, Idle
  <2>10. CASE Receipt
    <3>1. /\ op.pc = "mined" /\ op.kind = "register"
          /\ op' = [op EXCEPT !.pc = "readKey"] /\ prepared' = prepared
      BY <2>10 DEF Receipt
    <3>2. op'.kind = "register" /\ op'.key = op.key /\ op'.address = op.address
      BY <1>1, <3>1 DEF OpType
    <3> QED
      BY <1>2, <2>1, <3>1, <3>2 DEF Asked
  <2>11. CASE Deactivated
    BY <2>11 DEF Deactivated, Asked, Idle
  <2> QED
    BY <2>2, <2>3, <2>4, <2>5, <2>6, <2>7, <2>8, <2>9, <2>10, <2>11
<1> QED
  BY <1>2, <1>3, GoesOn DEF CallInvariant

\* What the pool becomes when a call submits its transaction, when a page does
\* not wait any more, and when the oldest transaction is mined.
Appended(w, q, r, tx) ==
    /\ pool[w] = q /\ pool' = [pool EXCEPT ![w] = r]
    /\ DOMAIN q = 1..Len(q) /\ DOMAIN r = 1..(Len(q) + 1)
    /\ Len(q) \in Nat /\ Len(r) = Len(q) + 1
    /\ \A i \in DOMAIN q : r[i] = q[i]
    /\ r[Len(r)] = tx

LEMMA SubmitAppends ==
    ASSUME IInv, op.pc = "approve", NEW b \in BOOLEAN, Submit(b)
    PROVE  \E w \in Address, q, r \in Seq(Tx), tx \in Tx :
               /\ Appended(w, q, r, tx) /\ w = op.address
               /\ tx.kind = op.kind /\ tx.key = op.key /\ tx.awaited = b
<1>1. PICK tx : tx = [kind |-> op.kind, key |-> op.key, awaited |-> b]
  OBVIOUS
<1>2. /\ op.address \in Address /\ op.kind \in {"register", "deactivate"}
      /\ op.key \in PublicKey \cup {None} /\ pool \in [Address -> Seq(Tx)]
  BY DEF IInv, TypeOK, OpOK
<1>3. tx \in Tx
  BY <1>1, <1>2 DEF Tx
<1>4. PICK w \in Address, q \in Seq(Tx) : w = op.address /\ q = pool[w]
  BY <1>2
<1>5. PICK r \in Seq(Tx) : r = Append(q, tx)
  <2>1. Append(q, tx) \in Seq(Tx)
    BY <1>3
  <2> QED
    BY <2>1
<1>6. pool' = [pool EXCEPT ![w] = r]
  BY <1>1, <1>4, <1>5 DEF Submit
<1>7. /\ DOMAIN q = 1..Len(q) /\ DOMAIN r = 1..(Len(q) + 1)
      /\ Len(q) \in Nat /\ Len(r) = Len(q) + 1
      /\ \A i \in DOMAIN q : r[i] = q[i]
      /\ r[Len(r)] = tx
  BY <1>3, <1>5
<1>8. Appended(w, q, r, tx)
  BY <1>4, <1>6, <1>7 DEF Appended
<1> QED
  BY <1>1, <1>3, <1>4, <1>8

SameTransactions(q, r) ==
    /\ DOMAIN r = DOMAIN q
    /\ \A i \in DOMAIN q : /\ r[i].kind = q[i].kind /\ r[i].key = q[i].key
                           /\ r[i].awaited = FALSE

LEMMA NobodyWaits ==
    ASSUME NEW q \in Seq(Tx)
    PROVE  SameTransactions(q, Unheard(q))
<1>1. PICK r : r = Unheard(q)
  OBVIOUS
<1>2. /\ DOMAIN r = DOMAIN q
      /\ \A i \in DOMAIN q : r[i].kind = q[i].kind /\ r[i].key = q[i].key
  BY <1>1, Unawaited
<1>3. ASSUME NEW i \in DOMAIN q
      PROVE  r[i].awaited = FALSE
  <2>1. PICK tx \in Tx : tx = q[i]
    OBVIOUS
  <2>2. r[i] = [tx EXCEPT !.awaited = FALSE]
    BY <1>1, <2>1 DEF Unheard
  <2> QED
    BY <2>1, <2>2 DEF Tx
<1> QED
  BY <1>1, <1>2, <1>3 DEF SameTransactions

Shifted(w, q, r) ==
    /\ pool[w] = q /\ pool' = [pool EXCEPT ![w] = r]
    /\ q # << >> /\ Len(q) \in Nat \ {0} /\ Len(r) = Len(q) - 1
    /\ DOMAIN q = 1..Len(q) /\ DOMAIN r = 1..(Len(q) - 1)
    /\ \A i \in DOMAIN r : i + 1 \in DOMAIN q /\ r[i] = q[i + 1]

LEMMA MineShifts ==
    ASSUME IInv, NEW w \in Address, Mine(w)
    PROVE  \E q, r \in Seq(Tx), tx \in Tx :
               /\ Shifted(w, q, r) /\ tx = q[1] /\ tx = Head(pool[w])
<1>1. /\ pool \in [Address -> Seq(Tx)] /\ pool[w] # << >>
      /\ pool' = [pool EXCEPT ![w] = Tail(pool[w])]
  BY DEF Mine, IInv, TypeOK
<1>2. PICK q \in Seq(Tx) : q = pool[w] /\ q # << >>
  BY <1>1
<1>3. Tail(q) \in Seq(Tx)
  BY <1>2
<1>4. PICK r \in Seq(Tx) : r = Tail(q)
  BY <1>3
<1>5. /\ Len(q) \in Nat \ {0} /\ Len(r) = Len(q) - 1
      /\ DOMAIN q = 1..Len(q) /\ DOMAIN r = 1..(Len(q) - 1)
      /\ \A i \in DOMAIN r : i + 1 \in DOMAIN q /\ r[i] = q[i + 1]
  BY <1>2, <1>4
<1>6. Shifted(w, q, r)
  BY <1>1, <1>2, <1>4, <1>5 DEF Shifted
<1>7. PICK tx \in Tx : tx = q[1]
  BY <1>2, <1>5
<1>8. tx = Head(pool[w])
  BY <1>2, <1>7
<1> QED
  BY <1>6, <1>7, <1>8

LEMMA ApproveCall ==
    ASSUME IInv, CallInvariant, Approve
    PROVE  CallInvariant'
<1>1. /\ op.pc = "approve" /\ op' = [op EXCEPT !.pc = "receipt"] /\ op \in OpType
      /\ UNCHANGED <<mailboxPublicKeys, currentKeyId, elsewhere, envelopes,
                     address, prepared>>
  BY Types DEF Approve, contractVars
<1>2. /\ op'.pc = "receipt" /\ op'.kind = op.kind /\ op'.key = op.key
      /\ op'.address = op.address
  BY <1>1 DEF OpType
<1>3. PICK w \in Address, q \in Seq(Tx), r \in Seq(Tx), tx \in Tx :
          /\ Appended(w, q, r, tx) /\ w = op.address
          /\ tx.kind = op.kind /\ tx.key = op.key /\ tx.awaited = TRUE
  BY <1>1, SubmitAppends DEF Approve
<1>4. Awaited'
  <2> SUFFICES ASSUME NEW v \in Address, NEW i \in DOMAIN pool'[v],
                      pool'[v][i].awaited
               PROVE  /\ v = w /\ i = Len(pool'[v]) /\ pool'[v][i] = tx
    BY <1>2, <1>3 DEF Awaited
  <2>1. \A u \in Address : \A j \in DOMAIN pool[u] : ~pool[u][j].awaited
    BY <1>1 DEF CallInvariant, Awaited
  <2>2. CASE v = w
    <3>1. pool'[v] = r
      BY <1>3, <2>2, Types DEF Appended
    <3>2. i \in 1..(Len(q) + 1)
      BY <1>3, <3>1 DEF Appended
    <3>3. i # Len(r) => i \in DOMAIN q
      BY <1>3, <3>2 DEF Appended
    <3>4. i = Len(r)
      BY <1>3, <2>1, <3>1, <3>3 DEF Appended
    <3> QED
      BY <1>3, <2>2, <3>1, <3>4 DEF Appended
  <2>3. CASE v # w
    BY <1>3, <2>1, <2>3, Types DEF Appended
  <2> QED
    BY <2>2, <2>3
<1>5. Asked' /\ Landed'
  BY <1>1, <1>2 DEF CallInvariant, Asked, Landed
<1> QED
  BY <1>1, <1>4, <1>5 DEF CallInvariant, KeysBelow, EnvelopeUnderItsKey

LEMMA LostCall ==
    ASSUME IInv, CallInvariant, AnswerLost
    PROVE  CallInvariant'
<1>1. /\ op' = Idle
      /\ UNCHANGED <<mailboxPublicKeys, currentKeyId, elsewhere, envelopes>>
  BY DEF AnswerLost, Lose, Catch, contractVars
<1>2. Awaited'
  <2> SUFFICES ASSUME NEW v \in Address, NEW i \in DOMAIN pool'[v]
               PROVE  ~pool'[v][i].awaited
    BY DEF Awaited
  <2>1. CASE op.pc = "approve" /\ Submit(FALSE)
    <3>1. PICK w \in Address, q \in Seq(Tx), r \in Seq(Tx), tx \in Tx :
              Appended(w, q, r, tx) /\ tx.awaited = FALSE
      BY <2>1, SubmitAppends
    <3>2. \A u \in Address : \A j \in DOMAIN pool[u] : ~pool[u][j].awaited
      BY <2>1 DEF CallInvariant, Awaited
    <3>3. CASE v = w
      <4>1. pool'[v] = r
        BY <3>1, <3>3, Types DEF Appended
      <4>2. i # Len(r) => i \in DOMAIN q
        BY <3>1, <4>1 DEF Appended
      <4> QED
        BY <3>1, <3>2, <4>1, <4>2 DEF Appended
    <3>4. CASE v # w
      BY <3>1, <3>2, <3>4, Types DEF Appended
    <3> QED
      BY <3>3, <3>4
  <2>2. CASE /\ op.pc = "receipt"
             /\ pool' = [pool EXCEPT ![op.address] = Unheard(pool[op.address])]
    <3>1. PICK w \in Address : w = op.address
      BY <2>2, Types DEF OpOK
    <3>2. PICK q \in Seq(Tx) : q = pool[w]
      BY Types
    <3>3. PICK r : r = Unheard(q)
      OBVIOUS
    <3>4. SameTransactions(q, r)
      BY <3>3, NobodyWaits
    <3>5. pool' = [pool EXCEPT ![w] = r]
      BY <2>2, <3>1, <3>2, <3>3
    <3>6. CASE v = w
      BY <3>4, <3>5, <3>6, Types DEF SameTransactions
    <3>7. CASE v # w
      BY <3>1, <3>5, <3>7, Types DEF CallInvariant, Awaited
    <3> QED
      BY <3>6, <3>7
  <2>3. CASE op.pc = "readKey" /\ UNCHANGED pool
    BY <2>3 DEF CallInvariant, Awaited
  <2> QED
    BY <2>1, <2>2, <2>3 DEF AnswerLost, Unheard
<1>3. Asked' /\ Landed'
  BY <1>1 DEF Asked, Landed, Idle
<1> QED
  BY <1>1, <1>2, <1>3 DEF CallInvariant, KeysBelow, EnvelopeUnderItsKey

\* Every transaction stays, and none is awaited.
LEMMA ReloadForgets ==
    ASSUME IInv, Reload
    PROVE  \A w \in Address : SameTransactions(pool[w], pool'[w])
<1> SUFFICES ASSUME NEW w \in Address
             PROVE  SameTransactions(pool[w], pool'[w])
  OBVIOUS
<1>1. PICK q \in Seq(Tx) : q = pool[w]
  BY Types
<1>2. PICK r : r = pool'[w]
  OBVIOUS
<1>3. r = Unheard(q)
  BY <1>1, <1>2 DEF Reload, Unheard
<1> QED
  BY <1>1, <1>2, <1>3, NobodyWaits

LEMMA ReloadCall ==
    ASSUME IInv, CallInvariant, Reload
    PROVE  CallInvariant'
<1>1. /\ op' = Idle /\ prepared' = None
      /\ UNCHANGED <<mailboxPublicKeys, currentKeyId, elsewhere, envelopes>>
  BY DEF Reload, contractVars
<1>2. Awaited'
  BY ReloadForgets DEF Awaited, SameTransactions
<1>3. Asked' /\ Landed'
  BY <1>1 DEF Asked, Landed, Idle
<1> QED
  BY <1>1, <1>2, <1>3 DEF CallInvariant, KeysBelow, EnvelopeUnderItsKey

LEMMA ReadKeyCall ==
    ASSUME IInv, CallInvariant, ReadKey
    PROVE  CallInvariant'
<1>1. /\ op' = Idle /\ prepared' = None /\ op.pc = "readKey"
      /\ keyId' = currentKeyId[op.address]
      /\ envelopes' = [envelopes EXCEPT ![op.address][keyId'] = op.key]
      /\ UNCHANGED <<pool, mailboxPublicKeys, currentKeyId, elsewhere>>
  BY DEF ReadKey, contractVars, outside
<1>2. /\ op.kind = "register" /\ op.address \in Address /\ op.key \in PublicKey
  BY <1>1, Types DEF OpOK, Made
<1>3. PICK w \in Address, p \in PublicKey, n \in 0..KeyIdMax :
          w = op.address /\ p = op.key /\ n = keyId'
  BY <1>1, <1>2, Types
<1>4. envelopes' = [envelopes EXCEPT ![w][n] = p]
  BY <1>1, <1>3
<1>5. EnvelopeUnderItsKey'
  <2> SUFFICES ASSUME elsewhere = 0, NEW v \in Address, NEW k \in 1..KeyIdMax,
                      envelopes'[v][k] # None
               PROVE  envelopes'[v][k] = mailboxPublicKeys[v][k]
    BY <1>1 DEF EnvelopeUnderItsKey
  <2>1. mailboxPublicKeys[w][n] = p
    BY <1>1, <1>2, <1>3 DEF CallInvariant, Landed
  <2>2. CASE v = w /\ k = n
    BY <1>4, <2>1, <2>2, Types
  <2>3. CASE ~(v = w /\ k = n)
    <3>1. envelopes'[v][k] = envelopes[v][k]
      BY <1>4, <2>3, Types
    <3> QED
      BY <3>1 DEF CallInvariant, EnvelopeUnderItsKey
  <2> QED
    BY <2>2, <2>3
<1>6. Awaited'
  BY <1>1 DEF CallInvariant, Awaited
<1>7. Asked' /\ Landed'
  BY <1>1 DEF Asked, Landed, Idle
<1> QED
  BY <1>1, <1>5, <1>6, <1>7 DEF CallInvariant, KeysBelow

\* What executing a transaction does to the keys of the chain.
Unregistered == UNCHANGED <<currentKeyId, mailboxPublicKeys>>

RegisteredAs(w, n, p) ==
    /\ n \in 1..KeyIdMax /\ n = currentKeyId[w] + 1
    /\ currentKeyId' = [currentKeyId EXCEPT ![w] = n]
    /\ mailboxPublicKeys' = [mailboxPublicKeys EXCEPT ![w][n] = p]

LEMMA RegisteredKey ==
    ASSUME IInv, NEW w \in Address, NEW p \in PublicKey,
           Chain!RegisterMailboxKey(w, p)
    PROVE  \E n \in 1..KeyIdMax : RegisteredAs(w, n, p)
<1> USE OnboardingAssumption
<1>1. currentKeyId[w] \in 0..KeyIdMax
  BY Types
<1>2. PICK n \in Nat : n = currentKeyId[w] + 1
  BY <1>1
<1>3. /\ n \in 1..KeyIdMax
      /\ currentKeyId' = [currentKeyId EXCEPT ![w] = n]
      /\ mailboxPublicKeys' = [mailboxPublicKeys EXCEPT ![w][n] = p]
  BY <1>1, <1>2 DEF Chain!RegisterMailboxKey, Chain!RegisterError, Chain!NextKeyId
<1> QED
  BY <1>2, <1>3 DEF RegisteredAs

LEMMA DeactivatedKey ==
    ASSUME NEW w \in Address, Chain!DeactivateMailbox(w)
    PROVE  Unregistered
  BY DEF Chain!DeactivateMailbox, Unregistered

\* The keys after a registration, one by one.
LEMMA KeysAfter ==
    ASSUME IInv, NEW w \in Address, NEW n, NEW p \in PublicKey,
           RegisteredAs(w, n, p)
    PROVE  /\ \A v \in Address, k \in 0..KeyIdMax :
                 mailboxPublicKeys'[v][k] =
                     IF v = w /\ k = n THEN p ELSE mailboxPublicKeys[v][k]
           /\ \A v \in Address :
                 currentKeyId'[v] = IF v = w THEN n ELSE currentKeyId[v]
           /\ currentKeyId[w] \in Nat /\ n \in 0..KeyIdMax /\ n \in 1..KeyIdMax
           /\ n = currentKeyId[w] + 1
<1>1. /\ n \in 1..KeyIdMax /\ n = currentKeyId[w] + 1
      /\ currentKeyId' = [currentKeyId EXCEPT ![w] = n]
      /\ mailboxPublicKeys' = [mailboxPublicKeys EXCEPT ![w][n] = p]
  BY DEF RegisteredAs
<1>2. currentKeyId[w] \in Nat /\ n \in 0..KeyIdMax
  BY <1>1, Types, OnboardingAssumption
<1> QED
  BY <1>1, <1>2, Types

LEMMA RegisteredKeysBelow ==
    ASSUME IInv, KeysBelow, NEW w \in Address, NEW n, NEW p \in PublicKey,
           RegisteredAs(w, n, p)
    PROVE  /\ KeysBelow' /\ OnChain(w, p)'
           /\ \A v \in Address, x \in PublicKey :
                 OnChain(v, x) => OnChain(v, x)'
           /\ \A v \in Address, x \in PublicKey :
                 OnChain(v, x)' => OnChain(v, x) \/ (v = w /\ x = p)
<1> USE OnboardingAssumption
<1>1. KeysBelow'
  <2> SUFFICES ASSUME NEW v \in Address, NEW k \in 0..KeyIdMax,
                      mailboxPublicKeys'[v][k] # ZeroKey
               PROVE  k <= currentKeyId'[v]
    BY DEF KeysBelow
  <2> QED
    BY KeysAfter DEF KeysBelow
<1>2. \A k \in 1..KeyIdMax : k \in 0..KeyIdMax
  OBVIOUS
<1>3. OnChain(w, p)'
  BY <1>2, KeysAfter DEF OnChain
<1>4. ASSUME NEW v \in Address, NEW x \in PublicKey, OnChain(v, x)
      PROVE  OnChain(v, x)'
  <2>1. PICK k \in 1..KeyIdMax : mailboxPublicKeys[v][k] = x
    BY <1>4 DEF OnChain
  <2>2. x # ZeroKey
    OBVIOUS
  <2>3. k <= currentKeyId[v]
    BY <1>2, <2>1, <2>2 DEF KeysBelow
  <2>4. ~(v = w /\ k = n)
    BY <2>3, KeysAfter
  <2>5. mailboxPublicKeys'[v][k] = x
    BY <1>2, <2>1, <2>4, KeysAfter
  <2> QED
    BY <2>5 DEF OnChain
<1>5. ASSUME NEW v \in Address, NEW x \in PublicKey, OnChain(v, x)'
      PROVE  OnChain(v, x) \/ (v = w /\ x = p)
  BY <1>2, <1>5, KeysAfter DEF OnChain
<1> QED
  BY <1>1, <1>3, <1>4, <1>5

\* What mining the oldest transaction of an owner does.
LEMMA MineKeys ==
    ASSUME IInv, NEW w \in Address, Mine(w)
    PROVE  LET tx == Head(pool[w]) IN
           \/ Unregistered
           \/ /\ tx.kind = "register" /\ tx.key \in PublicKey
              /\ ~Reverts(w, tx)
              /\ \E n \in 1..KeyIdMax : RegisteredAs(w, n, tx.key)
<1>1. PICK q \in Seq(Tx), r \in Seq(Tx), tx \in Tx :
          Shifted(w, q, r) /\ tx = q[1] /\ tx = Head(pool[w])
  BY MineShifts
<1>2. tx.kind = "register" => Made(tx.key, w)
  BY <1>1 DEF Shifted, IInv, PoolOK
<1>3. \/ UNCHANGED contractVars
      \/ ~Reverts(w, tx) /\ Execute(w, tx)
  BY <1>1 DEF Mine
<1>4. CASE UNCHANGED contractVars
  BY <1>4 DEF Unregistered, contractVars
<1>5. CASE ~Reverts(w, tx) /\ Execute(w, tx)
  <2>1. CASE tx.kind = "register"
    <3>1. PICK p \in PublicKey : p = tx.key
      BY <1>2, <2>1 DEF Made
    <3>2. Chain!RegisterMailboxKey(w, p)
      BY <1>5, <2>1, <3>1 DEF Execute
    <3> QED
      BY <1>1, <1>5, <2>1, <3>1, <3>2, RegisteredKey
  <2>2. CASE tx.kind # "register"
    BY <1>5, <2>2, DeactivatedKey DEF Execute
  <2> QED
    BY <2>1, <2>2
<1> QED
  BY <1>3, <1>4, <1>5

LEMMA MineCall ==
    ASSUME IInv, CallInvariant, NEW w \in Address, Mine(w)
    PROVE  CallInvariant'
<1> USE OnboardingAssumption
<1>1. PICK q \in Seq(Tx), r \in Seq(Tx), tx \in Tx :
          Shifted(w, q, r) /\ tx = q[1] /\ tx = Head(pool[w])
  BY MineShifts
<1>2. /\ UNCHANGED <<elsewhere, address, prepared, envelopes>>
      /\ op' = IF tx.awaited
               THEN [op EXCEPT !.pc = IF Reverts(w, tx) THEN "reverted"
                                      ELSE "mined"]
               ELSE op
  BY <1>1 DEF Mine
<1>3. op' = op \/ op'.pc \in {"reverted", "mined"}
  BY <1>2, Types DEF OpType
<1>4. /\ op'.kind = op.kind /\ op'.key = op.key /\ op'.address = op.address
      /\ tx.awaited => op'.pc = IF Reverts(w, tx) THEN "reverted" ELSE "mined"
  BY <1>2, Types DEF OpType
<1>5. tx.awaited => /\ op.pc = "receipt" /\ w = op.address /\ Len(q) = 1
                    /\ tx.kind = op.kind /\ tx.key = op.key
  BY <1>1 DEF CallInvariant, Awaited, Shifted
<1>6. Asked'
  BY <1>2, <1>4 DEF CallInvariant, Asked
<1>7. KeysBelow'
  BY <1>1, MineKeys, RegisteredKeysBelow
     DEF CallInvariant, Unregistered, KeysBelow
<1>8. Awaited'
  <2> SUFFICES ASSUME NEW v \in Address, NEW i \in DOMAIN pool'[v],
                      pool'[v][i].awaited
               PROVE  /\ op'.pc = "receipt" /\ v = op'.address
                      /\ i = Len(pool'[v])
                      /\ pool'[v][i].kind = op'.kind
                      /\ pool'[v][i].key = op'.key
    BY DEF Awaited
  <2>1. CASE v = w
    <3>1. pool'[v] = r /\ i \in DOMAIN r
      BY <1>1, <2>1, Types DEF Shifted
    <3>2. /\ i + 1 \in DOMAIN q /\ r[i] = q[i + 1] /\ Len(r) = Len(q) - 1
          /\ i \in Nat
      BY <1>1, <3>1 DEF Shifted
    <3>3. /\ op.pc = "receipt" /\ v = op.address /\ i + 1 = Len(q)
          /\ r[i].kind = op.kind /\ r[i].key = op.key
      BY <1>1, <2>1, <3>1, <3>2 DEF CallInvariant, Awaited, Shifted
    <3>4. ~tx.awaited
      BY <1>1, <1>5, <3>1, <3>2, <3>3 DEF Shifted
    <3>5. op' = op /\ i = Len(r)
      BY <1>1, <1>2, <3>2, <3>3, <3>4 DEF Shifted
    <3> QED
      BY <3>1, <3>3, <3>5
  <2>2. CASE v # w
    <3>1. pool'[v] = pool[v]
      BY <1>1, <2>2, Types DEF Shifted
    <3>2. /\ op.pc = "receipt" /\ v = op.address /\ i = Len(pool[v])
          /\ pool[v][i].kind = op.kind /\ pool[v][i].key = op.key
      BY <3>1 DEF CallInvariant, Awaited
    <3>3. op' = op
      BY <1>2, <1>5, <2>2, <3>2
    <3> QED
      BY <3>1, <3>2, <3>3
  <2> QED
    BY <2>1, <2>2
<1>9. Landed'
  <2> SUFFICES ASSUME op'.kind = "register", op'.pc \in {"mined", "readKey"}
               PROVE  /\ pool'[op'.address] = << >>
                      /\ \E k \in 1..KeyIdMax :
                            mailboxPublicKeys'[op'.address][k] = op'.key
                      /\ elsewhere = 0 =>
                            mailboxPublicKeys'[op'.address]
                                [currentKeyId'[op'.address]] = op'.key
    BY <1>2 DEF Landed, OnChain
  <2>1. op.kind = "register" /\ op.address \in Address /\ op.key \in PublicKey
    BY <1>4, Types DEF OpOK, Made
  <2>2. PICK v \in Address, p \in PublicKey : v = op.address /\ p = op.key
    BY <2>1
  <2>3. CASE tx.awaited
    <3>1. v = w /\ p = tx.key /\ tx.kind = "register" /\ ~Reverts(w, tx)
      BY <1>4, <1>5, <2>1, <2>2, <2>3
    <3>2. pool'[v] = << >>
      <4>1. pool'[v] = r /\ r \in Seq(Tx) /\ Len(r) = 0
        BY <1>1, <1>5, <2>3, <3>1, Types DEF Shifted
      <4> QED
        BY <4>1
    <3>3. \E n \in 1..KeyIdMax : RegisteredAs(w, n, p)
      <4>1. Chain!RegisterMailboxKey(w, p)
        BY <1>1, <3>1 DEF Mine, Execute
      <4> QED
        BY <4>1, RegisteredKey
    <3>4. PICK n \in 1..KeyIdMax : RegisteredAs(w, n, p)
      BY <3>3
    <3>5. mailboxPublicKeys'[w][n] = p /\ currentKeyId'[w] = n
      BY <3>4, KeysAfter
    <3> QED
      BY <1>4, <2>2, <3>1, <3>2, <3>5 DEF OnChain
  <2>4. CASE ~tx.awaited
    <3>1. op' = op
      BY <1>2, <2>4
    <3>2. /\ pool[v] = << >> /\ OnChain(v, p)
          /\ elsewhere = 0 => mailboxPublicKeys[v][currentKeyId[v]] = p
      BY <2>2, <3>1 DEF CallInvariant, Landed
    <3>3. v # w
      BY <1>1, <3>2 DEF Shifted
    <3>4. pool'[v] = << >>
      BY <1>1, <3>2, <3>3, Types DEF Shifted
    <3>5. /\ OnChain(v, p)'
          /\ elsewhere = 0 => mailboxPublicKeys'[v][currentKeyId'[v]] = p
      <4>1. CASE Unregistered
        BY <3>2, <4>1 DEF Unregistered, OnChain
      <4>2. CASE \E n \in 1..KeyIdMax :
                    tx.key \in PublicKey /\ RegisteredAs(w, n, tx.key)
        <5>1. PICK n \in 1..KeyIdMax :
                  tx.key \in PublicKey /\ RegisteredAs(w, n, tx.key)
          BY <4>2
        <5>2. OnChain(v, p)'
          BY <3>2, <5>1, RegisteredKeysBelow DEF CallInvariant
        <5>3. currentKeyId'[v] = currentKeyId[v] /\ currentKeyId[v] \in 0..KeyIdMax
          BY <3>3, <5>1, KeysAfter, Types
        <5>4. mailboxPublicKeys'[v][currentKeyId[v]] =
                  mailboxPublicKeys[v][currentKeyId[v]]
          BY <3>3, <5>1, <5>3, KeysAfter
        <5> QED
          BY <3>2, <5>2, <5>3, <5>4
      <4> QED
        BY <1>1, <4>1, <4>2, MineKeys
    <3> QED
      BY <2>2, <3>1, <3>4, <3>5 DEF OnChain
  <2> QED
    BY <2>3, <2>4
<1>10. EnvelopeUnderItsKey'
  <2> SUFFICES ASSUME elsewhere = 0, NEW v \in Address, NEW k \in 1..KeyIdMax,
                      envelopes[v][k] # None
               PROVE  envelopes[v][k] = mailboxPublicKeys'[v][k]
    BY <1>2 DEF EnvelopeUnderItsKey
  <2>1. envelopes[v][k] = mailboxPublicKeys[v][k] /\ k \in 0..KeyIdMax
    BY DEF CallInvariant, EnvelopeUnderItsKey
  <2>2. mailboxPublicKeys[v][k] # ZeroKey
    BY <2>1, Types
  <2>3. CASE Unregistered
    BY <2>1, <2>3 DEF Unregistered
  <2>4. CASE \E n \in 1..KeyIdMax :
                tx.key \in PublicKey /\ RegisteredAs(w, n, tx.key)
    <3>1. PICK n \in 1..KeyIdMax :
              tx.key \in PublicKey /\ RegisteredAs(w, n, tx.key)
      BY <2>4
    <3>2. k <= currentKeyId[v]
      BY <2>1, <2>2 DEF CallInvariant, KeysBelow
    <3>3. ~(v = w /\ k = n)
      BY <3>1, <3>2, KeysAfter
    <3> QED
      BY <2>1, <3>1, <3>3, KeysAfter
  <2> QED
    BY <1>1, <2>3, <2>4, MineKeys
<1> QED
  BY <1>6, <1>7, <1>8, <1>9, <1>10 DEF CallInvariant

\* What another device does to the keys.
LEMMA ElsewhereKeys ==
    ASSUME IInv, NEW w \in Address, Elsewhere(w)
    PROVE  \/ Unregistered
           \/ \E p \in PublicKey, n \in 1..KeyIdMax :
                 Fresh(p) /\ RegisteredAs(w, n, p)
<1>1. CASE \E p \in PublicKey : Fresh(p) /\ Chain!RegisterMailboxKey(w, p)
  <2>1. PICK p \in PublicKey : Fresh(p) /\ Chain!RegisterMailboxKey(w, p)
    BY <1>1
  <2>2. \E n \in 1..KeyIdMax : RegisteredAs(w, n, p)
    BY <2>1, RegisteredKey
  <2> QED
    BY <2>1, <2>2
<1>2. CASE Chain!DeactivateMailbox(w)
  BY <1>2, DeactivatedKey
<1> QED
  BY <1>1, <1>2 DEF Elsewhere

LEMMA ElsewhereCall ==
    ASSUME IInv, CallInvariant, NEW w \in Address, Elsewhere(w)
    PROVE  CallInvariant'
<1>1. /\ UNCHANGED <<pool, address, prepared, op, envelopes>>
      /\ elsewhere' = elsewhere + 1
  BY DEF Elsewhere
<1>2. elsewhere' # 0
  BY <1>1, Types
<1>3. \/ Unregistered
      \/ \E p \in PublicKey, n \in 1..KeyIdMax : RegisteredAs(w, n, p)
  BY ElsewhereKeys
<1>4. /\ KeysBelow'
      /\ \A v \in Address, x \in PublicKey : OnChain(v, x) => OnChain(v, x)'
  BY <1>3, RegisteredKeysBelow DEF CallInvariant, KeysBelow, Unregistered, OnChain
<1>5. Awaited' /\ Asked'
  BY <1>1 DEF CallInvariant, Awaited, Asked
<1>6. Landed'
  <2>1. op.kind = "register" => op.address \in Address /\ op.key \in PublicKey
    BY Types DEF OpOK, Made
  <2> QED
    BY <1>1, <1>2, <1>4, <2>1 DEF CallInvariant, Landed
<1> QED
  BY <1>2, <1>4, <1>5, <1>6 DEF CallInvariant, EnvelopeUnderItsKey
-----------------------------------------------------------------------------
(* A key whose answers all arrived is used once. *)

Pending(w, p) == {i \in DOMAIN pool[w] : /\ pool[w][i].kind = "register"
                                         /\ pool[w][i].key = p}

Unused(w, p) == Pending(w, p) = {} /\ ~OnChain(w, p)

Once ==
    \A w \in Address, p \in PublicKey \ lost :
        /\ \A i, j \in Pending(w, p) : i = j
        /\ Pending(w, p) # {} => ~OnChain(w, p)

Submitting == op.kind = "register" /\ op.pc \in {"receipt", "mined", "readKey"}

Unsubmitted ==
    \/ op.pc = "recovery"
    \/ op.kind = "register" /\ op.pc \in {"provider", "approve", "reverted"}

PreparedUnused ==
    prepared # None /\ prepared.key \notin lost /\ ~Submitting =>
        Unused(prepared.address, prepared.key)

CallUnused ==
    Unsubmitted /\ op.key \notin lost => Unused(op.address, op.key)

RetryInvariant == Once /\ PreparedUnused /\ CallUnused /\ TwiceOnlyAfterLoss

\* A key that nobody made yet is nowhere.
LEMMA FreshUnused ==
    ASSUME IInv, NEW w \in Address, NEW p \in PublicKey, Fresh(p)
    PROVE  Unused(w, p)
<1> USE OnboardingAssumption
<1>1. Pending(w, p) = {}
  BY DEF IInv, PoolOK, Made, Fresh, Pending
<1>2. ~OnChain(w, p)
  BY DEF IInv, KeyOfItsWallet, Fresh, OnChain
<1> QED
  BY <1>1, <1>2 DEF Unused

\* Neither the pool nor the chain changes.
LEMMA QuietKeys ==
    ASSUME IInv, RetryInvariant, UNCHANGED <<pool, mailboxPublicKeys>>,
           lost \subseteq lost'
    PROVE  /\ Once' /\ TwiceOnlyAfterLoss'
           /\ \A w \in Address, p \in PublicKey :
                 Unused(w, p) => Unused(w, p)'
  BY DEF RetryInvariant, Once, TwiceOnlyAfterLoss, Unused, Pending, OnChain

LEMMA ScreenRetry ==
    ASSUME IInv, RetryInvariant,
           \/ \E a \in Address \cup {None} : SetAddress(a)
           \/ LoadKeyId \/ LoadActive \/ LoadFails
           \/ AskDeactivate \/ CancelDeactivate \/ UNCHANGED vars
    PROVE  RetryInvariant'
<1>1. /\ UNCHANGED <<contractVars, outside, op>>
      /\ prepared' \in {None, prepared}
  BY DEF SetAddress, LoadKeyId, LoadActive, LoadFails, AskDeactivate,
         CancelDeactivate, screen, shown, vars
<1>2. UNCHANGED <<pool, mailboxPublicKeys, lost, op>>
  BY <1>1 DEF contractVars, outside
<1>3. PreparedUnused' /\ CallUnused'
  BY <1>1, <1>2 DEF RetryInvariant, PreparedUnused, CallUnused, Unsubmitted,
     Submitting, Unused, Pending, OnChain
<1> QED
  BY <1>2, <1>3, QuietKeys DEF RetryInvariant

LEMMA QuietRetry ==
    ASSUME IInv, RetryInvariant,
           \/ Prepare \/ CreatePasskey \/ LockRecovery \/ PrepareFails
           \/ Register \/ Deactivate \/ EnsureProvider \/ CallFails
           \/ Receipt \/ Deactivated \/ ReadKey
    PROVE  RetryInvariant'
<1>1. /\ op \in OpType /\ OpOK /\ prepared \in Prepared \cup {None}
      /\ PreparedUnused /\ CallUnused
  BY Types DEF RetryInvariant
<1>2. UNCHANGED <<pool, mailboxPublicKeys, lost>>
  BY DEF Prepare, CreatePasskey, LockRecovery, PrepareFails, Register,
         Deactivate, Start, EnsureProvider, CallFails, Catch, Receipt,
         Deactivated, ReadKey, contractVars, outside
<1>3. /\ Once' /\ TwiceOnlyAfterLoss'
      /\ \A w \in Address, p \in PublicKey : Unused(w, p) => Unused(w, p)'
  BY <1>2, QuietKeys
<1>4. \A w, p : Unused(w, p)' <=> Unused(w, p)
  BY <1>2 DEF Unused, Pending, OnChain
<1>5. PreparedUnused' /\ CallUnused'
  <2>1. CASE Prepare \/ Deactivate
    <3>1. /\ op = Idle /\ prepared' = prepared
          /\ op'.pc \notin {"recovery"} /\ op'.kind # "register"
      BY <2>1 DEF Prepare, Deactivate, Start
    <3> QED
      BY <1>1, <1>2, <1>4, <3>1 DEF PreparedUnused, CallUnused, Unsubmitted,
         Submitting, Idle
  <2>2. CASE CreatePasskey
    <3>1. PICK p \in PublicKey : /\ Fresh(p)
                                 /\ op' = [op EXCEPT !.pc = "recovery", !.key = p]
      BY <2>2 DEF CreatePasskey
    <3>2. op.kind = "prepare" /\ op.address \in Address /\ prepared' = prepared
      BY <1>1, <2>2 DEF CreatePasskey, OpOK
    <3>3. /\ op'.kind = "prepare" /\ op'.key = p /\ op'.address = op.address
      BY <1>1, <3>1, <3>2 DEF OpType
    <3>4. Unused(op.address, p)
      BY <3>1, <3>2, FreshUnused
    <3> QED
      BY <1>1, <1>2, <1>4, <3>2, <3>3, <3>4
         DEF PreparedUnused, CallUnused, Submitting
  <2>3. CASE LockRecovery
    <3>1. /\ op.pc = "recovery" /\ op' = Idle
          /\ prepared' = [address |-> op.address, key |-> op.key]
      BY <2>3 DEF LockRecovery
    <3>2. op.key \notin lost => Unused(op.address, op.key)
      BY <1>1, <3>1 DEF CallUnused, Unsubmitted
    <3> QED
      BY <1>2, <1>4, <3>1, <3>2
         DEF PreparedUnused, CallUnused, Submitting, Unsubmitted, Idle
  <2>4. CASE PrepareFails \/ ReadKey
    BY <2>4 DEF PrepareFails, ReadKey, PreparedUnused, CallUnused, Unsubmitted,
       Idle
  <2>5. CASE Register
    <3>1. /\ op = Idle /\ prepared' = prepared /\ prepared # None
          /\ op'.key = prepared.key /\ op'.address = prepared.address
      BY <2>5 DEF Register, IsPrepared, Start
    <3>2. prepared.key \notin lost => Unused(prepared.address, prepared.key)
      BY <1>1, <3>1 DEF PreparedUnused, Submitting, Idle
    <3> QED
      BY <1>2, <1>4, <3>1, <3>2 DEF PreparedUnused, CallUnused
  <2>6. CASE EnsureProvider
    <3>1. op.pc = "provider" /\ op' = [op EXCEPT !.pc = "approve"]
      BY <2>6 DEF EnsureProvider
    <3>2. /\ op'.pc = "approve" /\ op'.kind = op.kind /\ op'.key = op.key
          /\ op'.address = op.address /\ prepared' = prepared
      BY <1>1, <2>6, <3>1 DEF EnsureProvider, OpType
    <3> QED
      BY <1>1, <1>2, <1>4, <3>1, <3>2
         DEF PreparedUnused, CallUnused, Submitting, Unsubmitted
  <2>7. CASE CallFails \/ Deactivated
    <3>1. op' = Idle /\ prepared' = prepared /\ ~Submitting
      BY <2>7 DEF CallFails, Catch, Deactivated, Submitting
    <3> QED
      BY <1>1, <1>2, <1>4, <3>1
         DEF PreparedUnused, CallUnused, Unsubmitted, Idle
  <2>8. CASE Receipt
    <3>1. /\ op.pc = "mined" /\ op.kind = "register"
          /\ op' = [op EXCEPT !.pc = "readKey"] /\ prepared' = prepared
      BY <2>8 DEF Receipt
    <3>2. op'.pc = "readKey" /\ op'.kind = "register"
      BY <1>1, <3>1 DEF OpType
    <3> QED
      BY <3>2 DEF PreparedUnused, CallUnused, Submitting, Unsubmitted
  <2> QED
    BY <2>1, <2>2, <2>3, <2>4, <2>5, <2>6, <2>7, <2>8
<1> QED
  BY <1>3, <1>5 DEF RetryInvariant

\* What a submission adds to the pending registrations, and what mining takes
\* away.
LEMMA AppendedPending ==
    ASSUME IInv, NEW w \in Address, NEW q, NEW r, NEW tx, Appended(w, q, r, tx)
    PROVE  \A v \in Address : \A p : \A i \in Pending(v, p)' :
               \/ i \in Pending(v, p)
               \/ /\ v = w /\ i = Len(r)
                  /\ tx.kind = "register" /\ tx.key = p
<1> SUFFICES ASSUME NEW v \in Address, NEW p, NEW i \in Pending(v, p)'
             PROVE  \/ i \in Pending(v, p)
                    \/ /\ v = w /\ i = Len(r)
                       /\ tx.kind = "register" /\ tx.key = p
  OBVIOUS
<1>1. /\ i \in DOMAIN pool'[v] /\ pool'[v][i].kind = "register"
      /\ pool'[v][i].key = p
  BY DEF Pending
<1>2. CASE v = w
  <2>1. pool'[v] = r
    BY <1>2, Types DEF Appended
  <2>2. i = Len(r) \/ i \in DOMAIN q
    BY <1>1, <2>1 DEF Appended
  <2> QED
    BY <1>1, <1>2, <2>1, <2>2 DEF Appended, Pending
<1>3. CASE v # w
  <2>1. pool'[v] = pool[v]
    BY <1>3, Types DEF Appended
  <2> QED
    BY <1>1, <2>1 DEF Pending
<1> QED
  BY <1>2, <1>3

LEMMA ShiftedPending ==
    ASSUME IInv, NEW w \in Address, NEW q, NEW r, Shifted(w, q, r)
    PROVE  \A v \in Address : \A p : \A i \in Pending(v, p)' :
               IF v = w THEN i \in Nat \ {0} /\ i + 1 \in Pending(v, p)
               ELSE i \in Pending(v, p)
<1> SUFFICES ASSUME NEW v \in Address, NEW p, NEW i \in Pending(v, p)'
             PROVE  IF v = w THEN i \in Nat \ {0} /\ i + 1 \in Pending(v, p)
                    ELSE i \in Pending(v, p)
  OBVIOUS
<1>1. /\ i \in DOMAIN pool'[v] /\ pool'[v][i].kind = "register"
      /\ pool'[v][i].key = p
  BY DEF Pending
<1>2. CASE v = w
  <2>1. pool'[v] = r
    BY <1>2, Types DEF Shifted
  <2>2. i + 1 \in DOMAIN q /\ r[i] = q[i + 1] /\ i \in Nat \ {0}
    BY <1>1, <2>1 DEF Shifted
  <2> QED
    BY <1>1, <1>2, <2>1, <2>2 DEF Shifted, Pending
<1>3. CASE v # w
  <2>1. pool'[v] = pool[v]
    BY <1>3, Types DEF Shifted
  <2> QED
    BY <1>1, <1>3, <2>1 DEF Pending
<1> QED
  BY <1>2, <1>3

LEMMA SamePending ==
    ASSUME \A v \in Address :
               /\ DOMAIN pool'[v] = DOMAIN pool[v]
               /\ \A i \in DOMAIN pool[v] :
                     /\ pool'[v][i].kind = pool[v][i].kind
                     /\ pool'[v][i].key = pool[v][i].key
    PROVE  \A v \in Address : \A p : Pending(v, p)' = Pending(v, p)
  BY DEF Pending

LEMMA ApproveRetry ==
    ASSUME IInv, CallInvariant, RetryInvariant, Approve
    PROVE  RetryInvariant'
<1>1. /\ op.pc = "approve" /\ op' = [op EXCEPT !.pc = "receipt"] /\ op \in OpType
      /\ UNCHANGED <<mailboxPublicKeys, lost, prepared>>
  BY Types DEF Approve, contractVars
<1>2. /\ op'.pc = "receipt" /\ op'.kind = op.kind
      /\ op.kind \in {"register", "deactivate"}
  BY <1>1, Types DEF OpType, OpOK
<1>3. PICK w \in Address, q \in Seq(Tx), r \in Seq(Tx), tx \in Tx :
          /\ Appended(w, q, r, tx) /\ w = op.address
          /\ tx.kind = op.kind /\ tx.key = op.key
  <2>1. Submit(TRUE)
    BY DEF Approve
  <2> QED
    BY <1>1, <2>1, SubmitAppends
<1>4. op.kind = "register" /\ op.key \notin lost => Unused(w, tx.key)
  BY <1>1, <1>3 DEF RetryInvariant, CallUnused, Unsubmitted
<1>5. Once'
  <2> SUFFICES ASSUME NEW v \in Address, NEW p \in PublicKey \ lost
               PROVE  /\ \A i, j \in Pending(v, p)' : i = j
                      /\ Pending(v, p)' # {} => ~OnChain(v, p)
    BY <1>1 DEF Once, OnChain
  <2>1. CASE v = w /\ tx.kind = "register" /\ tx.key = p
    BY <1>3, <1>4, <2>1, AppendedPending DEF Unused
  <2>2. CASE ~(v = w /\ tx.kind = "register" /\ tx.key = p)
    BY <1>3, <2>2, AppendedPending DEF RetryInvariant, Once
  <2> QED
    BY <2>1, <2>2
<1>6. PreparedUnused'
  <2> SUFFICES ASSUME prepared # None, prepared.key \notin lost,
                      op.kind # "register"
               PROVE  Unused(prepared.address, prepared.key)'
    BY <1>1, <1>2 DEF PreparedUnused, Submitting
  <2>1. PICK a \in Address, p \in PublicKey :
            a = prepared.address /\ p = prepared.key
    BY Types DEF Prepared
  <2>2. Unused(a, p)
    BY <2>1 DEF RetryInvariant, PreparedUnused, Submitting
  <2>3. Pending(a, p)' = {}
    BY <1>3, <2>2, AppendedPending DEF Unused
  <2>4. ~OnChain(a, p)'
    BY <1>1, <2>2 DEF Unused, OnChain
  <2> QED
    BY <1>1, <2>1, <2>3, <2>4 DEF Unused, Pending, OnChain
<1>7. CallUnused'
  BY <1>2 DEF CallUnused, Unsubmitted
<1>8. TwiceOnlyAfterLoss'
  BY <1>1 DEF RetryInvariant, TwiceOnlyAfterLoss
<1> QED
  BY <1>5, <1>6, <1>7, <1>8 DEF RetryInvariant

LEMMA LostRetry ==
    ASSUME IInv, CallInvariant, RetryInvariant, AnswerLost
    PROVE  RetryInvariant'
<1>1. /\ op' = Idle /\ UNCHANGED <<mailboxPublicKeys, prepared>>
      /\ lost' = IF op.key = None THEN lost ELSE lost \cup {op.key}
      /\ op \in OpType /\ OpOK
      /\ op.pc \in {"approve", "receipt", "readKey"}
  BY Types DEF AnswerLost, Lose, Catch, contractVars
<1>2. op.kind \in {"register", "deactivate"} /\ op.address \in Address
  BY <1>1 DEF OpOK
<1>3. op.kind = "register" => op.key \in lost'
  BY <1>1, OnboardingAssumption DEF OpOK, Made
<1>4. \A v \in Address : \A p : \A i \in Pending(v, p)' :
          i \in Pending(v, p) \/ (op.kind = "register" /\ p = op.key)
  <2>1. CASE op.pc = "approve" /\ Submit(FALSE)
    <3>1. PICK w \in Address, q \in Seq(Tx), r \in Seq(Tx), tx \in Tx :
              /\ Appended(w, q, r, tx) /\ tx.kind = op.kind /\ tx.key = op.key
      BY <2>1, SubmitAppends
    <3> QED
      BY <3>1, AppendedPending
  <2>2. CASE pool' = [pool EXCEPT ![op.address] = Unheard(pool[op.address])]
    <3>1. PICK w \in Address : w = op.address
      BY <1>2
    <3>2. PICK q \in Seq(Tx) : q = pool[w]
      BY Types
    <3>3. PICK r : r = Unheard(q)
      OBVIOUS
    <3>4. SameTransactions(q, r)
      BY <3>3, NobodyWaits
    <3>5. pool' = [pool EXCEPT ![w] = r]
      BY <2>2, <3>1, <3>2, <3>3
    <3>6. \A v \in Address :
              pool'[v] = IF v = w THEN r ELSE pool[v]
      BY <3>5, Types
    <3> QED
      BY <3>2, <3>4, <3>6, SamePending DEF SameTransactions
  <2>3. CASE UNCHANGED pool
    BY <2>3 DEF Pending
  <2> QED
    BY <2>1, <2>2, <2>3 DEF AnswerLost, Unheard
<1>5. Once'
  <2> SUFFICES ASSUME NEW v \in Address, NEW p \in PublicKey \ lost'
               PROVE  /\ \A i, j \in Pending(v, p)' : i = j
                      /\ Pending(v, p)' # {} => ~OnChain(v, p)
    BY <1>1 DEF Once, OnChain
  <2>1. p \notin lost /\ ~(op.kind = "register" /\ p = op.key)
    BY <1>1, <1>3
  <2>2. \A i \in Pending(v, p)' : i \in Pending(v, p)
    BY <1>4, <2>1
  <2> QED
    BY <2>1, <2>2 DEF RetryInvariant, Once
<1>6. PreparedUnused'
  <2> SUFFICES ASSUME prepared # None, prepared.key \notin lost'
               PROVE  Unused(prepared.address, prepared.key)'
    BY <1>1 DEF PreparedUnused
  <2>1. PICK a \in Address, p \in PublicKey :
            a = prepared.address /\ p = prepared.key
    BY Types DEF Prepared
  <2>2. op.kind # "register"
    BY <1>3 DEF CallInvariant, Asked
  <2>3. Unused(a, p)
    BY <1>1, <2>1, <2>2 DEF RetryInvariant, PreparedUnused, Submitting
  <2>4. Pending(a, p)' = {}
    BY <1>4, <2>2, <2>3 DEF Unused
  <2>5. ~OnChain(a, p)'
    BY <1>1, <2>3 DEF Unused, OnChain
  <2> QED
    BY <1>1, <2>1, <2>4, <2>5 DEF Unused, Pending, OnChain
<1>7. CallUnused'
  BY <1>1 DEF CallUnused, Unsubmitted, Idle
<1>8. TwiceOnlyAfterLoss'
  BY <1>1 DEF RetryInvariant, TwiceOnlyAfterLoss
<1> QED
  BY <1>5, <1>6, <1>7, <1>8 DEF RetryInvariant

LEMMA ReloadRetry ==
    ASSUME IInv, RetryInvariant, Reload
    PROVE  RetryInvariant'
<1>1. op' = Idle /\ prepared' = None /\ UNCHANGED <<mailboxPublicKeys, lost>>
  BY DEF Reload, contractVars
<1>2. \A v \in Address : \A p : Pending(v, p)' = Pending(v, p)
  BY ReloadForgets, SamePending DEF SameTransactions
<1>3. \A v, p : OnChain(v, p)' <=> OnChain(v, p)
  BY <1>1 DEF OnChain
<1>4. Once'
  BY <1>1, <1>2, <1>3 DEF RetryInvariant, Once
<1>5. PreparedUnused' /\ CallUnused'
  BY <1>1 DEF PreparedUnused, CallUnused, Unsubmitted, Idle
<1>6. TwiceOnlyAfterLoss'
  BY <1>1 DEF RetryInvariant, TwiceOnlyAfterLoss
<1> QED
  BY <1>4, <1>5, <1>6 DEF RetryInvariant

\* A registration of a key that is not on the chain yet, or was lost.
LEMMA StillOnce ==
    ASSUME IInv, CallInvariant, RetryInvariant, lost' = lost,
           NEW w \in Address, NEW n, NEW p \in PublicKey, RegisteredAs(w, n, p),
           p \notin lost => ~OnChain(w, p)
    PROVE  TwiceOnlyAfterLoss'
<1> SUFFICES ASSUME NEW v \in Address, NEW i \in 1..KeyIdMax,
                    NEW j \in 1..KeyIdMax, i # j,
                    mailboxPublicKeys'[v][i] # ZeroKey,
                    mailboxPublicKeys'[v][i] = mailboxPublicKeys'[v][j]
             PROVE  mailboxPublicKeys'[v][i] \in lost
  BY DEF TwiceOnlyAfterLoss
<1>1. i \in 0..KeyIdMax /\ j \in 0..KeyIdMax
  BY OnboardingAssumption
<1>2. CASE v = w /\ i = n
  <2>1. mailboxPublicKeys'[v][i] = p /\ mailboxPublicKeys[w][j] = p
    BY <1>1, <1>2, KeysAfter
  <2> QED
    BY <1>2, <2>1 DEF OnChain
<1>3. CASE v = w /\ j = n
  <2>1. mailboxPublicKeys'[v][j] = p /\ mailboxPublicKeys[w][i] = p
    BY <1>1, <1>3, KeysAfter
  <2> QED
    BY <1>3, <2>1 DEF OnChain
<1>4. CASE ~(v = w /\ i = n) /\ ~(v = w /\ j = n)
  <2>1. /\ mailboxPublicKeys'[v][i] = mailboxPublicKeys[v][i]
        /\ mailboxPublicKeys'[v][j] = mailboxPublicKeys[v][j]
    BY <1>1, <1>4, KeysAfter
  <2> QED
    BY <2>1 DEF RetryInvariant, TwiceOnlyAfterLoss
<1> QED
  BY <1>2, <1>3, <1>4

LEMMA MineRetry ==
    ASSUME IInv, CallInvariant, RetryInvariant, NEW w \in Address, Mine(w)
    PROVE  RetryInvariant'
<1> USE OnboardingAssumption
<1>1. PICK q \in Seq(Tx), r \in Seq(Tx), tx \in Tx :
          Shifted(w, q, r) /\ tx = q[1] /\ tx = Head(pool[w])
  BY MineShifts
<1>2. /\ UNCHANGED <<lost, prepared>>
      /\ op' = IF tx.awaited
               THEN [op EXCEPT !.pc = IF Reverts(w, tx) THEN "reverted"
                                      ELSE "mined"]
               ELSE op
  BY <1>1 DEF Mine
<1>3. /\ op'.kind = op.kind /\ op'.key = op.key /\ op'.address = op.address
      /\ tx.awaited => op'.pc = IF Reverts(w, tx) THEN "reverted" ELSE "mined"
  BY <1>2, Types DEF OpType
<1>4. tx.awaited => /\ op.pc = "receipt" /\ w = op.address /\ Len(q) = 1
                    /\ tx.kind = op.kind /\ tx.key = op.key
  BY <1>1 DEF CallInvariant, Awaited, Shifted
<1>5. 1 \in Nat /\ (tx.kind = "register" => 1 \in Pending(w, tx.key))
  BY <1>1 DEF Shifted, Pending
<1>6. \/ Unregistered
      \/ /\ tx.kind = "register" /\ tx.key \in PublicKey /\ ~Reverts(w, tx)
         /\ \E n \in 1..KeyIdMax : RegisteredAs(w, n, tx.key)
  BY <1>1, MineKeys
<1>7. \A v \in Address, p \in PublicKey :
          OnChain(v, p)' =>
              \/ OnChain(v, p)
              \/ /\ v = w /\ p = tx.key /\ tx.kind = "register"
                 /\ ~Reverts(w, tx)
  BY <1>6, RegisteredKeysBelow DEF CallInvariant, Unregistered, OnChain
<1>8. Once'
  <2> SUFFICES ASSUME NEW v \in Address, NEW p \in PublicKey \ lost
               PROVE  /\ \A i, j \in Pending(v, p)' : i = j
                      /\ Pending(v, p)' # {} => ~OnChain(v, p)'
    BY <1>2 DEF Once
  <2>1. ASSUME NEW i \in Pending(v, p)', NEW j \in Pending(v, p)'
        PROVE  i = j
    <3>1. CASE v = w
      <4>1. i \in Nat /\ j \in Nat /\ i + 1 \in Pending(v, p)
            /\ j + 1 \in Pending(v, p)
        BY <1>1, <2>1, <3>1, ShiftedPending
      <4>2. i + 1 = j + 1
        BY <4>1 DEF RetryInvariant, Once
      <4> QED
        BY <4>1, <4>2
    <3>2. CASE v # w
      BY <1>1, <2>1, <3>2, ShiftedPending DEF RetryInvariant, Once
    <3> QED
      BY <3>1, <3>2
  <2>2. ASSUME NEW i \in Pending(v, p)'
        PROVE  ~OnChain(v, p)'
    <3>1. CASE v = w
      <4>1. i \in Nat \ {0} /\ i + 1 \in Pending(v, p)
        BY <1>1, <2>2, <3>1, ShiftedPending
      <4>2. ~OnChain(v, p) /\ \A j \in Pending(v, p) : j = i + 1
        BY <4>1 DEF RetryInvariant, Once
      <4>3. ~(tx.kind = "register" /\ p = tx.key)
        BY <1>5, <3>1, <4>1, <4>2
      <4> QED
        BY <1>7, <4>2, <4>3
    <3>2. CASE v # w
      BY <1>1, <1>7, <2>2, <3>2, ShiftedPending DEF RetryInvariant, Once
    <3> QED
      BY <3>1, <3>2
  <2> QED
    BY <2>1, <2>2
<1>9. ASSUME NEW v \in Address, NEW p \in PublicKey, Unused(v, p)
      PROVE  Unused(v, p)'
  <2>1. Pending(v, p)' = {}
    BY <1>1, <1>9, ShiftedPending DEF Unused
  <2>2. ~(v = w /\ p = tx.key /\ tx.kind = "register")
    BY <1>5, <1>9 DEF Unused
  <2>3. ~OnChain(v, p)'
    BY <1>7, <1>9, <2>2 DEF Unused
  <2> QED
    BY <2>1, <2>3 DEF Unused
\* A registration that reverts leaves its key unused.
<1>10. ASSUME NEW p \in PublicKey, p = op.key, p \notin lost,
              tx.awaited, Reverts(w, tx), op.kind = "register"
       PROVE  Unused(w, p)'
  <2>1. ~OnChain(w, p)
    BY <1>4, <1>5, <1>10 DEF RetryInvariant, Once
  <2>2. ~OnChain(w, p)'
    BY <1>7, <1>10, <2>1
  <2>3. pool'[w] = r /\ DOMAIN r = {}
    BY <1>1, <1>4, <1>10, Types DEF Shifted
  <2>4. Pending(w, p)' = {}
    BY <2>3 DEF Pending
  <2> QED
    BY <2>2, <2>4 DEF Unused
<1>11. PreparedUnused'
  <2> SUFFICES ASSUME prepared # None, prepared.key \notin lost, ~Submitting'
               PROVE  Unused(prepared.address, prepared.key)'
    BY <1>2 DEF PreparedUnused
  <2>1. PICK a \in Address, p \in PublicKey :
            a = prepared.address /\ p = prepared.key
    BY Types DEF Prepared
  <2>2. Unused(a, p)'
    <3>1. CASE ~Submitting
      <4>1. Unused(a, p)
        BY <2>1, <3>1 DEF RetryInvariant, PreparedUnused
      <4> QED
        BY <1>9, <4>1
    <3>2. CASE Submitting
      <4>1. op.kind = "register" /\ op.pc \in {"receipt", "mined", "readKey"}
        BY <3>2 DEF Submitting
      <4>2. tx.awaited /\ Reverts(w, tx)
        BY <1>2, <1>3, <4>1 DEF Submitting
      <4>3. a = op.address /\ p = op.key
        BY <2>1, <4>1 DEF CallInvariant, Asked
      <4>4. a = w
        BY <1>4, <4>2, <4>3
      <4> QED
        BY <1>10, <2>1, <4>1, <4>2, <4>3, <4>4
    <3> QED
      BY <3>1, <3>2
  <2> QED
    BY <1>2, <2>1, <2>2 DEF Unused, Pending, OnChain
<1>12. CallUnused'
  <2> SUFFICES ASSUME Unsubmitted', op.key \notin lost
               PROVE  Unused(op.address, op.key)'
    BY <1>2, <1>3 DEF CallUnused, Unused, Pending, OnChain
  <2>1. CASE tx.awaited
    <3>1. op.kind = "register" /\ Reverts(w, tx) /\ w = op.address
      BY <1>3, <1>4, <2>1 DEF Unsubmitted
    <3>2. PICK p \in PublicKey : p = op.key
      BY <3>1, Types DEF OpOK, Made
    <3>3. Unused(w, p)'
      BY <1>10, <2>1, <3>1, <3>2
    <3> QED
      BY <1>3, <3>1, <3>2, <3>3 DEF Unused, Pending, OnChain
  <2>2. CASE ~tx.awaited
    <3>1. op' = op
      BY <1>2, <2>2
    <3>2. Unsubmitted
      BY <3>1 DEF Unsubmitted
    <3>3. op.address \in Address /\ op.key \in PublicKey
      BY <3>2, Types DEF Unsubmitted, OpOK, Made
    <3>4. PICK a \in Address, p \in PublicKey : a = op.address /\ p = op.key
      BY <3>3
    <3>5. Unused(a, p)
      BY <3>2, <3>4 DEF RetryInvariant, CallUnused
    <3>6. Unused(a, p)'
      BY <1>9, <3>5
    <3> QED
      BY <3>1, <3>4, <3>6 DEF Unused, Pending, OnChain
  <2> QED
    BY <2>1, <2>2
<1>13. TwiceOnlyAfterLoss'
  <2>1. CASE Unregistered
    BY <1>2, <2>1 DEF Unregistered, RetryInvariant, TwiceOnlyAfterLoss
  <2>2. CASE ~Unregistered
    <3>1. PICK n \in 1..KeyIdMax, p \in PublicKey :
              /\ p = tx.key /\ RegisteredAs(w, n, p) /\ tx.kind = "register"
      BY <1>6, <2>2
    <3>2. p \notin lost => ~OnChain(w, p)
      BY <1>5, <3>1 DEF RetryInvariant, Once
    <3> QED
      BY <1>2, <3>1, <3>2, StillOnce
  <2> QED
    BY <2>1, <2>2
<1> QED
  BY <1>8, <1>11, <1>12, <1>13 DEF RetryInvariant

LEMMA ElsewhereRetry ==
    ASSUME IInv, CallInvariant, RetryInvariant, NEW w \in Address, Elsewhere(w)
    PROVE  RetryInvariant'
<1> USE OnboardingAssumption
<1>1. UNCHANGED <<pool, lost, prepared, op>>
  BY DEF Elsewhere
<1>2. CASE Unregistered
  BY <1>1, <1>2 DEF Unregistered, RetryInvariant, Once, PreparedUnused,
     CallUnused, Submitting, Unsubmitted, Unused, Pending, OnChain,
     TwiceOnlyAfterLoss
<1>3. CASE ~Unregistered
  <2>1. PICK f \in PublicKey, n \in 1..KeyIdMax :
            Fresh(f) /\ RegisteredAs(w, n, f)
    BY <1>3, ElsewhereKeys
  <2>2. \A v, p : Pending(v, p)' = Pending(v, p)
    BY <1>1 DEF Pending
  <2>3. \A v \in Address, p \in PublicKey :
            OnChain(v, p)' => OnChain(v, p) \/ (v = w /\ p = f)
    BY <2>1, RegisteredKeysBelow DEF CallInvariant
  <2>4. Unused(w, f)
    BY <2>1, FreshUnused
  <2>5. Once'
    BY <1>1, <2>2, <2>3, <2>4 DEF RetryInvariant, Once, Unused
  <2>6. ASSUME NEW v \in Address, NEW p \in PublicKey, Made(p, v),
               Unused(v, p)
        PROVE  Unused(v, p)'
    <3>1. p # f
      BY <2>1, <2>6 DEF Made, Fresh
    <3> QED
      BY <2>2, <2>3, <2>6, <3>1 DEF Unused
  <2>7. PreparedUnused'
    <3> SUFFICES ASSUME prepared # None, prepared.key \notin lost, ~Submitting
                 PROVE  Unused(prepared.address, prepared.key)'
      BY <1>1 DEF PreparedUnused, Submitting
    <3>1. PICK a \in Address, p \in PublicKey :
              a = prepared.address /\ p = prepared.key
      BY Types DEF Prepared
    <3>2. Made(p, a) /\ Unused(a, p)
      BY <3>1 DEF IInv, PreparedOK, RetryInvariant, PreparedUnused
    <3>3. Unused(a, p)'
      BY <2>6, <3>2
    <3> QED
      BY <1>1, <3>1, <3>3 DEF Unused, Pending, OnChain
  <2>8. CallUnused'
    <3> SUFFICES ASSUME Unsubmitted, op.key \notin lost
                 PROVE  Unused(op.address, op.key)'
      BY <1>1 DEF CallUnused, Unsubmitted
    <3>1. op.address \in Address /\ Made(op.key, op.address)
      BY Types DEF Unsubmitted, OpOK
    <3>2. PICK a \in Address, p \in PublicKey : a = op.address /\ p = op.key
      BY <3>1 DEF Made
    <3>3. Unused(a, p)
      BY <3>2 DEF RetryInvariant, CallUnused
    <3>4. Unused(a, p)'
      BY <2>6, <3>1, <3>2, <3>3
    <3> QED
      BY <1>1, <3>2, <3>4 DEF Unused, Pending, OnChain
  <2>9. TwiceOnlyAfterLoss'
    BY <1>1, <2>1, <2>4, StillOnce DEF Unused
  <2> QED
    BY <2>5, <2>7, <2>8, <2>9 DEF RetryInvariant
<1> QED
  BY <1>2, <1>3

-----------------------------------------------------------------------------
(* The theorems about retries. *)

LEMMA StepCall == IInv /\ CallInvariant /\ [Next]_vars => CallInvariant'
<1> SUFFICES ASSUME IInv, CallInvariant, [Next]_vars PROVE CallInvariant'
  OBVIOUS
<1>1. CASE \/ \E a \in Address \cup {None} : SetAddress(a)
           \/ LoadKeyId \/ LoadActive \/ LoadFails
           \/ AskDeactivate \/ CancelDeactivate \/ UNCHANGED vars
  BY <1>1, ScreenCall
<1>2. CASE \/ Prepare \/ CreatePasskey \/ LockRecovery \/ PrepareFails
           \/ Register \/ Deactivate \/ EnsureProvider \/ CallFails
           \/ Receipt \/ Deactivated
  BY <1>2, QuietCall
<1>3. CASE Approve
  BY <1>3, ApproveCall
<1>4. CASE AnswerLost
  BY <1>4, LostCall
<1>5. CASE Reload
  BY <1>5, ReloadCall
<1>6. CASE ReadKey
  BY <1>6, ReadKeyCall
<1>7. CASE \E w \in Address : Mine(w) \/ Elsewhere(w)
  BY <1>7, MineCall, ElsewhereCall
<1> QED
  BY <1>1, <1>2, <1>3, <1>4, <1>5, <1>6, <1>7 DEF Next, OpStep

LEMMA StepRetry ==
    IInv /\ CallInvariant /\ RetryInvariant /\ [Next]_vars => RetryInvariant'
<1> SUFFICES ASSUME IInv, CallInvariant, RetryInvariant, [Next]_vars
             PROVE  RetryInvariant'
  OBVIOUS
<1>1. CASE \/ \E a \in Address \cup {None} : SetAddress(a)
           \/ LoadKeyId \/ LoadActive \/ LoadFails
           \/ AskDeactivate \/ CancelDeactivate \/ UNCHANGED vars
  BY <1>1, ScreenRetry
<1>2. CASE \/ Prepare \/ CreatePasskey \/ LockRecovery \/ PrepareFails
           \/ Register \/ Deactivate \/ EnsureProvider \/ CallFails
           \/ Receipt \/ Deactivated \/ ReadKey
  BY <1>2, QuietRetry
<1>3. CASE Approve
  BY <1>3, ApproveRetry
<1>4. CASE AnswerLost
  BY <1>4, LostRetry
<1>5. CASE Reload
  BY <1>5, ReloadRetry
<1>6. CASE \E w \in Address : Mine(w) \/ Elsewhere(w)
  BY <1>6, MineRetry, ElsewhereRetry
<1> QED
  BY <1>1, <1>2, <1>3, <1>4, <1>5, <1>6 DEF Next, OpStep

LEMMA InitCall == Init => CallInvariant /\ RetryInvariant
<1> SUFFICES ASSUME Init PROVE CallInvariant /\ RetryInvariant
  OBVIOUS
<1> USE OnboardingAssumption
<1>1. /\ mailboxPublicKeys = [o \in Address |-> [k \in 0..KeyIdMax |-> ZeroKey]]
      /\ pool = [w \in Address |-> << >>] /\ op = Idle /\ prepared = None
      /\ envelopes = [w \in Address |-> [k \in 1..KeyIdMax |-> None]]
  BY DEF Init, Chain!Init
<1>2. \A v \in Address, k \in 0..KeyIdMax : mailboxPublicKeys[v][k] = ZeroKey
  BY <1>1
<1>3. \A v \in Address, k \in 1..KeyIdMax : mailboxPublicKeys[v][k] = ZeroKey
  BY <1>2
<1>4. \A v \in Address : DOMAIN pool[v] = {}
  BY <1>1
<1>5. \A v \in Address : \A p : Pending(v, p) = {}
  BY <1>4 DEF Pending
<1>6. CallInvariant
  BY <1>1, <1>2, <1>4 DEF CallInvariant, Awaited, Asked, Landed, KeysBelow,
     EnvelopeUnderItsKey, Idle
<1>7. RetryInvariant
  BY <1>1, <1>3, <1>5 DEF RetryInvariant, Once, PreparedUnused, CallUnused,
     Unsubmitted, TwiceOnlyAfterLoss, Idle
<1> QED
  BY <1>6, <1>7

\* What a running call knows, and what a retry finds, is always so.
\* (use-mailbox-onboarding.ts, register)
THEOREM RetryInvariantAlways == Spec => [](CallInvariant /\ RetryInvariant)
<1>1. /\ IInv /\ (CallInvariant /\ RetryInvariant) /\ [Next]_vars
         => (CallInvariant /\ RetryInvariant)'
  BY StepCall, StepRetry
<1> QED
  BY <1>1, InitCall, SafetyInvariant, PTL DEF Spec

\* However often a registration is refused, reverts or is retried, whatever
\* other devices do: a key is registered twice only if the page lost the
\* answer of a transaction that registers it.
\* (register, the retry with preparedRegistration)
THEOREM TwiceOnlyAfterLossAlways == Spec => []TwiceOnlyAfterLoss
<1>1. CallInvariant /\ RetryInvariant => TwiceOnlyAfterLoss
  BY DEF RetryInvariant
<1> QED
  BY <1>1, RetryInvariantAlways, PTL

\* An envelope is stored under the key id that its key is registered with,
\* unless another device registered meanwhile.  (register, 129-137)
THEOREM EnvelopeUnderItsKeyAlways == Spec => []EnvelopeUnderItsKey
<1>1. CallInvariant /\ RetryInvariant => EnvelopeUnderItsKey
  BY DEF CallInvariant
<1> QED
  BY <1>1, RetryInvariantAlways, PTL

\* What was prepared for this wallet goes only when the wallet changes, or when
\* its key is registered: no retry makes another passkey.
\* (register, 143-155)
THEOREM PreparedKeptAlways == Spec => PreparedKept
<1> DEFINE Kept == prepared # None /\ prepared' # prepared =>
                       \/ address' # address \/ prepared.address # address
                       \/ \E k \in 1..KeyIdMax :
                             mailboxPublicKeys[address][k] = prepared.key
<1>1. ASSUME IInv, CallInvariant, Next PROVE Kept
  <2> SUFFICES ASSUME prepared # None, prepared' # prepared,
                      address' = address, prepared.address = address
               PROVE  \E k \in 1..KeyIdMax :
                          mailboxPublicKeys[address][k] = prepared.key
    OBVIOUS
  <2>1. prepared.address \in Address /\ None \notin Address
    BY <1>1, Types, OnboardingAssumption DEF Prepared
  <2>2. \/ \E a \in Address \cup {None} : SetAddress(a)
        \/ Reload \/ LockRecovery \/ PrepareFails \/ ReadKey
    BY <1>1 DEF Next, OpStep, LoadKeyId, LoadActive, LoadFails, Prepare,
       Register, Start, AskDeactivate, CancelDeactivate, Deactivate,
       CreatePasskey, EnsureProvider, Approve, CallFails, AnswerLost, Catch,
       Receipt, Deactivated, Mine, Elsewhere
  <2>3. ~\E a \in Address \cup {None} : SetAddress(a)
    BY DEF SetAddress
  <2>4. ~Reload
    BY <2>1 DEF Reload
  <2>5. ~(LockRecovery \/ PrepareFails)
    BY <1>1, Types DEF LockRecovery, PrepareFails, CallInvariant, Asked, OpOK
  <2>6. ReadKey
    BY <2>2, <2>3, <2>4, <2>5
  <2>7. op.pc = "readKey" /\ op.kind = "register"
    BY <1>1, <2>6, Types DEF ReadKey, OpOK
  <2>8. prepared.key = op.key /\ prepared.address = op.address
    BY <1>1, <2>7 DEF CallInvariant, Asked
  <2> QED
    BY <1>1, <2>7, <2>8 DEF CallInvariant, Landed, OnChain
<1>2. IInv /\ CallInvariant /\ [Next]_vars => [Kept]_vars
  BY <1>1
<1>3. IInv /\ (CallInvariant /\ RetryInvariant) /\ [Next]_vars => [Kept]_vars
  BY <1>2
<1> QED
  BY <1>3, SafetyInvariant, RetryInvariantAlways, PTL DEF Spec, PreparedKept

-----------------------------------------------------------------------------
(* The page uses the contract as it is. *)

\* Whatever the page, the wallet and the other devices do, the contract takes
\* only its own steps: what is proved of Gibyeol2026 holds here too.
\* (register, deactivate)
THEOREM ContractKept == Spec => Chain!Spec
<1>1. Init => Chain!Init
  BY DEF Init
<1>2. ASSUME IInv, Next
      PROVE  Chain!Next \/ UNCHANGED Chain!contractVars
  <2>1. ASSUME NEW w \in Address, Mine(w)
        PROVE  Chain!Next \/ UNCHANGED Chain!contractVars
    <3>1. PICK q \in Seq(Tx) : q = pool[w] /\ q # << >>
      BY <1>2, <2>1 DEF Mine, IInv, TypeOK
    <3>2. PICK tx \in Tx : tx = Head(q)
                           /\ (tx.kind = "register" => Made(tx.key, w))
      BY <1>2, <3>1 DEF IInv, PoolOK
    <3>3. \/ UNCHANGED contractVars
          \/ tx.kind = "register" /\ Chain!RegisterMailboxKey(w, tx.key)
          \/ Chain!DeactivateMailbox(w)
      BY <2>1, <3>1, <3>2 DEF Mine, Execute
    <3> QED
      BY <3>2, <3>3 DEF Made, Chain!Next, Chain!RegisterAny, Chain!DeactivateAny,
         contractVars, Chain!contractVars
  <2>2. ASSUME NEW w \in Address, Elsewhere(w)
        PROVE  Chain!Next
    BY <2>2 DEF Elsewhere, Chain!Next, Chain!RegisterAny, Chain!DeactivateAny
  <2>3. ASSUME ~(\E w \in Address : Mine(w) \/ Elsewhere(w))
        PROVE  UNCHANGED contractVars
    BY <1>2, <2>3 DEF Next, OpStep, SetAddress, LoadKeyId, LoadActive, LoadFails,
       Reload, AskDeactivate, CancelDeactivate, Prepare, CreatePasskey, LockRecovery,
       PrepareFails, Register, Deactivate, Start, EnsureProvider, CallFails,
       Approve, AnswerLost, Catch, Receipt, Deactivated, ReadKey
  <2> QED
    BY <2>1, <2>2, <2>3 DEF contractVars, Chain!contractVars
<1>3. IInv /\ [Next]_vars => [Chain!Next]_(Chain!contractVars)
  BY <1>2 DEF vars, contractVars, Chain!contractVars
<1> QED
  BY <1>1, <1>3, SafetyInvariant, PTL DEF Spec, Chain!Spec
=============================================================================
