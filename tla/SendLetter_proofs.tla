-------------------------- MODULE SendLetter_proofs --------------------------
(***************************************************************************)
(* For any number of tabs, letters, keys and failures: what the wallet was *)
(* given opens with the key it names and belongs to a stored package, and  *)
(* a letter shown as sealed is on the chain unless its transaction had     *)
(* reverted.  One tab submits two contents under a letter id only when its *)
(* page was left while the letter was being packed.  The contract that the *)
(* tabs use takes only the steps of Gibyeol2026.                           *)
(***************************************************************************)
EXTENDS SendLetter, TLAPS

-----------------------------------------------------------------------------
(* The recipient's mailbox. *)

\* The mailbox has a key for every id up to the newest, and none is open
\* without one.
KeysOpen ==
    /\ \A k \in 1..LatestKeyId : mailboxPublicKeys[Recipient][k] \in PublicKey
    /\ \A o \in Address : mailboxActive[o] => currentKeyId[o] # 0

\* A step of the contract adds keys and sealed letters, and keeps the old.
History ==
    /\ LatestKeyId <= LatestKeyId'
    /\ \A k \in 0..LatestKeyId :
          mailboxPublicKeys'[Recipient][k] = mailboxPublicKeys[Recipient][k]
    /\ \A l \in LetterId : sealedLetters[l] => sealedLetters'[l]

LEMMA EventTypes ==
    /\ \A o \in Address, k \in 1..KeyIdMax, p \in PublicKey :
          [event |-> "MailboxKeyRegistered", owner |-> o, keyId |-> k,
           publicKey |-> p] \in Chain!Ledger!Event
    /\ \A o \in Address, k \in 1..KeyIdMax :
          [event |-> "MailboxDeactivated", owner |-> o, keyId |-> k]
              \in Chain!Ledger!Event
    /\ \A l \in LetterId, s \in Address, r \in Address, k \in 1..KeyIdMax,
          a \in Archive :
          [event |-> "LetterSealed", letterId |-> l, sender |-> s,
           recipient |-> r, recipientKeyId |-> k, archiveSha256 |-> a]
              \in Chain!Ledger!Event
  BY DEF Chain!Ledger!Event, Chain!Ledger!MailboxKeyRegistered,
     Chain!Ledger!MailboxDeactivated, Chain!Ledger!LetterSealed,
     Chain!Ledger!KeyId

\* An event of the contract belongs at the end of its log.
LEMMA EmitTyped ==
    ASSUME log \in Seq(Chain!Ledger!Event), NEW e \in Chain!Ledger!Event,
           log' = Append(log, e)
    PROVE  log' \in Seq(Chain!Ledger!Event)
  OBVIOUS

\* What each of the contract's functions does for the recipient's mailbox.
LEMMA RegisterMoves ==
    ASSUME Chain!TypeOK, KeysOpen, NEW p \in PublicKey,
           Chain!RegisterMailboxKey(Recipient, p)
    PROVE  Chain!TypeOK' /\ KeysOpen' /\ History /\ sealedLetters' = sealedLetters
<1> USE SendAssumption
<1> DEFINE k == currentKeyId[Recipient] + 1
           e == [event |-> "MailboxKeyRegistered", owner |-> Recipient,
                 keyId |-> k, publicKey |-> p]
<1>1. /\ k \in 1..KeyIdMax
      /\ currentKeyId' = [currentKeyId EXCEPT ![Recipient] = k]
      /\ mailboxPublicKeys' =
             [mailboxPublicKeys EXCEPT ![Recipient][k] = p]
      /\ mailboxActive' = [mailboxActive EXCEPT ![Recipient] = TRUE]
      /\ sealedLetters' = sealedLetters /\ log' = Append(log, e)
  BY DEF Chain!RegisterMailboxKey, Chain!RegisterError, Chain!NextKeyId,
         Chain!TypeOK, Chain!Ledger!Emit
<1>2. log' \in Seq(Chain!Ledger!Event)
  <2>1. e \in Chain!Ledger!Event
    BY <1>1, EventTypes
  <2> QED
    BY <1>1, <2>1, EmitTyped DEF Chain!TypeOK
<1>3. Chain!TypeOK'
  BY <1>1, <1>2 DEF Chain!TypeOK
<1>4. /\ LatestKeyId \in Nat /\ LatestKeyId' = k
      /\ mailboxPublicKeys'[Recipient][k] = p
      /\ \A i \in 0..KeyIdMax : i # k =>
            mailboxPublicKeys'[Recipient][i] = mailboxPublicKeys[Recipient][i]
  BY <1>1 DEF Chain!TypeOK, LatestKeyId
<1>5. KeysOpen'
  <2>1. \A i \in 1..k : mailboxPublicKeys'[Recipient][i] \in PublicKey
    BY <1>1, <1>4 DEF KeysOpen, LatestKeyId
  <2>2. \A o \in Address : mailboxActive'[o] => currentKeyId'[o] # 0
    BY <1>1 DEF KeysOpen, Chain!TypeOK
  <2> QED
    BY <1>4, <2>1, <2>2 DEF KeysOpen
<1> QED
  BY <1>1, <1>3, <1>4, <1>5 DEF History, LatestKeyId

LEMMA DeactivateMoves ==
    ASSUME Chain!TypeOK, KeysOpen, Chain!DeactivateMailbox(Recipient)
    PROVE  Chain!TypeOK' /\ KeysOpen' /\ History /\ sealedLetters' = sealedLetters
<1> USE SendAssumption
<1> DEFINE e == [event |-> "MailboxDeactivated", owner |-> Recipient,
                 keyId |-> currentKeyId[Recipient]]
<1>1. /\ currentKeyId[Recipient] \in 1..KeyIdMax
      /\ mailboxActive' = [mailboxActive EXCEPT ![Recipient] = FALSE]
      /\ UNCHANGED <<currentKeyId, mailboxPublicKeys, sealedLetters>>
      /\ log' = Append(log, e)
  BY DEF Chain!DeactivateMailbox, Chain!DeactivateError, Chain!TypeOK,
         Chain!Ledger!Emit
<1>2. log' \in Seq(Chain!Ledger!Event)
  BY <1>1, EventTypes, EmitTyped DEF Chain!TypeOK
<1>3. Chain!TypeOK' /\ KeysOpen'
  BY <1>1, <1>2 DEF Chain!TypeOK, KeysOpen, LatestKeyId
<1> QED
  BY <1>1, <1>3 DEF History, LatestKeyId, Chain!TypeOK

LEMMA SealMoves ==
    ASSUME Chain!TypeOK, KeysOpen, NEW l \in LetterId, NEW k \in 0..KeyIdMax,
           NEW a \in Archive,
           Chain!SealLetter(Sender, l, Recipient, k, 0, 0, a)
    PROVE  /\ Chain!TypeOK' /\ KeysOpen' /\ History
           /\ sealedLetters' = [sealedLetters EXCEPT ![l] = TRUE]
<1> USE SendAssumption
<1> DEFINE e == [event |-> "LetterSealed", letterId |-> l, sender |-> Sender,
                 recipient |-> Recipient, recipientKeyId |-> k,
                 archiveSha256 |-> a]
<1>1. /\ k \in 1..KeyIdMax
      /\ sealedLetters' = [sealedLetters EXCEPT ![l] = TRUE]
      /\ UNCHANGED <<currentKeyId, mailboxPublicKeys, mailboxActive>>
      /\ log' = Append(log, e)
  BY DEF Chain!SealLetter, Chain!SealError, Chain!TypeOK, Chain!Ledger!Emit,
         KeysOpen
<1>2. log' \in Seq(Chain!Ledger!Event)
  <2>1. e \in Chain!Ledger!Event
    BY <1>1, EventTypes
  <2> QED
    BY <1>1, <2>1, EmitTyped DEF Chain!TypeOK
<1>3. Chain!TypeOK' /\ KeysOpen'
  BY <1>1, <1>2 DEF Chain!TypeOK, KeysOpen, LatestKeyId
<1> QED
  BY <1>1, <1>3 DEF History, LatestKeyId, Chain!TypeOK

-----------------------------------------------------------------------------
(* The inductive invariant. *)

RunState == [pc: Await \cup {"idle"}, attempt: 0..1, hash: Nat]

\* The letter key of an archive, wrapped for the key id.
Wrapped(archive, keyId) ==
    [archive |-> archive, publicKey |-> mailboxPublicKeys[Recipient][keyId]]

\* What a transaction carries.
Sent(tx) ==
    /\ tx.archive \in packages /\ tx.keyId \in 1..LatestKeyId
    /\ tx.sealedKey = Wrapped(tx.archive, tx.keyId)

\* A hash, if there is one, is that of a transaction of the letter.
HashOf(hash, letterId) ==
    hash # 0 => hash \in DOMAIN txs /\ txs[hash].letterId = letterId

Looked == {"PACKING", "UPLOADING_PACKAGE", "ENCRYPTING_KEY",
           "WAITING_TRANSACTION"}

\* What a draft holds, by its stage.
Good(d) ==
    /\ d.stage \in Looked => d.keyId \in 1..LatestKeyId
    /\ d.stage \in Looked \ {"PACKING"} => d.archive \in Archive
    /\ d.stage \in {"ENCRYPTING_KEY", "WAITING_TRANSACTION"} =>
          d.archive \in packages
    /\ d.stage = "WAITING_TRANSACTION" =>
          d.sealedKey = Wrapped(d.archive, d.keyId)
    /\ HashOf(d.hash, d.letterId)
    /\ d.stage = "SEALED" /\ ~sealedLetters[d.letterId] =>
          d.hash # 0 /\ txs[d.hash].status = "reverted"

\* Where seal() may be with a draft.
Late == Await \ {"lookup", "pack", "put", "wrap"}
Goes(r, d) ==
    /\ r.pc = "pack" => d.stage = "PACKING"
    /\ r.pc = "put" => d.stage = "UPLOADING_PACKAGE"
    /\ r.pc = "wrap" => d.stage = "ENCRYPTING_KEY"
    /\ r.pc \in Late => d.stage = "WAITING_TRANSACTION"
    /\ r.pc = "awaitPending" => d.hash # 0
    /\ r.pc \in {"receipt", "receipt2"} => r.hash # 0
    /\ r.pc = "idle" => r.hash = 0
    /\ HashOf(r.hash, d.letterId)

World ==
    /\ Chain!TypeOK /\ KeysOpen
    /\ txs \in Seq(Tx) /\ packages \subseteq Archive
    /\ drawn \subseteq LetterId \cup Archive /\ faults \in 0..MaxFaults
    /\ \A i \in DOMAIN txs : Sent(txs[i])
    /\ \A i \in DOMAIN txs :
          txs[i].status = "success" => sealedLetters[txs[i].letterId]
    /\ \A l \in LetterId : sealedLetters[l] =>
          \E i \in DOMAIN txs :
              txs[i].letterId = l /\ txs[i].status = "success"

Screens ==
    /\ saved \in Draft \cup {None} /\ (saved # None => Good(saved))
    /\ draft \in [Tab -> Draft] /\ working \in [Mount -> Draft]
    /\ run \in [Mount -> RunState]
    /\ \A t \in Tab : Good(draft[t])
    /\ \A m \in Mount : Good(working[m]) /\ Goes(run[m], working[m])

IInv == World /\ Screens

-----------------------------------------------------------------------------
(* What any step does to a draft: the world only moves forth. *)

Forth ==
    /\ History /\ packages \subseteq packages'
    /\ DOMAIN txs \subseteq DOMAIN txs'
    /\ \A i \in DOMAIN txs :
          /\ txs'[i].letterId = txs[i].letterId
          /\ txs[i].status = "reverted" => txs'[i].status = "reverted"

LEMMA GoodStays ==
    ASSUME World, World', Forth, NEW d \in Draft, Good(d)
    PROVE  Good(d)'
<1>1. /\ LatestKeyId \in Nat /\ LatestKeyId' \in Nat
      /\ 1..LatestKeyId \subseteq 1..LatestKeyId'
      /\ \A k \in 1..LatestKeyId :
            mailboxPublicKeys'[Recipient][k] = mailboxPublicKeys[Recipient][k]
      /\ \A l \in LetterId : sealedLetters[l] => sealedLetters'[l]
  BY SendAssumption DEF World, Forth, History, Chain!TypeOK, LatestKeyId
<1>2. packages \subseteq packages' /\ d.letterId \in LetterId
  BY DEF Forth, Draft
<1>3. HashOf(d.hash, d.letterId)'
  BY DEF Good, HashOf, Forth
<1>4. d.stage = "WAITING_TRANSACTION" =>
          (d.sealedKey = Wrapped(d.archive, d.keyId))'
  <2>1. d.stage = "WAITING_TRANSACTION" =>
            /\ d.sealedKey = Wrapped(d.archive, d.keyId)
            /\ d.keyId \in 1..LatestKeyId
    BY DEF Good, Looked
  <2> QED
    BY <1>1, <2>1 DEF Wrapped
<1>5. d.stage = "SEALED" /\ ~sealedLetters'[d.letterId] =>
          d.hash # 0 /\ txs'[d.hash].status = "reverted"
  BY <1>1, <1>2 DEF Good, HashOf, Forth
<1> QED
  BY <1>1, <1>2, <1>3, <1>4, <1>5 DEF Good

LEMMA GoesStays ==
    ASSUME Forth, NEW r, NEW d, Goes(r, d)
    PROVE  Goes(r, d)'
  BY DEF Forth, Goes, HashOf

\* A step outside the tabs.
LEMMA OutsideKeeps ==
    ASSUME IInv, Forth, World', UNCHANGED <<saved, draft, working, run>>
    PROVE  IInv'
<1>1. saved' # None => Good(saved)'
  BY GoodStays DEF IInv, Screens
<1>2. ASSUME NEW t \in Tab
      PROVE  Good(draft[t])'
  <2>1. PICK d \in Draft : d = draft[t]
    BY DEF IInv, Screens
  <2> QED
    BY <2>1, GoodStays DEF IInv, Screens, Good
<1>3. ASSUME NEW m \in Mount
      PROVE  (Good(working[m]) /\ Goes(run[m], working[m]))'
  <2>1. PICK w \in Draft, r \in RunState : w = working[m] /\ r = run[m]
    BY DEF IInv, Screens
  <2>2. Good(w)' /\ Goes(r, w)'
    BY <2>1, GoodStays, GoesStays DEF IInv, Screens
  <2> QED
    BY <2>1, <2>2 DEF Good, Goes
<1> QED
  BY <1>1, <1>2, <1>3 DEF IInv, Screens

\* The mounts of N hold draft e now and go on at r, tab t shows d, and d, e or
\* what was saved before is saved.
LEMMA MountsKeep ==
    ASSUME IInv, World', Forth, NEW t \in Tab, NEW N,
           NEW d \in Draft, NEW e \in Draft, NEW r \in RunState,
           Good(d)', Good(e)', Goes(r, e)',
           run' = [m \in Mount |-> IF m \in N THEN r ELSE run[m]],
           working' = [m \in Mount |-> IF m \in N THEN e ELSE working[m]],
           draft' = [draft EXCEPT ![t] = d],
           saved' = saved \/ saved' = d \/ saved' = e
    PROVE  IInv'
<1>1. /\ saved' \in Draft \cup {None} /\ draft' \in [Tab -> Draft]
      /\ run' \in [Mount -> RunState] /\ working' \in [Mount -> Draft]
  BY DEF IInv, Screens
<1>2. saved' # None => Good(saved)'
  <2>1. CASE saved' = d \/ saved' = e
    BY <2>1 DEF Good
  <2>2. CASE saved' = saved
    BY <2>2, GoodStays DEF IInv, Screens
  <2> QED
    BY <2>1, <2>2
<1>3. ASSUME NEW u \in Tab
      PROVE  Good(draft[u])'
  <2>1. PICK c \in Draft : c = draft[u]
    BY DEF IInv, Screens
  <2>2. Good(c)'
    BY <2>1, GoodStays DEF IInv, Screens
  <2>3. draft'[u] = IF u = t THEN d ELSE c
    BY <2>1 DEF IInv, Screens
  <2> QED
    BY <2>2, <2>3 DEF Good
<1>4. ASSUME NEW m \in Mount
      PROVE  (Good(working[m]) /\ Goes(run[m], working[m]))'
  <2>1. PICK w \in Draft, q \in RunState : w = working[m] /\ q = run[m]
    BY DEF IInv, Screens
  <2>2. Good(w)' /\ Goes(q, w)'
    BY <2>1, GoodStays, GoesStays DEF IInv, Screens
  <2>3. CASE m \in N
    BY <2>3 DEF Good, Goes
  <2>4. CASE m \notin N
    BY <2>1, <2>2, <2>4 DEF Good, Goes
  <2> QED
    BY <2>3, <2>4
<1> QED
  BY <1>1, <1>2, <1>3, <1>4 DEF IInv, Screens

\* A step of one mount: its tab shows d, its seal() goes on at r with draft e.
LEMMA MountKeeps ==
    ASSUME IInv, World', Forth, NEW m \in Mount, NEW d \in Draft, NEW e \in Draft,
           NEW r \in RunState, Good(d)', Good(e)', Goes(r, e)',
           run' = [run EXCEPT ![m] = r], working' = [working EXCEPT ![m] = e],
           draft' = [draft EXCEPT ![TabOf(m)] = d],
           saved' = saved \/ saved' = d \/ saved' = e
    PROVE  IInv'
<1>1. PICK t \in Tab : t = TabOf(m)
  BY DEF Mount, TabOf
<1>2. PICK N : N = {m}
  OBVIOUS
<1>3. /\ run' = [n \in Mount |-> IF n \in N THEN r ELSE run[n]]
      /\ working' = [n \in Mount |-> IF n \in N THEN e ELSE working[n]]
  BY <1>2 DEF IInv, Screens
<1>4. draft' = [draft EXCEPT ![t] = d]
  BY <1>1
<1> QED
  BY <1>3, <1>4, MountsKeep

\* seal() takes draft d to r, on the screen as well or with nothing changed.
LEMMA SealKeeps ==
    ASSUME IInv, World', Forth, NEW m \in Mount, NEW d \in Draft,
           NEW r \in RunState, run' = [run EXCEPT ![m] = r],
           Good(d)', Goes(r, d)',
           \/ Persist(m, d)
           \/ Stay /\ working[m] = d
    PROVE  IInv'
<1>1. PICK t \in Tab, c \in Draft : t = TabOf(m) /\ c = draft[t]
  BY DEF Mount, TabOf, IInv, Screens
<1>2. c \in Draft /\ Good(c)'
  BY <1>1, GoodStays DEF IInv, Screens
<1>3. draft = [draft EXCEPT ![TabOf(m)] = c]
  BY <1>1 DEF IInv, Screens
<1>4. CASE Persist(m, d) /\ OnScreen(m)
  BY <1>4, MountKeeps DEF Persist
<1>5. CASE Persist(m, d) /\ ~OnScreen(m)
  BY <1>2, <1>3, <1>5, MountKeeps DEF Persist
<1>6. CASE Stay /\ working[m] = d
  <2>1. working' = [working EXCEPT ![m] = d]
    BY <1>6 DEF Stay, IInv, Screens
  <2> QED
    BY <1>2, <1>3, <1>6, <2>1, MountKeeps DEF Stay
<1> QED
  BY <1>4, <1>5, <1>6

\* What is outside changes by no more than a package, a draw and a fault.
LEMMA WorldKeeps ==
    ASSUME World, UNCHANGED <<contractVars, txs>>,
           packages \subseteq packages', packages' \subseteq Archive,
           drawn' \subseteq LetterId \cup Archive, faults' \in 0..MaxFaults
    PROVE  World' /\ Forth
<1>1. UNCHANGED <<currentKeyId, mailboxPublicKeys, mailboxActive,
                  sealedLetters, log>>
  BY DEF contractVars
<1>2. World'
  BY <1>1 DEF World, Chain!TypeOK, KeysOpen, Sent, Wrapped, LatestKeyId
<1>3. LatestKeyId \in Nat
  BY SendAssumption DEF World, Chain!TypeOK, LatestKeyId
<1> QED
  BY <1>1, <1>2, <1>3 DEF Forth, History, LatestKeyId

\* A step of a tab that changes nothing outside it.
LEMMA LocalKeeps ==
    ASSUME IInv, UNCHANGED Requests, faults' \in 0..MaxFaults,
           NEW m \in Mount, NEW d \in Draft, NEW r \in RunState,
           run' = [run EXCEPT ![m] = r], Good(d), Goes(r, d),
           \/ Persist(m, d)
           \/ Stay /\ working[m] = d
    PROVE  IInv'
<1>1. World' /\ Forth
  BY WorldKeeps DEF Requests, IInv, World
<1>2. Good(d)' /\ Goes(r, d)'
  BY <1>1, GoodStays, GoesStays DEF IInv
<1> QED
  BY <1>1, <1>2, SealKeeps

\* seal() returns, and leaves the draft as it is.
LEMMA ThrowKeeps ==
    ASSUME IInv, UNCHANGED Requests, faults' \in 0..MaxFaults,
           NEW m \in Mount, Throw(m)
    PROVE  IInv'
<1>1. working[m] \in Draft /\ Good(working[m])
  BY DEF IInv, Screens
<1>2. Idle \in RunState /\ Goes(Idle, working[m])
  BY DEF Idle, RunState, Goes, HashOf, Late, Await
<1>3. run' = [run EXCEPT ![m] = Idle] /\ Stay
  BY DEF Throw, Return
<1> QED
  BY <1>1, <1>2, <1>3, LocalKeeps

\* seal() goes on at p, with the draft as it is.
LEMMA MoveKeeps ==
    ASSUME IInv, UNCHANGED Requests, faults' \in 0..MaxFaults,
           NEW m \in Mount, NEW p \in Late, Move(m, p),
           working[m].stage = "WAITING_TRANSACTION",
           p = "awaitPending" => working[m].hash # 0,
           p \in {"receipt", "receipt2"} => run[m].hash # 0
    PROVE  IInv'
<1>1. /\ working[m] \in Draft /\ Good(working[m]) /\ run[m] \in RunState
      /\ Goes(run[m], working[m])
  BY DEF IInv, Screens
<1>2. PICK r : r = [run[m] EXCEPT !.pc = p]
  OBVIOUS
<1>3. r \in RunState /\ r.pc = p /\ r.hash = run[m].hash
  BY <1>1, <1>2 DEF RunState, Late
<1>4. Goes(r, working[m])
  BY <1>1, <1>3 DEF Goes, Late, Await, HashOf
<1>5. run' = [run EXCEPT ![m] = r] /\ Stay
  BY <1>2 DEF Move, Go, IInv, Screens
<1> QED
  BY <1>1, <1>3, <1>4, <1>5, LocalKeeps

\* The letter is found sealed, or its transaction mined: h is its hash.
LEMMA FinishKeeps ==
    ASSUME IInv, UNCHANGED Requests, faults' \in 0..MaxFaults,
           NEW m \in Mount, NEW h \in Nat, FinishWith(m, h),
           HashOf(h, working[m].letterId),
           \/ sealedLetters[working[m].letterId]
           \/ h # 0 /\ txs[h].status = "reverted"
    PROVE  IInv'
<1>1. PICK d : d = [working[m] EXCEPT !.stage = "SEALED", !.hash = h,
                                     !.filled = FALSE]
  OBVIOUS
<1>2. working[m] \in Draft
  BY DEF IInv, Screens
<1>3. /\ d \in Draft /\ d.stage = "SEALED" /\ d.hash = h
      /\ d.letterId = working[m].letterId
  BY <1>1, <1>2 DEF Draft, Stage
<1>4. Good(d)
  BY <1>3 DEF Good, Looked
<1>5. Idle \in RunState /\ Goes(Idle, d)
  BY DEF Idle, RunState, Goes, HashOf, Late, Await
<1>6. run' = [run EXCEPT ![m] = Idle] /\ Persist(m, d)
  BY <1>1 DEF FinishWith, Return
<1> QED
  BY <1>3, <1>4, <1>5, <1>6, LocalKeeps

-----------------------------------------------------------------------------
(* The steps of seal(). *)

Rewrapped(d) ==
    [WithLatestKey(d) EXCEPT !.stage = "WAITING_TRANSACTION"]

\* A wrap for the newest key.
LEMMA WrapGood ==
    ASSUME IInv, NEW d \in Draft, Good(d), NEW e,
           d.stage \in {"ENCRYPTING_KEY", "WAITING_TRANSACTION"},
           \/ e = Rewrapped(d)
           \/ e = WithLatestKey(d) /\ d.stage = "WAITING_TRANSACTION"
    PROVE  /\ e \in Draft /\ Good(e) /\ e.stage = "WAITING_TRANSACTION"
           /\ e.hash = d.hash /\ e.letterId = d.letterId
<1>1. /\ LatestKeyId \in Nat /\ LatestKeyId <= KeyIdMax
      /\ d.keyId \in 1..LatestKeyId /\ d.archive \in Archive
      /\ d.archive \in packages
  BY SendAssumption DEF IInv, World, Chain!TypeOK, LatestKeyId, Good, Looked
<1>2. LatestKeyId \in 1..LatestKeyId /\ LatestKeyId \in 0..KeyIdMax
  BY <1>1
<1>3. mailboxPublicKeys[Recipient][LatestKeyId] \in PublicKey
  BY <1>2 DEF IInv, World, KeysOpen
<1>4. Wrapped(d.archive, LatestKeyId) \in SealedKey
  BY <1>1, <1>3 DEF Wrapped, SealedKey
<1>5. /\ e.stage = "WAITING_TRANSACTION" /\ e.keyId = LatestKeyId
      /\ e.sealedKey = Wrapped(d.archive, LatestKeyId)
      /\ e.archive = d.archive /\ e.hash = d.hash /\ e.letterId = d.letterId
  BY DEF Rewrapped, WithLatestKey, Wrapped, Draft
<1>6. e \in Draft
  BY <1>2, <1>4 DEF Rewrapped, WithLatestKey, Wrapped, Draft, Stage
<1>7. Good(e)
  <2>1. HashOf(e.hash, e.letterId)
    BY <1>5 DEF Good
  <2> QED
    BY <1>1, <1>2, <1>5, <2>1 DEF Good, Looked
<1> QED
  BY <1>5, <1>6, <1>7

\* Up to the wallet.
LEMMA PreparingInv ==
    ASSUME IInv, UNCHANGED Requests, UNCHANGED faults, NEW m \in Mount,
           \/ Lookup(m) \/ Wrap(m) \/ Recover(m) \/ AwaitPending(m)
           \/ RecoverPending(m) \/ GetPending(m) \/ Active(m) \/ Attempt(m)
    PROVE  IInv'
<1>1. /\ working[m] \in Draft /\ Good(working[m]) /\ run[m] \in RunState
      /\ Goes(run[m], working[m]) /\ run \in [Mount -> RunState]
  BY DEF IInv, Screens
<1>2. faults' \in 0..MaxFaults
  BY DEF IInv, World
<1>3. LatestKeyId \in Nat /\ LatestKeyId \in 0..KeyIdMax
  BY SendAssumption DEF IInv, World, Chain!TypeOK, LatestKeyId
<1>4. sealedLetters[working[m].letterId] =>
          /\ SealingTx(working[m].letterId) \in DOMAIN txs
          /\ txs[SealingTx(working[m].letterId)].letterId = working[m].letterId
  BY <1>1 DEF IInv, World, SealingTx, Draft
<1>5. DOMAIN txs \subseteq Nat \ {0}
  BY DEF IInv, World
<1>6. CASE Lookup(m)
  <2>1. CASE Throw(m)
    BY <1>2, <2>1, ThrowKeeps
  <2>2. CASE /\ LatestKeyId >= 1 /\ Go(m, "pack")
             /\ Persist(m, [working[m] EXCEPT !.stage = "PACKING",
                                              !.keyId = LatestKeyId])
    <3>1. PICK d : d = [working[m] EXCEPT !.stage = "PACKING",
                                          !.keyId = LatestKeyId]
      OBVIOUS
    <3>2. PICK r : r = [run[m] EXCEPT !.pc = "pack"]
      OBVIOUS
    <3>3. /\ d \in Draft /\ d.stage = "PACKING" /\ d.keyId = LatestKeyId
          /\ d.hash = working[m].hash /\ d.letterId = working[m].letterId
      BY <1>1, <1>3, <3>1 DEF Draft, Stage
    <3>4. Good(d)
      BY <1>1, <1>3, <2>2, <3>3 DEF Good, Looked
    <3>5. r \in RunState /\ Goes(r, d)
      BY <1>1, <3>2, <3>3 DEF Goes, Late, Await, HashOf, RunState
    <3>6. run' = [run EXCEPT ![m] = r] /\ Persist(m, d)
      BY <1>1, <2>2, <3>1, <3>2 DEF Go
    <3> QED
      BY <1>2, <3>3, <3>4, <3>5, <3>6, LocalKeeps
  <2> QED
    BY <1>6, <2>1, <2>2 DEF Lookup
<1>7. CASE Wrap(m)
  <2>1. PICK d : d = Rewrapped(working[m])
    OBVIOUS
  <2>2. PICK r : r = [run[m] EXCEPT !.pc = "recover"]
    OBVIOUS
  <2>3. working[m].stage = "ENCRYPTING_KEY" /\ run[m].pc = "wrap"
    BY <1>1, <1>7 DEF Wrap, At, Goes
  <2>4. /\ d \in Draft /\ Good(d) /\ d.stage = "WAITING_TRANSACTION"
        /\ d.letterId = working[m].letterId
    BY <1>1, <2>1, <2>3, WrapGood
  <2>5. r \in RunState /\ Goes(r, d)
    BY <1>1, <2>2, <2>3, <2>4 DEF Goes, Late, Await, HashOf, RunState
  <2>6. run' = [run EXCEPT ![m] = r] /\ Persist(m, d)
    BY <1>1, <1>7, <2>1, <2>2 DEF Wrap, Go, Rewrapped
  <2> QED
    BY <1>2, <2>4, <2>5, <2>6, LocalKeeps
<1>8. CASE \/ Recover(m) \/ AwaitPending(m) \/ RecoverPending(m)
           \/ GetPending(m) \/ Active(m) \/ Attempt(m)
  <2>1. working[m].stage = "WAITING_TRANSACTION"
    BY <1>1, <1>8
    DEF Recover, AwaitPending, RecoverPending, GetPending, Active, Attempt, At,
        Goes, Late, Await
  <2>2. ASSUME NEW h \in Nat, FinishWith(m, h), HashOf(h, working[m].letterId),
               sealedLetters[working[m].letterId]
        PROVE  IInv'
    BY <1>2, <2>2, FinishKeeps
  <2>3. HashOf(working[m].hash, working[m].letterId)
          /\ working[m].hash \in Nat
    BY <1>1 DEF Good, Draft
  <2>4. CASE Recover(m)
    <3>1. CASE OnChain(m) /\ FinishWith(m, SealingTx(working[m].letterId))
      BY <1>4, <1>5, <2>2, <3>1 DEF OnChain, HashOf
    <3>2. CASE working[m].hash # 0 /\ Move(m, "awaitPending")
      BY <1>2, <2>1, <3>2, MoveKeeps DEF Late, Await
    <3>3. CASE Move(m, "active")
      BY <1>2, <2>1, <3>3, MoveKeeps DEF Late, Await
    <3> QED
      BY <2>4, <3>1, <3>2, <3>3 DEF Recover
  <2>5. CASE AwaitPending(m)
    <3>1. /\ FinishWith(m, working[m].hash) /\ working[m].hash # 0
          /\ txs[working[m].hash].status \in {"success", "reverted"}
      BY <1>1, <2>5 DEF AwaitPending, At, Goes, Mined
    <3>2. \/ sealedLetters[working[m].letterId]
          \/ txs[working[m].hash].status = "reverted"
      BY <2>3, <3>1 DEF HashOf, IInv, World
    <3> QED
      BY <1>2, <2>3, <3>1, <3>2, FinishKeeps
  <2>6. CASE RecoverPending(m)
    <3>1. CASE OnChain(m) /\ FinishWith(m, working[m].hash)
      BY <2>2, <2>3, <3>1 DEF OnChain
    <3>2. CASE Move(m, "getPending")
      BY <1>2, <2>1, <3>2, MoveKeeps DEF Late, Await
    <3> QED
      BY <2>6, <3>1, <3>2 DEF RecoverPending
  <2>7. CASE GetPending(m)
    <3>1. CASE Throw(m)
      BY <1>2, <3>1, ThrowKeeps
    <3>2. CASE Persist(m, [working[m] EXCEPT !.hash = 0]) /\ Go(m, "active")
      <4>1. PICK d : d = [working[m] EXCEPT !.hash = 0]
        OBVIOUS
      <4>2. PICK r : r = [run[m] EXCEPT !.pc = "active"]
        OBVIOUS
      <4>3. /\ d \in Draft /\ d.hash = 0 /\ d.stage = working[m].stage
            /\ d.keyId = working[m].keyId /\ d.archive = working[m].archive
            /\ d.sealedKey = working[m].sealedKey
            /\ d.letterId = working[m].letterId
        BY <1>1, <4>1 DEF Draft
      <4>4. Good(d)
        BY <1>1, <2>1, <4>3 DEF Good, HashOf
      <4>5. r \in RunState /\ Goes(r, d)
        BY <1>1, <2>1, <4>2, <4>3 DEF Goes, Late, Await, HashOf, RunState
      <4>6. run' = [run EXCEPT ![m] = r] /\ Persist(m, d)
        BY <1>1, <3>2, <4>1, <4>2 DEF Go
      <4> QED
        BY <1>2, <4>3, <4>4, <4>5, <4>6, LocalKeeps
    <3> QED
      BY <2>7, <3>1, <3>2 DEF GetPending
  <2>8. CASE Active(m)
    <3>1. CASE Throw(m)
      BY <1>2, <3>1, ThrowKeeps
    <3>2. CASE Move(m, "attempt")
      BY <1>2, <2>1, <3>2, MoveKeeps DEF Late, Await
    <3> QED
      BY <2>8, <3>1, <3>2 DEF Active
  <2>9. CASE Attempt(m)
    <3>1. CASE Stay /\ Go(m, "write")
      BY <1>2, <2>1, <3>1, MoveKeeps DEF Late, Await, Move
    <3>2. CASE Persist(m, WithLatestKey(working[m])) /\ Go(m, "write")
      <4>1. PICK d : d = WithLatestKey(working[m])
        OBVIOUS
      <4>2. PICK r : r = [run[m] EXCEPT !.pc = "write"]
        OBVIOUS
      <4>3. /\ d \in Draft /\ Good(d) /\ d.stage = "WAITING_TRANSACTION"
            /\ d.letterId = working[m].letterId
        BY <1>1, <2>1, <4>1, WrapGood
      <4>4. r \in RunState /\ Goes(r, d)
        BY <1>1, <4>2, <4>3 DEF Goes, Late, Await, HashOf, RunState
      <4>5. run' = [run EXCEPT ![m] = r] /\ Persist(m, d)
        BY <1>1, <3>2, <4>1, <4>2 DEF Go
      <4> QED
        BY <1>2, <4>3, <4>4, <4>5, LocalKeeps
    <3> QED
      BY <2>9, <3>1, <3>2 DEF Attempt
  <2> QED
    BY <1>8, <2>4, <2>5, <2>6, <2>7, <2>8, <2>9
<1> QED
  BY <1>6, <1>7, <1>8

\* From the wallet's answer on.
LEMMA ConfirmingInv ==
    ASSUME IInv, UNCHANGED Requests, UNCHANGED faults, NEW m \in Mount,
           \/ WriteFailed(m) \/ WriteRotated(m) \/ Receipt(m)
           \/ RevertRecover(m) \/ RevertRotated(m) \/ Delayed(m)
           \/ WaitTimesOut(m)
    PROVE  IInv'
<1>1. /\ working[m] \in Draft /\ Good(working[m]) /\ run[m] \in RunState
      /\ Goes(run[m], working[m]) /\ run \in [Mount -> RunState]
  BY DEF IInv, Screens
<1>2. faults' \in 0..MaxFaults
  BY DEF IInv, World
<1>3. working[m].stage = "WAITING_TRANSACTION"
  BY <1>1
  DEF WriteFailed, WriteRotated, Receipt, RevertRecover, RevertRotated, Delayed,
      WaitTimesOut, At, Goes, Late, Await
<1>4. HashOf(run[m].hash, working[m].letterId) /\ run[m].hash \in Nat
  BY <1>1 DEF Goes, RunState
<1>5. ASSUME OnChain(m), FinishWith(m, run[m].hash)
      PROVE  IInv'
  BY <1>2, <1>4, <1>5, FinishKeeps DEF OnChain
<1>6. ASSUME NEW p \in {"writeRotated", "revertRecover", "delayed",
                       "revertRotated", "recoverPending"}, Move(m, p)
      PROVE  IInv'
  BY <1>2, <1>3, <1>6, MoveKeeps DEF Late, Await
<1>7. ASSUME Throw(m)
      PROVE  IInv'
  BY <1>2, <1>7, ThrowKeeps
<1>8. CASE WriteFailed(m)
  <2>1. CASE OnChain(m)
    <3>1. PICK h : h = SealingTx(working[m].letterId)
      OBVIOUS
    <3>2. h \in DOMAIN txs /\ txs[h].letterId = working[m].letterId
      BY <1>1, <2>1, <3>1 DEF IInv, World, SealingTx, OnChain, Draft
    <3>3. DOMAIN txs \subseteq Nat \ {0}
      BY DEF IInv, World
    <3>4. PICK r : r = [run[m] EXCEPT !.hash = h, !.pc = "receipt"]
      OBVIOUS
    <3>5. /\ r \in RunState /\ r.pc = "receipt" /\ r.hash = h
      BY <1>1, <3>2, <3>3, <3>4 DEF RunState, Await
    <3>6. Goes(r, working[m])
      BY <1>3, <3>2, <3>3, <3>5 DEF Goes, HashOf
    <3>7. run' = [run EXCEPT ![m] = r] /\ Stay
      BY <1>1, <1>8, <2>1, <3>1, <3>4 DEF WriteFailed
    <3> QED
      BY <1>1, <1>2, <3>5, <3>6, <3>7, LocalKeeps
  <2>2. CASE ~OnChain(m)
    BY <1>6, <1>8, <2>2 DEF WriteFailed, Move
  <2> QED
    BY <2>1, <2>2
<1>9. CASE WriteRotated(m)
  <2>1. CASE Stay /\ run' = [run EXCEPT ![m].attempt = 1, ![m].pc = "attempt"]
    <3>1. PICK r : r = [run[m] EXCEPT !.attempt = 1, !.pc = "attempt"]
      OBVIOUS
    <3>2. /\ r \in RunState /\ r.pc = "attempt" /\ r.hash = run[m].hash
      <4>1. 1 \in 0..1 /\ "attempt" \in Await
        BY DEF Await
      <4> QED
        BY <1>1, <3>1, <4>1 DEF RunState
    <3>3. Goes(r, working[m])
      BY <1>3, <1>4, <3>2 DEF Goes, HashOf
    <3>4. run' = [run EXCEPT ![m] = r] /\ Stay
      BY <1>1, <2>1, <3>1
    <3> QED
      BY <1>1, <1>2, <3>2, <3>3, <3>4, LocalKeeps
  <2>2. CASE Stay /\ Return(m)
    BY <1>7, <2>2 DEF Throw
  <2> QED
    BY <1>9, <2>1, <2>2 DEF WriteRotated
<1>10. CASE Receipt(m)
  <2>1. run[m].hash # 0
    BY <1>1, <1>10 DEF Receipt, Goes
  <2>2. run[m].hash \in DOMAIN txs
          /\ txs[run[m].hash].letterId = working[m].letterId
    BY <1>4, <2>1 DEF HashOf
  <2>3. CASE /\ txs[run[m].hash].status = "success"
             /\ FinishWith(m, run[m].hash)
    <3>1. OnChain(m)
      BY <2>2, <2>3 DEF OnChain, IInv, World
    <3> QED
      BY <1>5, <2>3, <3>1
  <2>4. CASE Move(m, "revertRecover") \/ Move(m, "delayed")
    BY <1>6, <2>4
  <2> QED
    BY <1>10, <2>3, <2>4 DEF Receipt
<1>11. CASE RevertRecover(m)
  BY <1>5, <1>6, <1>11 DEF RevertRecover
<1>12. CASE RevertRotated(m)
  <2>1. CASE Move(m, "delayed")
    BY <1>6, <2>1
  <2>2. CASE /\ Persist(m, [WithLatestKey(working[m]) EXCEPT !.hash = 0])
             /\ Go(m, "rewrite")
    <3>1. PICK e : e = WithLatestKey(working[m])
      OBVIOUS
    <3>2. PICK d : d = [e EXCEPT !.hash = 0]
      OBVIOUS
    <3>3. PICK r : r = [run[m] EXCEPT !.pc = "rewrite"]
      OBVIOUS
    <3>4. /\ e \in Draft /\ Good(e) /\ e.stage = "WAITING_TRANSACTION"
          /\ e.letterId = working[m].letterId
      BY <1>1, <1>3, <3>1, WrapGood
    <3>5. /\ d \in Draft /\ d.stage = "WAITING_TRANSACTION"
          /\ d.hash = 0 /\ d.letterId = working[m].letterId
          /\ d.keyId = e.keyId /\ d.archive = e.archive
          /\ d.sealedKey = e.sealedKey
      BY <3>2, <3>4 DEF Draft
    <3>6. Good(d)
      BY <3>4, <3>5 DEF Good, HashOf
    <3>7. r \in RunState /\ Goes(r, d)
      BY <1>1, <3>3, <3>5 DEF Goes, Late, Await, HashOf, RunState
    <3>8. run' = [run EXCEPT ![m] = r] /\ Persist(m, d)
      BY <1>1, <2>2, <3>1, <3>2, <3>3 DEF Go
    <3> QED
      BY <1>2, <3>5, <3>6, <3>7, <3>8, LocalKeeps
  <2> QED
    BY <1>12, <2>1, <2>2 DEF RevertRotated
<1>13. CASE Delayed(m)
  BY <1>5, <1>7, <1>13 DEF Delayed
<1>14. CASE WaitTimesOut(m)
  BY <1>6, <1>14 DEF WaitTimesOut
<1> QED
  BY <1>8, <1>9, <1>10, <1>11, <1>12, <1>13, <1>14

\* A random draw is new, and of its kind.
LEMMA FreshIn ==
    ASSUME NEW S, NEW x \in Fresh(S)
    PROVE  x \in S
  BY DEF Fresh, AnyOf

\* Packing, and the upload of the package.
LEMMA StoringInv ==
    ASSUME IInv, UNCHANGED <<contractVars, faults>>, NEW m \in Mount,
           Pack(m) \/ Put(m)
    PROVE  IInv'
<1>1. /\ working[m] \in Draft /\ Good(working[m]) /\ run[m] \in RunState
      /\ Goes(run[m], working[m]) /\ run \in [Mount -> RunState]
  BY DEF IInv, Screens
<1>2. CASE Pack(m)
  <2>1. PICK a \in Fresh(Archive) :
            /\ drawn' = drawn \cup {a}
            /\ Persist(m, [working[m] EXCEPT !.stage = "UPLOADING_PACKAGE",
                                            !.archive = a])
    BY <1>2 DEF Pack
  <2>2. a \in Archive
    BY FreshIn
  <2>3. World' /\ Forth
    BY <1>2, <2>1, <2>2, WorldKeeps DEF Pack, IInv, World
  <2>4. PICK d : d = [working[m] EXCEPT !.stage = "UPLOADING_PACKAGE",
                                        !.archive = a]
    OBVIOUS
  <2>5. PICK r : r = [run[m] EXCEPT !.pc = "put"]
    OBVIOUS
  <2>6. working[m].stage = "PACKING"
    BY <1>1, <1>2 DEF Pack, At, Goes
  <2>7. /\ d \in Draft /\ d.stage = "UPLOADING_PACKAGE" /\ d.archive = a
        /\ d.keyId = working[m].keyId /\ d.hash = working[m].hash
        /\ d.letterId = working[m].letterId
    BY <1>1, <2>2, <2>4 DEF Draft, Stage
  <2>8. Good(d)
    BY <1>1, <2>2, <2>6, <2>7 DEF Good, Looked
  <2>9. r \in RunState /\ Goes(r, d)
    BY <1>1, <2>5, <2>7 DEF Goes, Late, Await, HashOf, RunState
  <2>10. Good(d)' /\ Goes(r, d)'
    BY <2>3, <2>7, <2>8, <2>9, GoodStays, GoesStays DEF IInv
  <2>11. run' = [run EXCEPT ![m] = r] /\ Persist(m, d)
    BY <1>1, <1>2, <2>1, <2>4, <2>5 DEF Pack, Go
  <2> QED
    BY <2>3, <2>7, <2>9, <2>10, <2>11, SealKeeps
<1>3. CASE Put(m)
  <2>1. working[m].stage = "UPLOADING_PACKAGE"
    BY <1>1, <1>3 DEF Put, At, Goes
  <2>2. working[m].archive \in Archive
    BY <1>1, <2>1 DEF Good, Looked
  <2>3. World' /\ Forth
    BY <1>3, <2>2, WorldKeeps DEF Put, IInv, World
  <2>4. PICK d : d = [working[m] EXCEPT !.stage = "ENCRYPTING_KEY"]
    OBVIOUS
  <2>5. PICK r : r = [run[m] EXCEPT !.pc = "wrap"]
    OBVIOUS
  <2>6. /\ d \in Draft /\ d.stage = "ENCRYPTING_KEY"
        /\ d.archive = working[m].archive /\ d.keyId = working[m].keyId
        /\ d.hash = working[m].hash /\ d.letterId = working[m].letterId
    BY <1>1, <2>4 DEF Draft, Stage
  <2>7. Good(d)'
    <3>1. PICK w : w = working[m]
      OBVIOUS
    <3>2. Good(w)'
      BY <1>1, <2>3, <3>1, GoodStays DEF IInv
    <3>3. d.keyId \in 1..LatestKeyId' /\ HashOf(d.hash, d.letterId)'
      BY <2>1, <2>6, <3>1, <3>2 DEF Good, Looked
    <3>4. d.archive \in packages'
      BY <1>3, <2>6 DEF Put
    <3> QED
      BY <2>2, <2>6, <3>3, <3>4 DEF Good, Looked
  <2>8. r \in RunState /\ Goes(r, d)
    BY <1>1, <2>5, <2>6 DEF Goes, Late, Await, HashOf, RunState
  <2>9. Goes(r, d)'
    BY <2>3, <2>8, GoesStays
  <2>10. run' = [run EXCEPT ![m] = r] /\ Persist(m, d)
    BY <1>1, <1>3, <2>4, <2>5 DEF Put, Go
  <2> QED
    BY <2>3, <2>6, <2>7, <2>8, <2>9, <2>10, SealKeeps
<1> QED
  BY <1>2, <1>3

\* The wallet submits what seal() is waiting with.
LEMMA SubmitKeeps ==
    ASSUME IInv, UNCHANGED <<contractVars, packages, drawn>>,
           faults' \in 0..MaxFaults, NEW m \in Mount,
           working[m].stage = "WAITING_TRANSACTION",
           txs' = Append(txs, Submitted(m)),
           NEW n, n = Len(txs) + 1, NEW l, l = working[m].letterId
    PROVE  World' /\ Forth /\ n \in Nat \ {0} /\ HashOf(n, l)'
<1>1. UNCHANGED <<currentKeyId, mailboxPublicKeys, mailboxActive,
                  sealedLetters, log>>
  BY DEF contractVars
<1>2. working[m] \in Draft /\ Good(working[m])
  BY DEF IInv, Screens
<1>3. LatestKeyId \in Nat /\ 1..LatestKeyId \subseteq 0..KeyIdMax
  BY SendAssumption DEF IInv, World, Chain!TypeOK, LatestKeyId
<1>4. PICK tx : tx = Submitted(m)
  OBVIOUS
<1>5. tx \in Tx /\ Sent(tx) /\ tx.status = "pending"
        /\ tx.letterId = working[m].letterId
  <2>1. /\ working[m].keyId \in 1..LatestKeyId
        /\ working[m].archive \in Archive /\ working[m].archive \in packages
        /\ working[m].sealedKey = Wrapped(working[m].archive, working[m].keyId)
    BY <1>2 DEF Good, Looked
  <2> QED
    BY <1>2, <1>3, <1>4, <2>1 DEF Submitted, Tx, Sent, Draft
<1>6. /\ txs \in Seq(Tx) /\ txs' \in Seq(Tx) /\ Len(txs) \in Nat
      /\ DOMAIN txs = 1..Len(txs) /\ DOMAIN txs' = 1..(Len(txs) + 1)
      /\ \A i \in 1..Len(txs) : txs'[i] = txs[i]
      /\ txs'[Len(txs) + 1] = tx
  BY <1>4, <1>5 DEF IInv, World
<1>7. Forth
  BY <1>1, <1>3, <1>6 DEF Forth, History, LatestKeyId
<1>8. World'
  <2>1. Chain!TypeOK' /\ KeysOpen'
    BY <1>1 DEF IInv, World, Chain!TypeOK, KeysOpen, LatestKeyId
  <2>2. \A i \in DOMAIN txs' :
            /\ txs'[i].archive \in packages'
            /\ txs'[i].keyId \in 1..LatestKeyId'
            /\ txs'[i].sealedKey = Wrapped(txs[i].archive, txs[i].keyId)'
    BY <1>1, <1>5, <1>6 DEF IInv, World, Sent, Wrapped, LatestKeyId
  <2>3. \A i \in DOMAIN txs' :
            txs'[i].status = "success" => sealedLetters'[txs'[i].letterId]
    BY <1>1, <1>5, <1>6 DEF IInv, World
  <2>4. \A k \in LetterId : sealedLetters'[k] =>
            \E i \in DOMAIN txs' :
                txs'[i].letterId = k /\ txs'[i].status = "success"
    BY <1>1, <1>6 DEF IInv, World
  <2>5. packages' \subseteq Archive /\ drawn' \subseteq LetterId \cup Archive
    BY DEF IInv, World
  <2> QED
    BY <1>6, <2>1, <2>2, <2>3, <2>4, <2>5 DEF World, Sent
<1>9. n \in Nat \ {0} /\ HashOf(n, l)'
  BY <1>5, <1>6 DEF HashOf
<1> QED
  BY <1>7, <1>8, <1>9

LEMMA WriteInv ==
    ASSUME IInv, UNCHANGED <<contractVars, faults>>, NEW m \in Mount, Write(m)
    PROVE  IInv'
<1>1. /\ working[m] \in Draft /\ Good(working[m]) /\ run[m] \in RunState
      /\ Goes(run[m], working[m]) /\ run \in [Mount -> RunState]
  BY DEF IInv, Screens
<1>2. working[m].stage = "WAITING_TRANSACTION"
  BY <1>1 DEF Write, Goes, Late, Await
<1>3. PICK n, w : n = Len(txs) + 1 /\ w = working[m]
  OBVIOUS
<1>4. /\ txs' = Append(txs, Submitted(m)) /\ UNCHANGED <<packages, drawn>>
      /\ Persist(m, [w EXCEPT !.hash = n])
      /\ run' = [run EXCEPT ![m].hash = n, ![m].pc =
                     IF At(m, "write") THEN "receipt" ELSE "receipt2"]
  BY <1>3 DEF Write
<1>5. World' /\ Forth /\ n \in Nat \ {0} /\ HashOf(n, w.letterId)'
  <2>1. PICK l : l = w.letterId
    OBVIOUS
  <2>2. faults' \in 0..MaxFaults
    BY DEF IInv, World
  <2>3. World' /\ Forth /\ n \in Nat \ {0} /\ HashOf(n, l)'
    BY <1>2, <1>3, <1>4, <2>1, <2>2, SubmitKeeps
  <2> QED
    BY <2>1, <2>3 DEF HashOf
<1>6. PICK d : d = [w EXCEPT !.hash = n]
  OBVIOUS
<1>7. PICK pc \in {"receipt", "receipt2"} :
          pc = IF At(m, "write") THEN "receipt" ELSE "receipt2"
  OBVIOUS
<1>8. PICK r : r = [run[m] EXCEPT !.hash = n, !.pc = pc]
  OBVIOUS
<1>9. /\ d \in Draft /\ d.hash = n /\ d.letterId = w.letterId
      /\ d.stage = w.stage /\ d.keyId = w.keyId /\ d.archive = w.archive
      /\ d.sealedKey = w.sealedKey
  BY <1>1, <1>3, <1>5, <1>6 DEF Draft
<1>10. Good(d)'
  <2>1. Good(w)'
    BY <1>1, <1>3, <1>5, GoodStays DEF IInv
  <2> QED
    BY <1>2, <1>3, <1>5, <1>9, <2>1 DEF Good, HashOf
<1>11. r \in RunState /\ r.pc = pc /\ r.hash = n
  <2>1. pc \in Await
    BY DEF Await
  <2> QED
    BY <1>1, <1>5, <1>8, <2>1 DEF RunState
<1>12. Goes(r, d)'
  BY <1>2, <1>3, <1>5, <1>9, <1>11 DEF Goes, HashOf
<1>13. run' = [run EXCEPT ![m] = r] /\ Persist(m, d)
  BY <1>1, <1>4, <1>6, <1>7, <1>8
<1> QED
  BY <1>5, <1>9, <1>10, <1>11, <1>12, <1>13, SealKeeps

LEMMA SealStepInv ==
    ASSUME IInv, NEW m \in Mount, SealStep(m)
    PROVE  IInv'
<1>1. UNCHANGED <<contractVars, faults>>
  BY DEF SealStep
<1>2. CASE Pack(m) \/ Put(m)
  BY <1>1, <1>2, StoringInv
<1>3. CASE Write(m)
  BY <1>1, <1>3, WriteInv
<1>4. CASE LocalStep(m) /\ UNCHANGED Requests
  BY <1>1, <1>4, PreparingInv, ConfirmingInv DEF LocalStep
<1> QED
  BY <1>2, <1>3, <1>4 DEF SealStep

-----------------------------------------------------------------------------
(* Failures. *)

\* An exception is thrown by the await seal() is at.
LEMMA RaiseKeeps ==
    ASSUME IInv, World', Forth, NEW m \in Mount, Raise(m), run[m].pc \in Await
    PROVE  IInv'
<1>1. /\ working[m] \in Draft /\ Good(working[m]) /\ run[m] \in RunState
      /\ Goes(run[m], working[m]) /\ run \in [Mount -> RunState]
  BY DEF IInv, Screens
<1>2. PICK w : w = working[m]
  OBVIOUS
<1>3. PICK p : p = Catch(run[m].pc)
  OBVIOUS
<1>4. PICK r : r = IF p = "idle" THEN Idle ELSE [run[m] EXCEPT !.pc = p]
  OBVIOUS
<1>5. p # "idle" => /\ p \in {"recoverPending", "writeFailed", "delayed"}
                    /\ run[m].pc \in Late
  BY <1>3 DEF Catch, Late, Await
<1>6. r \in RunState /\ Goes(r, w)
  <2>1. CASE p = "idle"
    BY <1>4, <2>1 DEF Idle, RunState, Goes, HashOf, Late, Await
  <2>2. CASE p # "idle"
    <3>1. w.stage = "WAITING_TRANSACTION" /\ HashOf(run[m].hash, w.letterId)
      BY <1>1, <1>2, <1>5, <2>2 DEF Goes
    <3>2. p \in Await
      BY <1>5, <2>2 DEF Await
    <3>3. r \in RunState /\ r.pc = p /\ r.hash = run[m].hash
      BY <1>1, <1>4, <2>2, <3>2 DEF RunState
    <3> QED
      BY <1>5, <2>2, <3>1, <3>3 DEF Goes
  <2> QED
    BY <2>1, <2>2
<1>7. Good(w)' /\ Goes(r, w)'
  BY <1>1, <1>2, <1>6, GoodStays, GoesStays DEF IInv
<1>8. run' = [run EXCEPT ![m] = r] /\ Stay
  BY <1>1, <1>3, <1>4 DEF Raise, Throw, Move, Return, Go
<1> QED
  BY <1>1, <1>2, <1>6, <1>7, <1>8, SealKeeps

\* The saved draft as a mount shows it, or a letter begun.
LEMMA LoadGood ==
    ASSUME IInv, NEW t \in Tab, Load(t)
    PROVE  \E d \in Draft : /\ Good(d) /\ drawn' \subseteq LetterId \cup Archive
                           /\ draft' = [draft EXCEPT ![t] = d]
<1>1. CASE saved # None
  <2>1. PICK d : d = [saved EXCEPT !.stage = LoadedStage(saved.stage)]
    OBVIOUS
  <2>2. saved \in Draft /\ Good(saved)
    BY <1>1 DEF IInv, Screens
  <2>3. /\ d \in Draft /\ d.keyId = saved.keyId
        /\ d.archive = saved.archive /\ d.sealedKey = saved.sealedKey
        /\ d.hash = saved.hash /\ d.letterId = saved.letterId
        /\ d.stage = IF saved.stage = "PACKING" THEN "DRAFT" ELSE saved.stage
    BY <2>1, <2>2 DEF LoadedStage, Draft, Stage
  <2>4. Good(d)
    BY <2>2, <2>3 DEF Good, Looked
  <2>5. draft' = [draft EXCEPT ![t] = d] /\ UNCHANGED drawn
    BY <1>1, <2>1 DEF Load
  <2> QED
    BY <2>3, <2>4, <2>5 DEF IInv, World
<1>2. CASE saved = None
  <2>1. PICK l \in Fresh(LetterId) :
            /\ draft' = [draft EXCEPT ![t] = EmptyDraft(l)]
            /\ drawn' = drawn \cup {l}
    BY <1>2 DEF Load
  <2>2. l \in LetterId
    BY FreshIn
  <2>3. EmptyDraft(l) \in Draft /\ Good(EmptyDraft(l))
    BY <2>2, SendAssumption
    DEF EmptyDraft, Draft, Stage, SealedKey, Good, Looked, HashOf
  <2> QED
    BY <2>1, <2>2, <2>3 DEF IInv, World
<1> QED
  BY <1>1, <1>2

\* The page is left, and the letter mounted anew.
LEMMA LeaveInv ==
    ASSUME IInv, NEW t \in Tab, NEW n \in 1..Mounts, Leave(t, n)
    PROVE  IInv'
<1>1. PICK d \in Draft :
          /\ Good(d) /\ drawn' \subseteq LetterId \cup Archive
          /\ draft' = [draft EXCEPT ![t] = d]
  BY LoadGood DEF Leave
<1>2. PICK m \in Mount, r \in RunState : m = <<t, n>> /\ TabOf(m) = t /\ r = run[m]
  <2>1. <<t, n>> \in Mount /\ TabOf(<<t, n>>) = t
    BY DEF Mount, TabOf
  <2> QED
    BY <2>1 DEF IInv, Screens
<1>3. /\ run' = [run EXCEPT ![m] = r] /\ r \in RunState /\ r.pc = "idle"
      /\ r.hash = 0
  BY <1>2 DEF Leave, At, IInv, Screens, Goes
<1>4. working' = [working EXCEPT ![m] = d]
  BY <1>1, <1>2 DEF Leave, IInv, Screens
<1>5. /\ UNCHANGED <<contractVars, txs, packages, saved>>
      /\ faults' \in 0..MaxFaults
  BY SendAssumption DEF Leave, IInv, World
<1>6. World' /\ Forth
  BY <1>1, <1>5, WorldKeeps DEF IInv, World
<1>7. Goes(r, d)
  BY <1>3 DEF Goes, HashOf, Late, Await
<1>8. Good(d)' /\ Goes(r, d)'
  BY <1>1, <1>6, <1>7, GoodStays, GoesStays DEF IInv
<1> QED
  BY <1>1, <1>2, <1>3, <1>4, <1>5, <1>6, <1>8, MountKeeps

LEMMA FaultInv ==
    ASSUME IInv, Fault
    PROVE  IInv'
<1>1. faults' \in 0..MaxFaults
  BY SendAssumption DEF Fault, IInv, World
<1>2. ASSUME UNCHANGED Requests
      PROVE  World' /\ Forth
  BY <1>1, <1>2, WorldKeeps DEF Requests, IInv, World
<1>3. ASSUME NEW m \in Mount, AwaitFails(m)
      PROVE  IInv'
  BY <1>2, <1>3, RaiseKeeps DEF AwaitFails
<1>4. ASSUME NEW m \in Mount, AnswerLost(m)
      PROVE  IInv'
  <2>1. working[m] \in Draft /\ Good(working[m]) /\ Goes(run[m], working[m])
    BY DEF IInv, Screens
  <2>2. CASE /\ At(m, "put") /\ UNCHANGED txs
             /\ packages' = packages \cup {working[m].archive}
    <3>1. working[m].archive \in Archive
      BY <2>1, <2>2 DEF At, Goes, Good, Looked
    <3>2. World' /\ Forth
      BY <1>1, <1>4, <2>2, <3>1, WorldKeeps DEF AnswerLost, IInv, World
    <3>3. run[m].pc \in Await
      BY <2>2 DEF At, Await
    <3> QED
      BY <1>4, <3>2, <3>3, RaiseKeeps DEF AnswerLost
  <2>3. CASE /\ run[m].pc \in {"write", "rewrite"} /\ UNCHANGED packages
             /\ txs' = Append(txs, Submitted(m))
    <3>1. working[m].stage = "WAITING_TRANSACTION"
      BY <2>1, <2>3 DEF Goes, Late, Await
    <3>2. PICK n, l : n = Len(txs) + 1 /\ l = working[m].letterId
      OBVIOUS
    <3>3. World' /\ Forth
      BY <1>1, <1>4, <2>3, <3>1, <3>2, SubmitKeeps DEF AnswerLost
    <3>4. run[m].pc \in Await
      BY <2>3 DEF Await
    <3> QED
      BY <1>4, <3>3, <3>4, RaiseKeeps DEF AnswerLost
  <2> QED
    BY <1>4, <2>2, <2>3 DEF AnswerLost
<1>5. ASSUME NEW m \in Mount, PackFails(m)
      PROVE  IInv'
  <2>1. working[m] \in Draft /\ Good(working[m])
    BY DEF IInv, Screens
  <2>2. PICK d : d = [working[m] EXCEPT !.stage = "DRAFT"]
    OBVIOUS
  <2>3. /\ d \in Draft /\ d.stage = "DRAFT" /\ d.hash = working[m].hash
        /\ d.letterId = working[m].letterId
    BY <2>1, <2>2 DEF Draft, Stage
  <2>4. Good(d)
    BY <2>1, <2>3 DEF Good, Looked
  <2>5. Idle \in RunState /\ Goes(Idle, d)
    BY DEF Idle, RunState, Goes, HashOf, Late, Await
  <2>6. run' = [run EXCEPT ![m] = Idle] /\ Persist(m, d)
    BY <1>5, <2>2 DEF PackFails, Return
  <2> QED
    BY <1>1, <1>5, <2>3, <2>4, <2>5, <2>6, LocalKeeps DEF PackFails
<1>6. ASSUME NEW m \in Mount, GetPendingFails(m)
      PROVE  IInv'
  <2>1. /\ working[m] \in Draft /\ Good(working[m]) /\ run[m] \in RunState
        /\ Goes(run[m], working[m]) /\ run \in [Mount -> RunState]
    BY DEF IInv, Screens
  <2>2. working[m].stage = "WAITING_TRANSACTION"
    BY <1>6, <2>1 DEF GetPendingFails, At, Goes, Late, Await
  <2>3. PICK d : d = [working[m] EXCEPT !.hash = 0]
    OBVIOUS
  <2>4. PICK r : r = [run[m] EXCEPT !.pc = "active"]
    OBVIOUS
  <2>5. /\ d \in Draft /\ d.hash = 0 /\ d.stage = working[m].stage
        /\ d.keyId = working[m].keyId /\ d.archive = working[m].archive
        /\ d.sealedKey = working[m].sealedKey
        /\ d.letterId = working[m].letterId
    BY <2>1, <2>3 DEF Draft
  <2>6. Good(d)
    BY <2>1, <2>2, <2>5 DEF Good, HashOf
  <2>7. r \in RunState /\ Goes(r, d)
    BY <2>1, <2>2, <2>4, <2>5 DEF Goes, Late, Await, HashOf, RunState
  <2>8. run' = [run EXCEPT ![m] = r] /\ Persist(m, d)
    BY <1>6, <2>1, <2>3, <2>4 DEF GetPendingFails, Go
  <2> QED
    BY <1>1, <1>6, <2>5, <2>6, <2>7, <2>8, LocalKeeps DEF GetPendingFails
<1>7. ASSUME NEW t \in Tab, Reload(t)
      PROVE  IInv'
  <2>1. PICK d \in Draft :
            /\ Good(d) /\ drawn' \subseteq LetterId \cup Archive
            /\ draft' = [draft EXCEPT ![t] = d]
    BY <1>7, LoadGood DEF Reload
  <2>2. PICK N : N = {m \in Mount : TabOf(m) = t}
    OBVIOUS
  <2>3. Idle \in RunState /\ Goes(Idle, d)
    BY DEF Idle, RunState, Goes, HashOf, Late, Await
  <2>4. /\ run' = [m \in Mount |-> IF m \in N THEN Idle ELSE run[m]]
        /\ working' = [m \in Mount |-> IF m \in N THEN d ELSE working[m]]
        /\ UNCHANGED <<contractVars, txs, packages, saved>>
    BY <1>7, <2>1, <2>2 DEF Reload, IInv, Screens
  <2>5. World' /\ Forth
    BY <1>1, <2>1, <2>4, WorldKeeps DEF IInv, World
  <2>6. Good(d)' /\ Goes(Idle, d)'
    BY <2>1, <2>3, <2>5, GoodStays, GoesStays DEF IInv
  <2> QED
    BY <2>1, <2>3, <2>4, <2>5, <2>6, MountsKeep
<1>8. ASSUME NEW i \in DOMAIN txs, Drop(i)
      PROVE  IInv'
  <2>1. /\ txs \in Seq(Tx) /\ txs[i].status = "pending"
        /\ txs' = [txs EXCEPT ![i].status = "dropped"]
        /\ UNCHANGED <<saved, draft, working, run, packages, drawn>>
        /\ UNCHANGED <<currentKeyId, mailboxPublicKeys, mailboxActive,
                       sealedLetters, log>>
    BY <1>8 DEF Drop, Stay, contractVars, IInv, World
  <2>2. /\ DOMAIN txs' = DOMAIN txs /\ txs' \in Seq(Tx)
        /\ \A j \in DOMAIN txs :
              /\ txs'[j].letterId = txs[j].letterId
              /\ txs'[j].archive = txs[j].archive
              /\ txs'[j].keyId = txs[j].keyId
              /\ txs'[j].sealedKey = txs[j].sealedKey
              /\ txs'[j].status = IF j = i THEN "dropped" ELSE txs[j].status
    <3>1. PICK tx : tx = [txs[i] EXCEPT !.status = "dropped"]
      OBVIOUS
    <3>2. /\ tx \in Tx /\ tx.status = "dropped"
          /\ tx.letterId = txs[i].letterId /\ tx.archive = txs[i].archive
          /\ tx.keyId = txs[i].keyId /\ tx.sealedKey = txs[i].sealedKey
      <4>1. txs[i] \in Tx
        BY <2>1
      <4> QED
        BY <3>1, <4>1 DEF Tx
    <3>3. txs' = [txs EXCEPT ![i] = tx]
      BY <2>1, <3>1
    <3> QED
      BY <2>1, <3>2, <3>3
  <2>3. World'
    BY <1>1, <2>1, <2>2
    DEF IInv, World, Chain!TypeOK, KeysOpen, Sent, Wrapped, LatestKeyId
  <2>4. LatestKeyId \in Nat
    BY SendAssumption DEF IInv, World, Chain!TypeOK, LatestKeyId
  <2>5. Forth
    BY <2>1, <2>2, <2>4 DEF Forth, History, LatestKeyId
  <2> QED
    BY <2>1, <2>3, <2>5, OutsideKeeps
<1> QED
  BY <1>3, <1>4, <1>5, <1>6, <1>7, <1>8 DEF Fault

-----------------------------------------------------------------------------
(* The user, the chain and the recipient. *)

\* The button: seal() takes the draft on the screen.
LEMMA PressInv ==
    ASSUME IInv, NEW m \in Mount, Seal(m)
    PROVE  IInv'
<1>1. PICK t \in Tab, d \in Draft : t = TabOf(m) /\ d = draft[t] /\ Good(d)
  BY DEF Mount, TabOf, IInv, Screens
<1>2. /\ working \in [Mount -> Draft] /\ run \in [Mount -> RunState]
      /\ Goes(run[m], working[m]) /\ draft \in [Tab -> Draft]
  BY DEF IInv, Screens
<1>3. PICK p : p = CASE d.stage \in {"DRAFT", "PACKING"} -> "lookup"
                     [] d.stage = "UPLOADING_PACKAGE" -> "put"
                     [] d.stage = "ENCRYPTING_KEY" -> "wrap"
                     [] d.stage = "WAITING_TRANSACTION" -> "recover"
                     [] OTHER -> "idle"
  OBVIOUS
<1>4. PICK r : r = [run[m] EXCEPT !.pc = p]
  OBVIOUS
<1>5. /\ p \in {"lookup", "put", "wrap", "recover", "idle"}
      /\ p = "put" => d.stage = "UPLOADING_PACKAGE"
      /\ p = "wrap" => d.stage = "ENCRYPTING_KEY"
      /\ p = "recover" => d.stage = "WAITING_TRANSACTION"
  BY <1>3
<1>6. run[m].hash = 0
  BY <1>2 DEF Seal, At, Goes
<1>7. r \in RunState /\ r.pc = p /\ r.hash = 0
  <2>1. p \in Await \cup {"idle"}
    BY <1>5 DEF Await
  <2> QED
    BY <1>2, <1>4, <1>6, <2>1 DEF RunState
<1>8. Goes(r, d)
  BY <1>5, <1>7 DEF Goes, Late, Await, HashOf
<1>9. /\ working' = [working EXCEPT ![m] = d] /\ saved' = saved
      /\ draft' = [draft EXCEPT ![TabOf(m)] = d]
  BY <1>1, <1>2 DEF Seal
<1>10. run' = [run EXCEPT ![m] = r]
  BY <1>1, <1>2, <1>3, <1>4 DEF Seal, Go
<1>11. World' /\ Forth
  BY WorldKeeps DEF Seal, Requests, IInv, World
<1>12. Good(d)' /\ Goes(r, d)'
  BY <1>1, <1>8, <1>11, GoodStays, GoesStays DEF IInv
<1> QED
  BY <1>7, <1>9, <1>10, <1>11, <1>12, MountKeeps

LEMMA UserInv ==
    ASSUME IInv, NEW t \in Tab, Update(t) \/ Reset(t)
    PROVE  IInv'
<1>1. /\ draft[t] \in Draft /\ Good(draft[t])
      /\ working \in [Mount -> Draft] /\ run \in [Mount -> RunState]
  BY DEF IInv, Screens
<1>2. ASSUME /\ UNCHANGED <<contractVars, txs, packages, faults>>
             /\ drawn' \subseteq LetterId \cup Archive
      PROVE  World' /\ Forth
  BY <1>2, WorldKeeps DEF IInv, World
<1>3. ASSUME NEW d \in Draft, Good(d), Show(t, d), World', Forth,
             UNCHANGED <<working, run>>
      PROVE  IInv'
  <2>1. PICK N : N = {}
    OBVIOUS
  <2>2. Good(d)' /\ Idle \in RunState /\ Goes(Idle, d)'
    BY <1>3, GoodStays DEF IInv, Idle, RunState, Goes, HashOf, Late, Await
  <2>3. /\ run' = [m \in Mount |-> IF m \in N THEN Idle ELSE run[m]]
        /\ working' = [m \in Mount |-> IF m \in N THEN d ELSE working[m]]
        /\ draft' = [draft EXCEPT ![t] = d] /\ saved' = d
    BY <1>1, <1>3, <2>1 DEF Show
  <2> QED
    BY <1>3, <2>2, <2>3, MountsKeep
<1>4. CASE Update(t)
  <2>1. PICK d : d = [draft[t] EXCEPT !.filled = TRUE]
    OBVIOUS
  <2>2. /\ d \in Draft /\ d.stage = "DRAFT" /\ d.hash = draft[t].hash
        /\ d.letterId = draft[t].letterId
    BY <1>1, <1>4, <2>1 DEF Update, Draft
  <2>3. Good(d)
    BY <1>1, <2>2 DEF Good, Looked
  <2>4. World' /\ Forth
    BY <1>2, <1>4 DEF Update, IInv, World
  <2> QED
    BY <1>3, <1>4, <2>1, <2>2, <2>3, <2>4 DEF Update
<1>5. CASE Reset(t)
  <2>1. PICK l \in Fresh(LetterId) :
            Show(t, EmptyDraft(l)) /\ drawn' = drawn \cup {l}
    BY <1>5 DEF Reset
  <2>2. l \in LetterId
    BY FreshIn
  <2>3. EmptyDraft(l) \in Draft /\ Good(EmptyDraft(l))
    BY <2>2, SendAssumption
    DEF EmptyDraft, Draft, Stage, SealedKey, Good, Looked, HashOf
  <2>4. World' /\ Forth
    BY <1>2, <1>5, <2>1, <2>2 DEF Reset, IInv, World
  <2> QED
    BY <1>3, <1>5, <2>1, <2>3, <2>4 DEF Reset
<1> QED
  BY <1>4, <1>5

\* A transaction of the sender is mined.
LEMMA MineInv ==
    ASSUME IInv, NEW i \in DOMAIN txs, Mine(i)
    PROVE  IInv'
<1>1. /\ txs \in Seq(Tx) /\ txs[i] \in Tx /\ txs[i].status = "pending"
      /\ UNCHANGED <<saved, draft, working, run, packages, drawn, faults>>
      /\ Chain!TypeOK /\ KeysOpen
  BY DEF Mine, Stay, IInv, World
<1>2. ASSUME NEW status \in {"success", "reverted"},
             txs' = [txs EXCEPT ![i].status = status]
      PROVE  /\ txs' \in Seq(Tx) /\ DOMAIN txs' = DOMAIN txs
             /\ \A j \in DOMAIN txs :
                  /\ txs'[j].letterId = txs[j].letterId
                  /\ txs'[j].archive = txs[j].archive
                  /\ txs'[j].keyId = txs[j].keyId
                  /\ txs'[j].sealedKey = txs[j].sealedKey
                  /\ txs'[j].status = IF j = i THEN status ELSE txs[j].status
  <2>1. PICK tx : tx = [txs[i] EXCEPT !.status = status]
    OBVIOUS
  <2>2. /\ tx \in Tx /\ tx.status = status
        /\ tx.letterId = txs[i].letterId /\ tx.archive = txs[i].archive
        /\ tx.keyId = txs[i].keyId /\ tx.sealedKey = txs[i].sealedKey
    BY <1>1, <2>1 DEF Tx
  <2>3. txs' = [txs EXCEPT ![i] = tx]
    BY <1>1, <1>2, <2>1
  <2> QED
    BY <1>1, <2>2, <2>3
<1>3. LatestKeyId \in Nat
  BY SendAssumption, <1>1 DEF Chain!TypeOK, LatestKeyId
<1>4. CASE /\ Chain!SealLetter(Sender, txs[i].letterId, Recipient,
                               txs[i].keyId, 0, 0, txs[i].archive)
           /\ txs' = [txs EXCEPT ![i].status = "success"]
  <2>1. /\ Chain!TypeOK' /\ KeysOpen' /\ History
        /\ sealedLetters' = [sealedLetters EXCEPT ![txs[i].letterId] = TRUE]
    <3>1. /\ txs[i].letterId \in LetterId /\ txs[i].keyId \in 0..KeyIdMax
          /\ txs[i].archive \in Archive
      BY <1>1 DEF Tx
    <3> QED
      BY <1>1, <1>4, <3>1, SealMoves
  <2>2. /\ txs' \in Seq(Tx) /\ DOMAIN txs' = DOMAIN txs
        /\ \A j \in DOMAIN txs :
             /\ txs'[j].letterId = txs[j].letterId
             /\ txs'[j].archive = txs[j].archive
             /\ txs'[j].keyId = txs[j].keyId
             /\ txs'[j].sealedKey = txs[j].sealedKey
             /\ txs'[j].status = IF j = i THEN "success" ELSE txs[j].status
    BY <1>2, <1>4
  <2>3. UNCHANGED <<currentKeyId, mailboxPublicKeys>>
    BY <1>4 DEF Chain!SealLetter
  <2>4. \A j \in DOMAIN txs' :
            /\ txs'[j].archive \in packages' /\ txs'[j].keyId \in 1..LatestKeyId'
            /\ txs'[j].sealedKey =
                  [archive |-> txs'[j].archive,
                   publicKey |-> mailboxPublicKeys'[Recipient][txs'[j].keyId]]
    BY <1>1, <2>2, <2>3 DEF IInv, World, Sent, Wrapped, LatestKeyId
  <2>5. \A j \in DOMAIN txs : txs[j].letterId \in LetterId
    <3>1. \A j \in DOMAIN txs : txs[j] \in Tx
      BY <1>1
    <3> QED
      BY <3>1 DEF Tx
  <2>6. sealedLetters \in [LetterId -> BOOLEAN]
    BY <1>1 DEF Chain!TypeOK
  <2>7. \A j \in DOMAIN txs' :
            txs'[j].status = "success" => sealedLetters'[txs'[j].letterId]
    BY <2>1, <2>2, <2>5, <2>6 DEF IInv, World
  <2>8. \A l \in LetterId : sealedLetters'[l] =>
            \E j \in DOMAIN txs' :
                txs'[j].letterId = l /\ txs'[j].status = "success"
    BY <2>1, <2>2, <2>6 DEF IInv, World
  <2>9. World'
    BY <1>1, <2>1, <2>2, <2>4, <2>7, <2>8 DEF IInv, World, Sent, Wrapped
  <2>10. Forth
    BY <1>1, <2>1, <2>2 DEF Forth
  <2> QED
    BY <1>1, <2>9, <2>10, OutsideKeeps
<1>5. CASE /\ txs' = [txs EXCEPT ![i].status = "reverted"]
           /\ UNCHANGED contractVars
  <2>1. UNCHANGED <<currentKeyId, mailboxPublicKeys, mailboxActive,
                    sealedLetters, log>>
    BY <1>5 DEF contractVars
  <2>2. /\ txs' \in Seq(Tx) /\ DOMAIN txs' = DOMAIN txs
        /\ \A j \in DOMAIN txs :
             /\ txs'[j].letterId = txs[j].letterId
             /\ txs'[j].archive = txs[j].archive
             /\ txs'[j].keyId = txs[j].keyId
             /\ txs'[j].sealedKey = txs[j].sealedKey
             /\ txs'[j].status = IF j = i THEN "reverted" ELSE txs[j].status
    BY <1>2, <1>5
  <2>3. World'
    <3>1. Chain!TypeOK' /\ KeysOpen'
      BY <1>1, <2>1 DEF Chain!TypeOK, KeysOpen, LatestKeyId
    <3>2. \A j \in DOMAIN txs' :
              /\ txs'[j].archive \in packages'
              /\ txs'[j].keyId \in 1..LatestKeyId'
              /\ txs'[j].sealedKey =
                    [archive |-> txs'[j].archive,
                     publicKey |-> mailboxPublicKeys'[Recipient][txs'[j].keyId]]
      BY <1>1, <2>1, <2>2 DEF IInv, World, Sent, Wrapped, LatestKeyId
    <3>3. \A j \in DOMAIN txs' :
              txs'[j].status = "success" => sealedLetters'[txs'[j].letterId]
      BY <2>1, <2>2 DEF IInv, World
    <3>4. \A l \in LetterId : sealedLetters'[l] =>
              \E j \in DOMAIN txs' :
                  txs'[j].letterId = l /\ txs'[j].status = "success"
      BY <1>1, <2>1, <2>2 DEF IInv, World
    <3> QED
      BY <1>1, <2>2, <3>1, <3>2, <3>3, <3>4 DEF IInv, World, Sent, Wrapped
  <2>4. Forth
    BY <1>1, <1>3, <2>1, <2>2 DEF Forth, History, LatestKeyId
  <2> QED
    BY <1>1, <2>3, <2>4, OutsideKeeps
<1> QED
  BY <1>4, <1>5 DEF Mine

LEMMA MailboxInv ==
    ASSUME IInv, Rotate \/ Close
    PROVE  IInv'
<1>1. UNCHANGED <<txs, packages, saved, draft, working, run, drawn, faults>>
  BY DEF Rotate, Close
<1>2. Chain!TypeOK' /\ KeysOpen' /\ History /\ sealedLetters' = sealedLetters
  <2>1. CASE Rotate
    <3>1. PICK unused : /\ unused \subseteq PublicKey /\ unused # {}
                        /\ Chain!RegisterMailboxKey(Recipient, AnyOf(unused))
      BY <2>1 DEF Rotate
    <3>2. PICK p : p = AnyOf(unused)
      OBVIOUS
    <3>3. p \in PublicKey
      BY <3>1, <3>2 DEF AnyOf
    <3> QED
      BY <3>1, <3>2, <3>3, RegisterMoves DEF IInv, World
  <2>2. CASE Close
    BY <2>2, DeactivateMoves DEF Close, IInv, World
  <2> QED
    BY <2>1, <2>2
<1>3. /\ LatestKeyId \in Nat /\ LatestKeyId' \in Nat
      /\ 1..LatestKeyId \subseteq 1..LatestKeyId'
      /\ 1..LatestKeyId \subseteq 0..LatestKeyId
  BY <1>2, SendAssumption DEF IInv, World, Chain!TypeOK, LatestKeyId, History
<1>4. \A i \in DOMAIN txs' :
          /\ txs'[i].archive \in packages' /\ txs'[i].keyId \in 1..LatestKeyId'
          /\ txs'[i].sealedKey =
                [archive |-> txs'[i].archive,
                 publicKey |-> mailboxPublicKeys'[Recipient][txs'[i].keyId]]
  <2>1. \A i \in DOMAIN txs : Sent(txs[i])
    BY DEF IInv, World
  <2> QED
    BY <1>1, <1>2, <1>3, <2>1 DEF Sent, Wrapped, History
<1>5. World'
  BY <1>1, <1>2, <1>4 DEF IInv, World, Sent, Wrapped
<1>6. Forth
  BY <1>1, <1>2 DEF Forth
<1> QED
  BY <1>1, <1>5, <1>6, OutsideKeeps

-----------------------------------------------------------------------------

LEMMA InitInv == Init => IInv
<1> SUFFICES ASSUME Init PROVE IInv
  OBVIOUS
<1> USE SendAssumption
<1>1. PICK l \in LetterId : l = AnyOf(LetterId)
  BY DEF AnyOf
<1>2. /\ txs = << >> /\ packages = {} /\ saved = None /\ faults = 0
      /\ run = [m \in Mount |-> Idle] /\ drawn = {l}
      /\ draft = [t \in Tab |-> EmptyDraft(l)]
      /\ working = [m \in Mount |-> EmptyDraft(l)]
  BY <1>1 DEF Init
<1>3. Chain!TypeOK /\ KeysOpen /\ \A k \in LetterId : ~sealedLetters[k]
  BY DEF Init, Chain!Init, Chain!TypeOK, KeysOpen, LatestKeyId
<1>4. World
  BY <1>2, <1>3 DEF World
<1>5. EmptyDraft(l) \in Draft /\ Good(EmptyDraft(l))
  BY DEF EmptyDraft, Draft, Stage, SealedKey, Good, Looked, HashOf
<1>6. Idle \in RunState /\ Goes(Idle, EmptyDraft(l))
  BY DEF Idle, RunState, Goes, HashOf, Late, Await
<1>7. Screens
  BY <1>2, <1>5, <1>6 DEF Screens
<1> QED
  BY <1>4, <1>7 DEF IInv

LEMMA StepInv == IInv /\ [Next]_vars => IInv'
<1> SUFFICES ASSUME IInv, [Next]_vars PROVE IInv'
  OBVIOUS
<1>1. CASE UNCHANGED vars
  <2>1. World' /\ Forth
    BY <1>1, WorldKeeps DEF vars, IInv, World
  <2> QED
    BY <1>1, <2>1, OutsideKeeps DEF vars
<1>2. CASE Next
  BY <1>2, PressInv, UserInv, LeaveInv, SealStepInv, MineInv, MailboxInv, FaultInv
  DEF Next
<1> QED
  BY <1>1, <1>2

\* A tab shows one of its mounts, and what was left is a letter.
Mounted == shown \in [Tab -> 1..Mounts] /\ leftUnpacked \subseteq LetterId

LEMMA MountedInv == IInv /\ Mounted /\ [Next]_vars => Mounted'
<1> SUFFICES ASSUME IInv, Mounted, [Next]_vars PROVE Mounted'
  OBVIOUS
<1>1. CASE UNCHANGED mountVars
  BY <1>1 DEF mountVars, Mounted
<1>2. ASSUME NEW t \in Tab, NEW n \in 1..Mounts, Leave(t, n)
      PROVE  Mounted'
  <2>1. PICK m : m = <<t, shown[t]>>
    OBVIOUS
  <2>2. m \in Mount
    BY <2>1 DEF Mount, Mounted
  <2>3. working[m].letterId \in LetterId
    BY <2>2 DEF IInv, Screens, Draft
  <2>4. /\ shown' = [shown EXCEPT ![t] = n]
        /\ leftUnpacked' \subseteq leftUnpacked \cup {working[m].letterId}
    BY <1>2, <2>1 DEF Leave
  <2> QED
    BY <2>3, <2>4 DEF Mounted
<1> QED
  BY <1>1, <1>2 DEF Next, vars, Seal, SealStep, Update, Reset, Mine, Rotate,
     Close, Fault

\* The invariant of sending: by its stage, a draft has a stored package, a key
\* wrapped for the id it names, and the hash of a transaction of its letter;
\* and so has every submitted transaction.  (use-send-letter.ts)
THEOREM SafetyInvariant == Spec => []IInv
<1>1. Init => IInv
  BY InitInv
<1>2. IInv /\ [Next]_vars => IInv'
  BY StepInv
<1> QED
  BY <1>1, <1>2, PTL DEF Spec

\* All variables of sending keep their types.
THEOREM TypeCorrect == Spec => []TypeOK
<1>1. IInv /\ Mounted => TypeOK
  BY DEF IInv, World, Screens, Mounted, TypeOK, RunState
<1>2. Init => Mounted
  BY SendAssumption DEF Init, Mounted
<1> QED
  BY <1>1, <1>2, MountedInv, SafetyInvariant, PTL DEF Spec

\* Whatever is retried, rotated or lost, in any number of tabs, the letter key
\* of a submitted transaction is wrapped for the key id it names.  (seal)
THEOREM OpenableAlways == Spec => []Openable
<1>1. IInv => Openable
  BY DEF IInv, World, Sent, Wrapped, Openable
<1> QED
  BY <1>1, SafetyInvariant, PTL

\* No transaction reaches the wallet before its package is stored.  (seal)
THEOREM StoredBeforeSubmittedAlways == Spec => []StoredBeforeSubmitted
<1>1. IInv => StoredBeforeSubmitted
  BY DEF IInv, World, Sent, StoredBeforeSubmitted
<1> QED
  BY <1>1, SafetyInvariant, PTL

\* A letter shown as sealed and not on the chain was left with a transaction
\* that had reverted.  (finishWith after the receipt of an earlier hash)
THEOREM UnrecordedOnlyAfterRevertAlways == Spec => []UnrecordedOnlyAfterRevert
<1>1. IInv => UnrecordedOnlyAfterRevert
  BY DEF IInv, Screens, Good, UnrecordedOnlyAfterRevert
<1> QED
  BY <1>1, SafetyInvariant, PTL

-----------------------------------------------------------------------------
(* One tab: a letter id has one content, but for a letter whose page was    *)
(* left before its archive was saved.                                       *)

Unpacked(d) == d.stage \in {"DRAFT", "PACKING"}
Early == {"lookup", "pack"}

\* A draft that may be submitted yet: it is saved, shown, or in the hands of a
\* seal() that runs.
Live(t, d) ==
    \/ saved # None /\ d = saved
    \/ d = draft[t]
    \/ \E m \in Mount : run[m].pc # "idle" /\ d = working[m]

\* Two forms of one letter, with the same archive or none yet.
Like(d, e) ==
    /\ d.letterId = e.letterId /\ (Unpacked(d) <=> Unpacked(e))
    /\ ~Unpacked(d) => d.archive = e.archive

\* The live drafts of a letter agree, and with what was submitted of it.
Agreed(t) ==
    \A d, e \in Draft :
        /\ Live(t, d) /\ Live(t, e) /\ d.letterId = e.letterId
        /\ d.letterId \notin leftUnpacked
        => Like(d, e)
AsSubmitted(t) ==
    \A d \in Draft, i \in DOMAIN txs :
        /\ Live(t, d) /\ txs[i].letterId = d.letterId
        /\ d.letterId \notin leftUnpacked
        => ~Unpacked(d) /\ d.archive = txs[i].archive

\* Who is about to pack a letter is on the screen, or was left doing so.
PacksOnScreen ==
    \A m \in Mount : run[m].pc \in Early =>
        /\ Unpacked(working[m])
        /\ OnScreen(m) \/ working[m].letterId \in leftUnpacked

\* A letter id that is in use will not be drawn again.
IdsDrawn(t) ==
    /\ \A d \in Draft : Live(t, d) => d.letterId \in drawn
    /\ \A i \in DOMAIN txs : txs[i].letterId \in drawn

LetterInv(t) ==
    /\ Agreed(t) /\ AsSubmitted(t) /\ PacksOnScreen /\ IdsDrawn(t)
    /\ OneContentPerLetter

\* What a step may make of the live drafts and of the transactions: other forms
\* of live drafts, a letter begun, and submissions of a live draft.
Begun(d) == Unpacked(d) /\ d.letterId \in drawn' /\ d.letterId \notin drawn
LiveFrom(t) ==
    \A d \in Draft : Live(t, d)' =>
        Begun(d) \/ \E e \in Draft : Live(t, e) /\ Like(d, e)
TxsFrom(t) ==
    \A i \in DOMAIN txs' :
        \/ \E j \in DOMAIN txs : /\ txs'[i].letterId = txs[j].letterId
                                 /\ txs'[i].archive = txs[j].archive
        \/ \E e \in Draft : /\ Live(t, e) /\ ~Unpacked(e)
                            /\ txs'[i].letterId = e.letterId
                            /\ txs'[i].archive = e.archive

LEMMA Carried ==
    ASSUME NEW t \in Tab, LetterInv(t), LiveFrom(t), TxsFrom(t), PacksOnScreen',
           drawn \subseteq drawn', leftUnpacked \subseteq leftUnpacked'
    PROVE  LetterInv(t)'
<1>1. ASSUME NEW d \in Draft, NEW e \in Draft, Live(t, d)', Live(t, e)',
             d.letterId = e.letterId, d.letterId \notin leftUnpacked'
      PROVE  Like(d, e)
  <2>1. CASE Begun(d) \/ Begun(e)
    <3>1. \A c \in Draft : Live(t, c) => c.letterId \in drawn
      BY DEF LetterInv, IdsDrawn
    <3>2. Begun(d) /\ Begun(e)
      BY <1>1, <2>1, <3>1 DEF LiveFrom, Begun, Like
    <3> QED
      BY <1>1, <3>2 DEF Begun, Like
  <2>2. CASE ~Begun(d) /\ ~Begun(e)
    <3>1. PICK c \in Draft : Live(t, c) /\ Like(d, c)
      BY <1>1, <2>2 DEF LiveFrom
    <3>2. PICK f \in Draft : Live(t, f) /\ Like(e, f)
      BY <1>1, <2>2 DEF LiveFrom
    <3>3. Like(c, f)
      BY <1>1, <3>1, <3>2 DEF LetterInv, Agreed, Like
    <3> QED
      BY <1>1, <3>1, <3>2, <3>3 DEF Like
  <2> QED
    BY <2>1, <2>2
<1>2. ASSUME NEW d \in Draft, NEW i \in DOMAIN txs', Live(t, d)',
             txs'[i].letterId = d.letterId, d.letterId \notin leftUnpacked'
      PROVE  ~Unpacked(d) /\ d.archive = txs'[i].archive
  <2>1. txs'[i].letterId \in drawn
    BY DEF TxsFrom, LetterInv, IdsDrawn
  <2>2. PICK c \in Draft : Live(t, c) /\ Like(d, c)
    BY <1>2, <2>1 DEF LiveFrom, Begun
  <2>3. c.letterId = d.letterId /\ c.letterId \notin leftUnpacked
    BY <1>2, <2>2 DEF Like
  <2>4. ~Unpacked(c) /\ c.archive = txs'[i].archive
    <3>1. CASE \E j \in DOMAIN txs : /\ txs'[i].letterId = txs[j].letterId
                                     /\ txs'[i].archive = txs[j].archive
      BY <1>2, <2>2, <2>3, <3>1 DEF LetterInv, AsSubmitted
    <3>2. CASE \E e \in Draft : /\ Live(t, e) /\ ~Unpacked(e)
                                /\ txs'[i].letterId = e.letterId
                                /\ txs'[i].archive = e.archive
      BY <1>2, <2>2, <2>3, <3>2 DEF LetterInv, Agreed, Like
    <3> QED
      BY <3>1, <3>2 DEF TxsFrom
  <2> QED
    BY <2>2, <2>4 DEF Like
<1>3. ASSUME NEW i \in DOMAIN txs', NEW j \in DOMAIN txs',
             txs'[i].letterId = txs'[j].letterId,
             txs'[i].letterId \notin leftUnpacked'
      PROVE  txs'[i].archive = txs'[j].archive
  <2>1. txs'[i].letterId \notin leftUnpacked
    BY <1>3
  <2>2. ASSUME NEW k \in DOMAIN txs', NEW e \in Draft, Live(t, e), ~Unpacked(e),
               txs'[k].letterId = e.letterId, e.letterId \notin leftUnpacked
        PROVE  txs'[k].archive = e.archive
    <3>1. CASE \E h \in DOMAIN txs : /\ txs'[k].letterId = txs[h].letterId
                                     /\ txs'[k].archive = txs[h].archive
      BY <2>2, <3>1 DEF LetterInv, AsSubmitted
    <3>2. CASE \E f \in Draft : /\ Live(t, f) /\ ~Unpacked(f)
                                /\ txs'[k].letterId = f.letterId
                                /\ txs'[k].archive = f.archive
      BY <2>2, <3>2 DEF LetterInv, Agreed, Like
    <3> QED
      BY <3>1, <3>2 DEF TxsFrom
  <2>3. CASE \E e \in Draft : /\ Live(t, e) /\ ~Unpacked(e)
                              /\ \/ /\ txs'[i].letterId = e.letterId
                                    /\ txs'[i].archive = e.archive
                                 \/ /\ txs'[j].letterId = e.letterId
                                    /\ txs'[j].archive = e.archive
    <3>1. PICK e \in Draft : /\ Live(t, e) /\ ~Unpacked(e)
                            /\ \/ /\ txs'[i].letterId = e.letterId
                                  /\ txs'[i].archive = e.archive
                               \/ /\ txs'[j].letterId = e.letterId
                                  /\ txs'[j].archive = e.archive
      BY <2>3
    <3>2. txs'[i].archive = e.archive /\ txs'[j].archive = e.archive
      BY <1>3, <2>1, <2>2, <3>1
    <3> QED
      BY <3>2
  <2>4. CASE /\ \E h \in DOMAIN txs : /\ txs'[i].letterId = txs[h].letterId
                                      /\ txs'[i].archive = txs[h].archive
             /\ \E h \in DOMAIN txs : /\ txs'[j].letterId = txs[h].letterId
                                      /\ txs'[j].archive = txs[h].archive
    <3>1. PICK h \in DOMAIN txs : /\ txs'[i].letterId = txs[h].letterId
                                 /\ txs'[i].archive = txs[h].archive
      BY <2>4
    <3>2. PICK k \in DOMAIN txs : /\ txs'[j].letterId = txs[k].letterId
                                 /\ txs'[j].archive = txs[k].archive
      BY <2>4
    <3> QED
      BY <1>3, <2>1, <3>1, <3>2 DEF LetterInv, OneContentPerLetter
  <2> QED
    BY <2>3, <2>4 DEF TxsFrom
<1>4. IdsDrawn(t)'
  <2>1. ASSUME NEW d \in Draft, Live(t, d)'
        PROVE  d.letterId \in drawn'
    BY <2>1 DEF LiveFrom, Begun, Like, LetterInv, IdsDrawn
  <2>2. ASSUME NEW i \in DOMAIN txs'
        PROVE  txs'[i].letterId \in drawn'
    BY <2>2 DEF TxsFrom, LetterInv, IdsDrawn
  <2> QED
    BY <2>1, <2>2 DEF IdsDrawn
<1>5. Agreed(t)'
  BY <1>1 DEF Agreed, Like
<1>6. AsSubmitted(t)'
  BY <1>2 DEF AsSubmitted
<1>7. OneContentPerLetter'
  BY <1>3 DEF OneContentPerLetter
<1> QED
  BY <1>4, <1>5, <1>6, <1>7 DEF LetterInv

\* No transaction is added, and none gets another letter.
LEMMA SameTxs ==
    ASSUME NEW t \in Tab, DOMAIN txs' = DOMAIN txs,
           \A i \in DOMAIN txs : /\ txs'[i].letterId = txs[i].letterId
                                 /\ txs'[i].archive = txs[i].archive
    PROVE  TxsFrom(t)
  BY DEF TxsFrom

\* The wallet submits the letter a seal() works on.
LEMMA SubmitTxs ==
    ASSUME IInv, NEW t \in Tab, NEW m \in Mount,
           run[m].pc \in {"write", "rewrite"}, txs' = Append(txs, Submitted(m))
    PROVE  TxsFrom(t)
<1>1. working[m] \in Draft /\ txs \in Seq(Tx) /\ Goes(run[m], working[m])
  BY DEF IInv, Screens, World
<1>2. Live(t, working[m]) /\ ~Unpacked(working[m])
  BY <1>1 DEF Live, Unpacked, Goes, Late, Await
<1>3. /\ DOMAIN txs = 1..Len(txs) /\ Len(txs) \in Nat
      /\ DOMAIN txs' = 1..(Len(txs) + 1)
      /\ \A i \in DOMAIN txs : txs'[i] = txs[i]
      /\ txs'[Len(txs) + 1].letterId = working[m].letterId
      /\ txs'[Len(txs) + 1].archive = working[m].archive
  BY <1>1 DEF Submitted
<1>4. ASSUME NEW i \in DOMAIN txs'
      PROVE  i \in DOMAIN txs \/ i = Len(txs) + 1
  BY <1>3
<1> QED
  BY <1>1, <1>2, <1>3, <1>4 DEF TxsFrom

\* A seal() that runs keeps its draft, or persists another form of it.
LEMMA RunLetter ==
    ASSUME IInv, NEW t \in Tab, Tab = {t}, LetterInv(t), TxsFrom(t),
           UNCHANGED mountVars, drawn \subseteq drawn', NEW m \in Mount,
           \A n \in Mount \ {m} : run'[n] = run[n],
           run[m].pc # "idle", run'[m].pc \in Early => run[m].pc \in Early,
           Stay \/ \E d \in Draft : Like(d, working[m]) /\ Persist(m, d)
    PROVE  LetterInv(t)'
<1>1. /\ TabOf(m) = t /\ working[m] \in Draft /\ Live(t, working[m])
      /\ working \in [Mount -> Draft] /\ draft \in [Tab -> Draft]
  BY DEF Mount, TabOf, IInv, Screens, Live
<1>2. UNCHANGED <<shown, leftUnpacked>>
  BY DEF mountVars
<1>3. CASE Stay
  <2>1. UNCHANGED <<draft, saved, working>>
    BY <1>3 DEF Stay
  <2>2. ASSUME NEW d \in Draft, Live(t, d)'
        PROVE  Live(t, d)
    BY <2>1, <2>2 DEF Live
  <2>3. LiveFrom(t)
    BY <2>2 DEF LiveFrom, Like
  <2>4. PacksOnScreen'
    <3>1. ASSUME NEW n \in Mount, run'[n].pc \in Early
          PROVE  run[n].pc \in Early
      BY <3>1
    <3> QED
      BY <1>2, <2>1, <3>1 DEF LetterInv, PacksOnScreen, OnScreen
  <2> QED
    BY <1>2, <2>3, <2>4, Carried
<1>4. ASSUME NEW d \in Draft, Like(d, working[m]), Persist(m, d)
      PROVE  LetterInv(t)'
  <2>1. /\ saved' = d /\ working' = [working EXCEPT ![m] = d]
        /\ draft'[t] = d \/ draft'[t] = draft[t]
    BY <1>1, <1>4 DEF Persist
  <2>2. ASSUME NEW e \in Draft, Live(t, e)'
        PROVE  e = d \/ Live(t, e)
    <3>1. CASE \E n \in Mount : run'[n].pc # "idle" /\ e = working'[n]
      BY <1>1, <2>1, <3>1 DEF Live
    <3> QED
      BY <2>1, <2>2, <3>1 DEF Live
  <2>3. LiveFrom(t)
    BY <1>1, <1>4, <2>2 DEF LiveFrom, Like
  <2>4. PacksOnScreen'
    <3>1. ASSUME NEW n \in Mount, run'[n].pc \in Early
          PROVE  /\ Unpacked(working'[n])
                 /\ OnScreen(n)' \/ working'[n].letterId \in leftUnpacked'
      <4>1. /\ Unpacked(working[n])
            /\ OnScreen(n) \/ working[n].letterId \in leftUnpacked
        BY <3>1 DEF LetterInv, PacksOnScreen
      <4>2. CASE n = m
        BY <1>1, <1>2, <1>4, <2>1, <4>1, <4>2 DEF Like, OnScreen
      <4>3. CASE n # m
        BY <1>1, <1>2, <2>1, <4>1, <4>3 DEF OnScreen
      <4> QED
        BY <4>2, <4>3
    <3> QED
      BY <3>1 DEF PacksOnScreen, Unpacked
  <2> QED
    BY <1>2, <2>3, <2>4, Carried
<1> QED
  BY <1>3, <1>4

\* Outside the tab.
LEMMA OutsideLetter ==
    ASSUME NEW t \in Tab, LetterInv(t), TxsFrom(t), drawn \subseteq drawn',
           UNCHANGED <<draft, saved, working, run, mountVars>>
    PROVE  LetterInv(t)'
<1>1. UNCHANGED <<shown, leftUnpacked>>
  BY DEF mountVars
<1>2. LiveFrom(t)
  BY DEF LiveFrom, Live, Like
<1>3. PacksOnScreen'
  BY <1>1 DEF LetterInv, PacksOnScreen, OnScreen
<1> QED
  BY <1>1, <1>2, <1>3, Carried

\* A step of seal() that asks nothing of the outside but an answer.
LEMMA LocalLetter ==
    ASSUME IInv, NEW t \in Tab, Tab = {t}, LetterInv(t), UNCHANGED Requests,
           UNCHANGED mountVars, NEW m \in Mount, LocalStep(m)
    PROVE  LetterInv(t)'
<1>1. /\ working[m] \in Draft /\ run \in [Mount -> RunState]
      /\ Goes(run[m], working[m])
  BY DEF IInv, Screens
<1>2. TxsFrom(t) /\ drawn' = drawn
  BY SameTxs DEF Requests
<1>3. /\ run[m].pc # "idle" /\ \A n \in Mount \ {m} : run'[n] = run[n]
      /\ run'[m].pc \in Early => run[m].pc \in Early
  <2>1. CASE Lookup(m)
    BY <1>1, <2>1 DEF Lookup, At, Go, Throw, Return, Idle, Early, RunState
  <2>2. CASE \/ Wrap(m) \/ Recover(m) \/ AwaitPending(m) \/ RecoverPending(m)
             \/ GetPending(m) \/ Active(m) \/ Attempt(m)
    BY <1>1, <2>2
    DEF Wrap, Recover, AwaitPending, RecoverPending, GetPending, Active, Attempt,
        FinishWith, At, Go, Move, Throw, Return, Idle, Early, RunState
  <2>3. CASE \/ WriteFailed(m) \/ WriteRotated(m) \/ Receipt(m)
             \/ RevertRecover(m) \/ RevertRotated(m) \/ Delayed(m)
             \/ WaitTimesOut(m)
    BY <1>1, <2>3
    DEF WriteFailed, WriteRotated, Receipt, RevertRecover, RevertRotated, Delayed,
        WaitTimesOut, FinishWith, At, Go, Move, Throw, Return, Idle, Early, RunState
  <2> QED
    BY <2>1, <2>2, <2>3 DEF LocalStep
<1>4. ASSUME Stay \/ \E d \in Draft : Like(d, working[m]) /\ Persist(m, d)
      PROVE  LetterInv(t)'
  BY <1>2, <1>3, <1>4, RunLetter
<1>5. PICK w : w = working[m]
  OBVIOUS
<1>6. LatestKeyId \in 0..KeyIdMax
  BY SendAssumption DEF IInv, World, Chain!TypeOK, LatestKeyId
<1>7. ASSUME NEW h \in Nat, FinishWith(m, h), w.stage = "WAITING_TRANSACTION"
      PROVE  LetterInv(t)'
  <2>1. PICK d : d = [w EXCEPT !.stage = "SEALED", !.hash = h, !.filled = FALSE]
    OBVIOUS
  <2>2. d \in Draft /\ Like(d, w)
    BY <1>1, <1>5, <1>7, <2>1 DEF Draft, Stage, Like, Unpacked
  <2>3. Persist(m, d)
    BY <1>5, <1>7, <2>1 DEF FinishWith
  <2> QED
    BY <1>4, <1>5, <2>2, <2>3
<1>8. ASSUME w \in Draft, Good(w), NEW e,
             \/ w.stage = "ENCRYPTING_KEY" /\ e = Rewrapped(w)
             \/ w.stage = "WAITING_TRANSACTION" /\ e = WithLatestKey(w)
      PROVE  e \in Draft /\ Like(e, w)
  <2>1. e \in Draft /\ e.stage = "WAITING_TRANSACTION" /\ e.letterId = w.letterId
    BY <1>8, WrapGood
  <2>2. e.archive = w.archive
    BY <1>8 DEF Rewrapped, WithLatestKey, Draft
  <2> QED
    BY <1>8, <2>1, <2>2 DEF Like, Unpacked
<1>9. CASE Lookup(m)
  <2>1. Unpacked(w)
    BY <1>5, <1>9 DEF Lookup, At, LetterInv, PacksOnScreen, Early
  <2>2. CASE Throw(m)
    BY <1>4, <2>2 DEF Throw
  <2>3. CASE Persist(m, [w EXCEPT !.stage = "PACKING", !.keyId = LatestKeyId])
    <3>1. PICK d : d = [w EXCEPT !.stage = "PACKING", !.keyId = LatestKeyId]
      OBVIOUS
    <3>2. d \in Draft /\ Like(d, w)
      BY <1>1, <1>5, <1>6, <2>1, <3>1 DEF Draft, Stage, Like, Unpacked
    <3> QED
      BY <1>4, <1>5, <2>3, <3>1, <3>2
  <2> QED
    BY <1>5, <1>9, <2>2, <2>3 DEF Lookup
<1>10. CASE Wrap(m)
  <2>1. w \in Draft /\ Good(w) /\ w.stage = "ENCRYPTING_KEY"
    BY <1>1, <1>5, <1>10 DEF Wrap, At, Goes, IInv, Screens
  <2> QED
    BY <1>4, <1>5, <1>8, <1>10, <2>1 DEF Wrap, Rewrapped
<1>11. ASSUME ~Lookup(m), ~Wrap(m)
       PROVE  LetterInv(t)'
  <2>1. w \in Draft /\ Good(w) /\ w.stage = "WAITING_TRANSACTION"
    <3>1. run[m].pc \in Late
      BY <1>11
      DEF LocalStep, Recover, AwaitPending, RecoverPending, GetPending, Active,
          Attempt, WriteFailed, WriteRotated, Receipt, RevertRecover,
          RevertRotated, Delayed, WaitTimesOut, At, Late, Await
    <3> QED
      BY <1>1, <1>5, <3>1 DEF Goes, IInv, Screens
  <2>2. /\ run[m].hash \in Nat /\ w.hash \in Nat
        /\ OnChain(m) => SealingTx(w.letterId) \in Nat
    BY <1>1, <1>5, <2>1
    DEF RunState, Draft, OnChain, IInv, World, SealingTx
  <2>3. \/ Stay
        \/ \E h \in Nat : FinishWith(m, h)
        \/ Persist(m, [w EXCEPT !.hash = 0])
        \/ Persist(m, WithLatestKey(w))
        \/ Persist(m, [WithLatestKey(w) EXCEPT !.hash = 0])
    <3>1. CASE \/ Recover(m) \/ AwaitPending(m) \/ RecoverPending(m)
               \/ GetPending(m) \/ Active(m) \/ Attempt(m)
      BY <1>5, <2>2, <3>1
      DEF Recover, AwaitPending, RecoverPending, GetPending, Active, Attempt, Move,
          Throw
    <3>2. CASE \/ WriteFailed(m) \/ WriteRotated(m) \/ Receipt(m)
               \/ RevertRecover(m) \/ RevertRotated(m) \/ Delayed(m)
               \/ WaitTimesOut(m)
      BY <1>5, <2>2, <3>2
      DEF WriteFailed, WriteRotated, Receipt, RevertRecover, RevertRotated,
          Delayed, WaitTimesOut, Move, Throw
    <3> QED
      BY <1>11, <3>1, <3>2 DEF LocalStep
  <2>4. CASE Persist(m, [w EXCEPT !.hash = 0])
    <3>1. PICK d : d = [w EXCEPT !.hash = 0]
      OBVIOUS
    <3>2. d \in Draft /\ Like(d, w)
      BY <2>1, <3>1 DEF Draft, Like, Unpacked
    <3> QED
      BY <1>4, <1>5, <2>4, <3>1, <3>2
  <2>5. CASE Persist(m, WithLatestKey(w))
    BY <1>4, <1>5, <1>8, <2>1, <2>5
  <2>6. CASE Persist(m, [WithLatestKey(w) EXCEPT !.hash = 0])
    <3>1. PICK e : e = WithLatestKey(w)
      OBVIOUS
    <3>2. PICK d : d = [e EXCEPT !.hash = 0]
      OBVIOUS
    <3>3. e \in Draft /\ Like(e, w)
      BY <1>8, <2>1, <3>1
    <3>4. d \in Draft /\ Like(d, w)
      BY <3>2, <3>3 DEF Draft, Like, Unpacked
    <3> QED
      BY <1>4, <1>5, <2>6, <3>1, <3>2, <3>4
  <2> QED
    BY <1>4, <1>7, <2>1, <2>3, <2>4, <2>5, <2>6
<1> QED
  BY <1>9, <1>10, <1>11

\* The archive is packed: the mount is on the screen, or the letter was left.
LEMMA PackLetter ==
    ASSUME IInv, NEW t \in Tab, Tab = {t}, LetterInv(t), UNCHANGED mountVars,
           NEW m \in Mount, Pack(m)
    PROVE  LetterInv(t)'
<1>1. /\ working \in [Mount -> Draft] /\ run \in [Mount -> RunState]
      /\ draft \in [Tab -> Draft]
      /\ \A n \in Mount : Goes(run[n], working[n])
  BY DEF IInv, Screens
<1>2. PICK w \in Draft : w = working[m]
  BY <1>1
<1>3. PICK a \in Archive : /\ drawn' = drawn \cup {a}
                           /\ Persist(m, [w EXCEPT !.stage = "UPLOADING_PACKAGE",
                                                   !.archive = a])
  BY <1>2, FreshIn DEF Pack
<1>4. PICK d : d = [w EXCEPT !.stage = "UPLOADING_PACKAGE", !.archive = a]
  OBVIOUS
<1>5. d \in Draft /\ d.letterId = w.letterId /\ ~Unpacked(d)
  BY <1>3, <1>4 DEF Draft, Stage, Unpacked
<1>6. /\ Live(t, w) /\ Unpacked(w) /\ run[m].pc \in Early
      /\ OnScreen(m) \/ w.letterId \in leftUnpacked
  BY <1>2 DEF Live, Pack, At, Early, LetterInv, PacksOnScreen
<1>7. /\ UNCHANGED <<txs, shown, leftUnpacked>> /\ saved' = d
      /\ working' = [working EXCEPT ![m] = d] /\ run'[m].pc = "put"
      /\ \A n \in Mount \ {m} : run'[n] = run[n]
      /\ draft'[t] = IF OnScreen(m) THEN d ELSE draft[t]
  <2>1. TabOf(m) = t
    BY DEF Mount, TabOf
  <2>2. Persist(m, d)
    BY <1>3, <1>4
  <2>3. UNCHANGED <<txs, shown, leftUnpacked>>
    BY DEF Pack, mountVars
  <2>4. run'[m].pc = "put" /\ \A n \in Mount \ {m} : run'[n] = run[n]
    BY <1>1 DEF Pack, Go, RunState
  <2> QED
    BY <1>1, <2>1, <2>2, <2>3, <2>4 DEF Persist
<1>8. ASSUME NEW e \in Draft, Live(t, e)'
      PROVE  \/ e = d
             \/ Live(t, e) /\ (e.letterId = d.letterId =>
                                   e.letterId \in leftUnpacked)
  <2>1. CASE e = saved'
    BY <1>7, <2>1
  <2>2. CASE e = draft'[t]
    BY <1>5, <1>6, <1>7, <2>2 DEF Live
  <2>3. ASSUME NEW n \in Mount, run'[n].pc # "idle", e = working'[n], n # m
        PROVE  Live(t, e) /\ (e.letterId = d.letterId =>
                                  e.letterId \in leftUnpacked)
    <3>1. run[n].pc # "idle" /\ e = working[n] /\ Live(t, e)
      BY <1>1, <1>7, <2>3 DEF Live
    <3>2. ASSUME e.letterId = d.letterId, e.letterId \notin leftUnpacked
          PROVE  FALSE
      <4>1. Unpacked(e)
        BY <1>5, <1>6, <3>1, <3>2 DEF LetterInv, Agreed, Like
      <4>2. run[n].pc \in Early
        <5>1. run[n].pc \in Await \cup {"idle"}
          BY <1>1 DEF RunState
        <5> QED
          BY <1>1, <3>1, <4>1, <5>1 DEF Goes, Unpacked, Early, Late
      <4>3. OnScreen(n) /\ OnScreen(m)
        BY <1>5, <1>6, <3>1, <3>2, <4>2 DEF LetterInv, PacksOnScreen
      <4> QED
        BY <2>3, <4>3 DEF OnScreen, Mount, TabOf
    <3> QED
      BY <3>1, <3>2
  <2> QED
    BY <1>1, <1>7, <1>8, <2>1, <2>2, <2>3 DEF Live
<1>9. Agreed(t)'
  <2>1. ASSUME NEW e \in Draft, NEW f \in Draft, Live(t, e)', Live(t, f)',
               e.letterId = f.letterId, e.letterId \notin leftUnpacked
        PROVE  Like(e, f)
    BY <1>8, <2>1 DEF LetterInv, Agreed, Like
  <2> QED
    BY <1>7, <2>1 DEF Agreed, Like
<1>10. AsSubmitted(t)'
  <2>1. ASSUME NEW e \in Draft, NEW i \in DOMAIN txs, Live(t, e)',
               txs[i].letterId = e.letterId, e.letterId \notin leftUnpacked
        PROVE  ~Unpacked(e) /\ e.archive = txs[i].archive
    BY <1>5, <1>6, <1>8, <2>1 DEF LetterInv, AsSubmitted
  <2> QED
    BY <1>7, <2>1 DEF AsSubmitted
<1>11. PacksOnScreen'
  BY <1>1, <1>7 DEF LetterInv, PacksOnScreen, OnScreen, Early
<1>12. IdsDrawn(t)'
  <2>1. d.letterId \in drawn
    BY <1>5, <1>6 DEF LetterInv, IdsDrawn
  <2> QED
    BY <1>3, <1>7, <1>8, <2>1 DEF LetterInv, IdsDrawn
<1>13. OneContentPerLetter'
  BY <1>7 DEF LetterInv, OneContentPerLetter
<1> QED
  BY <1>9, <1>10, <1>11, <1>12, <1>13 DEF LetterInv

LEMMA SealStepLetter ==
    ASSUME IInv, NEW t \in Tab, Tab = {t}, LetterInv(t), NEW m \in Mount,
           SealStep(m)
    PROVE  LetterInv(t)'
<1>1. /\ working[m] \in Draft /\ run \in [Mount -> RunState]
      /\ Goes(run[m], working[m]) /\ UNCHANGED mountVars /\ txs \in Seq(Tx)
  BY DEF IInv, Screens, World, SealStep
<1>2. CASE Put(m)
  <2>1. PICK d : d = [working[m] EXCEPT !.stage = "ENCRYPTING_KEY"]
    OBVIOUS
  <2>2. d \in Draft /\ Like(d, working[m])
    BY <1>1, <1>2, <2>1 DEF Put, At, Goes, Draft, Stage, Like, Unpacked
  <2>3. /\ run[m].pc # "idle" /\ run'[m].pc = "wrap" /\ drawn' = drawn
        /\ \A n \in Mount \ {m} : run'[n] = run[n]
    BY <1>1, <1>2 DEF Put, At, Go, RunState
  <2>4. TxsFrom(t)
    BY <1>2, SameTxs DEF Put
  <2> QED
    BY <1>1, <1>2, <2>1, <2>2, <2>3, <2>4, RunLetter DEF Put, Early
<1>3. CASE Write(m)
  <2>1. PICK d : d = [working[m] EXCEPT !.hash = Len(txs) + 1]
    OBVIOUS
  <2>2. d \in Draft /\ Like(d, working[m])
    BY <1>1, <2>1 DEF Draft, Like, Unpacked
  <2>3. /\ run[m].pc # "idle" /\ run'[m].pc \notin Early /\ drawn' = drawn
        /\ \A n \in Mount \ {m} : run'[n] = run[n]
    BY <1>1, <1>3 DEF Write, RunState, Early
  <2>4. TxsFrom(t)
    BY <1>3, SubmitTxs DEF Write
  <2> QED
    BY <1>1, <1>3, <2>1, <2>2, <2>3, <2>4, RunLetter DEF Write
<1> QED
  BY <1>1, <1>2, <1>3, PackLetter, LocalLetter DEF SealStep

\* A letter begun has an id that was never drawn before.
LEMMA BegunFresh ==
    ASSUME NEW l \in Fresh(LetterId), drawn' = drawn \cup {l}
    PROVE  EmptyDraft(l) \in Draft /\ Begun(EmptyDraft(l))
<1>1. l \in LetterId /\ l \notin drawn
  BY DEF Fresh, AnyOf
<1> QED
  BY <1>1, SendAssumption
  DEF EmptyDraft, Draft, Stage, SealedKey, Begun, Unpacked

\* The saved draft as a mount shows it is a form of it, or a letter is begun.
LEMMA LoadLetter ==
    ASSUME IInv, NEW t \in Tab, LetterInv(t), Load(t)
    PROVE  \E d \in Draft :
               /\ draft' = [draft EXCEPT ![t] = d] /\ drawn \subseteq drawn'
               /\ Begun(d) \/ \E e \in Draft : Live(t, e) /\ Like(d, e)
<1>1. CASE saved # None
  <2>1. PICK d : d = [saved EXCEPT !.stage = LoadedStage(saved.stage)]
    OBVIOUS
  <2>2. saved \in Draft /\ Live(t, saved)
    BY <1>1 DEF IInv, Screens, Live
  <2>3. /\ d \in Draft /\ d.archive = saved.archive
        /\ d.letterId = saved.letterId
        /\ d.stage = IF saved.stage = "PACKING" THEN "DRAFT" ELSE saved.stage
    BY <2>1, <2>2 DEF LoadedStage, Draft, Stage
  <2>4. Like(d, saved)
    BY <2>3 DEF Like, Unpacked
  <2> QED
    BY <1>1, <2>1, <2>2, <2>3, <2>4 DEF Load
<1>2. CASE saved = None
  <2>1. PICK l \in Fresh(LetterId) :
            /\ draft' = [draft EXCEPT ![t] = EmptyDraft(l)]
            /\ drawn' = drawn \cup {l}
    BY <1>2 DEF Load
  <2>2. PICK d : d = EmptyDraft(l)
    OBVIOUS
  <2>3. d \in Draft /\ Begun(d)
    BY <2>1, <2>2, BegunFresh
  <2> QED
    BY <2>1, <2>2, <2>3
<1> QED
  BY <1>1, <1>2

\* Failures, and the page loaded again.
LEMMA FaultLetter ==
    ASSUME IInv, NEW t \in Tab, Tab = {t}, LetterInv(t), Fault
    PROVE  LetterInv(t)'
<1>1. /\ working \in [Mount -> Draft] /\ run \in [Mount -> RunState]
      /\ \A m \in Mount : Goes(run[m], working[m])
      /\ draft \in [Tab -> Draft] /\ txs \in Seq(Tx) /\ UNCHANGED mountVars
  BY DEF IInv, Screens, World, Fault
<1>2. ASSUME NEW m \in Mount, Raise(m), run[m].pc \in Await
      PROVE  /\ Stay /\ run[m].pc # "idle" /\ run'[m].pc \notin Early
             /\ \A n \in Mount \ {m} : run'[n] = run[n]
  <2>1. Catch(run[m].pc) \notin Early
    BY DEF Catch, Early
  <2> QED
    BY <1>1, <1>2, <2>1
    DEF Raise, Throw, Move, Go, Return, Idle, RunState, Early, Await
<1>3. ASSUME NEW m \in Mount, AwaitFails(m)
      PROVE  LetterInv(t)'
  <2>1. TxsFrom(t) /\ drawn' = drawn
    BY <1>3, SameTxs DEF AwaitFails, Requests
  <2> QED
    BY <1>1, <1>2, <1>3, <2>1, RunLetter DEF AwaitFails
<1>4. ASSUME NEW m \in Mount, AnswerLost(m)
      PROVE  LetterInv(t)'
  <2>1. TxsFrom(t) /\ drawn' = drawn
    BY <1>4, SameTxs, SubmitTxs DEF AnswerLost
  <2>2. run[m].pc \in Await
    BY <1>4 DEF AnswerLost, At, Await
  <2> QED
    BY <1>1, <1>2, <1>4, <2>1, <2>2, RunLetter DEF AnswerLost
<1>5. ASSUME NEW m \in Mount, PackFails(m)
      PROVE  LetterInv(t)'
  <2>1. PICK d : d = [working[m] EXCEPT !.stage = "DRAFT"]
    OBVIOUS
  <2>2. d \in Draft /\ Like(d, working[m])
    BY <1>1, <1>5, <2>1
    DEF PackFails, At, Goes, Draft, Stage, Like, Unpacked
  <2>3. /\ run[m].pc # "idle" /\ run'[m].pc \notin Early /\ drawn' = drawn
        /\ \A n \in Mount \ {m} : run'[n] = run[n]
    BY <1>1, <1>5 DEF PackFails, At, Return, Idle, Early, Requests
  <2>4. TxsFrom(t)
    BY <1>5, SameTxs DEF PackFails, Requests
  <2> QED
    BY <1>1, <1>5, <2>1, <2>2, <2>3, <2>4, RunLetter DEF PackFails
<1>6. ASSUME NEW m \in Mount, GetPendingFails(m)
      PROVE  LetterInv(t)'
  <2>1. PICK d : d = [working[m] EXCEPT !.hash = 0]
    OBVIOUS
  <2>2. d \in Draft /\ Like(d, working[m])
    BY <1>1, <2>1 DEF Draft, Like, Unpacked
  <2>3. /\ run[m].pc # "idle" /\ run'[m].pc \notin Early /\ drawn' = drawn
        /\ \A n \in Mount \ {m} : run'[n] = run[n]
    BY <1>1, <1>6 DEF GetPendingFails, At, Go, Early, Requests, RunState
  <2>4. TxsFrom(t)
    BY <1>6, SameTxs DEF GetPendingFails, Requests
  <2> QED
    BY <1>1, <1>6, <2>1, <2>2, <2>3, <2>4, RunLetter DEF GetPendingFails
<1>7. CASE Reload(t)
  <2>1. PICK d \in Draft :
            /\ draft' = [draft EXCEPT ![t] = d] /\ drawn \subseteq drawn'
            /\ Begun(d) \/ \E e \in Draft : Live(t, e) /\ Like(d, e)
    BY <1>7, LoadLetter DEF Reload
  <2>2. /\ saved' = saved /\ draft'[t] = d /\ UNCHANGED <<shown, leftUnpacked>>
        /\ \A m \in Mount : run'[m].pc = "idle"
    BY <1>1, <1>7, <2>1 DEF Reload, Idle, Mount, TabOf, mountVars
  <2>3. LiveFrom(t)
    <3>1. ASSUME NEW e \in Draft, Live(t, e)'
          PROVE  e = d \/ Live(t, e)
      BY <2>2, <3>1 DEF Live
    <3> QED
      BY <2>1, <3>1 DEF LiveFrom, Like
  <2>4. TxsFrom(t)
    BY <1>7, SameTxs DEF Reload
  <2>5. PacksOnScreen'
    BY <2>2 DEF PacksOnScreen, Early
  <2> QED
    BY <2>1, <2>2, <2>3, <2>4, <2>5, Carried
<1>8. ASSUME NEW i \in DOMAIN txs, Drop(i)
      PROVE  LetterInv(t)'
  <2>1. TxsFrom(t)
    <3>1. /\ DOMAIN txs' = DOMAIN txs
          /\ \A j \in DOMAIN txs : /\ txs'[j].letterId = txs[j].letterId
                                   /\ txs'[j].archive = txs[j].archive
      BY <1>1, <1>8 DEF Drop, Tx
    <3> QED
      BY <3>1, SameTxs
  <2> QED
    BY <1>1, <1>8, <2>1, OutsideLetter DEF Drop, Stay
<1> QED
  BY <1>3, <1>4, <1>5, <1>6, <1>7, <1>8 DEF Fault

\* The page is left: a seal() that is about to pack goes on with a letter that
\* has no longer one content.
LEMMA LeaveLetter ==
    ASSUME IInv, Mounted, NEW t \in Tab, Tab = {t}, LetterInv(t),
           NEW n \in 1..Mounts, Leave(t, n)
    PROVE  LetterInv(t)'
<1>1. /\ working \in [Mount -> Draft] /\ run \in [Mount -> RunState]
      /\ draft \in [Tab -> Draft] /\ shown \in [Tab -> 1..Mounts]
  BY DEF IInv, Screens, Mounted
<1>2. PICK d \in Draft :
          /\ draft' = [draft EXCEPT ![t] = d] /\ drawn \subseteq drawn'
          /\ Begun(d) \/ \E e \in Draft : Live(t, e) /\ Like(d, e)
  BY LoadLetter DEF Leave
<1>3. PICK k, m : k = <<t, n>> /\ m = <<t, shown[t]>>
  OBVIOUS
<1>4. /\ run[k].pc = "idle" /\ run' = run /\ saved' = saved /\ draft'[t] = d
      /\ working' = [working EXCEPT ![k] = d] /\ leftUnpacked \subseteq leftUnpacked'
      /\ run[m].pc \in Early => working[m].letterId \in leftUnpacked'
  BY <1>1, <1>2, <1>3 DEF Leave, At, Early
<1>5. LiveFrom(t)
  <2>1. ASSUME NEW e \in Draft, Live(t, e)'
        PROVE  e = d \/ Live(t, e)
    BY <1>1, <1>4, <2>1 DEF Live
  <2> QED
    BY <1>2, <2>1 DEF LiveFrom, Like
<1>6. TxsFrom(t)
  BY SameTxs DEF Leave
<1>7. PacksOnScreen'
  <2>1. ASSUME NEW h \in Mount, run'[h].pc \in Early
        PROVE  /\ Unpacked(working'[h])
               /\ working'[h].letterId \in leftUnpacked'
    <3>1. /\ working'[h] = working[h] /\ Unpacked(working[h])
          /\ OnScreen(h) \/ working[h].letterId \in leftUnpacked
      BY <1>1, <1>4, <2>1 DEF LetterInv, PacksOnScreen, Early
    <3>2. OnScreen(h) => h = m
      BY <1>3 DEF OnScreen, Mount, TabOf
    <3> QED
      BY <1>4, <2>1, <3>1, <3>2
  <2> QED
    BY <2>1 DEF PacksOnScreen, Unpacked
<1> QED
  BY <1>2, <1>4, <1>5, <1>6, <1>7, Carried

\* The button, and what the user writes or discards meanwhile.
LEMMA UserLetter ==
    ASSUME IInv, NEW t \in Tab, Tab = {t}, LetterInv(t),
           Update(t) \/ Reset(t) \/ \E m \in Mount : Seal(m)
    PROVE  LetterInv(t)'
<1>1. /\ draft \in [Tab -> Draft] /\ working \in [Mount -> Draft]
      /\ run \in [Mount -> RunState]
  BY DEF IInv, Screens
<1>2. TxsFrom(t)
  BY SameTxs DEF Seal, Update, Reset, Requests
<1>3. UNCHANGED <<shown, leftUnpacked>>
  BY DEF Seal, Update, Reset, mountVars
<1>4. ASSUME NEW m \in Mount, Seal(m)
      PROVE  LetterInv(t)'
  <2>1. PICK d \in Draft : d = draft[t]
    BY <1>1
  <2>2. /\ TabOf(m) = t /\ Live(t, d)
    BY <2>1 DEF Mount, TabOf, Live
  <2>3. /\ working' = [working EXCEPT ![m] = d] /\ OnScreen(m)
        /\ UNCHANGED <<draft, saved, drawn>>
        /\ \A n \in Mount \ {m} : run'[n] = run[n]
        /\ run'[m].pc \in Early => Unpacked(d)
    BY <1>1, <1>4, <2>1, <2>2 DEF Seal, Go, RunState, Early, Unpacked, Requests
  <2>4. LiveFrom(t)
    <3>1. ASSUME NEW e \in Draft, Live(t, e)'
          PROVE  Live(t, e)
      BY <1>1, <2>2, <2>3, <3>1 DEF Live
    <3> QED
      BY <3>1 DEF LiveFrom, Like
  <2>5. PacksOnScreen'
    <3>1. ASSUME NEW n \in Mount, run'[n].pc \in Early, n # m
          PROVE  /\ Unpacked(working'[n])
                 /\ OnScreen(n)' \/ working'[n].letterId \in leftUnpacked'
      BY <1>1, <1>3, <2>3, <3>1 DEF LetterInv, PacksOnScreen, OnScreen
    <3>2. run'[m].pc \in Early => Unpacked(working'[m]) /\ OnScreen(m)'
      BY <1>1, <1>3, <2>3 DEF OnScreen
    <3> QED
      BY <3>1, <3>2 DEF PacksOnScreen, Unpacked
  <2> QED
    BY <1>2, <1>3, <2>3, <2>4, <2>5, Carried
<1>5. ASSUME NEW d \in Draft, Show(t, d), drawn \subseteq drawn',
             Begun(d) \/ \E e \in Draft : Live(t, e) /\ Like(d, e),
             UNCHANGED <<working, run>>
      PROVE  LetterInv(t)'
  <2>1. saved' = d /\ draft'[t] = d
    BY <1>1, <1>5 DEF Show
  <2>2. LiveFrom(t)
    <3>1. ASSUME NEW e \in Draft, Live(t, e)'
          PROVE  e = d \/ Live(t, e)
      BY <1>5, <2>1, <3>1 DEF Live
    <3> QED
      BY <1>5, <3>1 DEF LiveFrom, Like
  <2>3. PacksOnScreen'
    BY <1>3, <1>5 DEF LetterInv, PacksOnScreen, OnScreen
  <2> QED
    BY <1>2, <1>3, <1>5, <2>2, <2>3, Carried
<1>6. CASE Update(t)
  <2>1. PICK d : d = [draft[t] EXCEPT !.filled = TRUE]
    OBVIOUS
  <2>2. d \in Draft /\ Like(d, draft[t]) /\ Live(t, draft[t])
    BY <1>1, <2>1 DEF Draft, Like, Unpacked, Live
  <2> QED
    BY <1>1, <1>5, <1>6, <2>1, <2>2 DEF Update
<1>7. CASE Reset(t)
  <2>1. PICK l \in Fresh(LetterId) :
            Show(t, EmptyDraft(l)) /\ drawn' = drawn \cup {l}
    BY <1>7 DEF Reset
  <2>2. EmptyDraft(l) \in Draft /\ Begun(EmptyDraft(l))
    BY <2>1, BegunFresh
  <2> QED
    BY <1>5, <1>7, <2>1, <2>2 DEF Reset
<1> QED
  BY <1>4, <1>6, <1>7

LEMMA InitLetter ==
    ASSUME NEW t \in Tab, Init
    PROVE  LetterInv(t)
<1>1. PICK l : l = AnyOf(LetterId)
  OBVIOUS
<1>2. /\ txs = << >> /\ saved = None /\ drawn = {l} /\ draft[t] = EmptyDraft(l)
      /\ \A m \in Mount : run[m].pc = "idle"
  BY <1>1 DEF Init, Idle
<1>3. PICK c : c = EmptyDraft(l)
  OBVIOUS
<1>4. c.archive = None /\ c.letterId = l
  BY <1>3 DEF EmptyDraft
<1>5. \A d \in Draft : Live(t, d) => d = c
  BY <1>2, <1>3 DEF Live
<1>6. Agreed(t) /\ IdsDrawn(t)
  BY <1>2, <1>4, <1>5 DEF Agreed, IdsDrawn, Like
<1> QED
  BY <1>2, <1>6 DEF LetterInv, AsSubmitted, PacksOnScreen, OneContentPerLetter, Early

LEMMA StepLetter ==
    ASSUME NEW t \in Tab, Tab = {t}, IInv, Mounted, LetterInv(t), [Next]_vars
    PROVE  LetterInv(t)'
<1>1. txs \in Seq(Tx)
  BY DEF IInv, World
<1>2. CASE UNCHANGED vars
  BY <1>2, SameTxs, OutsideLetter DEF vars
<1>3. ASSUME NEW i \in DOMAIN txs, Mine(i)
      PROVE  LetterInv(t)'
  <2>1. PICK status \in {"success", "reverted"} :
            txs' = [txs EXCEPT ![i].status = status]
    BY <1>3 DEF Mine
  <2>2. /\ DOMAIN txs' = DOMAIN txs
        /\ \A j \in DOMAIN txs : /\ txs'[j].letterId = txs[j].letterId
                                 /\ txs'[j].archive = txs[j].archive
    BY <1>1, <2>1 DEF Tx
  <2>3. TxsFrom(t)
    BY <2>2, SameTxs
  <2> QED
    BY <1>3, <2>3, OutsideLetter DEF Mine, Stay
<1>4. CASE Rotate \/ Close
  BY <1>4, SameTxs, OutsideLetter DEF Rotate, Close
<1> QED
  BY <1>2, <1>3, <1>4, UserLetter, SealStepLetter, LeaveLetter, FaultLetter DEF Next

\* One tab submits two contents under one letter id only when the page was left
\* before the letter's archive was saved: no failure, lost answer, retry, reset,
\* reload, or page left later leads to a second one, however many seal() of
\* pages it has left run on.  (seal, update, reset and the mount effect)
THEOREM OneContentPerLetterAlways ==
    ASSUME NEW CONSTANT t \in Tab, Tab = {t}
    PROVE  Spec => []OneContentPerLetter
<1>1. Init => LetterInv(t) /\ Mounted
  BY InitLetter, SendAssumption DEF Init, Mounted
<1>2. IInv /\ Mounted /\ LetterInv(t) /\ [Next]_vars => LetterInv(t)' /\ Mounted'
  BY StepLetter, MountedInv
<1>3. LetterInv(t) => OneContentPerLetter
  BY DEF LetterInv
<1> QED
  BY <1>1, <1>2, <1>3, SafetyInvariant, PTL DEF Spec

-----------------------------------------------------------------------------
(* The tabs use the contract as it is. *)

\* Whatever the tabs, the mempool and the recipient do, the contract takes only
\* its own steps: what is proved of Gibyeol2026 holds here too.  (seal)
THEOREM ContractKept == Spec => Chain!Spec
<1>1. Init => Chain!Init
  BY DEF Init
<1>2. ASSUME IInv, Next
      PROVE  Chain!Next \/ UNCHANGED Chain!contractVars
  <2>1. ASSUME NEW i \in DOMAIN txs, Mine(i)
        PROVE  Chain!Next \/ UNCHANGED Chain!contractVars
    <3>1. PICK l \in LetterId, k \in 0..KeyIdMax, a \in Archive :
              \/ UNCHANGED contractVars
              \/ Chain!SealLetter(Sender, l, Recipient, k, 0, 0, a)
      <4>1. txs[i] \in Tx
        BY <1>2, <2>1 DEF IInv, World
      <4>2. txs[i].archive \in Archive
        BY <1>2, <2>1 DEF IInv, World, Sent
      <4> QED
        BY <2>1, <4>1, <4>2 DEF Mine, Tx
    <3>2. ASSUME Chain!SealLetter(Sender, l, Recipient, k, 0, 0, a)
          PROVE  Chain!SealLetter(Sender, l, Recipient, k, MaxTextBytes,
                                  MaxSealedKeyBytes, a)
      BY <3>2, SendAssumption DEF Chain!SealLetter, Chain!SealError
    <3> QED
      BY <3>1, <3>2, SendAssumption DEF Chain!Next, Chain!SealAny, contractVars,
         Chain!contractVars
  <2>2. CASE Rotate
    <3>1. PICK p : Chain!RegisterMailboxKey(Recipient, p)
                   /\ p = AnyOf({key \in PublicKey : \A k \in 0..KeyIdMax :
                                     mailboxPublicKeys[Recipient][k] # key})
                   /\ {key \in PublicKey : \A k \in 0..KeyIdMax :
                           mailboxPublicKeys[Recipient][k] # key} # {}
      BY <2>2 DEF Rotate
    <3>2. p \in PublicKey
      BY <3>1 DEF AnyOf
    <3> QED
      BY <3>1, <3>2, SendAssumption DEF Chain!Next, Chain!RegisterAny
  <2>3. CASE Close
    BY <2>3, SendAssumption DEF Close, Chain!Next, Chain!DeactivateAny
  <2>4. CASE Fault
    BY <2>4 DEF Fault, AwaitFails, AnswerLost, PackFails, GetPendingFails, Reload,
       Drop, Requests, contractVars, Chain!contractVars
  <2>5. ASSUME NEW m \in Mount, Seal(m) \/ SealStep(m)
        PROVE  UNCHANGED Chain!contractVars
    BY <2>5 DEF Seal, SealStep, Requests, contractVars, Chain!contractVars
  <2>6. ASSUME NEW t \in Tab, NEW n, Update(t) \/ Reset(t) \/ Leave(t, n)
        PROVE  UNCHANGED Chain!contractVars
    BY <2>6 DEF Update, Reset, Leave, contractVars, Chain!contractVars
  <2> QED
    BY <1>2, <2>1, <2>2, <2>3, <2>4, <2>5, <2>6 DEF Next
<1>3. IInv /\ [Next]_vars => [Chain!Next]_(Chain!contractVars)
  BY <1>2 DEF vars, contractVars, Chain!contractVars
<1> QED
  BY <1>1, <1>3, SafetyInvariant, PTL DEF Spec, Chain!Spec
=============================================================================
