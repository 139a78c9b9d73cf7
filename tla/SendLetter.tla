----------------------------- MODULE SendLetter -----------------------------
(***************************************************************************)
(* Sending a letter (frontend use-send-letter.ts): each browser tab runs   *)
(* the asynchronous function seal() over a draft kept in localStorage,     *)
(* against the contract, the package store, the sender's wallet and a      *)
(* mempool.  One action is the code from one await to the next, so all     *)
(* else may happen between any two of them: the recipient rotates or       *)
(* closes the mailbox, a transaction is mined, reverts or is dropped, a    *)
(* request fails or loses its answer, the page is reloaded, or left for    *)
(* another page of the site and come back to while its seal() runs on.     *)
(*                                                                         *)
(* A tab shows one mount of the hook, shown[t]; a mount the tab has left   *)
(* is gone from the screen, but its seal() runs on and saves.  run[m].pc   *)
(* names the await a mount is at ("idle" when its seal() is not running).  *)
(* draft[t] is the React state of the mount shown, saved is localStorage,  *)
(* and working[m] the copy a running seal() took of the draft and goes on  *)
(* with, whatever is edited, reset or left meanwhile.  A transaction's     *)
(* hash is its index in txs.                                               *)
(***************************************************************************)
EXTENDS Integers, Sequences, FiniteSets

CONSTANTS
    Tab,                     \* browser tabs of one sender
    Mounts,                  \* bound on the mounts of a tab alive at once
    Sender, Recipient,       \* two accounts
    Address, ZeroAddress, PublicKey, ZeroKey, LetterId, Archive, KeyIdMax,
    MaxTextBytes, MaxSealedKeyBytes,
    None,                    \* an absent value
    MaxFaults,               \* bound on failures, pages left, dropped txs
    LeaveFaults              \* how many of them leaving the page counts for

ASSUME SendAssumption ==
    /\ {Sender, Recipient} \subseteq Address
    /\ MaxFaults \in Nat /\ LeaveFaults \in Nat /\ Mounts \in Nat \ {0}
    /\ None \notin Archive \cup LetterId /\ LetterId # {}
    /\ ZeroAddress \notin Address /\ ZeroKey \notin PublicKey
    /\ KeyIdMax \in Nat \ {0}
    /\ {MaxTextBytes, MaxSealedKeyBytes} \subseteq Nat

VARIABLES
    currentKeyId, mailboxPublicKeys, mailboxActive, sealedLetters, log,
    txs,        \* the sealLetter transactions the wallet has submitted
    packages,   \* archives the package store holds
    saved,      \* the draft in localStorage, or None
    draft,      \* tab -> the draft on its screen
    shown,      \* tab -> which of its mounts is on the screen
    working,    \* mount -> the draft its seal() works on
    run,        \* mount -> where its seal() is
    drawn,      \* letter ids and archives already drawn at random
    faults,     \* failures so far
    leftUnpacked \* history: letters whose page was left while seal() had not
                 \* yet saved their archive

contractVars == <<currentKeyId, mailboxPublicKeys, mailboxActive,
                  sealedLetters, log>>
mountVars == <<shown, leftUnpacked>>
vars == <<contractVars, txs, packages, saved, draft, working, run, drawn,
          faults, mountVars>>

Chain == INSTANCE Gibyeol2026

\* A mount of the hook is one of its tab's.
Mount == Tab \X (1..Mounts)

Stage == {"DRAFT", "PACKING", "UPLOADING_PACKAGE", "ENCRYPTING_KEY",
          "WAITING_TRANSACTION", "SEALED"}
Await == {"lookup", "pack", "put", "wrap", "recover", "awaitPending",
          "recoverPending", "getPending", "active", "attempt", "write",
          "writeFailed", "writeRotated", "receipt", "revertRecover",
          "revertRotated", "rewrite", "receipt2", "delayed"}

\* A letter key wrapped for a mailbox key.  The letter key, the encrypted text
\* and the archive are made together, so the archive names all three.
SealedKey == [archive: Archive, publicKey: PublicKey] \cup {None}

Draft == [letterId: LetterId, filled: BOOLEAN, stage: Stage,
          keyId: 0..KeyIdMax, archive: Archive \cup {None},
          sealedKey: SealedKey, hash: Nat]

Tx == [letterId: LetterId, keyId: 0..KeyIdMax, archive: Archive,
       sealedKey: SealedKey,
       status: {"pending", "success", "reverted", "dropped"}]

TypeOK ==
    /\ Chain!TypeOK
    /\ txs \in Seq(Tx)
    /\ packages \subseteq Archive
    /\ saved \in Draft \cup {None}
    /\ draft \in [Tab -> Draft] /\ working \in [Mount -> Draft]
    /\ run \in [Mount -> [pc: Await \cup {"idle"}, attempt: 0..1, hash: Nat]]
    /\ drawn \subseteq LetterId \cup Archive
    /\ faults \in 0..MaxFaults
    /\ shown \in [Tab -> 1..Mounts] /\ leftUnpacked \subseteq LetterId

EmptyDraft(l) ==
    [letterId |-> l, filled |-> FALSE, stage |-> "DRAFT", keyId |-> 0,
     archive |-> None, sealedKey |-> None, hash |-> 0]

Idle == [pc |-> "idle", attempt |-> 0, hash |-> 0]

\* What is drawn at random is new, and any new value stands for all others:
\* nothing in the code or the properties tells them apart.
AnyOf(S) == CHOOSE x \in S : TRUE
Fresh(S) == IF S \subseteq drawn THEN {} ELSE {AnyOf(S \ drawn)}

\* The contract is new, the tabs are open and nothing is saved yet.
Init ==
    /\ Chain!Init
    /\ txs = << >> /\ packages = {} /\ saved = None /\ faults = 0
    /\ run = [m \in Mount |-> Idle]
    /\ shown = [t \in Tab |-> 1] /\ leftUnpacked = {}
    /\ LET l == AnyOf(LetterId) IN
          /\ draft = [t \in Tab |-> EmptyDraft(l)] /\ drawn = {l}
          /\ working = [m \in Mount |-> EmptyDraft(l)]

-----------------------------------------------------------------------------
(* Steps of seal(), named by the await they resume from. *)

At(m, p) == run[m].pc = p
Go(m, p) == run' = [run EXCEPT ![m].pc = p]
Return(m) == run' = [run EXCEPT ![m] = Idle]

TabOf(m) == m[1]
OnScreen(m) == shown[TabOf(m)] = m[2]

\* persist as the screen calls it, and as seal() does: the state of a mount
\* that was left is not shown any more, but what it saves is saved.
Show(t, d) == draft' = [draft EXCEPT ![t] = d] /\ saved' = d
Persist(m, d) ==
    /\ saved' = d /\ working' = [working EXCEPT ![m] = d]
    /\ draft' = IF OnScreen(m) THEN [draft EXCEPT ![TabOf(m)] = d] ELSE draft
Stay == UNCHANGED <<draft, saved, working>>
Move(m, p) == Go(m, p) /\ Stay
Throw(m) == Return(m) /\ Stay
Requests == <<contractVars, txs, packages, drawn>>

LatestKeyId == currentKeyId[Recipient]
OnChain(m) == sealedLetters[working[m].letterId]
Mined(i) == txs[i].status \in {"success", "reverted"}

\* recoverExisting: the transaction of the letter's LetterSealed event.
SealingTx(l) ==
    CHOOSE i \in DOMAIN txs : txs[i].letterId = l /\ txs[i].status = "success"

\* Mutant: the new key id is recorded, the old wrapping kept.
WithLatestKeyOnlyId(d) == [d EXCEPT !.keyId = LatestKeyId]

\* Wrap the letter key for the recipient's newest mailbox key.
WithLatestKey(d) ==
    [d EXCEPT !.keyId = LatestKeyId,
              !.sealedKey = [archive |-> d.archive, publicKey |->
                             mailboxPublicKeys[Recipient][LatestKeyId]]]

\* The draft is sealed: message and letter key are erased.
FinishWith(m, h) ==
    /\ Persist(m, [working[m] EXCEPT !.stage = "SEALED", !.hash = h,
                                   !.filled = FALSE])
    /\ Return(m)

\* The button of the mount shown is disabled while its own seal() runs.
Seal(m) ==
    /\ OnScreen(m) /\ At(m, "idle") /\ draft[TabOf(m)].filled
    /\ working' = [working EXCEPT ![m] = draft[TabOf(m)]]
    /\ Go(m, CASE draft[TabOf(m)].stage \in {"DRAFT", "PACKING"} -> "lookup"
               [] draft[TabOf(m)].stage = "UPLOADING_PACKAGE" -> "put"
               [] draft[TabOf(m)].stage = "ENCRYPTING_KEY" -> "wrap"
               [] draft[TabOf(m)].stage = "WAITING_TRANSACTION" -> "recover"
               [] OTHER -> "idle")
    /\ UNCHANGED <<Requests, draft, saved, faults, mountVars>>

Lookup(m) ==
    /\ At(m, "lookup")
    /\ \/ /\ LatestKeyId >= 1 /\ mailboxActive[Recipient]
          /\ Persist(m, [working[m] EXCEPT !.stage = "PACKING",
                                         !.keyId = LatestKeyId])
          /\ Go(m, "pack")
       \/ (LatestKeyId < 1 \/ ~mailboxActive[Recipient]) /\ Throw(m)

\* A fresh letter key, hence a fresh text, archive and archive hash.
Pack(m) ==
    /\ At(m, "pack")
    /\ \E a \in Fresh(Archive) :
          /\ drawn' = drawn \cup {a}
          /\ Persist(m, [working[m] EXCEPT !.stage = "UPLOADING_PACKAGE",
                                         !.archive = a])
    /\ Go(m, "put") /\ UNCHANGED <<txs, packages>>

Put(m) ==
    /\ At(m, "put")
    /\ packages' = packages \cup {working[m].archive}
    /\ Persist(m, [working[m] EXCEPT !.stage = "ENCRYPTING_KEY"])
    /\ Go(m, "wrap") /\ UNCHANGED <<txs, drawn>>

Wrap(m) ==
    /\ At(m, "wrap")
    /\ Persist(m, [WithLatestKey(working[m])
                       EXCEPT !.stage = "WAITING_TRANSACTION"])
    /\ Go(m, "recover")

Recover(m) ==
    /\ At(m, "recover")
    /\ \/ OnChain(m) /\ FinishWith(m, SealingTx(working[m].letterId))
       \/ /\ ~OnChain(m)
          /\ Move(m, IF working[m].hash # 0 THEN "awaitPending" ELSE "active")

\* The receipt of the earlier transaction; its status is not looked at.
AwaitPending(m) ==
    /\ At(m, "awaitPending") /\ Mined(working[m].hash)
    /\ FinishWith(m, working[m].hash)

RecoverPending(m) ==
    /\ At(m, "recoverPending")
    /\ \/ OnChain(m) /\ FinishWith(m, working[m].hash)
       \/ ~OnChain(m) /\ Move(m, "getPending")

\* Mutant: a transaction the network no longer knows is waited for for ever.
GetPendingKeepsHash(m) == At(m, "getPending") /\ Throw(m)

\* A known transaction is still waited for; an unknown one is forgotten.
GetPending(m) ==
    /\ At(m, "getPending")
    /\ \/ txs[working[m].hash].status # "dropped" /\ Throw(m)
       \/ /\ txs[working[m].hash].status = "dropped"
          /\ Persist(m, [working[m] EXCEPT !.hash = 0]) /\ Go(m, "active")

\* The mailbox must be open; then the wallet is connected.
Active(m) ==
    /\ At(m, "active")
    /\ IF mailboxActive[Recipient] THEN Move(m, "attempt") ELSE Throw(m)

Attempt(m) ==
    /\ At(m, "attempt")
    /\ IF LatestKeyId # working[m].keyId
       THEN Persist(m, WithLatestKey(working[m])) ELSE Stay
    /\ Go(m, "write")

Submitted(m) ==
    [letterId |-> working[m].letterId, keyId |-> working[m].keyId,
     archive |-> working[m].archive, sealedKey |-> working[m].sealedKey,
     status |-> "pending"]

\* The wallet answers with the hash of the transaction it submitted.
Write(m) ==
    /\ run[m].pc \in {"write", "rewrite"}
    /\ txs' = Append(txs, Submitted(m))
    /\ Persist(m, [working[m] EXCEPT !.hash = Len(txs) + 1])
    /\ run' = [run EXCEPT ![m].hash = Len(txs) + 1, ![m].pc =
                   IF At(m, "write") THEN "receipt" ELSE "receipt2"]
    /\ UNCHANGED <<packages, drawn>>

WriteFailed(m) ==
    /\ At(m, "writeFailed") /\ Stay
    /\ IF OnChain(m)
       THEN run' = [run EXCEPT ![m].hash = SealingTx(working[m].letterId),
                               ![m].pc = "receipt"]
       ELSE Go(m, "writeRotated")

WriteRotated(m) ==
    /\ At(m, "writeRotated") /\ Stay
    /\ IF run[m].attempt = 0 /\ LatestKeyId # working[m].keyId
       THEN run' = [run EXCEPT ![m].attempt = 1, ![m].pc = "attempt"]
       ELSE Return(m)

\* The receipt of this run's transaction.
Receipt(m) ==
    /\ run[m].pc \in {"receipt", "receipt2"} /\ Mined(run[m].hash)
    /\ IF txs[run[m].hash].status = "success"
       THEN FinishWith(m, run[m].hash)
       ELSE Move(m, IF At(m, "receipt") THEN "revertRecover" ELSE "delayed")

RevertRecover(m) ==
    /\ At(m, "revertRecover")
    /\ \/ OnChain(m) /\ FinishWith(m, run[m].hash)
       \/ ~OnChain(m) /\ Move(m, "revertRotated")

\* A revert is retried only when the key was rotated.
RevertRotated(m) ==
    /\ At(m, "revertRotated")
    /\ \/ LatestKeyId = working[m].keyId /\ Move(m, "delayed")
       \/ /\ LatestKeyId # working[m].keyId
          /\ Persist(m, [WithLatestKey(working[m]) EXCEPT !.hash = 0])
          /\ Go(m, "rewrite")

\* Mutant: an unconfirmed letter is reported as sealed.
DelayedTrusting(m) == At(m, "delayed") /\ FinishWith(m, run[m].hash)

\* The outer catch: sealed after all, or an error to the user.
Delayed(m) ==
    /\ At(m, "delayed")
    /\ \/ OnChain(m) /\ FinishWith(m, run[m].hash)
       \/ ~OnChain(m) /\ Throw(m)

\* waitForTransactionReceipt gives up on a transaction that is not mined.
WaitTimesOut(m) ==
    \/ /\ At(m, "awaitPending") /\ ~Mined(working[m].hash)
       /\ Move(m, "recoverPending")
    \/ /\ run[m].pc \in {"receipt", "receipt2"} /\ ~Mined(run[m].hash)
       /\ Move(m, "delayed")

LocalStep(m) ==
    \/ Lookup(m) \/ Wrap(m) \/ Recover(m) \/ AwaitPending(m)
    \/ RecoverPending(m) \/ GetPending(m) \/ Active(m) \/ Attempt(m)
    \/ WriteFailed(m) \/ WriteRotated(m) \/ Receipt(m) \/ RevertRecover(m)
    \/ RevertRotated(m) \/ Delayed(m) \/ WaitTimesOut(m)

SealStep(m) ==
    /\ Pack(m) \/ Put(m) \/ Write(m) \/ (LocalStep(m) /\ UNCHANGED Requests)
    /\ UNCHANGED <<contractVars, faults, mountVars>>

-----------------------------------------------------------------------------
(* Failures, at most MaxFaults of them. *)

\* Where an exception thrown by the await at p is caught.
Catch(p) ==
    CASE p = "awaitPending" -> "recoverPending"
      [] p = "write" -> "writeFailed"
      [] p \in {"receipt", "revertRecover", "revertRotated", "rewrite",
                "receipt2"} -> "delayed"
      [] OTHER -> "idle"

Raise(m) == IF Catch(run[m].pc) = "idle" THEN Throw(m)
            ELSE Move(m, Catch(run[m].pc))

\* Mutant: the answer of the package store is not checked.
AwaitFailsUnchecked(m) ==
    /\ At(m, "put") /\ Go(m, "wrap")
    /\ Persist(m, [working[m] EXCEPT !.stage = "ENCRYPTING_KEY"])
    /\ UNCHANGED Requests

\* A request is refused or not answered, or the user rejects the prompt.
AwaitFails(m) ==
    /\ run[m].pc \in Await \ {"pack", "getPending"}
    /\ Raise(m) /\ UNCHANGED Requests

\* The request was served but its answer is lost: the package is stored, the
\* transaction submitted.
AnswerLost(m) ==
    /\ Raise(m) /\ UNCHANGED <<contractVars, drawn>>
    /\ \/ /\ At(m, "put") /\ UNCHANGED txs
          /\ packages' = packages \cup {working[m].archive}
       \/ /\ run[m].pc \in {"write", "rewrite"} /\ UNCHANGED packages
          /\ txs' = Append(txs, Submitted(m))

\* The media cannot be prepared or packed: back to DRAFT.
PackFails(m) ==
    /\ At(m, "pack") /\ Return(m)
    /\ Persist(m, [working[m] EXCEPT !.stage = "DRAFT"])
    /\ UNCHANGED Requests

\* Any error of getTransaction is taken for "not found".
GetPendingFails(m) ==
    /\ At(m, "getPending") /\ Go(m, "active")
    /\ Persist(m, [working[m] EXCEPT !.hash = 0])
    /\ UNCHANGED Requests

\* Mutant: a reload starts the letter again whatever stage it had reached.
LoadedStageRestart(stage) == IF stage = "SEALED" THEN stage ELSE "DRAFT"

\* Mutant: the stage names of older drafts are mapped the wrong way round.
LoadedStageLegacy(stage) == IF stage = "ENCRYPTING_KEY" THEN "UPLOADED" ELSE stage

\* The stage a saved draft resumes at; two names are those of older drafts.
LoadedStage(stage) ==
    CASE stage = "PACKED" -> "UPLOADING_PACKAGE"
      [] stage = "UPLOADED" -> "ENCRYPTING_KEY"
      [] stage = "PACKING" -> "DRAFT"
      [] OTHER -> stage

\* The mount effect: tab t shows the saved draft, or begins a letter.
Load(t) ==
    \/ /\ saved # None /\ UNCHANGED drawn
       /\ draft' = [draft EXCEPT ![t] =
             [saved EXCEPT !.stage = LoadedStage(saved.stage)]]
    \/ /\ saved = None
       /\ \E l \in Fresh(LetterId) :
             /\ draft' = [draft EXCEPT ![t] = EmptyDraft(l)]
             /\ drawn' = drawn \cup {l}

\* The page is closed and opened again: no seal() of the tab runs on.
Reload(t) ==
    /\ Load(t)
    /\ run' = [m \in Mount |-> IF TabOf(m) = t THEN Idle ELSE run[m]]
    /\ working' = [m \in Mount |-> IF TabOf(m) = t THEN draft'[t]
                                                  ELSE working[m]]
    /\ UNCHANGED <<contractVars, txs, packages, saved>>

\* The letter is left for another page of the site, by its links or because
\* the mailbox or the session is not ready, and come back to.  A seal() that
\* runs goes on out of sight; the hook is mounted anew, as n, with no seal()
\* of its own running.
Leave(t, n) ==
    LET m == <<t, shown[t]>> IN
    /\ faults + LeaveFaults <= MaxFaults /\ faults' = faults + LeaveFaults
    /\ At(<<t, n>>, "idle") /\ (At(m, "idle") => n = shown[t])
    /\ Load(t)
    /\ shown' = [shown EXCEPT ![t] = n]
    /\ working' = [working EXCEPT ![<<t, n>>] = draft'[t]]
    /\ leftUnpacked' = leftUnpacked \cup
          IF run[m].pc \in {"lookup", "pack"} THEN {working[m].letterId}
                                             ELSE {}
    /\ UNCHANGED <<contractVars, txs, packages, saved, run>>

\* A pending transaction is evicted from the mempool.
Drop(i) ==
    /\ txs[i].status = "pending"
    /\ txs' = [txs EXCEPT ![i].status = "dropped"]
    /\ Stay /\ UNCHANGED <<contractVars, packages, run, drawn>>

Fault ==
    /\ faults < MaxFaults /\ faults' = faults + 1 /\ UNCHANGED mountVars
    /\ \/ \E m \in Mount : \/ AwaitFails(m) \/ AnswerLost(m)
                           \/ PackFails(m) \/ GetPendingFails(m)
       \/ \E t \in Tab : Reload(t)
       \/ \E i \in DOMAIN txs : Drop(i)

-----------------------------------------------------------------------------
(* The user, the chain and the recipient. *)

\* update: the letter is written, or edited, while the stage is DRAFT.
Update(t) ==
    /\ draft[t].stage = "DRAFT"
    /\ Show(t, [draft[t] EXCEPT !.filled = TRUE])
    /\ UNCHANGED <<contractVars, txs, packages, working, run, drawn, faults,
                   mountVars>>

\* reset: a new letter, whatever becomes of the last one; a confirmation that
\* is open can still be answered while seal() runs.
Reset(t) ==
    /\ \E l \in Fresh(LetterId) :
          Show(t, EmptyDraft(l)) /\ drawn' = drawn \cup {l}
    /\ UNCHANGED <<contractVars, txs, packages, working, run, faults, mountVars>>

\* The sender's transactions are mined in the order of their nonces.
Mine(i) ==
    /\ txs[i].status = "pending"
    /\ \A j \in 1..(i - 1) : txs[j].status # "pending"
    /\ LET error == Chain!SealError(txs[i].letterId, Recipient, txs[i].keyId,
                                    0, 0)
       IN \/ /\ Chain!SealLetter(Sender, txs[i].letterId, Recipient,
                                 txs[i].keyId, 0, 0, txs[i].archive)
             /\ txs' = [txs EXCEPT ![i].status = "success"]
          \/ /\ error # "none"
             /\ txs' = [txs EXCEPT ![i].status = "reverted"]
             /\ UNCHANGED contractVars
    /\ Stay /\ UNCHANGED <<packages, run, drawn, faults, mountVars>>

\* A mailbox key is drawn at random, so it is never one used before.
Rotate ==
    /\ LET unused == {key \in PublicKey : \A k \in 0..KeyIdMax :
                          mailboxPublicKeys[Recipient][k] # key}
       IN unused # {} /\ Chain!RegisterMailboxKey(Recipient, AnyOf(unused))
    /\ UNCHANGED <<txs, packages, saved, draft, working, run, drawn,
                   faults, mountVars>>

Close ==
    /\ Chain!DeactivateMailbox(Recipient)
    /\ UNCHANGED <<txs, packages, saved, draft, working, run, drawn,
                   faults, mountVars>>

Next ==
    \/ \E m \in Mount : Seal(m) \/ SealStep(m)
    \/ \E t \in Tab : Update(t) \/ Reset(t) \/ \E n \in 1..Mounts : Leave(t, n)
    \/ \E i \in DOMAIN txs : Mine(i)
    \/ Rotate \/ Close \/ Fault

Spec == Init /\ [][Next]_vars

\* The sender keeps pressing the button, awaits return (each has a timeout,
\* and the user answers the wallet), and pending transactions are mined.
FairSpec ==
    /\ Spec
    /\ \A t \in Tab : WF_vars(\E n \in 1..Mounts : Seal(<<t, n>>))
    /\ \A m \in Mount : WF_vars(SealStep(m))
    /\ WF_vars(\E i \in DOMAIN txs : Mine(i))

-----------------------------------------------------------------------------
(* Properties. *)

\* Whatever is submitted, retried and rotated, the wrapped letter key on chain
\* is wrapped for the very key id the transaction names, and it is the key of
\* the transaction's own text and archive.  (seal: the wraps at 127, 172, 195)
Openable ==
    \A i \in DOMAIN txs :
        txs[i].sealedKey =
            [archive |-> txs[i].archive,
             publicKey |-> mailboxPublicKeys[Recipient][txs[i].keyId]]

\* No letter reaches the wallet before its package is stored.  (seal: 115-122)
StoredBeforeSubmitted ==
    \A i \in DOMAIN txs : txs[i].archive \in packages

\* All transactions of a letter id carry one text, key and archive, through
\* every failure, retry, reset, reload and page left while seal() runs on, but
\* for a letter whose page was left before its archive was saved: the page that
\* is come back to packs another one under the same id.  (seal: 82-114; the
\* saved stage: 51-55.  One tab.)
OneContentPerLetter ==
    \A i, j \in DOMAIN txs :
        txs[i].letterId = txs[j].letterId /\ txs[i].letterId \notin leftUnpacked
            => txs[i].archive = txs[j].archive

\* A letter shown as sealed is on chain, unless the transaction it was left
\* with had reverted.
UnrecordedOnlyAfterRevert ==
    saved # None /\ saved.stage = "SEALED" /\ ~sealedLetters[saved.letterId]
        => saved.hash # 0 /\ txs[saved.hash].status = "reverted"

\* The sender is shown "sealed" only for a letter the contract has sealed.
SealedIsOnChain ==
    saved # None /\ saved.stage = "SEALED" => sealedLetters[saved.letterId]

Waiting(t) == draft[t].stage = "WAITING_TRANSACTION"

\* A letter whose sender keeps trying is not shown between the upload and the
\* seal for ever, unless the recipient's mailbox is closed.
Settles ==
    \A t \in Tab : Waiting(t) ~> ~Waiting(t) \/ ~mailboxActive[Recipient]
=============================================================================
