-------------------------- MODULE MailboxOnboarding --------------------------
(***************************************************************************)
(* Opening, rotating and closing a mailbox from the browser                *)
(* (frontend use-mailbox-onboarding.ts and the buttons of                  *)
(* MailboxOnboarding.tsx) over the contract.  A registration takes two     *)
(* presses: the first makes a passkey and the two envelopes, the second    *)
(* asks the wallet to register what was prepared.  The wallet that is      *)
(* logged in (address) may change at any await, the owner may use another  *)
(* device, an answer of the wallet or the node may be lost.                *)
(*                                                                         *)
(* One page: op is the call that is running, if any, with the address it   *)
(* captured.  A public key stands for the seed, the passkey and the        *)
(* envelopes made with it.                                                 *)
(***************************************************************************)
EXTENDS Integers, Sequences

CONSTANTS
    Address, ZeroAddress, PublicKey, ZeroKey, LetterId, Archive, KeyIdMax,
    MaxTextBytes, MaxSealedKeyBytes,
    None,            \* undefined, null
    MaxLost,         \* bound on lost answers of submitted transactions
    MaxElsewhere     \* bound on transactions from the owner's other device

ASSUME OnboardingAssumption ==
    /\ MaxLost \in Nat /\ MaxElsewhere \in Nat
    /\ None \notin Address \cup PublicKey \cup Nat \cup BOOLEAN
    /\ ZeroAddress \notin Address /\ ZeroKey \notin PublicKey
    /\ KeyIdMax \in Nat \ {0}

VARIABLES
    currentKeyId, mailboxPublicKeys, mailboxActive, sealedLetters, log,
    pool,         \* owner -> its pending transactions, oldest first
    address,      \* the wallet that the page is logged in with, or None
    keyId,        \* what the screen shows of the mailbox ...
    active,
    stage,
    confirming,   \* the question before a deactivation is open
    load,         \* the reads that a new address starts
    prepared,     \* preparedRegistration.current
    op,           \* the running register() or deactivate()
    envelopes,    \* localStorage: the envelope kept for an owner and key id
    madeFor,      \* history: key -> the wallet its passkey was made for
    lost,         \* history: keys with a lost answer
    losses, elsewhere

contractVars == <<currentKeyId, mailboxPublicKeys, mailboxActive,
                  sealedLetters, log>>
shown == <<keyId, active>>
screen == <<shown, stage, confirming>>
outside == <<pool, madeFor, lost, losses, elsewhere>>
vars == <<contractVars, outside, address, screen, load, prepared, op,
          envelopes>>

Chain == INSTANCE Gibyeol2026

Stage == {"creating-passkey", "locking-recovery", "awaiting-wallet",
          "confirming-registration", "deactivating",
          "confirming-deactivation"}
Prepared == [address: Address, key: PublicKey]
Tx == [kind: {"register", "deactivate"}, key: PublicKey \cup {None},
       awaited: BOOLEAN]
Idle == [pc |-> "idle", kind |-> "none", address |-> None, key |-> None]
NoLoad == [pc |-> "idle", keyId |-> None]

TypeOK ==
    /\ Chain!TypeOK
    /\ pool \in [Address -> Seq(Tx)]
    /\ address \in Address \cup {None}
    /\ keyId \in 0..KeyIdMax \cup {None}
    /\ active \in BOOLEAN \cup {None}
    /\ stage \in Stage \cup {None}
    /\ confirming \in BOOLEAN
    /\ load \in [pc: {"idle", "keyId", "active"},
                 keyId: 0..KeyIdMax \cup {None}]
    /\ load.pc # "idle" => address \in Address
    /\ prepared \in Prepared \cup {None}
    /\ op \in [pc: {"idle", "passkey", "recovery", "provider", "approve",
                    "receipt", "mined", "reverted", "readKey"},
               kind: {"none", "prepare", "register", "deactivate"},
               address: Address \cup {None}, key: PublicKey \cup {None}]
    /\ envelopes \in [Address -> [1..KeyIdMax -> PublicKey \cup {None}]]
    /\ madeFor \in [PublicKey -> Address \cup {None}]
    /\ lost \subseteq PublicKey
    /\ losses \in 0..MaxLost /\ elsewhere \in 0..MaxElsewhere

Init ==
    /\ Chain!Init
    /\ pool = [w \in Address |-> << >>]
    /\ address = None /\ keyId = None /\ active = None /\ stage = None
    /\ confirming = FALSE
    /\ load = NoLoad /\ prepared = None /\ op = Idle
    /\ envelopes = [w \in Address |-> [k \in 1..KeyIdMax |-> None]]
    /\ madeFor = [p \in PublicKey |-> None]
    /\ lost = {} /\ losses = 0 /\ elsewhere = 0

-----------------------------------------------------------------------------
(* The wallet that is logged in, and the reads that follow. *)

\* Mutant: logging out does not cancel the reads.
SetAddressKeepsReads(a) ==
    /\ a # address /\ address' = a
    /\ load' = IF a = None THEN load ELSE [NoLoad EXCEPT !.pc = "keyId"]
    /\ prepared' = None
    /\ confirming' = (confirming /\ a # None)
    /\ UNCHANGED <<contractVars, outside, shown, stage, op, envelopes>>

\* The effects of [address]: cancel the reads, forget what was prepared, read
\* anew.  What is on the screen stays.
SetAddress(a) ==
    /\ a # address /\ address' = a
    /\ load' = IF a = None THEN NoLoad ELSE [NoLoad EXCEPT !.pc = "keyId"]
    /\ prepared' = None
    /\ confirming' = (confirming /\ a # None)
    /\ UNCHANGED <<contractVars, outside, shown, stage, op, envelopes>>

LoadKeyId ==
    /\ load.pc = "keyId"
    /\ load' = [pc |-> "active", keyId |-> currentKeyId[address]]
    /\ UNCHANGED <<contractVars, outside, address, screen, prepared, op,
                   envelopes>>

LoadActive ==
    /\ load.pc = "active" /\ load' = NoLoad
    /\ keyId' = load.keyId /\ active' = mailboxActive[address]
    /\ UNCHANGED <<contractVars, outside, address, stage, confirming, prepared,
                   op, envelopes>>

LoadFails ==
    /\ load.pc # "idle" /\ load' = NoLoad
    /\ keyId' = None /\ active' = None
    /\ UNCHANGED <<contractVars, outside, address, stage, confirming, prepared,
                   op, envelopes>>

\* The page is closed or reloaded; localStorage stays.
Reload ==
    /\ address' = None /\ keyId' = None /\ active' = None /\ stage' = None
    /\ confirming' = FALSE
    /\ load' = NoLoad /\ prepared' = None /\ op' = Idle
    /\ pool' = [w \in Address |->
                   [i \in DOMAIN pool[w] |->
                       [pool[w][i] EXCEPT !.awaited = FALSE]]]
    /\ losses' = IF op.pc = "receipt" THEN losses + 1 ELSE losses
    /\ losses' <= MaxLost
    /\ UNCHANGED <<contractVars, envelopes, madeFor, lost, elsewhere>>

-----------------------------------------------------------------------------
(* register(): preparing. *)

Ready == keyId \in 1..KeyIdMax /\ active = TRUE

\* Mutant: what was prepared is used whatever wallet it is for.
IsPreparedAny(a) == prepared # None

IsPrepared(a) == prepared # None /\ prepared.address = a

Start(kind, pc, key) ==
    /\ address # None /\ op = Idle
    /\ op' = [pc |-> pc, kind |-> kind, address |-> address, key |-> key]
    /\ UNCHANGED <<contractVars, outside, address, shown, load,
                   prepared, envelopes>>

Prepare ==
    /\ ~Ready /\ ~IsPrepared(address)
    /\ Start("prepare", "passkey", None) /\ stage' = "creating-passkey"
    /\ UNCHANGED confirming

Fresh(p) == madeFor[p] = None
MakeFor(p, w) == madeFor' = [madeFor EXCEPT ![p] = w]

CreatePasskey ==
    /\ op.pc = "passkey"
    /\ \E p \in PublicKey :
          /\ Fresh(p) /\ MakeFor(p, op.address)
          /\ op' = [op EXCEPT !.pc = "recovery", !.key = p]
    /\ stage' = "locking-recovery"
    /\ UNCHANGED <<contractVars, pool, lost, losses, elsewhere, address,
                   shown, confirming, load, prepared, envelopes>>

LockRecovery ==
    /\ op.pc = "recovery" /\ op' = Idle
    /\ prepared' = [address |-> op.address, key |-> op.key]
    /\ stage' = "awaiting-wallet"
    /\ UNCHANGED <<contractVars, outside, address, shown, confirming, load,
                   envelopes>>

PrepareFails ==
    /\ op.kind = "prepare" /\ op' = Idle
    /\ prepared' = None /\ stage' = None
    /\ UNCHANGED <<contractVars, outside, address, shown, confirming, load,
                   envelopes>>

-----------------------------------------------------------------------------
(* register() of what was prepared, and deactivate(). *)

Register ==
    /\ ~Ready /\ IsPrepared(address)
    /\ Start("register", "provider", prepared.key)
    /\ stage' = "awaiting-wallet" /\ UNCHANGED confirming

\* The question before a deactivation; it stays open when the wallet changes.
AskDeactivate ==
    /\ address # None /\ op = Idle /\ Ready
    /\ ~confirming /\ confirming' = TRUE
    /\ UNCHANGED <<contractVars, outside, address, shown, stage, load,
                   prepared, op, envelopes>>

CancelDeactivate ==
    /\ op = Idle /\ confirming /\ confirming' = FALSE
    /\ UNCHANGED <<contractVars, outside, address, shown, stage, load,
                   prepared, op, envelopes>>

Deactivate ==
    /\ confirming /\ confirming' = FALSE
    /\ Start("deactivate", "provider", None) /\ stage' = "deactivating"

EnsureProvider ==
    /\ op.pc = "provider" /\ op' = [op EXCEPT !.pc = "approve"]
    /\ UNCHANGED <<contractVars, outside, address, screen, load, prepared,
                   envelopes>>

Submit(awaited) ==
    pool' = [pool EXCEPT ![op.address] =
        Append(@, [kind |-> op.kind, key |-> op.key, awaited |-> awaited])]

Approve ==
    /\ op.pc = "approve" /\ Submit(TRUE)
    /\ op' = [op EXCEPT !.pc = "receipt"]
    /\ stage' = IF op.kind = "register" THEN "confirming-registration"
                ELSE "confirming-deactivation"
    /\ UNCHANGED <<contractVars, madeFor, lost, losses, elsewhere, address,
                   shown, confirming, load, prepared, envelopes>>

\* Mutant: a failed registration has to be prepared again.
CatchForgets ==
    /\ op' = Idle /\ prepared' = None /\ stage' = None
    /\ UNCHANGED <<contractVars, address, shown, confirming, load, envelopes>>

\* The catch and finally blocks.
Catch ==
    /\ op' = Idle
    /\ stage' = IF op.kind = "deactivate" THEN None
                ELSE IF prepared # None THEN "awaiting-wallet" ELSE stage
    /\ UNCHANGED <<contractVars, address, shown, confirming, load, prepared,
                   envelopes>>

\* No wallet, a refused request, a reverted transaction.
CallFails ==
    /\ op.pc \in {"provider", "approve", "reverted"}
    /\ Catch /\ UNCHANGED outside

Lose ==
    /\ losses < MaxLost /\ losses' = losses + 1
    /\ lost' = IF op.key = None THEN lost ELSE lost \cup {op.key}
    /\ UNCHANGED <<madeFor, elsewhere>>

\* The wallet submits and its answer is lost; or the receipt times out; or
\* the key id cannot be read.
AnswerLost ==
    /\ Lose /\ Catch
    /\ \/ op.pc = "approve" /\ Submit(FALSE)
       \/ /\ op.pc = "receipt"
          /\ pool' = [pool EXCEPT ![op.address] =
                [i \in DOMAIN @ |-> [@[i] EXCEPT !.awaited = FALSE]]]
       \/ op.pc = "readKey" /\ UNCHANGED pool

\* Mutant: a reverted registration goes on.
ReceiptUnchecked ==
    /\ op.pc \in {"mined", "reverted"} /\ op.kind = "register"
    /\ op' = [op EXCEPT !.pc = "readKey"]
    /\ UNCHANGED <<contractVars, outside, address, screen, load, prepared,
                   envelopes>>

Receipt ==
    /\ op.pc = "mined" /\ op.kind = "register"
    /\ op' = [op EXCEPT !.pc = "readKey"]
    /\ UNCHANGED <<contractVars, outside, address, screen, load, prepared,
                   envelopes>>

\* Mutant: what was registered stays prepared.
ReadKeyKeepsPrepared ==
    /\ op.pc = "readKey" /\ op' = Idle
    /\ keyId' = currentKeyId[op.address] /\ active' = TRUE /\ stage' = None
    /\ envelopes' = [envelopes EXCEPT ![op.address][keyId'] = op.key]
    /\ UNCHANGED <<contractVars, outside, address, confirming, load, prepared>>

ReadKey ==
    /\ op.pc = "readKey" /\ op' = Idle
    /\ keyId' = currentKeyId[op.address] /\ active' = TRUE /\ stage' = None
    /\ envelopes' = [envelopes EXCEPT ![op.address][keyId'] = op.key]
    /\ prepared' = None
    /\ UNCHANGED <<contractVars, outside, address, confirming, load>>

Deactivated ==
    /\ op.pc = "mined" /\ op.kind = "deactivate" /\ op' = Idle
    /\ active' = FALSE /\ stage' = None
    /\ UNCHANGED <<contractVars, outside, address, keyId, confirming, load,
                   prepared, envelopes>>

-----------------------------------------------------------------------------
(* The chain and the owner's other device. *)

Execute(w, tx) ==
    IF tx.kind = "register" THEN Chain!RegisterMailboxKey(w, tx.key)
    ELSE Chain!DeactivateMailbox(w)

Reverts(w, tx) ==
    IF tx.kind = "register" THEN Chain!RegisterError(w, tx.key) # "none"
    ELSE Chain!DeactivateError(w) # "none"

\* Transactions of an owner are mined in the order of their nonces.
Mine(w) ==
    /\ pool[w] # << >>
    /\ pool' = [pool EXCEPT ![w] = Tail(@)]
    /\ LET tx == Head(pool[w]) IN
       /\ IF Reverts(w, tx) THEN UNCHANGED contractVars ELSE Execute(w, tx)
       /\ op' = IF tx.awaited
                THEN [op EXCEPT !.pc = IF Reverts(w, tx) THEN "reverted"
                                       ELSE "mined"]
                ELSE op
    /\ UNCHANGED <<madeFor, lost, losses, elsewhere, address, screen, load,
                   prepared, envelopes>>

Elsewhere(w) ==
    /\ elsewhere < MaxElsewhere /\ elsewhere' = elsewhere + 1
    /\ \/ \E p \in PublicKey :
             Fresh(p) /\ MakeFor(p, w) /\ Chain!RegisterMailboxKey(w, p)
       \/ Chain!DeactivateMailbox(w) /\ UNCHANGED madeFor
    /\ UNCHANGED <<pool, lost, losses, address, screen, load, prepared, op,
                   envelopes>>

\* The running call goes on.
OpStep ==
    \/ CreatePasskey \/ LockRecovery \/ PrepareFails
    \/ EnsureProvider \/ Approve \/ CallFails \/ AnswerLost
    \/ Receipt \/ ReadKey \/ Deactivated

Next ==
    \/ \E a \in Address \cup {None} : SetAddress(a)
    \/ LoadKeyId \/ LoadActive \/ LoadFails \/ Reload
    \/ Prepare \/ Register
    \/ AskDeactivate \/ CancelDeactivate \/ Deactivate
    \/ OpStep
    \/ \E w \in Address : Mine(w) \/ Elsewhere(w)

Spec == Init /\ [][Next]_vars

-----------------------------------------------------------------------------
(* Properties. *)

\* A key is registered for the wallet that its passkey was made for, although
\* the wallet may change while the passkey is made.  (register, line 99)
KeyOfItsWallet ==
    \A w \in Address, k \in 1..KeyIdMax :
        mailboxPublicKeys[w][k] # ZeroKey =>
            madeFor[mailboxPublicKeys[w][k]] = w

\* No key is registered twice, except when the page lost sight of its first
\* registration.  (register, the retry with preparedRegistration)
TwiceOnlyAfterLoss ==
    \A w \in Address, i, j \in 1..KeyIdMax :
        LET p == mailboxPublicKeys[w][i] IN
        i # j /\ p # ZeroKey /\ p = mailboxPublicKeys[w][j] => p \in lost

\* An envelope is stored under the key id that its key is registered with,
\* unless another device registered meanwhile.  (register, 129-137)
EnvelopeUnderItsKey ==
    elsewhere = 0 =>
        \A w \in Address, k \in 1..KeyIdMax :
            envelopes[w][k] # None => envelopes[w][k] = mailboxPublicKeys[w][k]

\* What was prepared for this wallet is kept through refusals and failures,
\* so that no retry makes another passkey.  (register, 143-155)
PreparedKept ==
    [][prepared # None /\ prepared' # prepared =>
          \/ address' # address \/ prepared.address # address
          \/ \E k \in 1..KeyIdMax :
                mailboxPublicKeys[address][k] = prepared.key]_vars
=============================================================================
