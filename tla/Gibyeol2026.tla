----------------------------- MODULE Gibyeol2026 -----------------------------
(***************************************************************************)
(* The Base contract that keeps mailbox keys and sealed letters            *)
(* (contracts/src/Gibyeol2026.sol).  A transaction is atomic: each of the  *)
(* three external functions is one action.  A call that reverts changes    *)
(* nothing, so a revert is a stuttering step; which error it reports is    *)
(* the value of RegisterError, DeactivateError and SealError, whose tests  *)
(* are in the order of the code.  Calldata that the contract never reads   *)
(* (envelopes, ciphertext) is represented by its length only.              *)
(***************************************************************************)
EXTENDS Integers, Sequences

CONSTANTS
    Address,        \* accounts, without the zero address
    ZeroAddress,    \* address(0)
    PublicKey,      \* non-zero 32-byte mailbox keys
    ZeroKey,        \* bytes32(0), the value of an unset mapping slot
    LetterId,       \* 32-byte letter identifiers
    Archive,        \* SHA-256 of a GBYL package
    KeyIdMax,       \* type(uint32).max
    MaxTextBytes,   \* MAX_ENCRYPTED_TEXT_BYTES
    MaxSealedKeyBytes

ASSUME ContractAssumption ==
    /\ ZeroAddress \notin Address
    /\ ZeroKey \notin PublicKey
    /\ KeyIdMax \in Nat \ {0}
    /\ MaxTextBytes \in Nat /\ MaxSealedKeyBytes \in Nat

VARIABLES
    currentKeyId,        \* owner -> id of its newest key, 0 before the first
    mailboxPublicKeys,   \* owner -> key id -> key
    mailboxActive,       \* owner -> is the mailbox open
    sealedLetters,       \* letter id -> has it been sealed
    log                  \* every event emitted so far

stores == <<currentKeyId, mailboxPublicKeys, mailboxActive, sealedLetters>>
contractVars == <<currentKeyId, mailboxPublicKeys, mailboxActive,
                  sealedLetters, log>>

\* The readers' view of the log, and the specification it promises them.
Ledger == INSTANCE LetterLedger WITH log <- log

TypeOK ==
    /\ currentKeyId \in [Address -> 0..KeyIdMax]
    /\ mailboxPublicKeys \in
           [Address -> [0..KeyIdMax -> PublicKey \cup {ZeroKey}]]
    /\ mailboxActive \in [Address -> BOOLEAN]
    /\ sealedLetters \in [LetterId -> BOOLEAN]
    /\ log \in Seq(Ledger!Event)

Init ==
    /\ currentKeyId = [a \in Address |-> 0]
    /\ mailboxPublicKeys =
           [a \in Address |-> [k \in 0..KeyIdMax |-> ZeroKey]]
    /\ mailboxActive = [a \in Address |-> FALSE]
    /\ sealedLetters = [l \in LetterId |-> FALSE]
    /\ log = << >>

-----------------------------------------------------------------------------
\* Mutant: the exhausted counter is not refused.
RegisterErrorNoOverflow(sender, publicKey) ==
    IF publicKey = ZeroKey THEN "ZeroMailboxPublicKey" ELSE "none"

RegisterError(sender, publicKey) ==
    IF publicKey = ZeroKey THEN "ZeroMailboxPublicKey"
    ELSE IF currentKeyId[sender] = KeyIdMax THEN "MailboxKeyIdOverflow"
    ELSE "none"

\* Mutant: the id of a closed mailbox is used again when it reopens.
NextKeyIdReused(sender) ==
    IF ~mailboxActive[sender] /\ currentKeyId[sender] # 0
    THEN currentKeyId[sender] ELSE currentKeyId[sender] + 1

NextKeyId(sender) == currentKeyId[sender] + 1

\* Mutant: a registration forgets to reopen the mailbox.
RegisterMailboxKeyStaysClosed(sender, publicKey) ==
    /\ RegisterError(sender, publicKey) = "none"
    /\ LET keyId == NextKeyId(sender) IN
       /\ currentKeyId' = [currentKeyId EXCEPT ![sender] = keyId]
       /\ mailboxPublicKeys' =
              [mailboxPublicKeys EXCEPT ![sender][keyId] = publicKey]
       /\ Ledger!Emit([event |-> "MailboxKeyRegistered", owner |-> sender,
                       keyId |-> keyId, publicKey |-> publicKey])
    /\ UNCHANGED <<mailboxActive, sealedLetters>>

RegisterMailboxKey(sender, publicKey) ==
    /\ RegisterError(sender, publicKey) = "none"
    /\ LET keyId == NextKeyId(sender) IN
       /\ currentKeyId' = [currentKeyId EXCEPT ![sender] = keyId]
       /\ mailboxPublicKeys' =
              [mailboxPublicKeys EXCEPT ![sender][keyId] = publicKey]
       /\ mailboxActive' = [mailboxActive EXCEPT ![sender] = TRUE]
       /\ Ledger!Emit([event |-> "MailboxKeyRegistered", owner |-> sender,
                       keyId |-> keyId, publicKey |-> publicKey])
    /\ UNCHANGED sealedLetters

DeactivateError(sender) ==
    IF currentKeyId[sender] = 0 THEN "MailboxMissing"
    ELSE IF ~mailboxActive[sender] THEN "MailboxAlreadyInactive"
    ELSE "none"

DeactivateMailbox(sender) ==
    /\ DeactivateError(sender) = "none"
    /\ mailboxActive' = [mailboxActive EXCEPT ![sender] = FALSE]
    /\ Ledger!Emit([event |-> "MailboxDeactivated", owner |-> sender,
                    keyId |-> currentKeyId[sender]])
    /\ UNCHANGED <<currentKeyId, mailboxPublicKeys, sealedLetters>>

\* Mutant: any key the recipient ever registered is accepted.
SealErrorStale(letterId, recipient, keyId, textBytes, sealedKeyBytes) ==
    IF recipient = ZeroAddress THEN "ZeroRecipient"
    ELSE IF sealedLetters[letterId] THEN "LetterAlreadySealed"
    ELSE IF ~mailboxActive[recipient] THEN "RecipientMailboxInactive"
    ELSE IF mailboxPublicKeys[recipient][keyId] = ZeroKey
         THEN "RecipientMailboxMissing"
    ELSE "none"

SealError(letterId, recipient, keyId, textBytes, sealedKeyBytes) ==
    IF recipient = ZeroAddress THEN "ZeroRecipient"
    ELSE IF sealedLetters[letterId] THEN "LetterAlreadySealed"
    ELSE IF ~mailboxActive[recipient] THEN "RecipientMailboxInactive"
    ELSE IF currentKeyId[recipient] # keyId THEN "StaleRecipientKey"
    ELSE IF mailboxPublicKeys[recipient][keyId] = ZeroKey
         THEN "RecipientMailboxMissing"
    ELSE IF textBytes > MaxTextBytes THEN "EncryptedTextTooLarge"
    ELSE IF sealedKeyBytes > MaxSealedKeyBytes THEN "SealedKeyTooLarge"
    ELSE "none"

SealLetter(sender, letterId, recipient, keyId, textBytes, sealedKeyBytes, archive) ==
    /\ SealError(letterId, recipient, keyId, textBytes, sealedKeyBytes)
           = "none"
    /\ sealedLetters' = [sealedLetters EXCEPT ![letterId] = TRUE]
    /\ Ledger!Emit([event |-> "LetterSealed", letterId |-> letterId,
                    sender |-> sender, recipient |-> recipient,
                    recipientKeyId |-> keyId, archiveSha256 |-> archive])
    /\ UNCHANGED <<currentKeyId, mailboxPublicKeys, mailboxActive>>

-----------------------------------------------------------------------------
\* Callers may pass any value the ABI admits, the zero ones included.
RegisterAny ==
    \E sender \in Address, publicKey \in PublicKey \cup {ZeroKey} :
        RegisterMailboxKey(sender, publicKey)

DeactivateAny == \E sender \in Address : DeactivateMailbox(sender)

SealAny ==
    \E sender \in Address, letterId \in LetterId,
       recipient \in Address \cup {ZeroAddress}, keyId \in 0..KeyIdMax,
       archive \in Archive,
       textBytes \in {MaxTextBytes, MaxTextBytes + 1},
       sealedKeyBytes \in {MaxSealedKeyBytes, MaxSealedKeyBytes + 1} :
           SealLetter(sender, letterId, recipient, keyId, textBytes,
                      sealedKeyBytes, archive)

Next == RegisterAny \/ DeactivateAny \/ SealAny

Spec == Init /\ [][Next]_contractVars

-----------------------------------------------------------------------------
(* What the contract guarantees. *)

\* A reader that replays the log learns exactly the mailbox mappings: no
\* event means no key, the last event carries the newest key id and says
\* whether the mailbox is open.  (registerMailboxKey, deactivateMailbox)
LogTellsMailboxes ==
    \A owner \in Address :
        \/ /\ currentKeyId[owner] = 0
           /\ ~mailboxActive[owner]
           /\ Ledger!NoMailbox(owner)
        \/ /\ currentKeyId[owner] # 0
           /\ \E i \in DOMAIN log :
                 /\ Ledger!Latest(i, owner)
                 /\ log[i].keyId = currentKeyId[owner]
                 /\ mailboxActive[owner] <=> Ledger!IsRegistration(log[i])

\* The key a registration event announced is the one the mapping returns for
\* that id for ever after: a rotation never rewrites a key that letters
\* were sealed to, and ids above the newest one are unset.
KeysAreHistory ==
    /\ \A owner \in Address, k \in 0..KeyIdMax :
          mailboxPublicKeys[owner][k] # ZeroKey
              <=> k \in 1..currentKeyId[owner]
    /\ \A i \in DOMAIN log : Ledger!IsRegistration(log[i]) =>
          mailboxPublicKeys[log[i].owner][log[i].keyId] = log[i].publicKey

\* sealedLetters and the log agree, and no letter id is in the log twice,
\* whoever races to use it.  (sealLetter)
SealedOnce ==
    /\ \A l \in LetterId : sealedLetters[l] <=> Ledger!Recorded(l)
    /\ \A i, j \in DOMAIN log :
          Ledger!IsSeal(log[i]) /\ Ledger!IsSeal(log[j])
              /\ log[i].letterId = log[j].letterId => i = j

\* Every letter was sealed to a mailbox that was open, under the key that
\* was current, at its own position of the log.  (sealLetter)
SealedToLiveKey ==
    \A n \in DOMAIN log : Ledger!IsSeal(log[n]) =>
        \E i \in DOMAIN log :
            /\ Ledger!LatestBefore(n, i, log[n].recipient)
            /\ Ledger!IsRegistration(log[i])
            /\ log[i].keyId = log[n].recipientKeyId

\* The last of sealLetter's mailbox checks never fires: a mailbox that is
\* open under the supplied id has a key there.
MissingKeyUnreachable ==
    \A l \in LetterId, r \in Address, k \in 0..KeyIdMax :
        SealError(l, r, k, 0, 0) # "RecipientMailboxMissing"

\* At type(uint32).max the counter neither wraps nor is reused: the owner may
\* still close the mailbox, and once closed it stays closed.
ExhaustedStaysClosed ==
    [][\A o \in Address :
          currentKeyId[o] = KeyIdMax =>
              /\ currentKeyId'[o] = KeyIdMax
              /\ mailboxPublicKeys'[o] = mailboxPublicKeys[o]
              /\ mailboxActive'[o] => mailboxActive[o]]_contractVars

\* The contract implements the specification of its log.
ImplementsLedger == Ledger!Spec
=============================================================================
