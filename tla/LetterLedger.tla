---------------------------- MODULE LetterLedger ----------------------------
(***************************************************************************)
(* What the Gibyeol2026 contract promises to everyone who only reads its   *)
(* event log: the inbox, the orphan collector, the Christmas postman and   *)
(* the recovery service rebuild all they know from eth_getLogs.  The state *)
(* is the log alone; each kind of event may be appended only when the log  *)
(* before it allows it.  contracts/src/Gibyeol2026.sol is shown to         *)
(* implement this specification.                                           *)
(***************************************************************************)
EXTENDS Integers, Sequences

CONSTANTS
    Address,     \* the accounts that own a mailbox or send a letter
    PublicKey,   \* the non-zero mailbox public keys
    LetterId,    \* letter identifiers, drawn by senders
    Archive,     \* SHA-256 of an encrypted package
    KeyIdMax     \* type(uint32).max in the contract

VARIABLE log     \* the contract's events, in block and log-index order

KeyId == 1..KeyIdMax

MailboxKeyRegistered ==
    [event: {"MailboxKeyRegistered"}, owner: Address, keyId: KeyId,
     publicKey: PublicKey]
MailboxDeactivated ==
    [event: {"MailboxDeactivated"}, owner: Address, keyId: KeyId]
LetterSealed ==
    [event: {"LetterSealed"}, letterId: LetterId, sender: Address,
     recipient: Address, recipientKeyId: KeyId, archiveSha256: Archive]

Event == MailboxKeyRegistered \cup MailboxDeactivated \cup LetterSealed

-----------------------------------------------------------------------------
(* Reading the log. *)

IsRegistration(e) == e.event = "MailboxKeyRegistered"
IsDeactivation(e) == e.event = "MailboxDeactivated"
IsSeal(e) == e.event = "LetterSealed"

\* Event e changes the mailbox of owner.
OfMailbox(e, owner) ==
    (IsRegistration(e) \/ IsDeactivation(e)) /\ e.owner = owner

\* owner has never touched its mailbox.
NoMailbox(owner) == \A i \in DOMAIN log : ~OfMailbox(log[i], owner)

\* The i-th event is the last one about owner's mailbox before position n.
LatestBefore(n, i, owner) ==
    /\ i \in DOMAIN log /\ i < n
    /\ OfMailbox(log[i], owner)
    /\ \A j \in DOMAIN log : i < j /\ j < n => ~OfMailbox(log[j], owner)

Latest(i, owner) == LatestBefore(Len(log) + 1, i, owner)

\* keyId is the key owner's mailbox is open under.
OpenUnder(owner, keyId) ==
    \E i \in DOMAIN log :
        Latest(i, owner) /\ IsRegistration(log[i]) /\ log[i].keyId = keyId

\* The letter is already in the log.
Recorded(letterId) ==
    \E i \in DOMAIN log : IsSeal(log[i]) /\ log[i].letterId = letterId

-----------------------------------------------------------------------------
Emit(e) == log' = Append(log, e)

\* A first registration has id 1; each later one the id after the last.
Register(owner, keyId, publicKey) ==
    /\ \/ NoMailbox(owner) /\ keyId = 1
       \/ \E i \in DOMAIN log : Latest(i, owner) /\ keyId = log[i].keyId + 1
    /\ Emit([event |-> "MailboxKeyRegistered", owner |-> owner,
                keyId |-> keyId, publicKey |-> publicKey])

\* Only an open mailbox is closed, and under the key it is open with.
Deactivate(owner, keyId) ==
    /\ OpenUnder(owner, keyId)
    /\ Emit([event |-> "MailboxDeactivated", owner |-> owner,
                keyId |-> keyId])

\* A letter is recorded once, to the key its recipient is open under.
Seal(letterId, sender, recipient, keyId, archive) ==
    /\ ~Recorded(letterId)
    /\ OpenUnder(recipient, keyId)
    /\ Emit([event |-> "LetterSealed", letterId |-> letterId,
                sender |-> sender, recipient |-> recipient,
                recipientKeyId |-> keyId, archiveSha256 |-> archive])

Init == log = << >>

Next ==
    \/ \E owner \in Address, keyId \in KeyId, publicKey \in PublicKey :
           Register(owner, keyId, publicKey)
    \/ \E owner \in Address, keyId \in KeyId : Deactivate(owner, keyId)
    \/ \E letterId \in LetterId, sender, recipient \in Address,
          keyId \in KeyId, archive \in Archive :
           Seal(letterId, sender, recipient, keyId, archive)

Spec == Init /\ [][Next]_log
=============================================================================
