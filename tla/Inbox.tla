-------------------------------- MODULE Inbox --------------------------------
(***************************************************************************)
(* Reading letters in one browser tab: the hook useInbox, the chain reader *)
(* onchain-inbox.ts, the buttons of InboxFlow, InboxList, ChristmasArrival *)
(* and RecoveryPanel, the passkey of passkey.ts, and what the recovery and *)
(* e-mail endpoints answer.                                                *)
(*                                                                         *)
(* The chain grows and the store keeps packages while the tab reads.  A    *)
(* transaction is known by its place in the chain.  A call is an           *)
(* asynchronous function that a button started; step names what it waits   *)
(* for.  Leaving the inbox does not stop its calls.                        *)
(***************************************************************************)
EXTENDS LetterFormats, FiniteSets

CONSTANTS
    Me,              \* the wallet whose inbox it is
    Sender,          \* the wallet that writes to it
    PageBlocks,      \* MAX_LOG_BLOCKS
    MaxKeys,         \* bound on the keys of the mailbox
    Slots,           \* bound on the calls in flight
    MaxBoxFaults     \* bound on failures, losses and leaving the page

ASSUME InboxAssumption ==
    /\ {PageBlocks, MaxKeys} \subseteq Nat \ {0}
    /\ {Slots, MaxBoxFaults} \subseteq Nat

VARIABLES
    chain,        \* transactions that were mined, in order
    packages,     \* parcels whose archive the package store has
    published,    \* the drand network has reached the unlock round
    passkeys,     \* key ids whose passkey the device still has
    clock,        \* this device's clock, last looked at, said Christmas
    box,          \* state of the mounted hook, of InboxFlow and RecoveryPanel
    calls,        \* slot -> the call in it
    secrets,      \* slot -> the buffers with secrets that it holds
    boxFaults

world == <<chain, packages, published, passkeys, clock>>
inboxVars == <<world, box, calls, secrets, boxFaults>>

Slot == 1..Slots
NoTx == 0
NoCall == [kind |-> "idle", step |-> "none", tx |-> NoTx, head |-> 0,
           ranges |-> << >>, logs |-> << >>, seed |-> Bad,
           archive |-> Bad, key |-> Bad, newest |-> FALSE, current |-> TRUE]
NoError == [tx |-> NoTx, reason |-> "none"]

\* A hook that has just been mounted, and one that is not.
Mounted == [here |-> TRUE, letters |-> << >>, head |-> 0, selected |-> NoTx,
            opened |-> Bad, openedTx |-> NoTx, busy |-> FALSE,
            error |-> NoError, recovery |-> NoTx, codeSent |-> FALSE]
Unmounted == [Mounted EXCEPT !.here = FALSE]

Buffers == {"privateKey", "letterKey", "mailboxSeed", "clientSeed",
            "clientKey", "recoveryCiphertext"}
Reasons == {"none", "fault", "envelopes", "passkey", "early", "code", "proof",
            "key", "calldata", "package", "letterKey", "content"}

-----------------------------------------------------------------------------
(* The chain and the store. *)

LatestBlock == IF chain = << >> THEN 0 ELSE chain[Len(chain)].block
Tx == DOMAIN chain
IsLetter(t) == chain[t].kind = "letter"
Letters == {t \in Tx : IsLetter(t)}
Keys == Tx \ Letters
CurrentKeyId == Cardinality(Keys)

Seed(keyId) == <<Me, keyId>>
Prf(keyId, salt) == <<"prf", keyId, salt>>
RecoveryKey == [public |-> "recovery", private |-> "recovery"]
LetterKey(letter) == <<"letterKey", letter>>

\* A transaction is recorded as what its data was made of.  registerMailboxKey
\* carries the public key and the envelopes of createPasskeyMailbox and
\* createRecoveryEnvelope; the key id stands for the passkey's credential.
Registration(keyId, block) == [kind |-> "key", keyId |-> keyId, block |-> block]
PublicKey(k) == PublicOf(Seed(k.keyId))
PasskeyEnvelope(k) ==
    WrapSeed(Seed(k.keyId), k.keyId, Prf(k.keyId, "salt"), "salt")
RecoveryEnvelope(k) == Tlock(SealBox(Seed(k.keyId), RecoveryKey.public))

\* sealLetter carries a text and the letter key, and the hash of an archive:
\* what was encrypted for the letter id bytes, the key wrapped for a mailbox
\* key.  A parcel is the contents of an archive.
Parcel(l) == [bytes |-> l.bytes, items |-> l.items]
ContextFor(letter) == Context(letter, Sender, Me)
TextBytes(l) == EncryptText(l.text, LetterKey(l.bytes), ContextFor(l.bytes))
Archive(parcel) ==
    PackGbyl(parcel.items, LetterKey(parcel.bytes), ContextFor(parcel.bytes))
SealedKey(l) == WrapLetterKey(LetterKey(l.bytes), PublicOf(Seed(l.wrappedFor)))

\* A block may get a transaction only until a reader was told of it.
Seen == {box.head} \cup {calls[c].head : c \in Slot}
NextBlock ==
    {block \in {LatestBlock, LatestBlock + 1} : \A head \in Seen : head < block}

\* The owner rotates the key, in a block of its own; the old passkeys stay on
\* the device.
RotateKey ==
    /\ CurrentKeyId < MaxKeys /\ passkeys' = passkeys \cup {CurrentKeyId + 1}
    /\ chain' = Append(chain, Registration(CurrentKeyId + 1, LatestBlock + 1))
    /\ UNCHANGED <<packages, published, clock, box, calls,
                   secrets, boxFaults>>

\* sealLetter is mined for this wallet: the contract takes only the current
\* key id and an unused letter id, the store only what parses.
Sealed(letter, block) ==
    /\ letter.keyId = CurrentKeyId
    /\ \A t \in Letters : chain[t].letter # letter.letter
    /\ chain' = Append(chain, [letter EXCEPT !.block = block])
    /\ packages' = IF GbylParses(Archive(Parcel(letter)))
                   THEN packages \cup {Parcel(letter)} ELSE packages
    /\ UNCHANGED <<published, passkeys, clock, box, calls,
                   secrets, boxFaults>>

\* Bound: the device's clock may be ahead of drand, and is not behind: a late
\* one only leaves the buttons disabled for longer.
Publish ==
    /\ clock /\ ~published /\ published' = TRUE
    /\ UNCHANGED <<chain, packages, passkeys, clock, box, calls,
                   secrets, boxFaults>>

\* The hourly look at the device's clock finds that the date has come.
Countdown ==
    /\ ~clock /\ clock' = TRUE
    /\ UNCHANGED <<chain, packages, published, passkeys, box,
                   calls, secrets, boxFaults>>

BoxFault == boxFaults < MaxBoxFaults /\ boxFaults' = boxFaults + 1

LosePasskey ==
    /\ \E k \in passkeys : passkeys' = passkeys \ {k}
    /\ BoxFault /\ UNCHANGED <<chain, packages, published, clock, box,
                               calls, secrets>>

-----------------------------------------------------------------------------
(* Calls. *)

Free(c) == calls[c] = NoCall /\ \A d \in 1..(c - 1) : calls[d] # NoCall
At(c, kinds, step) == calls[c].kind \in kinds /\ calls[c].step = step
Call(kind, step, tx) ==
    [NoCall EXCEPT !.kind = kind, !.step = step, !.tx = tx]
Becomes(c, call) == calls' = [calls EXCEPT ![c] = call]

\* Mutant: recover erases only what it made itself.
ErasedButSeed(call) ==
    (IF call.step \in {"key", "package", "unlock", "decrypt"}
     THEN {"privateKey", "letterKey"} ELSE {})
    \cup (IF call.kind = "recover"
          THEN {"clientSeed", "clientKey", "recoveryCiphertext"} ELSE {})

\* The buffers that the finally blocks around a step fill with zeros: those of
\* decryptWith, and those of recover.
Erased(call) ==
    (IF call.step \in {"key", "package", "unlock", "decrypt"}
     THEN {"privateKey", "letterKey"} ELSE {})
    \cup (IF call.kind = "recover"
          THEN {"mailboxSeed", "clientSeed", "clientKey", "recoveryCiphertext"}
          ELSE {})

\* A call ends and shows new; one whose inbox was left shows nothing.
Ends(c, new) ==
    /\ Becomes(c, NoCall)
    /\ secrets' = [secrets EXCEPT ![c] = @ \ Erased(calls[c])]
    /\ box' = IF calls[c].current THEN [new EXCEPT !.busy = FALSE] ELSE box

\* What the catch and finally blocks do.
Refuse(c, reason) ==
    Ends(c, [box EXCEPT !.error = [tx |-> calls[c].tx, reason |-> reason]])

Awaits(c, call, buffers) ==
    /\ Becomes(c, call) /\ secrets' = [secrets EXCEPT ![c] = @ \cup buffers]
    /\ UNCHANGED box

Quiet == UNCHANGED <<world, boxFaults>>

\* A request fails, or a question of the browser is refused.
CallFails(c) ==
    /\ calls[c].kind \in {"open", "code", "recover"} /\ Refuse(c, "fault")
    /\ BoxFault /\ UNCHANGED world

-----------------------------------------------------------------------------
(* Loading the letters. *)

Pages(from, to, step) ==
    IF to < from THEN << >>
    ELSE [i \in 1..((to - from) \div PageBlocks + 1) |->
             LET start == from + (i - 1) * PageBlocks
                 end == start + step
             IN [from |-> start, to |-> IF end < to THEN end ELSE to]]

\* Mutant: the next page begins at the last block of this one.
BlockRangesShared(from, to) == Pages(from, to, PageBlocks)

\* blockRanges: both ends belong to a range.
BlockRanges(from, to) == Pages(from, to, PageBlocks - 1)

\* The newest block first.  The comparison answers "after" for equal blocks
\* either way round, so their order is the engine's.
NewestFirst(logs) ==
    {s \in {[i \in DOMAIN logs |-> logs[p[i]]] :
                p \in Bijection(DOMAIN logs, DOMAIN logs)} :
        \A i, j \in DOMAIN s : i < j => chain[s[i]].block >= chain[s[j]].block}

\* refresh: an older one will not be listened to.
Refresh(c, new) ==
    /\ Free(c) /\ UNCHANGED secrets
    /\ calls' = [d \in Slot |->
           IF d = c THEN [Call("refresh", "head", NoTx) EXCEPT !.newest = TRUE]
           ELSE [calls[d] EXCEPT !.newest = FALSE]]
    /\ box' = [new EXCEPT !.selected = NoTx, !.busy = TRUE, !.error = NoError]

\* InboxFlow is mounted: an effect starts a refresh.
Enter(c) == ~box.here /\ Refresh(c, Mounted) /\ Quiet

\* The page is left, whatever runs.
Leave ==
    /\ box.here /\ BoxFault /\ box' = Unmounted
    /\ calls' = [d \in Slot |->
           IF calls[d] = NoCall THEN NoCall
           ELSE [calls[d] EXCEPT !.newest = FALSE, !.current = FALSE]]
    /\ UNCHANGED <<world, secrets>>

RefreshHead(c) ==
    /\ At(c, {"refresh"}, "head")
    /\ Awaits(c, [calls[c] EXCEPT !.step = "page", !.head = LatestBlock,
                     !.ranges = BlockRanges(1, LatestBlock)], {})
    /\ UNCHANGED <<world, boxFaults>>

\* What getLogs answers for one range: the letters to this wallet, in order.
Found(r) == {t \in Letters : chain[t].block \in r.from .. r.to}
Logs(r) ==
    {s \in [1..Cardinality(Found(r)) -> Found(r)] :
        \A i, j \in DOMAIN s : i < j => s[i] < s[j]}

RefreshPage(c) ==
    /\ At(c, {"refresh"}, "page") /\ calls[c].ranges # << >> /\ Quiet
    /\ \E logs \in Logs(calls[c].ranges[1]) :
          Awaits(c, [calls[c] EXCEPT !.ranges = Tail(@),
                                     !.logs = @ \o logs], {})

LettersLoaded(c) ==
    /\ At(c, {"refresh"}, "page") /\ calls[c].ranges = << >>
    /\ Becomes(c, NoCall) /\ UNCHANGED secrets /\ Quiet
    /\ IF calls[c].newest
       THEN \E s \in NewestFirst(calls[c].logs) :
               box' = [box EXCEPT !.letters = s, !.head = calls[c].head,
                                  !.busy = FALSE]
       ELSE UNCHANGED box

RefreshFails(c) ==
    /\ calls[c].kind = "refresh" /\ Becomes(c, NoCall) /\ UNCHANGED secrets
    /\ box' = IF calls[c].newest
              THEN [box EXCEPT !.busy = FALSE,
                               !.error = [tx |-> NoTx, reason |-> "fault"]]
              ELSE box
    /\ BoxFault /\ UNCHANGED world

-----------------------------------------------------------------------------
(* The buttons. *)

\* The list is not shown with an error, unless the recovery panel shows it.
ListError == box.recovery = NoTx /\ box.error # NoError
Listed == {box.letters[i] : i \in DOMAIN box.letters}

\* Mutant: the buttons of the list work while a call runs.
PressableAnyTime == IF clock /\ ~ListError THEN Listed ELSE {}

\* The letters whose buttons in the list work.
Pressable == IF clock /\ ~box.busy /\ ~ListError THEN Listed ELSE {}

\* ChristmasArrival opens the first of the list.
FirstButton ==
    IF clock /\ ~box.busy /\ box.letters # << >> THEN {box.letters[1]} ELSE {}

\* The button of the error.
RetryButton == ListError /\ ~box.busy

\* open, from the list, the arrival or the retry of what was selected.
Open(c, t) ==
    /\ Free(c) /\ UNCHANGED secrets /\ Quiet
    /\ \/ t \in Pressable \cup FirstButton
       \/ RetryButton /\ t = box.selected /\ t # NoTx
    /\ Becomes(c, Call("open", "envelopes", t))
    /\ box' = [box EXCEPT !.selected = t, !.opened = Bad, !.openedTx = NoTx,
                          !.busy = TRUE, !.error = NoError]

\* Retry without a selection, or the refresh button of an empty list.
RefreshAgain(c) ==
    /\ \/ RetryButton /\ box.selected = NoTx
       \/ box.here /\ ~box.busy /\ ~ListError /\ box.letters = << >>
    /\ Refresh(c, box) /\ Quiet

OpenPanel(t) ==
    /\ t \in Pressable /\ t # box.recovery
    /\ box' = [box EXCEPT !.recovery = t]
    /\ UNCHANGED <<calls, secrets>> /\ Quiet

ClosePanel ==
    /\ box.recovery # NoTx /\ ~box.busy
    /\ box' = [box EXCEPT !.recovery = NoTx, !.codeSent = FALSE]
    /\ UNCHANGED <<calls, secrets>> /\ Quiet

FromPanel(c, kind, step) ==
    /\ box.recovery # NoTx /\ ~box.busy /\ Free(c)
    /\ Becomes(c, Call(kind, step, box.recovery))
    /\ box' = [box EXCEPT !.busy = TRUE, !.error = NoError]
    /\ UNCHANGED secrets /\ Quiet

RequestCode(c) == FromPanel(c, "code", "mail")
Recover(c) == box.codeSent /\ FromPanel(c, "recover", "verify")

CodeSent(c) ==
    /\ At(c, {"code"}, "mail") /\ Ends(c, [box EXCEPT !.codeSent = TRUE])
    /\ Quiet

\* The right code is entered, which proves the e-mail for ten minutes, or not.
Verified(c) ==
    /\ At(c, {"recover"}, "verify") /\ Quiet
    /\ \/ Awaits(c, [calls[c] EXCEPT !.step = "envelopes"], {})
       \/ Refuse(c, "code")

-----------------------------------------------------------------------------
(* Opening a letter, with the passkey or with a recovered seed. *)

LetterOf(c) == chain[calls[c].tx]

\* Mutant: the envelopes of the newest key are taken.
RegistrationsAll(keyId) == Keys

Registrations(keyId) == {t \in Keys : chain[t].keyId = keyId}

\* loadMailboxEnvelopes: the last registration of the letter's key.
Envelopes(keyId) ==
    chain[CHOOSE t \in Registrations(keyId) :
              \A u \in Registrations(keyId) : u <= t]

LoadEnvelopes(c) ==
    /\ At(c, {"open", "recover"}, "envelopes")
    /\ UNCHANGED <<world, boxFaults>>
    /\ IF Registrations(LetterOf(c).keyId) = {} THEN Refuse(c, "envelopes")
       ELSE Awaits(c, [calls[c] EXCEPT !.step =
                IF calls[c].kind = "open" THEN "passkey" ELSE "tlock"], {})

\* openPasskeyMailbox: the authenticator answers for the envelope's credential
\* and salt.  The seed itself is erased once the key pair is made.
UsePasskey(c) ==
    LET envelope == PasskeyEnvelope(Envelopes(LetterOf(c).keyId))
        credential == envelope[3].value
        seed == UnwrapSeed(envelope, Prf(credential, envelope[4].value))
    IN /\ At(c, {"open"}, "passkey") /\ Quiet
       /\ IF credential \notin passkeys THEN Refuse(c, "passkey")
          ELSE IF seed = Bad THEN Refuse(c, "envelopes")
          ELSE Awaits(c, [calls[c] EXCEPT !.step = "key", !.seed = seed],
                     {"privateKey"})

\* The time lock of the recovery envelope opens, and a key pair is made for
\* the server's answer.  (The text and the client seed are made before the try
\* whose finally erases them; in between only a module is imported that the
\* page has loaded already, which cannot fail.)
OpenRecovery(c) ==
    /\ At(c, {"recover"}, "tlock") /\ Quiet
    /\ IF TlockOpen(RecoveryEnvelope(Envelopes(LetterOf(c).keyId)),
                    published) = Bad
       THEN Refuse(c, "early")
       ELSE Awaits(c, [calls[c] EXCEPT !.step = "unwrap"],
                  {"clientSeed", "clientKey", "recoveryCiphertext"})

\* POST /recovery/unwrap: the server wants the seed of the registered key, and
\* a proof of the e-mail that is not ten minutes old: the one that this call
\* began with, unless it took that long.
Unwrapped(c) ==
    LET e == Envelopes(LetterOf(c).keyId)
        sealed == TlockOpen(RecoveryEnvelope(e), published)
        seed == OpenSealBox(sealed, RecoveryKey)
    IN /\ At(c, {"recover"}, "unwrap") /\ UNCHANGED world
       /\ \/ BoxFault /\ Refuse(c, "proof")
          \/ /\ UNCHANGED boxFaults
             /\ IF seed = Bad \/ PublicOf(seed) # PublicKey(e)
                THEN Refuse(c, "envelopes")
                ELSE Awaits(c, [calls[c] EXCEPT !.step = "key", !.seed = seed],
                            {"mailboxSeed", "privateKey"})

\* mailboxPublicKeys of the contract: what was registered never changes.
RegisteredKey(keyId) ==
    PublicKey(chain[CHOOSE t \in Keys : chain[t].keyId = keyId])

\* decryptWith, its two reads of the chain: the pair must be that of the key,
\* and the data of the transaction must decode to the sealLetter call of just
\* this letter, which is what direct says of it; whom the transaction was sent
\* to is not looked at.
CheckKey(c) ==
    /\ At(c, {"open", "recover"}, "key") /\ Quiet
    /\ IF PublicOf(calls[c].seed) # RegisteredKey(LetterOf(c).keyId)
       THEN Refuse(c, "key")
       ELSE IF ~LetterOf(c).direct THEN Refuse(c, "calldata")
       ELSE Awaits(c, [calls[c] EXCEPT !.step = "package"], {})

\* Mutant: any package is taken that parses.
MatchesAny(archive, hash) == GbylParses(archive)

\* The SHA-256 of the package is the recorded one.
Matches(archive, hash) == archive = hash

\* Bytes the store or the network may return instead of an archive: another
\* codec of an item, which no other check would notice.
Recoded(archive) ==
    {[archive EXCEPT ![6 * i].value = IF @ \in {1, 16} THEN @ + 1 ELSE @ - 1] :
        i \in 1..archive[4].value}

FetchPackage(c) ==
    /\ At(c, {"open", "recover"}, "package")
    /\ \E fault \in BOOLEAN :
          LET archive == Archive(Parcel(LetterOf(c)))
              got == IF fault THEN Recoded(archive)
                     ELSE {archive : q \in packages \cap {Parcel(LetterOf(c))}}
          IN /\ IF fault THEN BoxFault ELSE UNCHANGED boxFaults
             /\ \/ got = {} /\ Refuse(c, "package")
                \/ \E a \in got :
                      IF Matches(a, archive)
                      THEN Awaits(c, [calls[c] EXCEPT !.step = "unlock",
                                                     !.archive = a], {})
                      ELSE Refuse(c, "package")
    /\ UNCHANGED world

\* The time lock opens, and the key pair opens what was inside.
Unlock(c) ==
    LET key == UnwrapLetterKey(SealedKey(LetterOf(c)), KeyPair(calls[c].seed),
                               published)
    IN /\ At(c, {"open", "recover"}, "unlock") /\ Quiet
       /\ IF ~published THEN Refuse(c, "early")
          ELSE IF key = Bad THEN Refuse(c, "letterKey")
          ELSE Awaits(c, [calls[c] EXCEPT !.step = "decrypt", !.key = key],
                      {"letterKey"})

\* Text and media are decrypted, and shown; a recovery closes its panel.
Show(c) ==
    LET context == ContextFor(LetterOf(c).letter)
        message == DecryptText(TextBytes(LetterOf(c)), calls[c].key, context)
        media == DecryptGbyl(calls[c].archive, calls[c].key, context)
        recovering == calls[c].kind = "recover"
    IN /\ At(c, {"open", "recover"}, "decrypt") /\ Quiet
       /\ IF message = Bad \/ media = Bad THEN Refuse(c, "content")
          ELSE Ends(c, [box EXCEPT
                  !.opened = [message |-> message, media |-> media],
                  !.openedTx = calls[c].tx,
                  !.recovery = IF recovering THEN NoTx ELSE @,
                  !.codeSent = IF recovering THEN FALSE ELSE @])

-----------------------------------------------------------------------------

InboxTypeOK ==
    /\ passkeys \subseteq 1..MaxKeys
    /\ {published, clock} \subseteq BOOLEAN
    /\ {box.here, box.busy, box.codeSent} \subseteq BOOLEAN
    /\ {box.selected, box.openedTx, box.recovery} \subseteq Letters \cup {NoTx}
    /\ Listed \subseteq Letters
    /\ box.error \in [tx : Letters \cup {NoTx}, reason : Reasons]
    /\ \A c \in Slot : secrets[c] \subseteq Buffers
    /\ boxFaults \in 0..MaxBoxFaults

\* The mailbox was registered, and nobody has written to it yet.
InboxInit ==
    /\ chain = <<Registration(1, 1)>> /\ packages = {}
    /\ published = FALSE /\ passkeys = {1} /\ clock = FALSE
    /\ box = Unmounted /\ calls = [c \in Slot |-> NoCall]
    /\ secrets = [c \in Slot |-> {}] /\ boxFaults = 0

\* The steps that a call takes of its own accord.
CallStep(c) ==
    \/ RefreshHead(c) \/ RefreshPage(c) \/ LettersLoaded(c)
    \/ CodeSent(c) \/ Verified(c) \/ LoadEnvelopes(c)
    \/ UsePasskey(c) \/ OpenRecovery(c) \/ Unwrapped(c)
    \/ CheckKey(c) \/ FetchPackage(c) \/ Unlock(c)
    \/ Show(c)

InboxNext ==
    \/ \E c \in Slot :
          \/ CallStep(c) \/ CallFails(c) \/ RefreshFails(c)
          \/ Enter(c) \/ RefreshAgain(c) \/ RequestCode(c) \/ Recover(c)
          \/ \E t \in Letters : Open(c, t)
    \/ \E t \in Letters : OpenPanel(t)
    \/ ClosePanel \/ Leave \/ RotateKey \/ Publish \/ Countdown
    \/ LosePasskey

-----------------------------------------------------------------------------
(* Properties. *)

\* The list shows every letter to this wallet up to the block that was the
\* latest when it was loaded, each once and the newest block first, although
\* letters arrive while its pages are read.  (loadInbox, blockRanges)
LettersComplete ==
    /\ Listed = {t \in Letters : chain[t].block <= box.head}
    /\ Len(box.letters) = Cardinality(Listed)
    /\ \A i, j \in DOMAIN box.letters :
          i < j => chain[box.letters[i]].block >= chain[box.letters[j]].block

\* Only one call of the mounted inbox runs, and the inbox is busy just as long:
\* two would share the busy flag, and the letter shown would be that of the
\* slower; none would leave the buttons disabled for good.
\* (the disabled buttons of InboxFlow.tsx:34, use-inbox.ts:91)
OneAtATime ==
    LET live == {c \in Slot : calls[c] # NoCall /\ calls[c].current}
    IN Cardinality(live) <= 1 /\ (box.busy <=> live # {})

\* A call that has ended left no private key, seed or opened recovery envelope
\* in memory, whichever step it failed at.  (docs/security.md:32, the finally
\* blocks of use-inbox.ts:85, 129, 132)
SecretsErased == \A c \in Slot : calls[c] = NoCall => secrets[c] = {}

\* What is shown as a letter is the text and the media its author sealed, in
\* order, less a byte order mark before the text.  (use-inbox.ts:70-84)
OpenedIsAuthentic ==
    box.opened # Bad =>
        LET l == chain[box.openedTx]
        IN /\ l.letter = l.bytes
           /\ box.opened.message = [l.text EXCEPT !.mark = FALSE]
           /\ box.opened.media = l.items

\* A letter that was sealed by this program, with its wallet calling the
\* contract itself, is never refused for its keys or its content: not after
\* the owner rotated the key, not in a recovery.  (decryptWith,
\* loadMailboxEnvelopes)
HonestLetterOpens ==
    box.error.reason \in
        {"envelopes", "key", "calldata", "letterKey", "content"}
    => ~chain[box.error.tx].honest
=============================================================================
