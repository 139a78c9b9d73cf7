---------------------------- MODULE LetterDelivery ----------------------------
(***************************************************************************)
(* A letter from the files its sender chose to its recipient's screen:     *)
(* MediaPreparation makes the items, the seal of use-send-letter.ts packs  *)
(* and encrypts them, the contract records the letter, and Inbox reads it  *)
(* back.  A second letter comes from some other client.                    *)
(*                                                                         *)
(* SendLetter models how the sender's program survives failures; here the  *)
(* seal succeeds at once.                                                  *)
(***************************************************************************)
EXTENDS MediaPreparation, Inbox

CONSTANTS
    HonestText, ForeignText,   \* what they wrote
    Parcels,     \* bound: the items a letter is sealed with
    Honest,      \* the letter of this program
    Foreign      \* the letter of the other client

Texts == {HonestText, ForeignText}

\* An error is none of the values that come instead of it.
ASSUME DeliveryAssumption ==
    /\ Parcels # {}
    /\ \A items \in Parcels :
          /\ items # Bad /\ items \in Seq({items[i] : i \in DOMAIN items})
          /\ \A i \in DOMAIN items :
                /\ items[i] \in [type: Nat, codec: Nat,
                                content: {items[i].content}, size: Nat]
                /\ items[i].content # Bad
    /\ \A text \in Texts :
          /\ {text.size, text.gzip} \subseteq Nat
          /\ [text EXCEPT !.mark = FALSE] # Bad
          /\ \A zipped \in BOOLEAN : [text |-> text, zipped |-> zipped] # Bad
    /\ \A k \in 1..MaxKeys, letter \in {Honest, Foreign} :
          /\ Seed(k) # Bad /\ LetterKey(letter) # Bad
          /\ SealBox(LetterKey(letter), PublicOf(Seed(k))) # Bad

ASSUME KeyAssumption ==
    /\ TextKey(LetterKey(Honest)) # Bad
    /\ \A index \in 0..(MaxItems - 1) : MediaKey(LetterKey(Honest), index) # Bad

vars == <<mediaVars, inboxVars>>

\* The state of the sender's tab before anything was chosen.
Blank ==
    /\ prep' = [p \in Preparation |-> Resting]
    /\ held' = [p \in Preparation |-> {}]
    /\ core' = "none" /\ disk' = [f \in DOMAIN disk |-> Bad]
    /\ collided' = FALSE /\ mediaFaults' = 0
    /\ device' = [webp |-> TRUE, plays |-> TRUE, codecs |-> TRUE]

\* What seal packs and wraps for key id keyId, to be sent as letter.
Pack(letter, text, items, keyId) ==
    [kind |-> "letter", letter |-> letter, bytes |-> letter, block |-> 0,
     keyId |-> keyId, wrappedFor |-> keyId, text |-> text, items |-> items,
     direct |-> TRUE, honest |-> TRUE]

\* A browser tells the store the length of the body it sends.
Uploaded(archive) == StoreAccepts(archive, Total(archive))

Written == {chain[t].letter : t \in Letters}

\* A prepared parcel is sealed, and the sender's page is closed.  (A letter
\* that does not pack, or that the store refuses, is not sealed.)
SealParcel ==
    /\ Honest \notin Written /\ Blank
    /\ \E p \in Preparation :
          LET letter == Pack(Honest, HonestText, prep[p].items, CurrentKeyId)
          IN /\ prep[p].step = "done" /\ prep[p].items \in Parcels
             /\ TextBytes(letter) # Bad /\ Archive(Parcel(letter)) # Bad
             /\ Uploaded(Archive(Parcel(letter)))
             /\ Sealed(letter, LatestBlock + 1)

\* What another client may have sealed: a letter in its own right, through a
\* contract wallet, with the letter key under an old key of the mailbox, or
\* with the bytes of a letter that is already on the chain.
ForeignLetters ==
    LET proper == [Pack(Foreign, ForeignText,
                        CHOOSE items \in Parcels : TRUE, CurrentKeyId)
                   EXCEPT !.honest = FALSE]
    IN {proper, [proper EXCEPT !.direct = FALSE]}
       \cup {[proper EXCEPT !.wrappedFor = k] : k \in 1..(CurrentKeyId - 1)}
       \cup {[chain[t] EXCEPT !.letter = Foreign, !.keyId = CurrentKeyId,
                              !.honest = FALSE] : t \in Letters}

\* Bound: it is sealed before anyone sees Christmas come.
SealElsewhere ==
    /\ Honest \in Written /\ ~clock /\ UNCHANGED mediaVars
    /\ \E letter \in ForeignLetters, block \in NextBlock :
          /\ TextBytes(letter) # Bad /\ Archive(Parcel(letter)) # Bad
          /\ Sealed(letter, block)

-----------------------------------------------------------------------------

TypeOK == MediaTypeOK /\ InboxTypeOK

Init == MediaInit /\ InboxInit

\* The recipient's side moves once the letter is on its way: before, there is
\* nothing to read.
Next ==
    \/ Honest \notin Written /\ MediaNext /\ UNCHANGED inboxVars
    \/ SealParcel
    \/ Honest \in Written /\ InboxNext /\ UNCHANGED mediaVars
    \/ SealElsewhere

Spec == Init /\ [][Next]_vars

-----------------------------------------------------------------------------

\* A parcel may be prepared with more items than the format counts: nothing
\* before the packer looks at their number, and the packer refuses them.
Prepared ==
    {p \in Preparation : prep[p].step = "done" /\ Len(prep[p].items) <= MaxItems}

\* Any other prepared parcel packs without an error, in exactly as many bytes
\* as the page told its writer, and the store keeps it.
\* (estimateGbylBytes, packGbyl, GbylValidator)
PackedParcel(p) ==
    Archive([bytes |-> Honest, items |-> prep[p].items])
ParcelFits ==
    \A p \in Prepared :
        /\ PackedParcel(p) # Bad
        /\ Total(PackedParcel(p)) = Estimate(prep[p].items)
        /\ Uploaded(PackedParcel(p))

TextDamageShows ==
    LET key == LetterKey(Honest)
        context == ContextFor(Honest)
    IN \A text \in Texts :
          LET packed == EncryptText(text, key, context)
          IN packed # Bad =>
             /\ DecryptText(packed, key, context) = [text EXCEPT !.mark = FALSE]
             /\ \A damaged \in DamagedText(packed) :
                   DecryptText(damaged, key, context) = Bad

\* A packed parcel and a packed text open as what they were, and with damage in
\* any one place not at all, the codec of an item apart: nothing but the
\* recorded hash protects that.  (docs/verification-plan.md:11, 19-21)
DamageShows ==
    LET key == LetterKey(Honest)
        context == ContextFor(Honest)
    IN /\ TextDamageShows
       /\ \A p \in Prepared :
             LET packed == PackedParcel(p)
             IN packed # Bad =>
                /\ DecryptGbyl(packed, key, context) = prep[p].items
                /\ \A archive \in DamagedGbyl(packed) :
                      DecryptGbyl(archive, key, context) = Bad
=============================================================================
