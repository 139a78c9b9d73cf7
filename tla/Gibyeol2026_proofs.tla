------------------------- MODULE Gibyeol2026_proofs -------------------------
(***************************************************************************)
(* For every set of accounts, keys, letters and archives and every         *)
(* KeyIdMax: the contract's type invariant, the agreement of its mappings  *)
(* with its log, single and live-key sealing, and the implementation of    *)
(* LetterLedger.                                                           *)
(***************************************************************************)
EXTENDS Gibyeol2026, TLAPS

\* Appending to a log leaves its earlier entries alone and adds one.
LEMMA EmitFacts ==
    ASSUME log \in Seq(Ledger!Event), NEW e \in Ledger!Event,
           log' = Append(log, e)
    PROVE  /\ Len(log) \in Nat /\ DOMAIN log = 1..Len(log)
           /\ log' \in Seq(Ledger!Event)
           /\ Len(log') = Len(log) + 1
           /\ DOMAIN log' = 1..(Len(log) + 1)
           /\ \A i \in DOMAIN log : log'[i] = log[i] /\ log[i] \in Ledger!Event
           /\ log'[Len(log) + 1] = e
  OBVIOUS

\* What a reader had found below a position does not change later.
LEMMA LatestBeforeStable ==
    ASSUME log \in Seq(Ledger!Event), NEW e \in Ledger!Event,
           log' = Append(log, e), NEW o \in Address,
           NEW n \in 1..(Len(log) + 1), NEW i \in Int
    PROVE  Ledger!LatestBefore(n, i, o)' <=> Ledger!LatestBefore(n, i, o)
  BY EmitFacts DEF Ledger!LatestBefore, Ledger!OfMailbox,
     Ledger!IsRegistration, Ledger!IsDeactivation

\* An event of another kind or owner leaves the latest one in place.
LEMMA LatestUnmoved ==
    ASSUME log \in Seq(Ledger!Event), NEW e \in Ledger!Event,
           log' = Append(log, e), NEW o \in Address,
           ~Ledger!OfMailbox(e, o), NEW i \in Int
    PROVE  /\ Ledger!Latest(i, o)' <=> Ledger!Latest(i, o)
           /\ Ledger!NoMailbox(o)' <=> Ledger!NoMailbox(o)
  BY EmitFacts DEF Ledger!Latest, Ledger!LatestBefore, Ledger!NoMailbox,
     Ledger!OfMailbox, Ledger!IsRegistration, Ledger!IsDeactivation

\* An event of the owner's mailbox becomes its latest.
LEMMA LatestMoves ==
    ASSUME log \in Seq(Ledger!Event), NEW e \in Ledger!Event,
           log' = Append(log, e), NEW o \in Address,
           Ledger!OfMailbox(e, o), NEW i \in Int
    PROVE  /\ Ledger!Latest(i, o)' <=> i = Len(log) + 1
           /\ ~Ledger!NoMailbox(o)'
  BY EmitFacts DEF Ledger!Latest, Ledger!LatestBefore, Ledger!NoMailbox,
     Ledger!OfMailbox, Ledger!IsRegistration, Ledger!IsDeactivation

\* The events the three functions emit are events of the ledger.
LEMMA EventTypes ==
    /\ \A o \in Address, k \in 1..KeyIdMax, p \in PublicKey :
          [event |-> "MailboxKeyRegistered", owner |-> o, keyId |-> k,
           publicKey |-> p] \in Ledger!Event
    /\ \A o \in Address, k \in 1..KeyIdMax :
          [event |-> "MailboxDeactivated", owner |-> o, keyId |-> k]
              \in Ledger!Event
    /\ \A l \in LetterId, s \in Address, r \in Address, k \in 1..KeyIdMax,
          a \in Archive :
          [event |-> "LetterSealed", letterId |-> l, sender |-> s,
           recipient |-> r, recipientKeyId |-> k, archiveSha256 |-> a]
              \in Ledger!Event
  BY DEF Ledger!Event, Ledger!MailboxKeyRegistered,
     Ledger!MailboxDeactivated, Ledger!LetterSealed, Ledger!KeyId

\* What an event says when it is a registration, or a letter's.
LEMMA EventFields ==
    ASSUME NEW f \in Ledger!Event
    PROVE  /\ Ledger!IsRegistration(f) =>
                 /\ f.owner \in Address /\ f.keyId \in 1..KeyIdMax
                 /\ f.publicKey \in PublicKey
           /\ Ledger!IsSeal(f) =>
                 /\ f.letterId \in LetterId /\ f.recipient \in Address
                 /\ f.recipientKeyId \in 1..KeyIdMax
  BY DEF Ledger!Event, Ledger!MailboxKeyRegistered,
     Ledger!MailboxDeactivated, Ledger!LetterSealed, Ledger!KeyId,
     Ledger!IsRegistration, Ledger!IsSeal

-----------------------------------------------------------------------------
(* Type correctness. *)

\* A mailbox that is open has a key id: the part of LogTellsMailboxes that
\* types the event of a deactivation and of a sealing need.
ActiveHasKey == \A o \in Address : mailboxActive[o] => currentKeyId[o] # 0

\* Every reachable state is well typed, the log included: an event never
\* carries key id 0 or one above the maximum.
THEOREM TypeCorrect == Spec => [](TypeOK /\ ActiveHasKey)
<1>1. Init => TypeOK /\ ActiveHasKey
  BY ContractAssumption DEF Init, TypeOK, ActiveHasKey
<1>2. TypeOK /\ ActiveHasKey /\ [Next]_contractVars
          => (TypeOK /\ ActiveHasKey)'
  <2> SUFFICES ASSUME TypeOK, ActiveHasKey, [Next]_contractVars
               PROVE  (TypeOK /\ ActiveHasKey)'
    OBVIOUS
  <2> USE ContractAssumption
  <2>1. ASSUME NEW s \in Address, NEW p \in PublicKey \cup {ZeroKey},
               RegisterMailboxKey(s, p)
        PROVE  (TypeOK /\ ActiveHasKey)'
    <3> DEFINE k == currentKeyId[s] + 1
               e == [event |-> "MailboxKeyRegistered", owner |-> s,
                     keyId |-> k, publicKey |-> p]
    <3>1. k \in 1..KeyIdMax /\ p \in PublicKey
      BY <2>1 DEF RegisterMailboxKey, RegisterError, TypeOK
    <3>2. e \in Ledger!Event /\ log' = Append(log, e)
      BY <2>1, <3>1, EventTypes
         DEF RegisterMailboxKey, NextKeyId, Ledger!Emit
    <3>3. log' \in Seq(Ledger!Event)
      BY <3>2, EmitFacts DEF TypeOK
    <3>4. QED
      BY <2>1, <3>1, <3>3
         DEF RegisterMailboxKey, NextKeyId, TypeOK, ActiveHasKey
  <2>2. ASSUME NEW s \in Address, DeactivateMailbox(s)
        PROVE  (TypeOK /\ ActiveHasKey)'
    <3> DEFINE e == [event |-> "MailboxDeactivated", owner |-> s,
                     keyId |-> currentKeyId[s]]
    <3>1. currentKeyId[s] \in 1..KeyIdMax
      BY <2>2 DEF DeactivateMailbox, DeactivateError, TypeOK
    <3>2. e \in Ledger!Event /\ log' = Append(log, e)
      BY <2>2, <3>1, EventTypes DEF DeactivateMailbox, Ledger!Emit
    <3>3. log' \in Seq(Ledger!Event)
      BY <3>2, EmitFacts DEF TypeOK
    <3>4. QED
      BY <2>2, <3>3 DEF DeactivateMailbox, TypeOK, ActiveHasKey
  <2>3. ASSUME NEW s \in Address, NEW l \in LetterId,
               NEW r \in Address \cup {ZeroAddress},
               NEW k \in 0..KeyIdMax, NEW a \in Archive,
               NEW tb, NEW kb, SealLetter(s, l, r, k, tb, kb, a)
        PROVE  (TypeOK /\ ActiveHasKey)'
    <3> DEFINE e == [event |-> "LetterSealed", letterId |-> l, sender |-> s,
                     recipient |-> r, recipientKeyId |-> k,
                     archiveSha256 |-> a]
    <3>1. r \in Address /\ k \in 1..KeyIdMax
      BY <2>3 DEF SealLetter, SealError, TypeOK, ActiveHasKey
    <3>2. e \in Ledger!Event /\ log' = Append(log, e)
      BY <2>3, <3>1, EventTypes DEF SealLetter, Ledger!Emit
    <3>3. log' \in Seq(Ledger!Event)
      BY <3>2, EmitFacts DEF TypeOK
    <3>4. QED
      BY <2>3, <3>3 DEF SealLetter, TypeOK, ActiveHasKey
  <2>4. CASE UNCHANGED contractVars
    BY <2>4 DEF contractVars, TypeOK, ActiveHasKey
  <2>5. QED
    BY <2>1, <2>2, <2>3, <2>4 DEF Next, RegisterAny, DeactivateAny, SealAny
<1>3. QED
  BY <1>1, <1>2, PTL DEF Spec

-----------------------------------------------------------------------------
(* The agreement of the mappings with the log. *)

\* The inductive invariant: the four safety invariants together.  SealLetter
\* needs LogTellsMailboxes to find the registration a letter is sealed to,
\* and SealedOnce to know that an unsealed letter is in no event.
IInv == /\ TypeOK
        /\ LogTellsMailboxes
        /\ KeysAreHistory
        /\ SealedOnce
        /\ SealedToLiveKey

LEMMA IInvInit == Init => IInv
  BY ContractAssumption
     DEF Init, IInv, TypeOK, LogTellsMailboxes, KeysAreHistory, SealedOnce,
         SealedToLiveKey, Ledger!NoMailbox, Ledger!Recorded

\* An event that seals no letter leaves what is known of the letters alone.
LEMMA LettersUnmoved ==
    ASSUME log \in Seq(Ledger!Event), NEW e \in Ledger!Event,
           log' = Append(log, e), ~Ledger!IsSeal(e),
           sealedLetters' = sealedLetters, SealedOnce, SealedToLiveKey
    PROVE  SealedOnce' /\ SealedToLiveKey'
<1>1. /\ \A n \in DOMAIN log' : Ledger!IsSeal(log'[n]) =>
             n \in DOMAIN log /\ log'[n] = log[n] /\ Ledger!IsSeal(log[n])
      /\ \A n \in DOMAIN log : n \in DOMAIN log' /\ log'[n] = log[n]
  BY EmitFacts
<1>2. SealedOnce'
  <2>1. \A l \in LetterId : Ledger!Recorded(l)' <=> Ledger!Recorded(l)
    BY <1>1 DEF Ledger!Recorded, Ledger!IsSeal
  <2>2. QED
    BY <1>1, <2>1 DEF SealedOnce, Ledger!IsSeal
<1>3. SealedToLiveKey'
  <2> SUFFICES ASSUME NEW n \in DOMAIN log', Ledger!IsSeal(log'[n])
               PROVE  \E i \in DOMAIN log' :
                         /\ Ledger!LatestBefore(n, i, log[n].recipient)'
                         /\ Ledger!IsRegistration(log'[i])
                         /\ log'[i].keyId = log'[n].recipientKeyId
    BY DEF SealedToLiveKey, Ledger!IsSeal, Ledger!IsRegistration
  <2>1. n \in DOMAIN log /\ log'[n] = log[n] /\ Ledger!IsSeal(log[n])
    BY <1>1
  <2>2. PICK r \in Address : r = log[n].recipient
    BY <2>1, EmitFacts, EventFields
  <2>3. PICK i \in DOMAIN log :
            /\ Ledger!LatestBefore(n, i, r)
            /\ Ledger!IsRegistration(log[i])
            /\ log[i].keyId = log[n].recipientKeyId
    BY <2>1, <2>2 DEF SealedToLiveKey
  <2>4. Ledger!LatestBefore(n, i, r)'
    BY <2>1, <2>3, EmitFacts, LatestBeforeStable
  <2>5. r = log'[n].recipient
    BY <2>1, <2>2
  <2>6. QED
    BY <1>1, <2>1, <2>3, <2>4, <2>5
<1>4. QED
  BY <1>2, <1>3

\* An event of one mailbox, written with its mapping entries, keeps the log
\* and the mappings in agreement.
LEMMA MailboxMoves ==
    ASSUME log \in Seq(Ledger!Event), NEW e \in Ledger!Event,
           log' = Append(log, e), LogTellsMailboxes, NEW s \in Address,
           \A o \in Address : Ledger!OfMailbox(e, o) <=> o = s,
           \A o \in Address \ {s} : /\ currentKeyId'[o] = currentKeyId[o]
                                    /\ mailboxActive'[o] = mailboxActive[o],
           currentKeyId'[s] # 0, e.keyId = currentKeyId'[s],
           mailboxActive'[s] <=> Ledger!IsRegistration(e)
    PROVE  LogTellsMailboxes'
<1> SUFFICES ASSUME NEW o \in Address
             PROVE  \/ /\ currentKeyId'[o] = 0
                       /\ ~mailboxActive'[o]
                       /\ Ledger!NoMailbox(o)'
                    \/ /\ currentKeyId'[o] # 0
                       /\ \E i \in DOMAIN log' :
                             /\ Ledger!Latest(i, o)'
                             /\ log'[i].keyId = currentKeyId'[o]
                             /\ mailboxActive'[o]
                                   <=> Ledger!IsRegistration(log'[i])
  BY DEF LogTellsMailboxes, Ledger!IsRegistration
<1>1. CASE o = s
  <2>1. PICK m \in DOMAIN log' : m = Len(log) + 1 /\ m \in Int /\ log'[m] = e
    BY EmitFacts
  <2>2. Ledger!Latest(m, s)'
    BY <2>1, LatestMoves
  <2>3. QED
    BY <1>1, <2>1, <2>2
<1>2. CASE o # s
  <2>1. \A i \in Int : /\ Ledger!Latest(i, o)' <=> Ledger!Latest(i, o)
                       /\ Ledger!NoMailbox(o)' <=> Ledger!NoMailbox(o)
    BY <1>2, LatestUnmoved
  <2>2. /\ DOMAIN log \subseteq DOMAIN log' /\ DOMAIN log \subseteq Int
        /\ \A i \in DOMAIN log : log'[i] = log[i]
    BY EmitFacts
  <2>3. QED
    BY <1>2, <2>1, <2>2 DEF LogTellsMailboxes
<1>3. QED
  BY <1>1, <1>2

\* A registration keeps the invariant.
LEMMA RegisterStep ==
    ASSUME IInv, TypeOK', NEW s \in Address, NEW p \in PublicKey \cup {ZeroKey},
           RegisterMailboxKey(s, p)
    PROVE  IInv'
<1> USE ContractAssumption
<1> DEFINE k == currentKeyId[s] + 1
           e == [event |-> "MailboxKeyRegistered", owner |-> s,
                 keyId |-> k, publicKey |-> p]
<1>0. /\ TypeOK /\ log \in Seq(Ledger!Event)
      /\ k \in 1..KeyIdMax /\ p \in PublicKey
      /\ e \in Ledger!Event /\ log' = Append(log, e)
  BY EventTypes DEF IInv, RegisterMailboxKey, RegisterError, TypeOK,
     NextKeyId, Ledger!Emit
<1>1. /\ Ledger!IsRegistration(e) /\ ~Ledger!IsSeal(e)
      /\ \A o \in Address : Ledger!OfMailbox(e, o) <=> o = s
  BY DEF Ledger!OfMailbox, Ledger!IsRegistration, Ledger!IsDeactivation,
     Ledger!IsSeal
<1>2. LogTellsMailboxes'
  <2>1. /\ currentKeyId'[s] = k /\ mailboxActive'[s] = TRUE
        /\ \A o \in Address \ {s} : /\ currentKeyId'[o] = currentKeyId[o]
                                    /\ mailboxActive'[o] = mailboxActive[o]
    BY <1>0 DEF RegisterMailboxKey, TypeOK, NextKeyId
  <2>2. k # 0 /\ e.keyId = k
    BY <1>0
  <2>3. QED
    BY <1>0, <1>1, <2>1, <2>2, MailboxMoves DEF IInv
<1>3. KeysAreHistory'
  <2>1. \A o \in Address, j \in 0..KeyIdMax :
            mailboxPublicKeys'[o][j] # ZeroKey <=> j \in 1..currentKeyId'[o]
    BY <1>0 DEF IInv, KeysAreHistory, TypeOK, RegisterMailboxKey, NextKeyId
  <2>2. ASSUME NEW i \in DOMAIN log', Ledger!IsRegistration(log'[i])
        PROVE  mailboxPublicKeys'[log'[i].owner][log'[i].keyId]
                   = log'[i].publicKey
    <3>1. CASE i = Len(log) + 1
      BY <1>0, <3>1, EmitFacts DEF RegisterMailboxKey, TypeOK, NextKeyId
    <3>2. CASE i \in DOMAIN log
      <4>1. /\ log'[i] = log[i] /\ log[i].owner \in Address
            /\ log[i].keyId \in 1..KeyIdMax /\ log[i].publicKey \in PublicKey
            /\ Ledger!IsRegistration(log[i])
        BY <1>0, <2>2, <3>2, EmitFacts, EventFields
      <4>2. mailboxPublicKeys[log[i].owner][log[i].keyId] = log[i].publicKey
        BY <3>2, <4>1 DEF IInv, KeysAreHistory
      <4>3. log[i].keyId \in 1..currentKeyId[log[i].owner]
        BY <4>1, <4>2 DEF IInv, KeysAreHistory
      <4>4. QED
        BY <1>0, <4>1, <4>2, <4>3
           DEF RegisterMailboxKey, TypeOK, NextKeyId
    <3>3. QED
      BY <1>0, <2>2, <3>1, <3>2, EmitFacts
  <2>3. QED
    BY <2>1, <2>2 DEF KeysAreHistory, Ledger!IsRegistration
<1>4. SealedOnce' /\ SealedToLiveKey'
  BY <1>0, <1>1, LettersUnmoved DEF IInv, RegisterMailboxKey
<1>5. QED
  BY <1>2, <1>3, <1>4 DEF IInv

\* A deactivation keeps the invariant.
LEMMA DeactivateStep ==
    ASSUME IInv, TypeOK', NEW s \in Address, DeactivateMailbox(s)
    PROVE  IInv'
<1> DEFINE e == [event |-> "MailboxDeactivated", owner |-> s,
                 keyId |-> currentKeyId[s]]
<1>0. /\ TypeOK /\ log \in Seq(Ledger!Event)
      /\ currentKeyId[s] \in 1..KeyIdMax
      /\ e \in Ledger!Event /\ log' = Append(log, e)
  BY ContractAssumption, EventTypes
     DEF IInv, DeactivateMailbox, DeactivateError, TypeOK, Ledger!Emit
<1>1. /\ ~Ledger!IsRegistration(e) /\ ~Ledger!IsSeal(e)
      /\ \A o \in Address : Ledger!OfMailbox(e, o) <=> o = s
  BY DEF Ledger!OfMailbox, Ledger!IsRegistration, Ledger!IsDeactivation,
     Ledger!IsSeal
<1>2. LogTellsMailboxes'
  <2>1. /\ currentKeyId' = currentKeyId /\ mailboxActive'[s] = FALSE
        /\ \A o \in Address \ {s} : mailboxActive'[o] = mailboxActive[o]
    BY <1>0 DEF DeactivateMailbox, TypeOK
  <2>2. currentKeyId[s] # 0 /\ e.keyId = currentKeyId[s]
    BY <1>0
  <2>3. QED
    BY <1>0, <1>1, <2>1, <2>2, MailboxMoves DEF IInv
<1>3. KeysAreHistory'
  <2>1. \A i \in DOMAIN log' : Ledger!IsRegistration(log'[i]) =>
            i \in DOMAIN log /\ log'[i] = log[i]
    BY <1>0, <1>1, EmitFacts
  <2>2. QED
    BY <2>1 DEF IInv, KeysAreHistory, DeactivateMailbox,
       Ledger!IsRegistration
<1>4. SealedOnce' /\ SealedToLiveKey'
  BY <1>0, <1>1, LettersUnmoved DEF IInv, DeactivateMailbox
<1>5. QED
  BY <1>2, <1>3, <1>4 DEF IInv

\* A mailbox with its flag up is open in the log, under its newest key.
LEMMA ActiveIsOpen ==
    ASSUME IInv, NEW r \in Address, mailboxActive[r]
    PROVE  \E i \in DOMAIN log : /\ Ledger!Latest(i, r)
                                 /\ Ledger!IsRegistration(log[i])
                                 /\ log[i].keyId = currentKeyId[r]
  BY DEF IInv, LogTellsMailboxes

\* Sealing a letter keeps the invariant.
LEMMA SealStep ==
    ASSUME IInv, TypeOK', NEW s \in Address, NEW l \in LetterId,
           NEW r \in Address \cup {ZeroAddress}, NEW k \in 0..KeyIdMax,
           NEW a \in Archive, NEW tb, NEW kb,
           SealLetter(s, l, r, k, tb, kb, a)
    PROVE  IInv'
<1> DEFINE e == [event |-> "LetterSealed", letterId |-> l, sender |-> s,
                 recipient |-> r, recipientKeyId |-> k, archiveSha256 |-> a]
<1>0. /\ r \in Address /\ mailboxActive[r] /\ k = currentKeyId[r]
      /\ ~sealedLetters[l]
      /\ TypeOK /\ log \in Seq(Ledger!Event)
  BY DEF IInv, SealLetter, SealError, TypeOK
<1>1. /\ k \in 1..KeyIdMax
      /\ e \in Ledger!Event /\ log' = Append(log, e)
  <2>1. k \in 1..KeyIdMax
    BY <1>0 DEF IInv, LogTellsMailboxes
  <2>2. QED
    BY <1>0, <2>1, EventTypes DEF SealLetter, Ledger!Emit
<1>2. /\ Ledger!IsSeal(e) /\ ~Ledger!IsRegistration(e)
      /\ \A o \in Address : ~Ledger!OfMailbox(e, o)
  BY DEF Ledger!OfMailbox, Ledger!IsRegistration, Ledger!IsDeactivation,
     Ledger!IsSeal
<1>3. PICK m \in DOMAIN log' : /\ m = Len(log) + 1 /\ m \in Int
                               /\ log'[m] = e /\ m \notin DOMAIN log
                               /\ DOMAIN log' = DOMAIN log \cup {m}
  BY <1>0, <1>1, EmitFacts
<1>4. /\ \A i \in DOMAIN log : i \in DOMAIN log' /\ log'[i] = log[i]
      /\ DOMAIN log \subseteq Int
  BY <1>0, <1>1, EmitFacts
<1>5. LogTellsMailboxes'
  <2>1. \A o \in Address, i \in Int :
            /\ Ledger!Latest(i, o)' <=> Ledger!Latest(i, o)
            /\ Ledger!NoMailbox(o)' <=> Ledger!NoMailbox(o)
    BY <1>0, <1>1, <1>2, LatestUnmoved
  <2>2. QED
    BY <1>4, <2>1 DEF IInv, LogTellsMailboxes, SealLetter,
       Ledger!IsRegistration
<1>6. KeysAreHistory'
  BY <1>2, <1>3, <1>4
     DEF IInv, KeysAreHistory, SealLetter, Ledger!IsRegistration
<1>7. SealedOnce'
  <2>1. /\ \A j \in LetterId : sealedLetters'[j] <=> sealedLetters[j] \/ j = l
        /\ ~Ledger!Recorded(l)
    BY <1>0 DEF IInv, SealedOnce, SealLetter, TypeOK
  <2>2. \A j \in LetterId : Ledger!Recorded(j)' <=> Ledger!Recorded(j) \/ j = l
    BY <1>2, <1>3, <1>4 DEF Ledger!Recorded, Ledger!IsSeal
  <2>3. \A i, j \in DOMAIN log' :
            Ledger!IsSeal(log'[i]) /\ Ledger!IsSeal(log'[j])
                /\ log'[i].letterId = log'[j].letterId => i = j
    BY <1>2, <1>3, <1>4, <2>1
       DEF IInv, SealedOnce, Ledger!Recorded, Ledger!IsSeal
  <2>4. QED
    BY <2>1, <2>2, <2>3 DEF IInv, SealedOnce, Ledger!IsSeal
<1>8. SealedToLiveKey'
  <2> SUFFICES ASSUME NEW n \in DOMAIN log', Ledger!IsSeal(log'[n])
               PROVE  \E i \in DOMAIN log' :
                         /\ Ledger!LatestBefore(n, i, log[n].recipient)'
                         /\ Ledger!IsRegistration(log'[i])
                         /\ log'[i].keyId = log'[n].recipientKeyId
    BY DEF SealedToLiveKey, Ledger!IsSeal, Ledger!IsRegistration
  <2>1. PICK q \in Address : q = log'[n].recipient
    BY <1>0, <1>1, EmitFacts, EventFields
  <2>2. PICK i \in DOMAIN log :
            /\ Ledger!LatestBefore(n, i, q)
            /\ Ledger!IsRegistration(log[i])
            /\ log[i].keyId = log'[n].recipientKeyId
    <3>1. CASE n = m
      <4>1. PICK i \in DOMAIN log : /\ Ledger!Latest(i, r)
                                    /\ Ledger!IsRegistration(log[i])
                                    /\ log[i].keyId = k
        BY <1>0, ActiveIsOpen
      <4>2. q = r /\ log'[n].recipientKeyId = k /\ n = Len(log) + 1
        BY <1>3, <2>1, <3>1
      <4>3. Ledger!LatestBefore(n, i, q)
        BY <4>1, <4>2 DEF Ledger!Latest
      <4>4. QED
        BY <4>1, <4>2, <4>3
    <3>2. CASE n \in DOMAIN log
      BY <1>4, <2>1, <3>2 DEF IInv, SealedToLiveKey
    <3>3. QED
      BY <1>3, <3>1, <3>2
  <2>3. Ledger!LatestBefore(n, i, q)'
    BY <1>0, <1>1, <1>3, <1>4, <2>2, EmitFacts, LatestBeforeStable
  <2>4. QED
    BY <1>4, <2>1, <2>2, <2>3
<1>9. QED
  BY <1>5, <1>6, <1>7, <1>8 DEF IInv

-----------------------------------------------------------------------------
(* The theorems. *)

\* The four safety invariants hold in every reachable state.
THEOREM SafetyInvariant == Spec => []IInv
<1>1. Init => IInv
  BY IInvInit
<1>2. IInv /\ TypeOK' /\ [Next]_contractVars => IInv'
  <2> SUFFICES ASSUME IInv, TypeOK', [Next]_contractVars
               PROVE  IInv'
    OBVIOUS
  <2>1. CASE RegisterAny
    BY <2>1, RegisterStep DEF RegisterAny
  <2>2. CASE DeactivateAny
    BY <2>2, DeactivateStep DEF DeactivateAny
  <2>3. CASE SealAny
    BY <2>3, SealStep DEF SealAny
  <2>4. CASE UNCHANGED contractVars
    BY <2>4 DEF contractVars, IInv, TypeOK, LogTellsMailboxes,
       KeysAreHistory, SealedOnce, SealedToLiveKey, Ledger!NoMailbox,
       Ledger!Latest, Ledger!LatestBefore, Ledger!OfMailbox,
       Ledger!IsRegistration, Ledger!IsDeactivation, Ledger!IsSeal,
       Ledger!Recorded
  <2>5. QED
    BY <2>1, <2>2, <2>3, <2>4 DEF Next
<1>3. QED
  BY <1>1, <1>2, TypeCorrect, PTL DEF Spec

\* A reader of the event log knows the mailbox mappings.
THEOREM LogTellsMailboxesAlways == Spec => []LogTellsMailboxes
  BY SafetyInvariant, PTL DEF IInv

\* The keys of an owner are the history that the log tells: registering never
\* rewrites an earlier key.
THEOREM KeysAreHistoryAlways == Spec => []KeysAreHistory
  BY SafetyInvariant, PTL DEF IInv

\* No letter is sealed twice, and only sealed letters are in the log.
THEOREM SealedOnceAlways == Spec => []SealedOnce
  BY SafetyInvariant, PTL DEF IInv

\* Every letter went to a key that was current, in an open mailbox, at its
\* own place in the log.
THEOREM SealedToLiveKeyAlways == Spec => []SealedToLiveKey
  BY SafetyInvariant, PTL DEF IInv

\* sealLetter's last mailbox check is never the one that reverts.
THEOREM MissingKeyNeverReported == Spec => []MissingKeyUnreachable
<1>1. IInv => MissingKeyUnreachable
  BY DEF IInv, TypeOK, LogTellsMailboxes, KeysAreHistory,
     MissingKeyUnreachable, SealError
<1>2. QED
  BY <1>1, SafetyInvariant, PTL

\* Once an owner's counter is at the maximum, its key never changes again and
\* a closed mailbox never reopens.
THEOREM ExhaustedStaysClosedAlways == Spec => ExhaustedStaysClosed
<1>1. TypeOK /\ [Next]_contractVars =>
          [\A o \in Address :
              currentKeyId[o] = KeyIdMax =>
                  /\ currentKeyId'[o] = KeyIdMax
                  /\ mailboxPublicKeys'[o] = mailboxPublicKeys[o]
                  /\ mailboxActive'[o] => mailboxActive[o]]_contractVars
  BY DEF TypeOK, Next, RegisterAny, DeactivateAny, SealAny,
     RegisterMailboxKey, RegisterError, DeactivateMailbox, SealLetter
<1>2. QED
  BY <1>1, TypeCorrect, PTL DEF Spec, ExhaustedStaysClosed

-----------------------------------------------------------------------------
(* The contract implements LetterLedger. *)

\* In a reachable state the latest event of a mailbox is unique, so an open
\* flag is exactly an open mailbox of the log.
THEOREM Implementation == Spec => ImplementsLedger
<1>1. Init => Ledger!Init
  BY DEF Init, Ledger!Init
<1>2. IInv /\ [Next]_contractVars => [Ledger!Next]_log
  <2> SUFFICES ASSUME IInv, [Next]_contractVars
               PROVE  Ledger!Next \/ log' = log
    OBVIOUS
  <2> USE ContractAssumption
  <2>1. ASSUME NEW s \in Address, NEW p \in PublicKey \cup {ZeroKey},
               RegisterMailboxKey(s, p)
        PROVE  Ledger!Next
    <3> DEFINE k == currentKeyId[s] + 1
    <3>1. k \in Ledger!KeyId /\ p \in PublicKey
      BY <2>1 DEF IInv, TypeOK, RegisterMailboxKey, RegisterError,
         Ledger!KeyId
    <3>2. \/ Ledger!NoMailbox(s) /\ k = 1
          \/ \E i \in DOMAIN log : Ledger!Latest(i, s) /\ k = log[i].keyId + 1
      BY DEF IInv, LogTellsMailboxes
    <3>3. Ledger!Register(s, k, p)
      BY <2>1, <3>2 DEF RegisterMailboxKey, NextKeyId, Ledger!Register,
         Ledger!Emit
    <3>4. QED
      BY <3>1, <3>3 DEF Ledger!Next
  <2>2. ASSUME NEW s \in Address, DeactivateMailbox(s)
        PROVE  Ledger!Next
    <3>1. mailboxActive[s] /\ currentKeyId[s] \in Ledger!KeyId
      BY <2>2 DEF IInv, TypeOK, DeactivateMailbox, DeactivateError,
         Ledger!KeyId
    <3>2. Ledger!OpenUnder(s, currentKeyId[s])
      BY <3>1, ActiveIsOpen DEF Ledger!OpenUnder
    <3>3. Ledger!Deactivate(s, currentKeyId[s])
      BY <2>2, <3>2 DEF DeactivateMailbox, Ledger!Deactivate, Ledger!Emit
    <3>4. QED
      BY <3>1, <3>3 DEF Ledger!Next
  <2>3. ASSUME NEW s \in Address, NEW l \in LetterId,
               NEW r \in Address \cup {ZeroAddress}, NEW k \in 0..KeyIdMax,
               NEW a \in Archive, NEW tb, NEW kb,
               SealLetter(s, l, r, k, tb, kb, a)
        PROVE  Ledger!Next
    <3>1. /\ r \in Address /\ mailboxActive[r] /\ k = currentKeyId[r]
          /\ ~sealedLetters[l]
      BY <2>3 DEF SealLetter, SealError
    <3>2. k \in Ledger!KeyId
      BY <3>1 DEF IInv, LogTellsMailboxes, Ledger!KeyId
    <3>3. Ledger!OpenUnder(r, k) /\ ~Ledger!Recorded(l)
      BY <3>1, ActiveIsOpen DEF Ledger!OpenUnder, IInv, SealedOnce
    <3>4. Ledger!Seal(l, s, r, k, a)
      BY <2>3, <3>3 DEF SealLetter, Ledger!Seal, Ledger!Emit
    <3>5. QED
      BY <3>1, <3>2, <3>4 DEF Ledger!Next
  <2>4. CASE UNCHANGED contractVars
    BY <2>4 DEF contractVars
  <2>5. QED
    BY <2>1, <2>2, <2>3, <2>4 DEF Next, RegisterAny, DeactivateAny, SealAny
<1>3. QED
  BY <1>1, <1>2, SafetyInvariant, PTL DEF Spec, ImplementsLedger, Ledger!Spec
=============================================================================
