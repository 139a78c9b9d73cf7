---------------------- MODULE EmailVerification_proofs ----------------------
(***************************************************************************)
(* For every set of wallets, addresses, clients and concurrent requests,   *)
(* and every limit and duration: the type invariant, the bound on          *)
(* concurrent challenges, the proof behind every mailbox, and that only a  *)
(* shared address can take a verified mailbox away.                        *)
(***************************************************************************)
EXTENDS EmailVerification, FiniteSetTheorems, TLAPS

KeyValue == Wallet \cup Email \cup RequestIp

\* A row is verified before its code expires.
RowsInTime ==
    /\ IsFiniteSet(rows)
    /\ \A r \in rows :
          r.verifiedAt # None => r.verifiedAt < r.createdAt + Ttl

\* What the requests between their two statements will add to RecentBy.
PendingBy(f, v) == {q \in Request : challenge[q] # None /\ challenge[q][f] = v}

RoomLeft ==
    \A f \in Key, v \in KeyValue :
        Cardinality(RecentBy(f, v)) + Cardinality(PendingBy(f, v)) <= Overshoot

\* The key of a mailbox row is a wallet that has verified the row's address.
HoldersProved ==
    \A w \in Wallet : mailboxes[w] # None => w \in provedBy[mailboxes[w].email]

IInv == /\ TypeOK /\ RowsInTime /\ RoomLeft
        /\ MailboxProved /\ HoldersProved /\ LostOnlyToSharedEmail

-----------------------------------------------------------------------------
(* Counting. *)

\* Replacing a member of a finite set does not make it larger.
LEMMA ReplaceCount ==
    ASSUME NEW S, IsFiniteSet(S), NEW r \in S, NEW s,
           NEW T \in SUBSET ((S \ {r}) \cup {s})
    PROVE  IsFiniteSet(T) /\ Cardinality(T) <= Cardinality(S)
<1>1. /\ IsFiniteSet(S \ {r}) /\ Cardinality(S \ {r}) = Cardinality(S) - 1
      /\ Cardinality(S) \in Nat
  BY FS_RemoveElement, FS_CardinalityType
<1>a. /\ IsFiniteSet((S \ {r}) \cup {s})
      /\ Cardinality((S \ {r}) \cup {s}) =
             IF s \in S \ {r} THEN Cardinality(S \ {r})
             ELSE Cardinality(S \ {r}) + 1
  BY <1>1, FS_AddElement, Zenon
<1>2. /\ IsFiniteSet((S \ {r}) \cup {s})
      /\ Cardinality((S \ {r}) \cup {s}) <= Cardinality(S)
  BY <1>1, <1>a
<1>3. /\ IsFiniteSet(T) /\ Cardinality(T) <= Cardinality((S \ {r}) \cup {s})
      /\ Cardinality(T) \in Nat /\ Cardinality((S \ {r}) \cup {s}) \in Nat
  BY <1>2, FS_Subset, FS_CardinalityType
<1>4. QED
  BY <1>1, <1>2, <1>3

\* The sets of the invariant are finite.
LEMMA CountTypes ==
    ASSUME RowsInTime, NEW f \in Key, NEW v
    PROVE  /\ IsFiniteSet(RecentBy(f, v)) /\ Cardinality(RecentBy(f, v)) \in Nat
           /\ IsFiniteSet(PendingBy(f, v)) /\ Cardinality(PendingBy(f, v)) \in Nat
           /\ Cardinality(PendingBy(f, v)) <= Cardinality(Request)
           /\ Cardinality(Request) \in Nat /\ Overshoot \in Int
<1>1. RecentBy(f, v) \in SUBSET rows /\ PendingBy(f, v) \in SUBSET Request
  BY DEF RecentBy, PendingBy
<1>2. IsFiniteSet(rows) /\ IsFiniteSet(Request) /\ ChallengeLimit \in Nat
  BY EmailAssumption DEF RowsInTime
<1>3. QED
  BY <1>1, <1>2, FS_Subset, FS_CardinalityType DEF Overshoot

\* A step that adds no recent row and no pending request leaves room.
LEMMA NothingAdded ==
    ASSUME RowsInTime, RoomLeft, RowsInTime',
           \A f \in Key, v \in KeyValue :
              /\ RecentBy(f, v)' \subseteq RecentBy(f, v)
              /\ PendingBy(f, v)' \subseteq PendingBy(f, v)
    PROVE  RoomLeft'
<1> SUFFICES ASSUME NEW f \in Key, NEW v \in KeyValue
             PROVE  Cardinality(RecentBy(f, v)') + Cardinality(PendingBy(f, v)')
                        <= Overshoot
  BY DEF RoomLeft, Overshoot
<1>1. /\ IsFiniteSet(RecentBy(f, v)) /\ Cardinality(RecentBy(f, v)) \in Nat
      /\ IsFiniteSet(PendingBy(f, v)) /\ Cardinality(PendingBy(f, v)) \in Nat
      /\ Overshoot \in Int
  BY CountTypes
<1>2. /\ Cardinality(RecentBy(f, v)') <= Cardinality(RecentBy(f, v))
      /\ Cardinality(RecentBy(f, v)') \in Nat
  BY <1>1, FS_Subset, FS_CardinalityType
<1>3. /\ Cardinality(PendingBy(f, v)') <= Cardinality(PendingBy(f, v))
      /\ Cardinality(PendingBy(f, v)') \in Nat
  BY <1>1, FS_Subset, FS_CardinalityType
<1>4. Cardinality(RecentBy(f, v)) + Cardinality(PendingBy(f, v)) <= Overshoot
  BY DEF RoomLeft
<1>5. QED
  BY <1>1, <1>2, <1>3, <1>4

-----------------------------------------------------------------------------
(* The initial state. *)

LEMMA InitIInv == Init => IInv
<1> SUFFICES ASSUME Init PROVE IInv
  OBVIOUS
<1> USE EmailAssumption DEF Init
<1>1. TypeOK
  BY DEF TypeOK
<1>2. RowsInTime
  BY FS_EmptySet DEF RowsInTime
<1>3. RoomLeft
  <2> SUFFICES ASSUME NEW f \in Key, NEW v \in KeyValue
               PROVE  Cardinality(RecentBy(f, v))
                          + Cardinality(PendingBy(f, v)) <= Overshoot
    BY DEF RoomLeft
  <2>1. RecentBy(f, v) = {} /\ PendingBy(f, v) = {}
    BY DEF RecentBy, PendingBy
  <2>2. Cardinality({}) = 0 /\ Cardinality(Request) \in Nat
    BY FS_EmptySet, FS_CardinalityType
  <2>3. QED
    BY <2>1, <2>2 DEF Overshoot
<1>4. MailboxProved /\ HoldersProved /\ LostOnlyToSharedEmail
  BY DEF MailboxProved, HoldersProved, LostOnlyToSharedEmail
<1>5. QED
  BY <1>1, <1>2, <1>3, <1>4 DEF IInv

-----------------------------------------------------------------------------
(* One lemma per action. *)

\* Counting adds a pending request only where there is room for one of each.
LEMMA CountStep ==
    ASSUME IInv, NEW q \in Request, NEW a \in Asked, ChallengeCount(q, a)
    PROVE  IInv'
<1> USE EmailAssumption DEF IInv, ChallengeCount, history
<1>1. TypeOK'
  BY DEF TypeOK
<1>2. RowsInTime'
  BY DEF RowsInTime
<1>3. RoomLeft'
  <2> SUFFICES ASSUME NEW f \in Key, NEW v \in KeyValue
               PROVE  Cardinality(RecentBy(f, v)')
                          + Cardinality(PendingBy(f, v)') <= Overshoot
    BY DEF RoomLeft, Overshoot
  <2>1. RecentBy(f, v)' = RecentBy(f, v)
    BY DEF RecentBy, Recent
  <2>2. /\ Cardinality(RecentBy(f, v)) \in Nat
        /\ Cardinality(PendingBy(f, v)') \in Nat
        /\ Cardinality(PendingBy(f, v)') <= Cardinality(Request)
        /\ Cardinality(Request) \in Nat /\ Overshoot \in Int
    <3>1. PendingBy(f, v)' \in SUBSET Request
      BY DEF PendingBy
    <3>2. QED
      BY <3>1, CountTypes, FS_Subset, FS_CardinalityType
  <2>3. CASE a[f] = v
    <3>1. RecentBy(f, v) \in
              SUBSET {r \in rows : Recent(r) /\ \E g \in Key : r[g] = a[g]}
      BY <2>3 DEF RecentBy
    <3>2. IsFiniteSet({r \in rows : Recent(r) /\ \E g \in Key : r[g] = a[g]})
      BY FS_Subset DEF RowsInTime
    <3>3. /\ Cardinality(RecentBy(f, v)) <= RecentCount(a)
          /\ RecentCount(a) \in Nat
      BY <3>1, <3>2, FS_Subset, FS_CardinalityType DEF RecentCount
    <3>4. QED
      BY <2>1, <2>2, <3>3 DEF Overshoot
  <2>4. CASE a[f] # v
    <3>1. PendingBy(f, v)' \in SUBSET PendingBy(f, v)
      BY <2>4 DEF PendingBy, TypeOK
    <3>2. /\ IsFiniteSet(PendingBy(f, v))
          /\ Cardinality(PendingBy(f, v)) \in Nat
      BY CountTypes
    <3>3. Cardinality(PendingBy(f, v)') <= Cardinality(PendingBy(f, v))
      BY <3>1, <3>2, FS_Subset
    <3>4. Cardinality(RecentBy(f, v)) + Cardinality(PendingBy(f, v))
              <= Overshoot
      BY DEF RoomLeft
    <3>5. QED
      BY <2>1, <2>2, <3>2, <3>3, <3>4
  <2>5. QED
    BY <2>3, <2>4
<1>4. MailboxProved' /\ HoldersProved' /\ LostOnlyToSharedEmail'
  BY DEF MailboxProved, HoldersProved, LostOnlyToSharedEmail, HasMailbox
<1>5. QED
  BY <1>1, <1>2, <1>3, <1>4 DEF IInv

\* Inserting turns a pending request into a row.
LEMMA InsertStep ==
    ASSUME IInv, NEW q \in Request, ChallengeInsert(q)
    PROVE  IInv'
<1> USE EmailAssumption DEF IInv, ChallengeInsert, history
<1> DEFINE a == challenge[q]
           new == [id |-> nextId, wallet |-> a.wallet, email |-> a.email,
                   ip |-> a.ip, createdAt |-> now, attempts |-> 0,
                   verifiedAt |-> None]
<1>1. a \in Asked /\ rows' = rows \cup {new}
  BY DEF TypeOK
<1>2. new \in Row
  BY <1>1 DEF TypeOK, Row, Asked
<1>3. TypeOK'
  BY <1>1, <1>2 DEF TypeOK
<1>4. RowsInTime'
  <2>1. IsFiniteSet(rows')
    BY <1>1, FS_AddElement DEF RowsInTime
  <2>2. new.verifiedAt = None
    OBVIOUS
  <2>3. QED
    BY <1>1, <2>1, <2>2 DEF RowsInTime
<1>5. RoomLeft'
  <2> SUFFICES ASSUME NEW f \in Key, NEW v \in KeyValue
               PROVE  Cardinality(RecentBy(f, v)')
                          + Cardinality(PendingBy(f, v)') <= Overshoot
    BY DEF RoomLeft, Overshoot
  <2>1. /\ IsFiniteSet(RecentBy(f, v)) /\ Cardinality(RecentBy(f, v)) \in Nat
        /\ IsFiniteSet(PendingBy(f, v)) /\ Cardinality(PendingBy(f, v)) \in Nat
        /\ Overshoot \in Int
        /\ Cardinality(RecentBy(f, v)) + Cardinality(PendingBy(f, v))
               <= Overshoot
    BY CountTypes DEF RoomLeft
  <2>2. new[f] = a[f]
    BY DEF Key
  <2>3. PendingBy(f, v)' = PendingBy(f, v) \ {q}
    BY DEF PendingBy, TypeOK
  <2>4. CASE a[f] = v
    <3>1. q \in PendingBy(f, v)
      BY <2>4 DEF PendingBy
    <3>2. Cardinality(PendingBy(f, v)') = Cardinality(PendingBy(f, v)) - 1
      BY <2>1, <2>3, <3>1, FS_RemoveElement
    <3>3. RecentBy(f, v)' \in SUBSET (RecentBy(f, v) \cup {new})
      BY <1>1 DEF RecentBy, Recent
    <3>4. /\ IsFiniteSet(RecentBy(f, v) \cup {new})
          /\ Cardinality(RecentBy(f, v) \cup {new}) =
                 IF new \in RecentBy(f, v) THEN Cardinality(RecentBy(f, v))
                 ELSE Cardinality(RecentBy(f, v)) + 1
      BY <2>1, FS_AddElement, Zenon
    <3>5. /\ Cardinality(RecentBy(f, v)') \in Nat
          /\ Cardinality(RecentBy(f, v)') <= Cardinality(RecentBy(f, v)) + 1
      <4>1. /\ Cardinality(RecentBy(f, v)')
                   <= Cardinality(RecentBy(f, v) \cup {new})
            /\ Cardinality(RecentBy(f, v)') \in Nat
        BY <3>3, <3>4, FS_Subset, FS_CardinalityType
      <4>2. QED
        BY <2>1, <3>4, <4>1
    <3>6. QED
      BY <2>1, <3>2, <3>5
  <2>5. CASE a[f] # v
    <3>1. RecentBy(f, v)' = RecentBy(f, v)
      BY <1>1, <2>2, <2>5 DEF RecentBy, Recent
    <3>2. PendingBy(f, v)' = PendingBy(f, v)
      BY <2>3, <2>5 DEF PendingBy
    <3>3. QED
      BY <2>1, <3>1, <3>2
  <2>6. QED
    BY <2>4, <2>5
<1>6. MailboxProved' /\ HoldersProved' /\ LostOnlyToSharedEmail'
  BY <1>1 DEF MailboxProved, HoldersProved, LostOnlyToSharedEmail, HasMailbox
<1>7. QED
  BY <1>3, <1>4, <1>5, <1>6 DEF IInv

LEMMA DiesStep ==
    ASSUME IInv, NEW q \in Request, ChallengeDies(q)
    PROVE  IInv'
<1> USE EmailAssumption DEF IInv, ChallengeDies, history
<1>1. TypeOK'
  BY DEF TypeOK
<1>2. RowsInTime'
  BY DEF RowsInTime
<1>3. \A f \in Key, v \in KeyValue :
          /\ RecentBy(f, v)' \subseteq RecentBy(f, v)
          /\ PendingBy(f, v)' \subseteq PendingBy(f, v)
  BY DEF RecentBy, Recent, PendingBy, TypeOK
<1>4. RoomLeft'
  BY <1>2, <1>3, NothingAdded
<1>5. MailboxProved' /\ HoldersProved' /\ LostOnlyToSharedEmail'
  BY DEF MailboxProved, HoldersProved, LostOnlyToSharedEmail, HasMailbox
<1>6. QED
  BY <1>1, <1>2, <1>4, <1>5 DEF IInv

\* Rewriting a row without touching its keys and its time leaves room.
LEMMA ReplaceRoom ==
    ASSUME RowsInTime, RoomLeft, NEW r \in rows, NEW s, Replace(r, s),
           s.createdAt = r.createdAt, \A f \in Key : s[f] = r[f],
           UNCHANGED <<now, challenge>>
    PROVE  RoomLeft'
<1> SUFFICES ASSUME NEW f \in Key, NEW v \in KeyValue
             PROVE  Cardinality(RecentBy(f, v)')
                        + Cardinality(PendingBy(f, v)') <= Overshoot
  BY DEF RoomLeft, Overshoot
<1>1. /\ IsFiniteSet(RecentBy(f, v)) /\ Cardinality(RecentBy(f, v)) \in Nat
      /\ Cardinality(PendingBy(f, v)) \in Nat /\ Overshoot \in Int
      /\ Cardinality(RecentBy(f, v)) + Cardinality(PendingBy(f, v))
             <= Overshoot
  BY CountTypes DEF RoomLeft
<1>2. PendingBy(f, v)' = PendingBy(f, v)
  BY DEF PendingBy
<1>3. /\ Cardinality(RecentBy(f, v)') \in Nat
      /\ Cardinality(RecentBy(f, v)') <= Cardinality(RecentBy(f, v))
  <2>1. CASE r \in RecentBy(f, v)
    <3>1. RecentBy(f, v)' \in SUBSET ((RecentBy(f, v) \ {r}) \cup {s})
      BY DEF RecentBy, Recent, Replace
    <3>2. QED
      BY <1>1, <2>1, <3>1, ReplaceCount, FS_CardinalityType
  <2>2. CASE r \notin RecentBy(f, v)
    <3>1. RecentBy(f, v)' \in SUBSET RecentBy(f, v)
      BY <2>2 DEF RecentBy, Recent, Replace
    <3>2. QED
      BY <1>1, <3>1, FS_Subset, FS_CardinalityType
  <2>3. QED
    BY <2>1, <2>2
<1>4. QED
  BY <1>1, <1>2, <1>3

\* A wrong code costs an attempt, of which one was left.
LEMMA InvalidStep ==
    ASSUME IInv, NEW w \in Wallet, VerifyInvalid(w)
    PROVE  IInv'
<1> USE EmailAssumption DEF IInv, history
<1>1. PICK r \in Selected(w) :
          /\ Alive(r)
          /\ Replace(r, [r EXCEPT !.attempts = @ + 1])
          /\ UNCHANGED <<now, nextId, challenge, mailboxes, history>>
  BY DEF VerifyInvalid
<1> DEFINE s == [r EXCEPT !.attempts = @ + 1]
<1>2. r \in rows /\ r \in Row /\ r.verifiedAt = None
  BY DEF Selected, TypeOK
<1>3. /\ s \in Row /\ s.verifiedAt = None /\ s.createdAt = r.createdAt
      /\ \A f \in Key : s[f] = r[f]
  BY <1>1, <1>2 DEF Row, Alive, Key
<1>4. rows' = (rows \ {r}) \cup {s}
  BY <1>1 DEF Replace
<1>5. TypeOK'
  BY <1>1, <1>3, <1>4 DEF TypeOK
<1>6. RowsInTime'
  <2>1. IsFiniteSet(rows')
    BY <1>2, <1>4, ReplaceCount DEF RowsInTime
  <2>2. QED
    BY <1>3, <1>4, <2>1 DEF RowsInTime
<1>7. RoomLeft'
  BY <1>1, <1>2, <1>3, ReplaceRoom
<1>8. MailboxProved'
  <2> SUFFICES ASSUME NEW x \in Wallet, mailboxes[x] # None,
                      ~(now - mailboxes[x].verifiedAt > Retention - Ttl)
               PROVE  \E t \in rows' :
                         /\ t.wallet = mailboxes[x].wallet
                         /\ t.email = mailboxes[x].email
                         /\ t.verifiedAt = mailboxes[x].verifiedAt
    BY <1>1 DEF MailboxProved
  <2>1. PICK t \in rows : /\ t.wallet = mailboxes[x].wallet
                          /\ t.email = mailboxes[x].email
                          /\ t.verifiedAt = mailboxes[x].verifiedAt
    BY DEF MailboxProved
  <2>2. mailboxes[x].verifiedAt \in Nat
    BY DEF TypeOK, Mailbox
  <2>3. t # r
    BY <1>2, <2>1, <2>2
  <2>4. QED
    BY <1>4, <2>1, <2>3
<1>9. HoldersProved' /\ LostOnlyToSharedEmail'
  BY <1>1 DEF HoldersProved, LostOnlyToSharedEmail, HasMailbox
<1>10. QED
  BY <1>5, <1>6, <1>7, <1>8, <1>9 DEF IInv

\* A right code writes the proof and the mailbox together.
LEMMA OkStep ==
    ASSUME IInv, NEW w \in Wallet, VerifyOk(w)
    PROVE  IInv'
<1> USE EmailAssumption DEF IInv
<1>1. PICK r \in Selected(w) :
          /\ Alive(r)
          /\ ~DuplicateKey(w, r.email)
          /\ Replace(r, [r EXCEPT !.attempts = @ + 1, !.verifiedAt = now])
          /\ mailboxes' =
                 [x \in Wallet |->
                     IF x \in Upserted(w, r.email)
                     THEN [wallet |-> w, email |-> r.email, verifiedAt |-> now]
                     ELSE mailboxes[x]]
          /\ provedBy' = [provedBy EXCEPT ![r.email] = @ \cup {w}]
          /\ lastProved' = [lastProved EXCEPT ![w] = r.email]
          /\ UNCHANGED <<now, nextId, challenge>>
  BY DEF VerifyOk
<1> DEFINE e == r.email
           s == [r EXCEPT !.attempts = @ + 1, !.verifiedAt = now]
<1>2. /\ r \in rows /\ r \in Row /\ r.wallet = w /\ r.verifiedAt = None
      /\ e \in Email /\ now \in Nat
  BY DEF Selected, TypeOK, Row
<1>3. /\ s \in Row /\ s.verifiedAt = now /\ s.createdAt = r.createdAt
      /\ s.wallet = w /\ s.email = e /\ now < r.createdAt + Ttl
      /\ \A f \in Key : s[f] = r[f]
  <2> DEFINE u == [r EXCEPT !.attempts = @ + 1]
  <2>1. /\ u \in Row /\ u.createdAt = r.createdAt /\ u.wallet = w
        /\ u.email = e /\ \A f \in Key : u[f] = r[f]
        /\ now < r.createdAt + Ttl
    BY <1>1, <1>2 DEF Row, Alive, Key
  <2>2. s = [u EXCEPT !.verifiedAt = now]
    OBVIOUS
  <2> HIDE DEF u
  <2>3. QED
    BY <1>2, <2>1, <2>2 DEF Row, Key
<1>4. rows' = (rows \ {r}) \cup {s}
  BY <1>1 DEF Replace
<1>5. TypeOK'
  <2>1. [wallet |-> w, email |-> e, verifiedAt |-> now] \in Mailbox
    BY <1>2 DEF Mailbox
  <2>2. mailboxes' \in [Wallet -> Mailbox \cup {None}]
    BY <1>1, <2>1 DEF TypeOK
  <2>3. QED
    BY <1>1, <1>2, <1>3, <1>4, <2>2 DEF TypeOK
<1>6. RowsInTime'
  <2>1. IsFiniteSet(rows')
    BY <1>2, <1>4, ReplaceCount DEF RowsInTime
  <2>2. QED
    BY <1>3, <1>4, <2>1 DEF RowsInTime
<1>7. RoomLeft'
  BY <1>1, <1>2, <1>3, ReplaceRoom
<1>8. MailboxProved'
  <2> SUFFICES ASSUME NEW x \in Wallet, mailboxes'[x] # None,
                      ~(now - mailboxes'[x].verifiedAt > Retention - Ttl)
               PROVE  \E t \in rows' :
                         /\ t.wallet = mailboxes'[x].wallet
                         /\ t.email = mailboxes'[x].email
                         /\ t.verifiedAt = mailboxes'[x].verifiedAt
    BY <1>1 DEF MailboxProved
  <2>1. CASE x \in Upserted(w, e)
    <3>1. /\ mailboxes'[x].wallet = w /\ mailboxes'[x].email = e
          /\ mailboxes'[x].verifiedAt = now
      BY <1>1, <2>1
    <3>2. s \in rows'
      BY <1>4
    <3>3. QED
      BY <1>3, <3>1, <3>2
  <2>2. CASE x \notin Upserted(w, e)
    <3>1. mailboxes'[x] = mailboxes[x]
      BY <1>1, <2>2
    <3>2. PICK t \in rows : /\ t.wallet = mailboxes[x].wallet
                            /\ t.email = mailboxes[x].email
                            /\ t.verifiedAt = mailboxes[x].verifiedAt
      BY <3>1 DEF MailboxProved
    <3>3. mailboxes[x].verifiedAt \in Nat
      BY <3>1 DEF TypeOK, Mailbox
    <3>4. t # r
      BY <1>2, <3>2, <3>3
    <3>5. QED
      BY <1>4, <3>1, <3>2, <3>4
  <2>3. QED
    BY <2>1, <2>2
<1>9. /\ w \in provedBy'[e]
      /\ \A d \in Email : provedBy[d] \subseteq provedBy'[d]
  BY <1>1, <1>2 DEF TypeOK
<1>10. HoldersProved'
  <2> SUFFICES ASSUME NEW x \in Wallet, mailboxes'[x] # None
               PROVE  x \in provedBy'[mailboxes'[x].email]
    BY DEF HoldersProved
  <2>1. CASE x \in Upserted(w, e)
    <3>1. mailboxes'[x].email = e
      BY <1>1, <2>1
    <3>2. x = w \/ x \in Holders(e)
      BY <2>1 DEF Upserted
    <3>3. QED
      BY <1>2, <1>9, <3>1, <3>2 DEF Holders, HoldersProved
  <2>2. CASE x \notin Upserted(w, e)
    <3>1. mailboxes'[x] = mailboxes[x] /\ mailboxes[x].email \in Email
      BY <1>1, <2>2 DEF TypeOK, Mailbox
    <3>2. QED
      BY <1>9, <3>1 DEF HoldersProved
  <2>3. QED
    BY <2>1, <2>2
<1>11. LostOnlyToSharedEmail'
  <2> SUFFICES ASSUME NEW x \in Wallet, lastProved'[x] # None
               PROVE  \/ HasMailbox(x, lastProved[x])'
                      \/ provedBy'[lastProved'[x]] \ {x} # {}
    BY DEF LostOnlyToSharedEmail
  <2>1. CASE x = w
    <3>1. lastProved'[x] = e
      BY <1>1, <2>1 DEF TypeOK
    <3>2. CASE mailboxes[w] = None /\ Holders(e) # {}
      <4>1. PICK y \in Holders(e) : y \in Wallet /\ y # w
        BY <3>2 DEF Holders
      <4>2. y \in provedBy'[e]
        BY <1>2, <1>9, <4>1 DEF Holders, HoldersProved
      <4>3. QED
        BY <2>1, <3>1, <4>1, <4>2
    <3>3. CASE ~(mailboxes[w] = None /\ Holders(e) # {})
      <4>1. mailboxes'[w] = [wallet |-> w, email |-> e, verifiedAt |-> now]
        BY <1>1, <3>3 DEF Upserted
      <4>2. mailboxes'[w] # None
        BY <1>2, <4>1 DEF Mailbox
      <4>3. QED
        BY <2>1, <3>1, <4>1, <4>2 DEF HasMailbox
    <3>4. QED
      BY <3>2, <3>3
  <2>2. CASE x # w
    <3>1. lastProved'[x] = lastProved[x] /\ lastProved[x] \in Email
      BY <1>1, <2>2 DEF TypeOK
    <3>2. CASE provedBy[lastProved[x]] \ {x} # {}
      BY <1>9, <3>1, <3>2
    <3>3. CASE HasMailbox(x, lastProved[x]) /\ x \in Upserted(w, e)
      <4>1. x \in Holders(e)
        BY <2>2, <3>3 DEF Upserted
      <4>2. lastProved[x] = e
        BY <3>3, <4>1 DEF Holders, HasMailbox
      <4>3. QED
        BY <1>9, <2>2, <3>1, <4>2
    <3>4. CASE HasMailbox(x, lastProved[x]) /\ x \notin Upserted(w, e)
      BY <1>1, <3>1, <3>4 DEF HasMailbox
    <3>5. QED
      BY <3>1, <3>2, <3>3, <3>4 DEF LostOnlyToSharedEmail
  <2>3. QED
    BY <2>1, <2>2
<1>12. QED
  BY <1>5, <1>6, <1>7, <1>8, <1>10, <1>11 DEF IInv

\* A proof is taken away only when it is older than the mailboxes claim.
LEMMA CleanupStep ==
    ASSUME IInv, Cleanup
    PROVE  IInv'
<1> USE EmailAssumption DEF IInv, Cleanup, history
<1>1. TypeOK'
  BY DEF TypeOK
<1>2. RowsInTime'
  BY FS_Subset DEF RowsInTime
<1>3. \A f \in Key, v \in KeyValue :
          /\ RecentBy(f, v)' \subseteq RecentBy(f, v)
          /\ PendingBy(f, v)' \subseteq PendingBy(f, v)
  BY DEF RecentBy, Recent, PendingBy
<1>4. RoomLeft'
  BY <1>2, <1>3, NothingAdded
<1>5. MailboxProved'
  <2> SUFFICES ASSUME NEW x \in Wallet, mailboxes[x] # None,
                      ~(now - mailboxes[x].verifiedAt > Retention - Ttl)
               PROVE  \E t \in rows' :
                         /\ t.wallet = mailboxes[x].wallet
                         /\ t.email = mailboxes[x].email
                         /\ t.verifiedAt = mailboxes[x].verifiedAt
    BY DEF MailboxProved
  <2>1. PICK t \in rows : /\ t.wallet = mailboxes[x].wallet
                          /\ t.email = mailboxes[x].email
                          /\ t.verifiedAt = mailboxes[x].verifiedAt
    BY DEF MailboxProved
  <2>2. t.verifiedAt \in Nat /\ t.createdAt \in Nat /\ now \in Nat
    BY <2>1 DEF TypeOK, Mailbox, Row
  <2>3. t.verifiedAt < t.createdAt + Ttl
    BY <2>2 DEF RowsInTime
  <2>4. ~Stale(t)
    BY <2>1, <2>2, <2>3 DEF Stale
  <2>5. QED
    BY <2>1, <2>4
<1>6. HoldersProved' /\ LostOnlyToSharedEmail'
  BY DEF HoldersProved, LostOnlyToSharedEmail, HasMailbox
<1>7. QED
  BY <1>1, <1>2, <1>4, <1>5, <1>6 DEF IInv

\* As time passes, rows stop being recent and none becomes so.
LEMMA ElapseStep ==
    ASSUME IInv, Elapse
    PROVE  IInv'
<1> USE EmailAssumption DEF IInv, Elapse, history
<1>1. TypeOK' /\ now \in Nat
  BY DEF TypeOK
<1>2. RowsInTime'
  BY DEF RowsInTime
<1>3. \A f \in Key, v \in KeyValue :
          /\ RecentBy(f, v)' \subseteq RecentBy(f, v)
          /\ PendingBy(f, v)' \subseteq PendingBy(f, v)
  <2>1. ASSUME NEW r \in rows, Recent(r)' PROVE Recent(r)
    <3>1. r.createdAt \in Nat
      BY DEF TypeOK, Row
    <3>2. QED
      BY <1>1, <2>1, <3>1 DEF Recent
  <2>2. QED
    BY <2>1 DEF RecentBy, PendingBy
<1>4. RoomLeft'
  BY <1>2, <1>3, NothingAdded
<1>5. MailboxProved'
  <2>1. ASSUME NEW x \in Wallet, mailboxes[x] # None,
               now - mailboxes[x].verifiedAt > Retention - Ttl
        PROVE  now' - mailboxes[x].verifiedAt > Retention - Ttl
    <3>1. mailboxes[x].verifiedAt \in Nat
      BY <2>1 DEF TypeOK, Mailbox
    <3>2. QED
      BY <1>1, <2>1, <3>1
  <2>2. QED
    BY <2>1 DEF MailboxProved
<1>6. HoldersProved' /\ LostOnlyToSharedEmail'
  BY DEF HoldersProved, LostOnlyToSharedEmail, HasMailbox
<1>7. QED
  BY <1>1, <1>2, <1>4, <1>5, <1>6 DEF IInv

-----------------------------------------------------------------------------
(* The theorems. *)

\* The inductive invariant: the safety properties, the room that the pending
\* requests leave, and who has proved the address of a mailbox.
THEOREM SafetyInvariant == Spec => []IInv
<1>1. Init => IInv
  BY InitIInv
<1>2. IInv /\ [Next]_vars => IInv'
  <2> SUFFICES ASSUME IInv, [Next]_vars PROVE IInv'
    OBVIOUS
  <2>1. ASSUME NEW q \in Request, NEW a \in Asked, ChallengeCount(q, a)
        PROVE  IInv'
    BY <2>1, CountStep
  <2>2. ASSUME NEW q \in Request, ChallengeInsert(q) PROVE IInv'
    BY <2>2, InsertStep
  <2>3. ASSUME NEW q \in Request, ChallengeDies(q) PROVE IInv'
    BY <2>3, DiesStep
  <2>4. ASSUME NEW w \in Wallet, VerifyInvalid(w) PROVE IInv'
    BY <2>4, InvalidStep
  <2>5. ASSUME NEW w \in Wallet, VerifyOk(w) PROVE IInv'
    BY <2>5, OkStep
  <2>6. CASE Cleanup
    BY <2>6, CleanupStep
  <2>7. CASE Elapse
    BY <2>7, ElapseStep
  <2>8. CASE UNCHANGED vars
    BY <2>8 DEF vars, history, IInv, TypeOK, RowsInTime, RoomLeft, RecentBy,
       Recent, PendingBy, MailboxProved, HoldersProved,
       LostOnlyToSharedEmail, HasMailbox, Overshoot
  <2>9. QED
    BY <2>1, <2>2, <2>3, <2>4, <2>5, <2>6, <2>7, <2>8 DEF Next
<1>3. QED
  BY <1>1, <1>2, PTL DEF Spec

\* Every variable keeps its type; the attempts stay within MAX_ATTEMPTS.
THEOREM TypeCorrect == Spec => []TypeOK
<1>1. IInv => TypeOK
  BY DEF IInv
<1>2. QED
  BY <1>1, SafetyInvariant, PTL

\* Concurrent challenges overshoot the limit by no more than their number.
THEOREM BoundedChallenges == Spec => []ChallengesBounded
<1>1. IInv => ChallengesBounded
  <2> SUFFICES ASSUME IInv, NEW f \in Key, NEW v \in KeyValue
               PROVE  Cardinality(RecentBy(f, v)) <= Overshoot
    BY DEF ChallengesBounded, KeyValue
  <2>1. /\ Cardinality(RecentBy(f, v)) \in Nat
        /\ Cardinality(PendingBy(f, v)) \in Nat /\ Overshoot \in Int
    BY CountTypes DEF IInv
  <2>2. QED
    BY <2>1 DEF IInv, RoomLeft
<1>2. QED
  BY <1>1, SafetyInvariant, PTL

\* Behind every mailbox there is a proof, for as long as proofs are kept.
THEOREM MailboxesProved == Spec => []MailboxProved
<1>1. IInv => MailboxProved
  BY DEF IInv
<1>2. QED
  BY <1>1, SafetyInvariant, PTL

\* Only another wallet with the same address takes a verified mailbox away.
THEOREM LostOnlyThen == Spec => []LostOnlyToSharedEmail
<1>1. IInv => LostOnlyToSharedEmail
  BY DEF IInv
<1>2. QED
  BY <1>1, SafetyInvariant, PTL
=============================================================================
