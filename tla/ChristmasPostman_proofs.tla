---------------------- MODULE ChristmasPostman_proofs ----------------------
(***************************************************************************)
(* For every set of recipients and runs and any number of faults: types,   *)
(* rows that name their own mails, and one mail per remembered key.        *)
(***************************************************************************)
EXTENDS ChristmasPostman, FiniteSetTheorems, TLAPS

\* A run that works on a recipient has one, and the answer it will record is
\* a mail to that recipient.
AnswersTrue ==
    \A r \in Run :
        /\ run[r].pc \in {"claim", "send", "record", "fail"} =>
              run[r].wallet \in Wallet
        /\ run[r].pc = "record" => run[r].id \in MailsTo(run[r].wallet)

\* What the provider remembers for a key is a mail to the key's recipient.
KnownTrue ==
    /\ known = [k \in DOMAIN known |-> known[k]]
    /\ \A k \in DOMAIN known :
          k \in Wallet \X {0} /\ known[k] \in MailsTo(k[1])

\* A mail is there because its key is remembered or was forgotten.
Remembered(w) == IF <<w, 0>> \in DOMAIN known THEN 1 ELSE 0
MailsCounted ==
    \A w \in Wallet :
        Cardinality(MailsTo(w)) <= Remembered(w) + forgotten[w]

ForgottenBounded == \A w \in Wallet : forgotten[w] <= faults

IInv ==
    /\ TypeOK /\ AnswersTrue /\ KnownTrue /\ MailsCounted /\ ForgottenBounded
    /\ RowsTellTheTruth

-----------------------------------------------------------------------------
(* Mails. *)

LEMMA MailsFinite ==
    ASSUME TypeOK, NEW w
    PROVE  IsFiniteSet(MailsTo(w)) /\ Cardinality(MailsTo(w)) \in Nat
<1>1. MailsTo(w) \subseteq 1..Len(mails) /\ Len(mails) \in Nat
  <2>1. mails \in Seq(Wallet)
    BY DEF TypeOK
  <2>2. DOMAIN mails = 1..Len(mails) /\ Len(mails) \in Nat
    BY <2>1
  <2> QED
    BY <2>2 DEF MailsTo
<1>2. IsFiniteSet(1..Len(mails))
  BY <1>1, FS_Interval
<1>3. IsFiniteSet(MailsTo(w))
  BY <1>1, <1>2, FS_Subset
<1>4. QED
  BY <1>3, FS_CardinalityType

\* A new mail is one more to its recipient and none to anyone else.
LEMMA MailAdded ==
    ASSUME TypeOK, NEW w \in Wallet, mails' = Append(mails, w)
    PROVE  /\ Len(mails') = Len(mails) + 1
           /\ Len(mails) \in Nat
           /\ Len(mails) + 1 \in MailsTo(w)'
           /\ \A v : MailsTo(v) \subseteq MailsTo(v)'
           /\ \A v : v # w => MailsTo(v)' = MailsTo(v)
           /\ Cardinality(MailsTo(w)') = Cardinality(MailsTo(w)) + 1
<1>1. /\ mails \in Seq(Wallet) /\ Len(mails) \in Nat
      /\ DOMAIN mails = 1..Len(mails)
  BY DEF TypeOK
<1>2. /\ Len(mails') = Len(mails) + 1
      /\ DOMAIN mails' = 1..(Len(mails) + 1)
      /\ mails'[Len(mails) + 1] = w
      /\ \A i \in 1..Len(mails) : mails'[i] = mails[i]
  BY <1>1
<1>3. MailsTo(w)' = MailsTo(w) \cup {Len(mails) + 1}
  BY <1>1, <1>2 DEF MailsTo
<1>4. \A v : v # w => MailsTo(v)' = MailsTo(v)
  BY <1>1, <1>2 DEF MailsTo
<1>5. Len(mails) + 1 \notin MailsTo(w)
  BY <1>1 DEF MailsTo
<1>6. Cardinality(MailsTo(w)') = Cardinality(MailsTo(w)) + 1
  BY <1>3, <1>5, MailsFinite, FS_AddElement
<1>7. QED
  BY <1>1, <1>2, <1>3, <1>4, <1>6

\* Accepting a request keeps types and counts, and its key is remembered for a
\* mail to its recipient.
LEMMA Accepted ==
    ASSUME IInv, NEW w \in Wallet, Accept(w), UNCHANGED forgotten
    PROVE  /\ KnownTrue' /\ MailsCounted'
           /\ mails' \in Seq(Wallet) /\ Len(mails) <= Len(mails')
           /\ Len(mails) \in Nat /\ Len(mails') \in Nat
           /\ \A v : MailsTo(v) \subseteq MailsTo(v)'
           /\ \A k \in DOMAIN known' : known'[k] \in 1..Len(mails')
           /\ <<w, 0>> \in DOMAIN known' /\ known'[<<w, 0>>] \in MailsTo(w)'
<1> DEFINE key == <<w, 0>>
<1>0. /\ Len(mails) \in Nat /\ mails \in Seq(Wallet)
      /\ \A v : MailsTo(v) \subseteq 1..Len(mails)
  BY DEF IInv, TypeOK, MailsTo
<1>1. CASE key \in DOMAIN known
  <2>1. UNCHANGED <<mails, known>>
    BY <1>1 DEF Accept, IdempotencyKey
  <2>2. known[key] \in MailsTo(w)
    BY <1>1 DEF IInv, KnownTrue
  <2>3. KnownTrue' /\ MailsCounted'
    BY <2>1 DEF IInv, KnownTrue, MailsCounted, Remembered, MailsTo
  <2> QED
    BY <1>0, <1>1, <2>1, <2>2, <2>3 DEF IInv, TypeOK, MailsTo
<1>2. CASE key \notin DOMAIN known
  <2>1. /\ mails' = Append(mails, w)
        /\ known' = [x \in DOMAIN known \cup {key} |->
                        IF x = key THEN Len(mails) + 1 ELSE known[x]]
    BY <1>2 DEF Accept, IdempotencyKey
  <2>2. /\ Len(mails') = Len(mails) + 1
        /\ Len(mails) + 1 \in MailsTo(w)'
        /\ \A v : MailsTo(v) \subseteq MailsTo(v)'
        /\ \A v : v # w => MailsTo(v)' = MailsTo(v)
        /\ Cardinality(MailsTo(w)') = Cardinality(MailsTo(w)) + 1
    BY <2>1, MailAdded DEF IInv
  <2>3. /\ DOMAIN known' = DOMAIN known \cup {key}
        /\ known'[key] = Len(mails) + 1
        /\ \A k \in DOMAIN known : known'[k] = known[k]
    BY <1>2, <2>1
  <2>4. KnownTrue'
    <3>1. \A k \in DOMAIN known' :
              k \in Wallet \X {0} /\ known'[k] \in MailsTo(k[1])'
      BY <2>2, <2>3 DEF IInv, KnownTrue
    <3> QED
      BY <2>1, <3>1 DEF KnownTrue
  <2>5. MailsCounted'
    <3> SUFFICES ASSUME NEW v \in Wallet
                 PROVE  Cardinality(MailsTo(v)') <= Remembered(v)' + forgotten[v]
      BY DEF MailsCounted
    <3>1. /\ Cardinality(MailsTo(v)) \in Nat /\ forgotten[v] \in Nat
          /\ Cardinality(MailsTo(v)) <= Remembered(v) + forgotten[v]
      BY MailsFinite, PostmanAssumption DEF IInv, MailsCounted, TypeOK
    <3>2. CASE v = w
      BY <3>1, <3>2, <1>2, <2>2, <2>3 DEF Remembered
    <3>3. CASE v # w
      <4>1. Remembered(v)' = Remembered(v)
        BY <3>3, <2>3 DEF Remembered
      <4> QED
        BY <3>1, <3>3, <2>2, <4>1
    <3> QED
      BY <3>2, <3>3
  <2>6. mails' \in Seq(Wallet)
    BY <1>0, <2>1
  <2>7. \A k \in DOMAIN known' : known'[k] \in 1..Len(mails')
    <3>1. \A k \in DOMAIN known : known[k] \in 1..Len(mails)
      BY DEF IInv, TypeOK
    <3>2. \A i \in 1..Len(mails) : i \in 1..Len(mails')
      BY <1>0, <2>2
    <3>3. Len(mails) + 1 \in 1..Len(mails')
      BY <1>0, <2>2
    <3> QED
      BY <2>3, <3>1, <3>2, <3>3
  <2> QED
    BY <1>0, <2>2, <2>3, <2>4, <2>5, <2>6, <2>7
<1>3. QED
  BY <1>1, <1>2

-----------------------------------------------------------------------------
(* Steps. *)

\* Where the provider and its webhook rest, so do the facts about them.
LEMMA ProviderRests ==
    ASSUME IInv, UNCHANGED Provider, faults' \in 0..MaxFaults, faults <= faults'
    PROVE  KnownTrue' /\ MailsCounted' /\ ForgottenBounded'
<1>1. \A w : MailsTo(w)' = MailsTo(w)
  BY DEF Provider, MailsTo
<1>2. KnownTrue' /\ MailsCounted'
  BY <1>1 DEF IInv, KnownTrue, MailsCounted, Remembered, Provider
<1>3. \A w \in Wallet : forgotten[w] \in Nat /\ faults \in Nat
  BY PostmanAssumption DEF IInv, TypeOK
<1>4. ForgottenBounded'
  BY <1>3, PostmanAssumption DEF IInv, ForgottenBounded, Provider
<1> QED
  BY <1>2, <1>4

LEMMA InitInv == Init => IInv
<1> SUFFICES ASSUME Init PROVE IInv
  OBVIOUS
<1>1. Len(mails) = 0 /\ mails \in Seq(Wallet) /\ DOMAIN mails = {} /\ DOMAIN known = {}
  BY DEF Init
<1>2. TypeOK
  <2>1. row \in [Wallet -> [status: Status, id: 0..Len(mails), due: BOOLEAN]]
    BY <1>1 DEF Init, NoRow, Status
  <2>2. run \in [Run -> [pc: {"idle", "next", "claim", "send", "record",
                              "fail"},
                         todo: SUBSET Wallet, wallet: Wallet \cup {"none"},
                         id: 0..Len(mails)]]
    BY <1>1 DEF Init, NoRun
  <2>3. forgotten \in [Wallet -> 0..MaxFaults] /\ faults \in 0..MaxFaults
    BY PostmanAssumption DEF Init
  <2> QED
    BY <1>1, <2>1, <2>2, <2>3 DEF Init, TypeOK
<1>3. AnswersTrue
  BY DEF Init, NoRun, AnswersTrue
<1>4. KnownTrue
  <2>1. known = << >>
    BY DEF Init
  <2>2. known = [k \in DOMAIN known |-> known[k]]
    BY <2>1
  <2> QED
    BY <1>1, <2>2 DEF KnownTrue
<1>5. MailsCounted
  <2>1. \A w : MailsTo(w) = {}
    BY <1>1 DEF MailsTo
  <2>2. \A w : Cardinality(MailsTo(w)) = 0
    BY <2>1, FS_EmptySet
  <2> QED
    BY <1>1, <2>2 DEF Init, MailsCounted, Remembered
<1>6. ForgottenBounded /\ RowsTellTheTruth
  BY DEF Init, NoRow, ForgottenBounded, RowsTellTheTruth
<1> QED
  BY <1>2, <1>3, <1>4, <1>5, <1>6 DEF IInv

\* The records a row and a run may be, over a set of message ids.
RowSet(Ids) == [status: Status, id: Ids, due: BOOLEAN]
RunSet(Ids) == [pc: {"idle", "next", "claim", "send", "record", "fail"},
                todo: SUBSET Wallet, wallet: Wallet \cup {"none"}, id: Ids]

LEMMA Typed ==
    ASSUME TypeOK
    PROVE  /\ Len(mails) \in Nat
           /\ row \in [Wallet -> RowSet(0..Len(mails))]
           /\ run \in [Run -> RunSet(0..Len(mails))]
           /\ faults \in 0..MaxFaults
  BY DEF TypeOK, RowSet, RunSet

LEMMA RowUpdated ==
    ASSUME NEW Ids, NEW n \in RowSet(Ids), NEW s \in Status, NEW b \in BOOLEAN
    PROVE  /\ [n EXCEPT !.status = s] \in RowSet(Ids)
           /\ [n EXCEPT !.due = b] \in RowSet(Ids)
           /\ [n EXCEPT !.status = s, !.due = b] \in RowSet(Ids)
           /\ [n EXCEPT !.status = s, !.due = b].id = n.id
           /\ [n EXCEPT !.status = s, !.due = b].status = s
           /\ [n EXCEPT !.status = s].id = n.id
           /\ [n EXCEPT !.status = s].status = s
           /\ [n EXCEPT !.due = b].id = n.id
           /\ [n EXCEPT !.due = b].status = n.status
  BY DEF RowSet

\* What a row may become while the provider rests: it keeps its message id and
\* leaves for a status that promises nothing, or names a mail to its wallet.
RowMoves(w, n) ==
    \/ /\ n.id = row[w].id
       /\ n.status \in {row[w].status, "pending", "claimed", "failed"}
    \/ n.status = "sent" /\ n.id \in MailsTo(w) /\ n.id # 0

\* The steps of a run that do not ask the provider change one run and rows.
LEMMA QuietStep ==
    ASSUME IInv, NEW r \in Run, NEW Ids, Ids = 0..Len(mails),
           NEW q \in RunSet(Ids),
           run' = [run EXCEPT ![r] = q],
           UNCHANGED <<mailbox, Provider, handled>>,
           faults' \in 0..MaxFaults, faults <= faults',
           q.pc \in {"idle", "next", "claim", "send", "fail"},
           q.pc \in {"claim", "send", "fail"} => q.wallet \in Wallet,
           row' \in [Wallet -> RowSet(Ids)],
           \A w \in Wallet : RowMoves(w, row'[w])
    PROVE  IInv'
<1>1. KnownTrue' /\ MailsCounted' /\ ForgottenBounded'
  BY ProviderRests DEF Provider
<1>2. run \in [Run -> RunSet(Ids)]
  BY Typed DEF IInv
<1>3. run' \in [Run -> RunSet(Ids)]
  BY <1>2
<1>4. TypeOK'
  BY <1>3 DEF IInv, TypeOK, Provider, RowSet, RunSet
<1>5. \A w : MailsTo(w)' = MailsTo(w)
  BY DEF Provider, MailsTo
<1>6. AnswersTrue'
  <2>1. AnswersTrue
    BY DEF IInv
  <2>2. \A s \in Run : s # r => run'[s] = run[s]
    BY <1>2
  <2>3. run'[r] = q
    BY <1>2
  <2>4. \A s \in Run : \A v :
            run'[s].pc = "record" /\ run'[s].wallet = v =>
                run'[s].id \in MailsTo(v)
    BY <2>1, <2>2, <2>3 DEF AnswersTrue
  <2>5. \A s \in Run : run'[s].pc \in {"claim", "send", "record", "fail"} =>
            run'[s].wallet \in Wallet
    BY <2>1, <2>2, <2>3 DEF AnswersTrue
  <2> QED
    BY <2>4, <2>5 DEF AnswersTrue, MailsTo, Provider
<1>7. RowsTellTheTruth'
  <2> SUFFICES ASSUME NEW w \in Wallet
               PROVE  /\ row'[w].id # 0 => row'[w].id \in MailsTo(w)
                      /\ row'[w].status \in {"sent", "delivered"} =>
                            row'[w].id # 0
                      /\ row'[w].status = "delivered" =>
                            [type |-> "delivered", id |-> row'[w].id] \in handled
    BY DEF RowsTellTheTruth, MailsTo, Provider
  <2>1. /\ row[w].id # 0 => row[w].id \in MailsTo(w)
        /\ row[w].status \in {"sent", "delivered"} => row[w].id # 0
        /\ row[w].status = "delivered" =>
              [type |-> "delivered", id |-> row[w].id] \in handled
    BY DEF IInv, RowsTellTheTruth
  <2>2. RowMoves(w, row'[w])
    OBVIOUS
  <2> QED
    BY <2>1, <2>2 DEF RowMoves
<1> QED
  BY <1>1, <1>4, <1>6, <1>7 DEF IInv

LEMMA RestInv ==
    ASSUME IInv, NEW r \in Run, Start(r) \/ Finish(r) \/ Crash(r)
    PROVE  IInv'
<1>0. PICK Ids : /\ Ids = 0..Len(mails) /\ 0 \in Ids
                 /\ row \in [Wallet -> RowSet(Ids)]
  BY Typed DEF IInv
<1>1. UNCHANGED <<mailbox, row, Provider, handled>>
  BY DEF Start, Finish, Crash
<1>2. faults' \in 0..MaxFaults /\ faults <= faults'
  BY PostmanAssumption DEF IInv, TypeOK, Start, Finish, Crash, Fault
<1>3. PICK q \in RunSet(Ids) :
          run' = [run EXCEPT ![r] = q] /\ q.pc \in {"idle", "next"}
  <2>1. NoRun \in RunSet(Ids) /\ NoRun.pc = "idle"
    BY <1>0 DEF NoRun, RunSet
  <2>2. /\ [NoRun EXCEPT !.pc = "next", !.todo = Wallet] \in RunSet(Ids)
        /\ [NoRun EXCEPT !.pc = "next", !.todo = Wallet].pc = "next"
    BY <2>1 DEF RunSet
  <2> QED
    BY <2>1, <2>2 DEF Start, Finish, Crash
<1>4. row' \in [Wallet -> RowSet(Ids)]
  BY <1>0, <1>1
<1>5. \A w \in Wallet : RowMoves(w, row'[w])
  BY <1>1 DEF RowMoves
<1> QED
  BY <1>0, <1>1, <1>2, <1>3, <1>4, <1>5, QuietStep

LEMMA EnlistInv ==
    ASSUME IInv, NEW r \in Run, Enlist(r)
    PROVE  IInv'
<1>0. PICK Ids : /\ Ids = 0..Len(mails) /\ 0 \in Ids
                 /\ row \in [Wallet -> RowSet(Ids)]
                 /\ run \in [Run -> RunSet(Ids)]
                 /\ faults \in 0..MaxFaults
  BY Typed DEF IInv
<1>1. PICK w \in run[r].todo :
          \/ /\ run' = [run EXCEPT ![r].todo = @ \ {w}]
             /\ UNCHANGED row
          \/ /\ row' = [row EXCEPT ![w] = IF @.status = "absent"
                           THEN [@ EXCEPT !.status = "pending"] ELSE @]
             /\ run' = [run EXCEPT ![r].todo = @ \ {w}, ![r].wallet = w,
                                   ![r].pc = "claim"]
  BY DEF Enlist
<1>2. run[r] \in RunSet(Ids) /\ w \in Wallet /\ run[r].pc = "next"
  BY <1>0, <1>1 DEF Enlist, RunSet
<1>3. UNCHANGED <<mailbox, Provider, handled, faults>>
  BY DEF Enlist
<1>4. row' \in [Wallet -> RowSet(Ids)] /\ \A v \in Wallet : RowMoves(v, row'[v])
  <2> DEFINE n == [row[w] EXCEPT !.status = "pending"]
  <2>1. n \in RowSet(Ids) /\ n.id = row[w].id /\ n.status = "pending"
    BY <1>0, <1>1, <1>2 DEF RowSet, Status
  <2>2. \/ row' = row
        \/ row' = [row EXCEPT ![w] = n]
    BY <1>0, <1>1, <1>2
  <2> HIDE DEF n
  <2> QED
    BY <1>0, <1>2, <2>1, <2>2 DEF RowMoves
<1>5. PICK q \in RunSet(Ids) :
          /\ run' = [run EXCEPT ![r] = q]
          /\ q.pc = "next" \/ (q.pc = "claim" /\ q.wallet \in Wallet)
  <2> DEFINE skipped == [run[r] EXCEPT !.todo = @ \ {w}]
             chosen == [run[r] EXCEPT !.todo = @ \ {w}, !.wallet = w,
                                      !.pc = "claim"]
  <2>1. skipped \in RunSet(Ids) /\ skipped.pc = "next"
    BY <1>2 DEF RunSet
  <2>2. chosen \in RunSet(Ids) /\ chosen.pc = "claim" /\ chosen.wallet \in Wallet
    BY <1>2 DEF RunSet
  <2>3. \/ run' = [run EXCEPT ![r] = skipped]
        \/ run' = [run EXCEPT ![r] = chosen]
    BY <1>0, <1>1
  <2> HIDE DEF skipped, chosen
  <2>4. CASE run' = [run EXCEPT ![r] = skipped]
    BY <2>1, <2>4, Zenon
  <2>5. CASE run' = [run EXCEPT ![r] = chosen]
    BY <2>2, <2>5, Zenon
  <2> QED
    BY <2>3, <2>4, <2>5
<1>6. faults' \in 0..MaxFaults /\ faults <= faults'
  BY <1>0, <1>3, PostmanAssumption
<1> QED
  BY <1>0, <1>3, <1>4, <1>5, <1>6, QuietStep

LEMMA ClaimInv ==
    ASSUME IInv, NEW r \in Run, Claim(r)
    PROVE  IInv'
<1>0. PICK Ids : /\ Ids = 0..Len(mails) /\ 0 \in Ids
                 /\ row \in [Wallet -> RowSet(Ids)]
                 /\ run \in [Run -> RunSet(Ids)]
                 /\ faults \in 0..MaxFaults
  BY Typed DEF IInv
<1>1. PICK w \in Wallet : w = run[r].wallet
  BY DEF Claim, IInv, AnswersTrue
<1>2. \/ /\ row' = [row EXCEPT ![w].status = "claimed", ![w].due = FALSE]
         /\ run' = [run EXCEPT ![r].pc = "send"]
      \/ run' = [run EXCEPT ![r].pc = "next"] /\ UNCHANGED row
  BY <1>1 DEF Claim, Go
<1>3. UNCHANGED <<mailbox, Provider, handled, faults>>
  BY DEF Claim
<1>4. row' \in [Wallet -> RowSet(Ids)] /\ \A v \in Wallet : RowMoves(v, row'[v])
  <2> DEFINE n == [row[w] EXCEPT !.status = "claimed", !.due = FALSE]
  <2>1. n \in RowSet(Ids) /\ n.id = row[w].id /\ n.status = "claimed"
    BY <1>0, <1>1, <1>2 DEF RowSet, Status
  <2>2. \/ row' = row
        \/ row' = [row EXCEPT ![w] = n]
    BY <1>0, <1>2
  <2> HIDE DEF n
  <2> QED
    BY <1>0, <2>1, <2>2 DEF RowMoves
<1>5. PICK q \in RunSet(Ids) :
          /\ run' = [run EXCEPT ![r] = q]
          /\ q.pc \in {"next", "send"} /\ q.wallet \in Wallet
  <2> DEFINE at(pc) == [run[r] EXCEPT !.pc = pc]
  <2>1. \A pc \in {"next", "send"} :
            at(pc) \in RunSet(Ids) /\ at(pc).pc = pc /\ at(pc).wallet = w
    BY <1>0, <1>1 DEF RunSet
  <2>2. \E pc \in {"next", "send"} : run' = [run EXCEPT ![r] = at(pc)]
    BY <1>2
  <2> HIDE DEF at
  <2> QED
    BY <2>1, <2>2
<1>6. faults' \in 0..MaxFaults /\ faults <= faults'
  BY <1>0, <1>3, PostmanAssumption
<1> QED
  BY <1>0, <1>3, <1>4, <1>5, <1>6, QuietStep

LEMMA RecordInv ==
    ASSUME IInv, NEW r \in Run, Record(r)
    PROVE  IInv'
<1>0. PICK Ids : /\ Ids = 0..Len(mails) /\ 0 \in Ids
                 /\ row \in [Wallet -> RowSet(Ids)]
                 /\ run \in [Run -> RunSet(Ids)]
                 /\ faults \in 0..MaxFaults
  BY Typed DEF IInv
<1>1. PICK w \in Wallet : w = run[r].wallet
  BY DEF Record, IInv, AnswersTrue
<1>2. UNCHANGED <<mailbox, Provider, handled, faults>>
  BY DEF Record
<1>3. row' \in [Wallet -> RowSet(Ids)] /\ \A v \in Wallet : RowMoves(v, row'[v])
  <2> DEFINE sent == [status |-> "sent", id |-> run[r].id, due |-> TRUE]
             failed == [row[w] EXCEPT !.status = "failed", !.due = FALSE]
  <2>1. failed \in RowSet(Ids) /\ failed.id = row[w].id /\ failed.status = "failed"
    BY <1>0, <1>1, <1>2 DEF RowSet, Status
  <2>2. run[r].pc = "record" =>
            /\ sent \in RowSet(Ids) /\ sent.id \in MailsTo(w) /\ sent.id # 0
            /\ sent.status = "sent"
    <3>1. run[r].id \in 0..Len(mails)
      BY <1>0 DEF RunSet
    <3>2. run[r].pc = "record" => run[r].id \in MailsTo(w)
      BY <1>1 DEF IInv, AnswersTrue
    <3>3. 0 \notin MailsTo(w)
      <4>1. mails \in Seq(Wallet)
        BY DEF IInv, TypeOK
      <4> QED
        BY <4>1 DEF MailsTo
    <3> QED
      BY <1>0, <3>1, <3>2, <3>3 DEF RowSet, Status
  <2>3. \/ row' = row
        \/ run[r].pc = "record" /\ row' = [row EXCEPT ![w] = sent]
        \/ row' = [row EXCEPT ![w] = failed]
    BY <1>0, <1>1 DEF Record
  <2> HIDE DEF sent, failed
  <2> QED
    BY <1>0, <2>1, <2>2, <2>3 DEF RowMoves
<1>4. PICK q \in RunSet(Ids) : run' = [run EXCEPT ![r] = q] /\ q.pc = "next"
  <2> DEFINE q == [NoRun EXCEPT !.pc = "next", !.todo = run[r].todo]
  <2>1. run[r].todo \subseteq Wallet
    BY <1>0 DEF RunSet
  <2>2. q \in RunSet(Ids) /\ q.pc = "next"
    <3>1. NoRun \in RunSet(Ids)
      BY <1>0 DEF NoRun, RunSet
    <3> QED
      BY <2>1, <3>1 DEF RunSet
  <2> QED
    BY <2>2 DEF Record
<1>5. faults' \in 0..MaxFaults /\ faults <= faults'
  BY <1>0, <1>2, PostmanAssumption
<1> QED
  BY <1>0, <1>2, <1>3, <1>4, <1>5, QuietStep

LEMMA SendInv ==
    ASSUME IInv, NEW r \in Run, Send(r) \/ SendFails(r)
    PROVE  IInv'
<1>0. PICK w \in Wallet : w = run[r].wallet
  BY DEF Send, SendFails, IInv, AnswersTrue
<1>1. /\ run[r].pc = "send"
      /\ UNCHANGED <<mailbox, row, emitted, handled, forgotten>>
      /\ faults' \in 0..MaxFaults /\ faults <= faults'
  BY PostmanAssumption DEF Send, SendFails, Fault, IInv, TypeOK
<1>2. \/ UNCHANGED <<mails, known>> /\ run' = [run EXCEPT ![r].pc = "fail"]
      \/ Accept(w) /\ run' = [run EXCEPT ![r].pc = "fail"]
      \/ /\ Accept(w)
         /\ run' = [run EXCEPT ![r].pc = "record",
                               ![r].id = known'[<<w, 0>>]]
  BY <1>0 DEF Send, SendFails, Go, IdempotencyKey
<1>3. /\ KnownTrue' /\ MailsCounted'
      /\ mails' \in Seq(Wallet) /\ Len(mails) <= Len(mails')
      /\ Len(mails) \in Nat /\ Len(mails') \in Nat
      /\ \A v : MailsTo(v) \subseteq MailsTo(v)'
      /\ \A k \in DOMAIN known' : known'[k] \in 1..Len(mails')
  <2>1. CASE UNCHANGED <<mails, known>>
    <3>1. \A v : MailsTo(v)' = MailsTo(v)
      BY <2>1 DEF MailsTo
    <3>2. KnownTrue' /\ MailsCounted'
      BY <1>1, <2>1, <3>1 DEF IInv, KnownTrue, MailsCounted, Remembered
    <3>3. Len(mails) \in Nat /\ mails \in Seq(Wallet)
      BY DEF IInv, TypeOK
    <3> QED
      BY <2>1, <3>1, <3>2, <3>3 DEF IInv, TypeOK
  <2>2. CASE Accept(w)
    BY <1>1, <2>2, Accepted
  <2> QED
    BY <1>2, <2>1, <2>2
<1>4. Accept(w) => /\ <<w, 0>> \in DOMAIN known'
                   /\ known'[<<w, 0>>] \in MailsTo(w)'
                   /\ known'[<<w, 0>>] \in 1..Len(mails')
  <2> SUFFICES ASSUME Accept(w)
               PROVE  /\ <<w, 0>> \in DOMAIN known'
                      /\ known'[<<w, 0>>] \in MailsTo(w)'
                      /\ known'[<<w, 0>>] \in 1..Len(mails')
    OBVIOUS
  <2>1. <<w, 0>> \in DOMAIN known' /\ known'[<<w, 0>>] \in MailsTo(w)'
    BY <1>1, Accepted
  <2> QED
    BY <1>3, <2>1
<1>5. PICK Ids : /\ Ids = 0..Len(mails') /\ 1..Len(mails') \subseteq Ids
                 /\ row \in [Wallet -> RowSet(Ids)]
                 /\ run \in [Run -> RunSet(Ids)]
  <2>1. 0..Len(mails) \subseteq 0..Len(mails') /\ 1..Len(mails') \subseteq 0..Len(mails')
    BY <1>3
  <2>2. \A A, B : A \subseteq B => RowSet(A) \subseteq RowSet(B)
    BY DEF RowSet
  <2>3. \A A, B : A \subseteq B => RunSet(A) \subseteq RunSet(B)
    BY DEF RunSet
  <2>4. /\ row \in [Wallet -> RowSet(0..Len(mails'))]
        /\ run \in [Run -> RunSet(0..Len(mails'))]
    BY <2>1, <2>2, <2>3, Typed DEF IInv
  <2> QED
    BY <2>1, <2>4
<1>6. TypeOK'
  <2>1. row' \in [Wallet -> RowSet(Ids)]
    BY <1>1, <1>5
  <2>2. run' \in [Run -> RunSet(Ids)]
    <3> DEFINE answered == [run[r] EXCEPT !.pc = "record",
                                          !.id = known'[<<w, 0>>]]
               failed == [run[r] EXCEPT !.pc = "fail"]
    <3>1. failed \in RunSet(Ids)
      BY <1>5 DEF RunSet
    <3>2. Accept(w) => answered \in RunSet(Ids)
      BY <1>4, <1>5 DEF RunSet
    <3>3. \/ run' = [run EXCEPT ![r] = failed]
          \/ Accept(w) /\ run' = [run EXCEPT ![r] = answered]
      BY <1>2, <1>5
    <3> HIDE DEF answered, failed
    <3> QED
      BY <1>5, <3>1, <3>2, <3>3
  <2>3. emitted' \subseteq [type: EventType, id: 1..Len(mails')]
    <3>1. 1..Len(mails) \subseteq 1..Len(mails')
      BY <1>3
    <3> QED
      BY <1>1, <3>1 DEF IInv, TypeOK
  <2> QED
    BY <1>1, <1>3, <1>5, <2>1, <2>2, <2>3 DEF IInv, TypeOK, RowSet, RunSet
<1>7. AnswersTrue'
  <2> SUFFICES ASSUME NEW s \in Run
               PROVE  /\ run'[s].pc \in {"claim", "send", "record", "fail"} =>
                            run'[s].wallet \in Wallet
                      /\ \A v : run'[s].pc = "record" /\ run'[s].wallet = v =>
                            run'[s].id \in MailsTo(v)'
    BY DEF AnswersTrue, MailsTo
  <2>1. CASE s # r
    <3>1. run'[s] = run[s]
      BY <1>2, <1>5, <2>1
    <3> QED
      BY <1>3, <3>1 DEF IInv, AnswersTrue
  <2>2. CASE s = r
    <3>1. run'[r].wallet = w
      BY <1>0, <1>2, <1>5 DEF RunSet
    <3>2. \/ run'[r].pc = "fail"
          \/ Accept(w) /\ run'[r].id = known'[<<w, 0>>]
      BY <1>2, <1>5 DEF RunSet
    <3> QED
      BY <1>1, <1>4, <2>2, <3>1, <3>2
  <2> QED
    BY <2>1, <2>2
<1>8. ForgottenBounded'
  <2>1. \A v \in Wallet : forgotten[v] \in Nat /\ faults \in Nat
    BY PostmanAssumption DEF IInv, TypeOK
  <2> QED
    BY <1>1, <2>1, PostmanAssumption DEF IInv, ForgottenBounded
<1>9. RowsTellTheTruth'
  <2>1. \A v \in Wallet : row[v].id \in MailsTo(v) => row[v].id \in MailsTo(v)'
    BY <1>3
  <2> QED
    BY <1>1, <2>1 DEF IInv, RowsTellTheTruth, MailsTo
<1> QED
  BY <1>3, <1>6, <1>7, <1>8, <1>9 DEF IInv

LEMMA ElapseInv ==
    ASSUME IInv, NEW w \in Wallet, Elapse(w)
    PROVE  IInv'
<1> DEFINE n == [row[w] EXCEPT !.due = TRUE]
<1>0. PICK Ids : Ids = 0..Len(mails) /\ row \in [Wallet -> RowSet(Ids)]
  BY Typed DEF IInv
<1>1. UNCHANGED <<mailbox, run, Provider, handled, faults>>
  BY DEF Elapse
<1>2. KnownTrue' /\ MailsCounted' /\ ForgottenBounded'
  <2>1. faults \in 0..MaxFaults /\ faults \in Int
    BY Typed, PostmanAssumption DEF IInv
  <2> QED
    BY <1>1, <2>1, ProviderRests
<1>3. n \in RowSet(Ids) /\ n.id = row[w].id /\ n.status = row[w].status
  BY <1>0 DEF RowSet
<1>4. row' = [row EXCEPT ![w] = n]
  BY <1>0 DEF Elapse
<1> HIDE DEF n
<1>5. row' \in [Wallet -> RowSet(Ids)]
  BY <1>0, <1>3, <1>4
<1>6. TypeOK'
  BY <1>0, <1>1, <1>5 DEF IInv, TypeOK, Provider, RowSet
<1>7. AnswersTrue'
  BY <1>1 DEF IInv, AnswersTrue, Provider, MailsTo
<1>8. \A v \in Wallet : row'[v].id = row[v].id /\ row'[v].status = row[v].status
  BY <1>0, <1>3, <1>4
<1>9. RowsTellTheTruth'
  BY <1>1, <1>8 DEF IInv, RowsTellTheTruth, Provider, MailsTo
<1> QED
  BY <1>2, <1>6, <1>7, <1>9 DEF IInv

LEMMA ForgetInv ==
    ASSUME IInv, NEW k \in DOMAIN known, Forget(k)
    PROVE  IInv'
<1>1. /\ known' = [x \in DOMAIN known \ {k} |-> known[x]]
      /\ UNCHANGED <<mailbox, row, run, mails, emitted, handled>>
      /\ faults < MaxFaults /\ faults' = faults + 1
  BY DEF Forget, Fault
<1>2. PICK w \in Wallet : k = <<w, 0>>
  BY DEF IInv, KnownTrue
<1>3. forgotten' = [forgotten EXCEPT ![w] = @ + 1]
  BY <1>2 DEF Forget
<1>4. /\ forgotten \in [Wallet -> 0..MaxFaults]
      /\ faults \in Nat /\ faults' \in 0..MaxFaults
      /\ \A v \in Wallet : forgotten[v] \in Nat /\ forgotten[v] <= faults
  BY <1>1, PostmanAssumption DEF IInv, TypeOK, ForgottenBounded
<1>5. /\ forgotten' \in [Wallet -> 0..MaxFaults]
      /\ forgotten'[w] = forgotten[w] + 1
      /\ \A v \in Wallet : v # w => forgotten'[v] = forgotten[v]
  BY <1>1, <1>3, <1>4, PostmanAssumption
<1>6. /\ DOMAIN known' = DOMAIN known \ {k}
      /\ \A x \in DOMAIN known' : known'[x] = known[x]
  BY <1>1
<1>7. \A v : MailsTo(v)' = MailsTo(v)
  BY <1>1 DEF MailsTo
<1>8. TypeOK'
  BY <1>1, <1>4, <1>5, <1>6 DEF IInv, TypeOK
<1>9. KnownTrue'
  <2>1. \A x \in DOMAIN known' :
            x \in Wallet \X {0} /\ known'[x] \in MailsTo(x[1])'
    BY <1>6, <1>7 DEF IInv, KnownTrue
  <2> QED
    BY <1>1, <2>1 DEF KnownTrue
<1>10. MailsCounted'
  <2> SUFFICES ASSUME NEW v \in Wallet
               PROVE  Cardinality(MailsTo(v)) <= Remembered(v)' + forgotten'[v]
    BY <1>7 DEF MailsCounted
  <2>1. /\ Cardinality(MailsTo(v)) \in Nat
        /\ Cardinality(MailsTo(v)) <= Remembered(v) + forgotten[v]
    BY MailsFinite DEF IInv, MailsCounted
  <2>2. CASE v = w
    BY <1>2, <1>4, <1>5, <1>6, <2>1, <2>2 DEF Remembered
  <2>3. CASE v # w
    <3>1. Remembered(v)' = Remembered(v)
      BY <1>2, <1>6, <2>3 DEF Remembered
    <3> QED
      BY <1>5, <2>1, <2>3, <3>1
  <2> QED
    BY <2>2, <2>3
<1>11. ForgottenBounded'
  BY <1>1, <1>4, <1>5 DEF ForgottenBounded
<1>12. AnswersTrue' /\ RowsTellTheTruth'
  BY <1>1 DEF IInv, AnswersTrue, RowsTellTheTruth, MailsTo
<1> QED
  BY <1>8, <1>9, <1>10, <1>11, <1>12 DEF IInv

LEMMA EmitInv ==
    ASSUME IInv, NEW e \in [type: EventType, id: 1..Len(mails)], Emit(e)
    PROVE  IInv'
<1>1. /\ UNCHANGED <<mailbox, row, run, mails, known, forgotten, handled, faults>>
      /\ emitted' = emitted \cup {e}
  BY DEF Emit
<1>2. TypeOK'
  BY <1>1 DEF IInv, TypeOK
<1>3. /\ AnswersTrue' /\ KnownTrue' /\ MailsCounted' /\ ForgottenBounded'
      /\ RowsTellTheTruth'
  BY <1>1 DEF IInv, AnswersTrue, KnownTrue, MailsCounted, Remembered,
              ForgottenBounded, RowsTellTheTruth, MailsTo
<1> QED
  BY <1>2, <1>3 DEF IInv

\* An event says of a mail what became of it, and only its own row believes it.
LEMMA WebhookInv ==
    ASSUME IInv, NEW e \in [type: EventType, id: 1..Len(mails)], Webhook(e)
    PROVE  IInv'
<1>0. PICK Ids : Ids = 0..Len(mails) /\ row \in [Wallet -> RowSet(Ids)]
  BY Typed DEF IInv
<1>1. /\ UNCHANGED <<mailbox, run, Provider, faults>>
      /\ e \in emitted /\ handled' = handled \cup {e}
      /\ row' = [w \in Wallet |-> IF row[w].id = e.id
                                  THEN AfterEvent(row[w], e) ELSE row[w]]
  BY DEF Webhook
<1>2. KnownTrue' /\ MailsCounted' /\ ForgottenBounded'
  <2>1. faults \in 0..MaxFaults /\ faults \in Int
    BY Typed, PostmanAssumption DEF IInv
  <2> QED
    BY <1>1, <2>1, ProviderRests
<1>3. \A n \in RowSet(Ids) :
          /\ AfterEvent(n, e) \in RowSet(Ids)
          /\ AfterEvent(n, e).id = n.id
          /\ AfterEvent(n, e).status = "delivered" =>
                e.type = "delivered" \/ n.status = "delivered"
  BY DEF AfterEvent, RowSet, Status, EventType
<1>4. row' \in [Wallet -> RowSet(Ids)]
  BY <1>0, <1>1, <1>3
<1>5. TypeOK'
  BY <1>0, <1>1, <1>4 DEF IInv, TypeOK, Provider, RowSet
<1>6. AnswersTrue'
  BY <1>1 DEF IInv, AnswersTrue, Provider, MailsTo
<1>7. RowsTellTheTruth'
  <2> SUFFICES ASSUME NEW w \in Wallet
               PROVE  /\ row'[w].id # 0 => row'[w].id \in MailsTo(w)
                      /\ row'[w].status \in {"sent", "delivered"} =>
                            row'[w].id # 0
                      /\ row'[w].status = "delivered" =>
                            [type |-> "delivered", id |-> row'[w].id] \in handled'
    BY <1>1 DEF RowsTellTheTruth, MailsTo, Provider
  <2>1. /\ row[w].id # 0 => row[w].id \in MailsTo(w)
        /\ row[w].status \in {"sent", "delivered"} => row[w].id # 0
        /\ row[w].status = "delivered" =>
              [type |-> "delivered", id |-> row[w].id] \in handled
    BY DEF IInv, RowsTellTheTruth
  <2>2. e.id # 0 /\ e = [type |-> e.type, id |-> e.id]
    BY Typed DEF IInv
  <2>3. CASE row[w].id # e.id
    BY <1>1, <2>1, <2>3
  <2>4. CASE row[w].id = e.id
    BY <1>0, <1>1, <1>3, <2>1, <2>2, <2>4
  <2> QED
    BY <2>3, <2>4
<1> QED
  BY <1>2, <1>5, <1>6, <1>7 DEF IInv

LEMMA StutterInv == IInv /\ UNCHANGED vars => IInv'
  BY DEF vars, IInv, TypeOK, AnswersTrue, KnownTrue, MailsCounted, Remembered,
         ForgottenBounded, RowsTellTheTruth, MailsTo

-----------------------------------------------------------------------------
(* Theorems. *)

\* In every reachable state the types hold, what the provider remembers and a
\* run will record is a mail to the right wallet, and mails are counted.
THEOREM SafetyInvariant == Spec => []IInv
<1>1. IInv /\ [Next]_vars => IInv'
  <2> SUFFICES ASSUME IInv, Next PROVE IInv'
    BY StutterInv
  <2>1. CASE \E r \in Run : Start(r) \/ RunStep(r) \/ SendFails(r) \/ Crash(r)
    <3>1. PICK r \in Run : Start(r) \/ RunStep(r) \/ SendFails(r) \/ Crash(r)
      BY <2>1
    <3>2. CASE Start(r) \/ Finish(r) \/ Crash(r)
      BY <3>2, RestInv
    <3>3. CASE Enlist(r)
      BY <3>3, EnlistInv
    <3>4. CASE Claim(r)
      BY <3>4, ClaimInv
    <3>5. CASE Send(r) \/ SendFails(r)
      BY <3>5, SendInv
    <3>6. CASE Record(r)
      BY <3>6, RecordInv
    <3> QED
      BY <3>1, <3>2, <3>3, <3>4, <3>5, <3>6 DEF RunStep
  <2>2. CASE \E w \in Wallet : Elapse(w)
    BY <2>2, ElapseInv
  <2>3. CASE \E k \in DOMAIN known : Forget(k)
    BY <2>3, ForgetInv
  <2>4. CASE \E e \in [type: EventType, id: 1..Len(mails)] : Emit(e) \/ Webhook(e)
    BY <2>4, EmitInv, WebhookInv
  <2> QED
    BY <2>1, <2>2, <2>3, <2>4 DEF Next
<1> QED
  BY InitInv, <1>1, PTL DEF Spec

\* Every row, run, mail and event is what its type says.
THEOREM TypeCorrect == Spec => []TypeOK
<1>1. IInv => TypeOK
  BY DEF IInv
<1> QED
  BY <1>1, SafetyInvariant, PTL

\* A row names a mail to its own wallet, and is delivered only when the
\* provider said so of that mail.
THEOREM RowsTellTheTruthAlways == Spec => []RowsTellTheTruth
<1>1. IInv => RowsTellTheTruth
  BY DEF IInv
<1> QED
  BY <1>1, SafetyInvariant, PTL

\* However many recipients, runs, crashes, lost answers and events there are: a
\* wallet gets one mail, and one more each time its key was forgotten.
THEOREM OneMailWhileRememberedAlways == Spec => []OneMailWhileRemembered
<1>1. IInv => OneMailWhileRemembered
  <2> SUFFICES ASSUME IInv, NEW w \in Wallet
               PROVE  Cardinality(MailsTo(w)) <= 1 + forgotten[w]
    BY DEF OneMailWhileRemembered
  <2>1. /\ Cardinality(MailsTo(w)) \in Nat /\ forgotten[w] \in Nat
        /\ Cardinality(MailsTo(w)) <= Remembered(w) + forgotten[w]
    BY MailsFinite, PostmanAssumption DEF IInv, MailsCounted, TypeOK
  <2> QED
    BY <2>1 DEF Remembered
<1> QED
  BY <1>1, SafetyInvariant, PTL
=============================================================================
