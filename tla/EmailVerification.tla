-------------------------- MODULE EmailVerification --------------------------
(***************************************************************************)
(* Proving an e-mail address (backend EmailService.php) and the cleanup of *)
(* the proofs (MaintenanceCleanupCommand.php): the tables                  *)
(* email_verifications (rows) and mailboxes.  A challenge counts the       *)
(* recent rows, then inserts one: two statements, no transaction.  A       *)
(* verification is one transaction under the lock of the row it selects.   *)
(* Sending the code by mail comes after the insert and changes no table,   *)
(* whether it fails or not; an expired code, and a transaction that a      *)
(* unique key rolls back, change none either.                              *)
(***************************************************************************)
EXTENDS Integers, FiniteSets

CONSTANTS
    Wallet, Email, RequestIp,
    Request,         \* challenge requests in progress
    None,            \* SQL NULL, no row, no request
    ChallengeLimit,  \* CHALLENGE_LIMIT
    Window,          \* INTERVAL 10 MINUTE
    Ttl,             \* OTP_TTL_SECONDS
    MaxAttempts,     \* MAX_ATTEMPTS
    Retention,       \* INTERVAL 30 DAY
    MaxTime, MaxRows \* bounds of the model

Asked == [wallet: Wallet, email: Email, ip: RequestIp]
Row == [id: Nat, wallet: Wallet, email: Email, ip: RequestIp, createdAt: Nat,
        attempts: 0..MaxAttempts, verifiedAt: Nat \cup {None}]

\* wallet is the one that the address is encrypted for, not the row's key.
Mailbox == [wallet: Wallet, email: Email, verifiedAt: Nat]

ASSUME EmailAssumption ==
    /\ {ChallengeLimit, Window, Ttl, MaxAttempts, Retention, MaxTime, MaxRows}
           \subseteq Nat
    /\ ChallengeLimit > 0 /\ Window > 0 /\ Ttl > 0 /\ Retention > Ttl
    /\ IsFiniteSet(Request)
    /\ None \notin Nat \cup Email \cup Asked \cup Mailbox

VARIABLES
    now,
    rows,       \* email_verifications
    nextId,     \* its AUTO_INCREMENT
    challenge,  \* request -> what it was counted for and has not yet inserted
    mailboxes,  \* wallet -> its row, or None
    provedBy,   \* history: email -> the wallets that ever verified it
    lastProved  \* history: wallet -> the address it verified last, or None

history == <<provedBy, lastProved>>
vars == <<now, rows, nextId, challenge, mailboxes, history>>

TypeOK ==
    /\ now \in 0..MaxTime
    /\ rows \subseteq Row
    /\ nextId \in Nat
    /\ challenge \in [Request -> Asked \cup {None}]
    /\ mailboxes \in [Wallet -> Mailbox \cup {None}]
    /\ provedBy \in [Email -> SUBSET Wallet]
    /\ lastProved \in [Wallet -> Email \cup {None}]

Init ==
    /\ now = 0 /\ rows = {} /\ nextId = 1
    /\ challenge = [q \in Request |-> None]
    /\ mailboxes = [w \in Wallet |-> None]
    /\ provedBy = [e \in Email |-> {}]
    /\ lastProved = [w \in Wallet |-> None]

-----------------------------------------------------------------------------
(* POST /mailbox/email/challenge *)

Recent(r) == r.createdAt > now - Window

\* The columns that a row and a request may have in common.
Key == {"wallet", "email", "ip"}

\* Mutant: the limit is one per wallet, address and client together.
RecentCountOfAll(a) ==
    Cardinality({r \in rows : Recent(r) /\ \A f \in Key : r[f] = a[f]})

RecentCount(a) ==
    Cardinality({r \in rows : Recent(r) /\ \E f \in Key : r[f] = a[f]})

ChallengeCount(q, a) ==
    /\ challenge[q] = None
    /\ RecentCount(a) < ChallengeLimit
    /\ challenge' = [challenge EXCEPT ![q] = a]
    /\ UNCHANGED <<now, rows, nextId, mailboxes, history>>

ChallengeInsert(q) ==
    /\ challenge[q] # None
    /\ nextId <= MaxRows
    /\ LET a == challenge[q] IN
       rows' = rows \cup
           {[id |-> nextId, wallet |-> a.wallet, email |-> a.email,
             ip |-> a.ip, createdAt |-> now, attempts |-> 0,
             verifiedAt |-> None]}
    /\ nextId' = nextId + 1
    /\ challenge' = [challenge EXCEPT ![q] = None]
    /\ UNCHANGED <<now, mailboxes, history>>

\* The request dies between the two statements.
ChallengeDies(q) ==
    /\ challenge[q] # None
    /\ challenge' = [challenge EXCEPT ![q] = None]
    /\ UNCHANGED <<now, rows, nextId, mailboxes, history>>

-----------------------------------------------------------------------------
(* POST /mailbox/email/verify.  The code is compared with that of the      *)
(* selected row alone, so it is right or wrong and has no other value.     *)

\* ORDER BY id DESC LIMIT 1 FOR UPDATE.
Selected(w) ==
    {r \in rows : /\ r.wallet = w /\ r.verifiedAt = None
                  /\ \A s \in rows :
                        s.wallet = w /\ s.verifiedAt = None => s.id <= r.id}

Alive(r) == r.attempts < MaxAttempts /\ r.createdAt + Ttl > now

Replace(r, s) == rows' = (rows \ {r}) \cup {s}

VerifyInvalid(w) ==
    \E r \in Selected(w) :
        /\ Alive(r)
        /\ Replace(r, [r EXCEPT !.attempts = @ + 1])
        /\ UNCHANGED <<now, nextId, challenge, mailboxes, history>>

Holders(e) == {x \in Wallet : mailboxes[x] # None /\ mailboxes[x].email = e}

\* The upsert of (w, e): the row it finds by the primary key is the one to be
\* updated, and then another row with the address fails the statement;
\* without one, it is the row that the unique address finds.
DuplicateKey(w, e) == mailboxes[w] # None /\ Holders(e) \ {w} # {}

\* Mutant: the address of a mailbox is never changed.
UpsertedKeepsFirst(w, e) == IF mailboxes[w] # None THEN {} ELSE {w}

Upserted(w, e) ==
    IF mailboxes[w] = None /\ Holders(e) # {} THEN Holders(e) ELSE {w}

VerifyOk(w) ==
    \E r \in Selected(w) :
        /\ Alive(r)
        /\ ~DuplicateKey(w, r.email)
        /\ Replace(r, [r EXCEPT !.attempts = @ + 1, !.verifiedAt = now])
        /\ mailboxes' =
               [x \in Wallet |->
                   IF x \in Upserted(w, r.email)
                   THEN [wallet |-> w, email |-> r.email, verifiedAt |-> now]
                   ELSE mailboxes[x]]
        /\ provedBy' = [provedBy EXCEPT ![r.email] = @ \cup {w}]
        /\ lastProved' = [lastProved EXCEPT ![w] = r.email]
        /\ UNCHANGED <<now, nextId, challenge>>

-----------------------------------------------------------------------------
(* app:maintenance:cleanup, and time. *)

\* Mutant: the retention is counted from the expiry window, not from now.
StaleEarly(r) == r.createdAt < now - (Retention - Ttl)

Stale(r) == r.createdAt < now - Retention

Cleanup ==
    /\ rows' = {r \in rows : ~Stale(r)}
    /\ UNCHANGED <<now, nextId, challenge, mailboxes, history>>

Elapse ==
    /\ now < MaxTime
    /\ now' = now + 1
    /\ UNCHANGED <<rows, nextId, challenge, mailboxes, history>>

Next ==
    \/ \E q \in Request, a \in Asked : ChallengeCount(q, a)
    \/ \E q \in Request : ChallengeInsert(q) \/ ChallengeDies(q)
    \/ \E w \in Wallet : VerifyInvalid(w) \/ VerifyOk(w)
    \/ Cleanup
    \/ Elapse

Spec == Init /\ [][Next]_vars

-----------------------------------------------------------------------------
(* Properties. *)

\* Concurrent challenges overshoot the limit by no more than their number,
\* for each wallet, each address and each client.
\* (EmailService::challenge, the count and the insert)
Overshoot == ChallengeLimit - 1 + Cardinality(Request)
RecentBy(f, v) == {r \in rows : Recent(r) /\ r[f] = v}
ChallengesBounded ==
    \A f \in Key, v \in Wallet \cup Email \cup RequestIp :
        Cardinality(RecentBy(f, v)) <= Overshoot

\* A mailbox holds an address that the wallet it is encrypted for has proved:
\* the proof is there until the cleanup may have taken it.
\* (EmailService::verify with MaintenanceCleanupCommand)
MailboxProved ==
    \A w \in Wallet : mailboxes[w] # None =>
        LET m == mailboxes[w] IN
        \/ now - m.verifiedAt > Retention - Ttl
        \/ \E r \in rows : r.wallet = m.wallet /\ r.email = m.email
                           /\ r.verifiedAt = m.verifiedAt

HasMailbox(w, e) ==
    /\ mailboxes[w] # None
    /\ mailboxes[w].wallet = w /\ mailboxes[w].email = e

\* A wallet whose verification succeeded has a mailbox with that address,
\* which the postman can decrypt.  (EmailService::verify)
VerifiedHasMailbox ==
    \A w \in Wallet :
        lastProved[w] # None => HasMailbox(w, lastProved[w])

\* The only way to be without it is a second wallet that verified the same
\* address.  (EmailService::verify, the two unique keys of mailboxes)
LostOnlyToSharedEmail ==
    \A w \in Wallet :
        lastProved[w] # None =>
            \/ HasMailbox(w, lastProved[w])
            \/ provedBy[lastProved[w]] \ {w} # {}
=============================================================================
