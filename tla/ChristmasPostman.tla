-------------------------- MODULE ChristmasPostman --------------------------
(***************************************************************************)
(* The Christmas notification: the cron job that mails every recipient of  *)
(* a letter once (backend ChristmasPostman.php), the rows of table         *)
(* notifications it shares with the webhook of the mail provider           *)
(* (ResendWebhookService.php), and the provider, which remembers an        *)
(* idempotency key for a while and reports what became of a mail in events *)
(* that arrive at any time, in any order and more than once.               *)
(*                                                                         *)
(* The job runs after UNLOCK_AT.  Lease and back-off times are one flag    *)
(* per row: due says that the claim is older than 15 minutes, or that      *)
(* next_retry_at is null or past.                                          *)
(***************************************************************************)
EXTENDS Integers, Sequences, FiniteSets

CONSTANTS
    Wallet,      \* recipients of the letters in the chain snapshot
    Run,         \* cron runs of the job
    MaxFaults    \* bound on crashes, send failures and forgotten keys

ASSUME PostmanAssumption == MaxFaults \in Nat

VARIABLES
    mailbox,    \* wallet -> "none", "good" or "undecryptable" address
    row,        \* wallet -> its notification ("absent" before the first run)
    run,        \* run -> where it is
    mails,      \* mails the provider accepted; a message id is its index
    known,      \* idempotency key -> message id the provider remembers
    emitted,    \* provider events so far
    handled,    \* event ids in webhook_events
    forgotten,  \* wallet -> how often the provider forgot a key of it (ghost)
    faults

vars == <<mailbox, row, run, mails, known, emitted, handled, forgotten, faults>>

Status == {"absent", "pending", "claimed", "sent", "failed", "delivered"}
EventType == {"sent", "delivered", "bounced"}
NoRow == [status |-> "absent", id |-> 0, due |-> FALSE]
NoRun == [pc |-> "idle", todo |-> {}, wallet |-> "none", id |-> 0]

\* Mutant: every attempt is a request of its own.
IdempotencyKeyPerAttempt(w) == <<w, Len(mails)>>

\* gibyeol/christmas-2026/{wallet}
IdempotencyKey(w) == <<w, 0>>

TypeOK ==
    /\ mailbox \in [Wallet -> {"none", "good", "undecryptable"}]
    /\ row \in [Wallet -> [status: Status, id: 0..Len(mails), due: BOOLEAN]]
    /\ run \in [Run -> [pc: {"idle", "next", "claim", "send", "record",
                             "fail"},
                        todo: SUBSET Wallet, wallet: Wallet \cup {"none"},
                        id: 0..Len(mails)]]
    /\ mails \in Seq(Wallet)
    /\ \A k \in DOMAIN known : known[k] \in 1..Len(mails)
    /\ emitted \subseteq [type: EventType, id: 1..Len(mails)]
    /\ handled \subseteq emitted
    /\ forgotten \in [Wallet -> 0..MaxFaults]
    /\ faults \in 0..MaxFaults

Init ==
    /\ mailbox \in [Wallet -> {"none", "good", "undecryptable"}]
    /\ row = [w \in Wallet |-> NoRow]
    /\ run = [r \in Run |-> NoRun]
    /\ mails = << >> /\ known = << >>
    /\ emitted = {} /\ handled = {}
    /\ forgotten = [w \in Wallet |-> 0] /\ faults = 0

Provider == <<mails, known, emitted, forgotten>>
Fault == faults < MaxFaults /\ faults' = faults + 1
Go(r, pc) == run' = [run EXCEPT ![r].pc = pc]

-----------------------------------------------------------------------------
(* app:postman:christmas *)

\* flock allows one run at a time; the snapshot names every recipient.
Start(r) ==
    /\ \A s \in Run : run[s].pc = "idle"
    /\ run' = [run EXCEPT ![r] = [NoRun EXCEPT !.pc = "next",
                                               !.todo = Wallet]]
    /\ UNCHANGED <<mailbox, row, Provider, handled, faults>>

\* The next recipient: skipped without a mailbox, else INSERT IGNORE.
Enlist(r) ==
    /\ run[r].pc = "next"
    /\ \E w \in run[r].todo :
          \/ /\ mailbox[w] = "none"
             /\ run' = [run EXCEPT ![r].todo = @ \ {w}]
             /\ UNCHANGED row
          \/ /\ mailbox[w] # "none"
             /\ row' = [row EXCEPT ![w] = IF @.status = "absent"
                           THEN [@ EXCEPT !.status = "pending"] ELSE @]
             /\ run' = [run EXCEPT ![r].todo = @ \ {w}, ![r].wallet = w,
                                   ![r].pc = "claim"]
    /\ UNCHANGED <<mailbox, Provider, handled, faults>>

\* Mutant: a claim whose run died is never taken over.
ClaimableNoTakeover(n) ==
    \/ n.status = "pending"
    \/ n.status = "failed" /\ n.due

Claimable(n) ==
    \/ n.status = "pending"
    \/ n.status \in {"failed", "claimed"} /\ n.due

Claim(r) ==
    /\ run[r].pc = "claim"
    /\ LET w == run[r].wallet IN
       IF Claimable(row[w])
       THEN /\ row' = [row EXCEPT ![w].status = "claimed", ![w].due = FALSE]
            /\ Go(r, "send")
       ELSE Go(r, "next") /\ UNCHANGED row
    /\ UNCHANGED <<mailbox, Provider, handled, faults>>

\* The provider accepts: a remembered key returns the earlier message.
Accept(w) ==
    LET k == IdempotencyKey(w) IN
    IF k \in DOMAIN known
    THEN UNCHANGED <<mails, known>>
    ELSE /\ mails' = Append(mails, w)
         /\ known' = [x \in DOMAIN known \cup {k} |->
                         IF x = k THEN Len(mails) + 1 ELSE known[x]]

Send(r) ==
    /\ run[r].pc = "send"
    /\ LET w == run[r].wallet IN
       \/ /\ mailbox[w] = "undecryptable"
          /\ Go(r, "fail") /\ UNCHANGED <<mails, known>>
       \/ /\ mailbox[w] = "good" /\ Accept(w)
          /\ run' = [run EXCEPT ![r].pc = "record",
                                ![r].id = known'[IdempotencyKey(w)]]
    /\ UNCHANGED <<mailbox, row, emitted, handled, forgotten, faults>>

\* The request fails, or is served but not answered in time.
SendFails(r) ==
    /\ Fault /\ run[r].pc = "send" /\ mailbox[run[r].wallet] = "good"
    /\ Accept(run[r].wallet) \/ UNCHANGED <<mails, known>>
    /\ Go(r, "fail")
    /\ UNCHANGED <<mailbox, row, emitted, handled, forgotten>>

\* Mutant: the answer is written to the row whatever became of the request.
RecordFailAsSent(r) ==
    /\ run[r].pc \in {"record", "fail"}
    /\ LET w == run[r].wallet IN
       row' = [row EXCEPT ![w] = IF @.status # "claimed" THEN @
                  ELSE [status |-> "sent", id |-> run[r].id, due |-> TRUE]]
    /\ run' = [run EXCEPT ![r] = [NoRun EXCEPT !.pc = "next",
                                               !.todo = run[r].todo]]
    /\ UNCHANGED <<mailbox, Provider, handled, faults>>

\* The row is written only while it is still claimed.
Record(r) ==
    /\ run[r].pc \in {"record", "fail"}
    /\ LET w == run[r].wallet IN
       row' = [row EXCEPT ![w] =
                  IF @.status # "claimed" THEN @
                  ELSE IF run[r].pc = "record"
                  THEN [status |-> "sent", id |-> run[r].id, due |-> TRUE]
                  ELSE [@ EXCEPT !.status = "failed", !.due = FALSE]]
    /\ run' = [run EXCEPT ![r] = [NoRun EXCEPT !.pc = "next",
                                               !.todo = run[r].todo]]
    /\ UNCHANGED <<mailbox, Provider, handled, faults>>

Finish(r) ==
    /\ run[r].pc = "next" /\ run[r].todo = {}
    /\ run' = [run EXCEPT ![r] = NoRun]
    /\ UNCHANGED <<mailbox, row, Provider, handled, faults>>

\* The process dies; the kernel releases its lock.
Crash(r) ==
    /\ Fault /\ run[r].pc # "idle"
    /\ run' = [run EXCEPT ![r] = NoRun]
    /\ UNCHANGED <<mailbox, row, Provider, handled>>

-----------------------------------------------------------------------------
(* Time, the provider and its webhook. *)

\* 15 minutes after a claim, or next_retry_at after a failure.
Elapse(w) ==
    /\ row[w].status \in {"claimed", "failed"} /\ ~row[w].due
    /\ row' = [row EXCEPT ![w].due = TRUE]
    /\ UNCHANGED <<mailbox, run, Provider, handled, faults>>

\* The provider forgets an idempotency key after its retention time.
Forget(k) ==
    /\ Fault
    /\ known' = [x \in DOMAIN known \ {k} |-> known[x]]
    /\ forgotten' = [forgotten EXCEPT ![k[1]] = @ + 1]
    /\ UNCHANGED <<mailbox, row, run, mails, emitted, handled>>

Emit(e) ==
    /\ e \notin emitted /\ emitted' = emitted \cup {e}
    /\ UNCHANGED <<mailbox, row, run, mails, known, forgotten, handled, faults>>

\* The status an event gives a row with its message id.
AfterEvent(n, e) ==
    CASE e.type = "delivered" -> [n EXCEPT !.status = "delivered"]
      [] e.type = "bounced" ->
            [n EXCEPT !.status = "failed",
                      !.due = IF n.status = "failed" THEN @ ELSE TRUE]
      [] e.type = "sent" /\ n.status \notin {"delivered", "failed"} ->
            [n EXCEPT !.status = "sent"]
      [] OTHER -> n

\* One transaction; an event id seen before changes nothing.
Webhook(e) ==
    /\ e \in emitted \ handled
    /\ handled' = handled \cup {e}
    /\ row' = [w \in Wallet |-> IF row[w].id = e.id
                                THEN AfterEvent(row[w], e) ELSE row[w]]
    /\ UNCHANGED <<mailbox, run, Provider, faults>>

RunStep(r) ==
    Enlist(r) \/ Claim(r) \/ Send(r) \/ Record(r) \/ Finish(r)

Next ==
    \/ \E r \in Run : Start(r) \/ RunStep(r) \/ SendFails(r) \/ Crash(r)
    \/ \E w \in Wallet : Elapse(w)
    \/ \E k \in DOMAIN known : Forget(k)
    \/ \E e \in [type: EventType, id: 1..Len(mails)] : Emit(e) \/ Webhook(e)

Spec == Init /\ [][Next]_vars

\* cron starts the job again and again, and time passes.
FairSpec ==
    /\ Spec
    /\ WF_vars(\E r \in Run : Start(r) \/ RunStep(r))
    /\ \A w \in Wallet : WF_vars(Elapse(w))

-----------------------------------------------------------------------------
(* Properties. *)

MailsTo(w) == {i \in DOMAIN mails : mails[i] = w}

\* Whatever crashes, times out, bounces or is claimed again, a wallet gets one
\* mail, and one more each time the provider forgot its key: every attempt of
\* every run carries the same idempotency key (ChristmasPostman.php:54).
OneMailWhileRemembered ==
    \A w \in Wallet : Cardinality(MailsTo(w)) <= 1 + forgotten[w]

\* A row names a mail to its own wallet, it is "sent" only with such a mail,
\* and "delivered" only when the provider said so of that very mail: the UPDATE
\* guarded by status = 'claimed' (56) and the webhook's by message id (35-39)
\* may come in any order.
RowsTellTheTruth ==
    \A w \in Wallet :
        /\ row[w].id # 0 => row[w].id \in MailsTo(w)
        /\ row[w].status \in {"sent", "delivered"} => row[w].id # 0
        /\ row[w].status = "delivered" =>
              [type |-> "delivered", id |-> row[w].id] \in handled

\* Every recipient with a usable address is mailed, however often runs die or
\* requests fail: a dead run's claim is taken over and a failed row is claimed
\* again once its time has come (claim, 69-74).
EventuallyMailed ==
    \A w \in Wallet : (mailbox[w] = "good") ~> (MailsTo(w) # {})
=============================================================================
