------------------------ MODULE LetterDelivery_proofs ------------------------
(***************************************************************************)
(* For every selection of files, parcel, text, chain, number of slots and  *)
(* faults.  Four parts, each with its inductive invariant:                 *)
(*   - the calls of the inbox, their secrets and its busy flag (IInv);     *)
(*   - the preparation of media and the files of its core (MediaInv);      *)
(*   - the formats, whose makers and readers are inverse to each other;    *)
(*   - the chain, what a call has in hand, and the screen (InboxInv).      *)
(***************************************************************************)
EXTENDS LetterDelivery, FiniteSetTheorems, WellFoundedInduction, TLAPS

\* Calls and the hook's state are records of their kind.
Shaped ==
    /\ DOMAIN calls = Slot /\ DOMAIN secrets = Slot
    /\ \A c \in Slot : DOMAIN calls[c] = DOMAIN NoCall
    /\ DOMAIN box = DOMAIN Mounted
    /\ {box.busy, box.here} \subseteq BOOLEAN

\* What a call holds is what the blocks around its step erase.
Covered == \A c \in Slot : secrets[c] \subseteq Erased(calls[c])

\* A refresh is listened to as long as its inbox is mounted, and holds nothing.
Heard ==
    \A c \in Slot : calls[c].kind = "refresh" =>
        /\ calls[c].newest <=> calls[c].current
        /\ calls[c].step \in {"head", "page"}

Live(c) == calls[c] # NoCall /\ calls[c].current
Alone ==
    /\ \A c, d \in Slot : Live(c) /\ Live(d) => c = d
    /\ box.busy <=> \E c \in Slot : Live(c)

\* An inbox that is not mounted shows nothing.
Hidden == ~box.here => box = Unmounted

IInv == Shaped /\ Covered /\ Heard /\ Alone /\ Hidden

-----------------------------------------------------------------------------
(* How a step may change calls, their secrets and the screen. *)

\* A call goes on to its next step.
LEMMA AwaitsKeeps ==
    ASSUME IInv, NEW c \in Slot, NEW call, NEW buffers,
           Awaits(c, call, buffers),
           calls[c] # NoCall, call # NoCall,
           DOMAIN call = DOMAIN NoCall, call.current = calls[c].current,
           call.kind = "refresh" =>
               /\ call.newest <=> call.current
               /\ call.step \in {"head", "page"},
           secrets[c] \cup buffers \subseteq Erased(call)
    PROVE  IInv'
<1>1. /\ calls' = [calls EXCEPT ![c] = call]
      /\ secrets' = [secrets EXCEPT ![c] = @ \cup buffers]
      /\ box' = box
  BY DEF Awaits, Becomes
<1>2. /\ DOMAIN calls' = Slot /\ DOMAIN secrets' = Slot
      /\ calls'[c] = call /\ secrets'[c] = secrets[c] \cup buffers
      /\ \A d \in Slot : d # c =>
            calls'[d] = calls[d] /\ secrets'[d] = secrets[d]
  BY <1>1 DEF IInv, Shaped
<1>3. Shaped'
  BY <1>1, <1>2 DEF IInv, Shaped
<1>4. Covered'
  <2>1. \A d \in Slot : secrets'[d] \subseteq Erased(calls'[d])
    BY <1>2 DEF IInv, Covered
  <2> QED
    BY <2>1 DEF Covered, Erased
<1>5. Heard'
  BY <1>2 DEF IInv, Heard
<1>6. Alone'
  BY <1>1, <1>2 DEF IInv, Alone, Live, NoCall
<1>7. Hidden'
  BY <1>1 DEF IInv, Hidden, Unmounted, Mounted
<1> QED
  BY <1>3, <1>4, <1>5, <1>6, <1>7 DEF IInv

\* A call ends: its secrets go, and the screen is its own to change.
LEMMA EndsKeeps ==
    ASSUME IInv, NEW c \in Slot, NEW new, Ends(c, new),
           calls[c] # NoCall, DOMAIN new = DOMAIN Mounted, new.here = box.here
    PROVE  IInv'
<1>1. /\ calls' = [calls EXCEPT ![c] = NoCall]
      /\ secrets' = [secrets EXCEPT ![c] = @ \ Erased(calls[c])]
      /\ box' = IF calls[c].current THEN [new EXCEPT !.busy = FALSE] ELSE box
  BY DEF Ends, Becomes
<1>2. /\ DOMAIN calls' = Slot /\ DOMAIN secrets' = Slot
      /\ calls'[c] = NoCall /\ secrets'[c] = {}
      /\ \A d \in Slot : d # c =>
            calls'[d] = calls[d] /\ secrets'[d] = secrets[d]
  BY <1>1 DEF IInv, Shaped, Covered
<1>3. /\ "busy" \in DOMAIN Mounted /\ "here" \in DOMAIN Mounted
      /\ Unmounted.busy = FALSE
  BY DEF Mounted, Unmounted
<1>4. CASE calls[c].current
  <2>1. /\ DOMAIN box' = DOMAIN Mounted
        /\ box'.busy = FALSE /\ box'.here = box.here
    BY <1>1, <1>3, <1>4
  <2>2. box.busy /\ \A d \in Slot : Live(d) => d = c
    BY <1>4 DEF IInv, Alone, Live
  <2>3. box.here
    BY <1>3, <2>2 DEF IInv, Hidden
  <2>4. Alone'
    BY <1>2, <2>1, <2>2 DEF Alone, Live, NoCall
  <2>5. Shaped' /\ Hidden'
    BY <1>2, <2>1, <2>3 DEF IInv, Shaped, Hidden
  <2> QED
    BY <1>2, <2>4, <2>5 DEF IInv, Covered, Heard, NoCall, Erased
<1>5. CASE ~calls[c].current
  <2>1. box' = box
    BY <1>1, <1>5
  <2>2. Alone'
    BY <1>2, <1>5, <2>1 DEF IInv, Alone, Live, NoCall
  <2>3. Shaped' /\ Hidden'
    BY <1>2, <2>1 DEF IInv, Shaped, Hidden, Unmounted, Mounted
  <2> QED
    BY <1>2, <2>2, <2>3 DEF IInv, Covered, Heard, NoCall, Erased
<1> QED
  BY <1>4, <1>5

\* The catch block.
LEMMA RefuseKeeps ==
    ASSUME IInv, NEW c \in Slot, NEW reason, Refuse(c, reason),
           calls[c].kind # "idle"
    PROVE  IInv'
<1>1. PICK new : new = [box EXCEPT !.error = [tx |-> calls[c].tx,
                                             reason |-> reason]]
  OBVIOUS
<1>2. Ends(c, new)
  BY <1>1 DEF Refuse
<1>3. DOMAIN new = DOMAIN Mounted /\ new.here = box.here /\ calls[c] # NoCall
  BY <1>1 DEF IInv, Shaped, Mounted, NoCall
<1> QED
  BY <1>2, <1>3, EndsKeeps

\* A refresh ends: the screen changes only if its inbox is mounted.
LEMMA RefreshEndsKeeps ==
    ASSUME IInv, NEW c \in Slot, NEW new, Becomes(c, NoCall),
           UNCHANGED secrets, calls[c].kind = "refresh",
           box' = IF calls[c].newest THEN new ELSE box,
           DOMAIN new = DOMAIN Mounted, new.here = box.here, new.busy = FALSE
    PROVE  IInv'
<1>1. /\ DOMAIN calls' = Slot /\ DOMAIN secrets' = Slot
      /\ calls'[c] = NoCall /\ secrets' = secrets
      /\ \A d \in Slot : d # c => calls'[d] = calls[d]
  BY DEF IInv, Shaped, Becomes
<1>2. secrets[c] = {} /\ calls[c] # NoCall
  BY DEF IInv, Heard, Covered, Erased, NoCall
<1>3. Covered' /\ Heard'
  BY <1>1, <1>2 DEF IInv, Covered, Heard, NoCall, Erased
<1>4. CASE calls[c].newest
  <2>1. box.busy /\ Live(c) /\ \A d \in Slot : Live(d) => d = c
    BY <1>2, <1>4 DEF IInv, Heard, Alone, Live
  <2>2. box.here
    BY <2>1 DEF IInv, Hidden, Unmounted, Mounted
  <2>3. Alone'
    BY <1>1, <1>4, <2>1 DEF Alone, Live, NoCall
  <2>4. Shaped' /\ Hidden'
    BY <1>1, <1>4, <2>2 DEF IInv, Shaped, Hidden
  <2> QED
    BY <1>3, <2>3, <2>4 DEF IInv
<1>5. CASE ~calls[c].newest
  <2>1. box' = box /\ ~Live(c)
    BY <1>5 DEF IInv, Heard, Live
  <2>2. Alone'
    BY <1>1, <2>1 DEF IInv, Alone, Live, NoCall
  <2>3. Shaped' /\ Hidden'
    BY <1>1, <2>1 DEF IInv, Shaped, Hidden, Unmounted, Mounted
  <2> QED
    BY <1>3, <2>2, <2>3 DEF IInv
<1> QED
  BY <1>4, <1>5

\* A button of the mounted inbox starts a call.
LEMMA BeginsKeeps ==
    ASSUME IInv, NEW c \in Slot, NEW call, NEW new, calls[c] = NoCall,
           ~box.busy, Becomes(c, call), UNCHANGED secrets, box' = new,
           DOMAIN call = DOMAIN NoCall, call # NoCall, call.current = TRUE,
           call.kind # "refresh",
           DOMAIN new = DOMAIN Mounted, new.busy = TRUE, new.here = TRUE
    PROVE  IInv'
<1>1. /\ DOMAIN calls' = Slot /\ DOMAIN secrets' = Slot
      /\ calls'[c] = call /\ secrets' = secrets
      /\ \A d \in Slot : d # c => calls'[d] = calls[d]
  BY DEF IInv, Shaped, Becomes
<1>2. secrets[c] = {}
  BY DEF IInv, Covered, Erased, NoCall
<1>3. \A d \in Slot : ~Live(d)
  BY DEF IInv, Alone
<1>4. Shaped'
  BY <1>1 DEF IInv, Shaped
<1>5. Covered' /\ Heard'
  <2>1. \A d \in Slot : secrets'[d] \subseteq Erased(calls'[d])
    BY <1>1, <1>2 DEF IInv, Covered
  <2> QED
    BY <1>1, <2>1 DEF IInv, Covered, Erased, Heard
<1>6. Alone'
  BY <1>1, <1>3 DEF Alone, Live, NoCall
<1>7. Hidden'
  BY DEF Hidden
<1> QED
  BY <1>4, <1>5, <1>6, <1>7 DEF IInv

\* An inbox that runs nothing starts a refresh.
LEMMA RefreshKeeps ==
    ASSUME IInv, NEW c \in Slot, NEW new, Refresh(c, new), ~box.busy,
           DOMAIN new = DOMAIN Mounted, new.here = TRUE
    PROVE  IInv'
<1>1. PICK call : call = [Call("refresh", "head", NoTx) EXCEPT !.newest = TRUE]
  OBVIOUS
<1>2. /\ DOMAIN call = DOMAIN NoCall /\ call # NoCall /\ call.current = TRUE
      /\ call.kind = "refresh" /\ call.step = "head" /\ call.newest = TRUE
  BY <1>1 DEF Call, NoCall
<1>3. /\ DOMAIN calls' = Slot /\ secrets' = secrets /\ calls'[c] = call
      /\ \A d \in Slot : d # c => calls'[d] = [calls[d] EXCEPT !.newest = FALSE]
  BY <1>1 DEF Refresh
<1>4. \A d \in Slot : d # c =>
          /\ DOMAIN calls'[d] = DOMAIN NoCall
          /\ calls'[d].kind = calls[d].kind /\ calls'[d].step = calls[d].step
          /\ calls'[d].current = calls[d].current
          /\ calls'[d].newest = FALSE
          /\ calls[d] = NoCall => calls'[d] = NoCall
  BY <1>3 DEF IInv, Shaped, NoCall
<1>5. \A d \in Slot : ~Live(d)
  BY DEF IInv, Alone
<1>6. secrets[c] = {}
  BY DEF Refresh, Free, IInv, Covered, Erased, NoCall
<1>7. DOMAIN box' = DOMAIN Mounted /\ box'.busy = TRUE /\ box'.here = TRUE
  BY DEF Refresh, Mounted
<1>8. Shaped'
  BY <1>2, <1>3, <1>4, <1>7 DEF IInv, Shaped
<1>9. Covered'
  <2>1. \A d \in Slot : d # c => Erased(calls'[d]) = Erased(calls[d])
    BY <1>4 DEF Erased
  <2> QED
    BY <1>3, <1>6, <2>1 DEF IInv, Covered, Erased
<1>10. Heard'
  BY <1>2, <1>3, <1>4, <1>5 DEF IInv, Heard, Live, NoCall
<1>11. Alone'
  <2>1. \A d \in Slot : Live(d)' <=> d = c
    BY <1>2, <1>3, <1>4, <1>5 DEF Live
  <2> QED
    BY <1>7, <2>1 DEF Alone
<1>12. Hidden'
  BY <1>7 DEF Hidden
<1> QED
  BY <1>8, <1>9, <1>10, <1>11, <1>12 DEF IInv

\* Nothing but what is shown changes.
LEMMA ScreenKeeps ==
    ASSUME IInv, NEW new, UNCHANGED <<calls, secrets>>, box' = new,
           DOMAIN new = DOMAIN Mounted, new.busy = box.busy, new.here = TRUE
    PROVE  IInv'
<1>1. Shaped' /\ Covered' /\ Heard' /\ Hidden'
  BY DEF IInv, Shaped, Covered, Erased, Heard, Hidden
<1>2. Alone'
  BY DEF IInv, Alone, Live
<1> QED
  BY <1>1, <1>2 DEF IInv

\* Nothing of the inbox changes.
LEMMA QuietKeeps ==
    ASSUME IInv, UNCHANGED <<box, calls, secrets>>
    PROVE  IInv'
<1>1. Shaped' /\ Covered' /\ Heard' /\ Hidden'
  BY DEF IInv, Shaped, Covered, Erased, Heard, Hidden, Unmounted, Mounted
<1>2. Alone'
  BY DEF IInv, Alone, Live
<1> QED
  BY <1>1, <1>2 DEF IInv

\* A button that works belongs to a mounted inbox.
LEMMA ButtonsAreHere ==
    ASSUME IInv
    PROVE  /\ Listed # {} => box.here
           /\ box.letters # << >> => box.here
           /\ ListError => box.here
           /\ box.recovery # NoTx => box.here
<1>1. CASE box.here
  BY <1>1
<1>2. CASE ~box.here
  <2>1. box = Unmounted
    BY <1>2 DEF IInv, Hidden
  <2>2. /\ Unmounted.letters = << >> /\ Unmounted.error = NoError
        /\ Unmounted.recovery = NoTx
    BY DEF Unmounted, Mounted
  <2>3. box.letters = << >> /\ box.error = NoError /\ box.recovery = NoTx
    BY <2>1, <2>2
  <2>4. Listed = {}
    BY <2>3 DEF Listed
  <2> QED
    BY <2>3, <2>4 DEF ListError
<1> QED
  BY <1>1, <1>2

-----------------------------------------------------------------------------
(* The steps of calls. *)

\* A call on its way goes on: the record keeps its kind, and what it holds is
\* erased where its next step fails.
LEMMA GoesOn ==
    ASSUME IInv, NEW c \in Slot, NEW call, NEW buffers,
           Awaits(c, call, buffers), calls[c].kind # "idle",
           DOMAIN call = DOMAIN calls[c], call.kind = calls[c].kind,
           call.current = calls[c].current, call.newest = calls[c].newest,
           call.kind = "refresh" => call.step \in {"head", "page"},
           Erased(calls[c]) \cup buffers \subseteq Erased(call)
    PROVE  IInv'
<1>1. calls[c] # NoCall /\ call # NoCall /\ DOMAIN call = DOMAIN NoCall
  BY DEF NoCall, IInv, Shaped
<1>2. call.kind = "refresh" => /\ call.newest <=> call.current
                               /\ call.step \in {"head", "page"}
  BY DEF IInv, Heard
<1>3. secrets[c] \cup buffers \subseteq Erased(call)
  BY DEF IInv, Covered
<1> QED
  BY <1>1, <1>2, <1>3, AwaitsKeeps

\* The steps of refresh.
LEMMA LoadingInv ==
    ASSUME IInv, NEW c \in Slot,
           \/ RefreshHead(c) \/ RefreshPage(c)
           \/ LettersLoaded(c) \/ RefreshFails(c)
    PROVE  IInv'
<1>1. DOMAIN calls[c] = DOMAIN NoCall /\ DOMAIN box = DOMAIN Mounted
  BY DEF IInv, Shaped
<1>2. CASE RefreshHead(c)
  <2>1. PICK call : call = [calls[c] EXCEPT !.step = "page",
                              !.head = LatestBlock,
                              !.ranges = BlockRanges(1, LatestBlock)]
    OBVIOUS
  <2>2. Awaits(c, call, {}) /\ calls[c].kind = "refresh"
    BY <1>2, <2>1 DEF RefreshHead, At
  <2>3. /\ DOMAIN call = DOMAIN calls[c] /\ call.kind = "refresh"
        /\ call.step = "page" /\ call.current = calls[c].current
        /\ call.newest = calls[c].newest
    BY <1>1, <2>1, <2>2 DEF NoCall
  <2>4. Erased(calls[c]) = {}
    BY <2>2 DEF IInv, Heard, Erased
  <2> QED
    BY <2>2, <2>3, <2>4, GoesOn
<1>3. CASE RefreshPage(c)
  <2>1. PICK logs : Awaits(c, [calls[c] EXCEPT !.ranges = Tail(@),
                                              !.logs = @ \o logs], {})
    BY <1>3 DEF RefreshPage
  <2>2. PICK call : call = [calls[c] EXCEPT !.ranges = Tail(@),
                                            !.logs = @ \o logs]
    OBVIOUS
  <2>3. Awaits(c, call, {}) /\ calls[c].kind = "refresh"
        /\ calls[c].step = "page"
    BY <1>3, <2>1, <2>2 DEF RefreshPage, At
  <2>4. /\ DOMAIN call = DOMAIN calls[c] /\ call.kind = "refresh"
        /\ call.step = "page" /\ call.current = calls[c].current
        /\ call.newest = calls[c].newest
    BY <1>1, <2>2, <2>3 DEF NoCall
  <2>5. Erased(calls[c]) = {}
    BY <2>3 DEF IInv, Heard, Erased
  <2> QED
    BY <2>3, <2>4, <2>5, GoesOn
<1>4. CASE LettersLoaded(c)
  <2>1. PICK letters :
            box' = IF calls[c].newest
                   THEN [box EXCEPT !.letters = letters,
                                    !.head = calls[c].head, !.busy = FALSE]
                   ELSE box
    BY <1>4 DEF LettersLoaded
  <2>2. PICK new : new = [box EXCEPT !.letters = letters,
                                     !.head = calls[c].head, !.busy = FALSE]
    OBVIOUS
  <2>3. /\ DOMAIN new = DOMAIN Mounted /\ new.here = box.here
        /\ new.busy = FALSE
    BY <1>1, <2>2 DEF Mounted
  <2>4. /\ Becomes(c, NoCall) /\ UNCHANGED secrets
        /\ calls[c].kind = "refresh"
        /\ box' = IF calls[c].newest THEN new ELSE box
    BY <1>4, <2>1, <2>2 DEF LettersLoaded, At
  <2> QED
    BY <2>3, <2>4, RefreshEndsKeeps
<1>5. CASE RefreshFails(c)
  <2>1. PICK new : new = [box EXCEPT !.busy = FALSE,
                            !.error = [tx |-> NoTx, reason |-> "fault"]]
    OBVIOUS
  <2>2. /\ DOMAIN new = DOMAIN Mounted /\ new.here = box.here
        /\ new.busy = FALSE
    BY <1>1, <2>1 DEF Mounted
  <2>3. /\ Becomes(c, NoCall) /\ UNCHANGED secrets
        /\ calls[c].kind = "refresh"
        /\ box' = IF calls[c].newest THEN new ELSE box
    BY <1>5, <2>1 DEF RefreshFails
  <2> QED
    BY <2>2, <2>3, RefreshEndsKeeps
<1> QED
  BY <1>2, <1>3, <1>4, <1>5

\* The steps up to the seed.
LEMMA OpeningInv ==
    ASSUME IInv, NEW c \in Slot,
           \/ Verified(c) \/ LoadEnvelopes(c) \/ UsePasskey(c)
           \/ OpenRecovery(c) \/ Unwrapped(c)
    PROVE  IInv'
<1>1. DOMAIN calls[c] = DOMAIN NoCall
  BY DEF IInv, Shaped
<1>2. CASE Verified(c)
  <2>1. calls[c].kind = "recover" /\ calls[c].step = "verify"
    BY <1>2 DEF Verified, At
  <2>2. CASE Refuse(c, "code")
    BY <2>1, <2>2, RefuseKeeps
  <2>3. CASE Awaits(c, [calls[c] EXCEPT !.step = "envelopes"], {})
    <3>1. PICK call : call = [calls[c] EXCEPT !.step = "envelopes"]
      OBVIOUS
    <3>2. /\ DOMAIN call = DOMAIN calls[c] /\ call.kind = calls[c].kind
          /\ call.current = calls[c].current /\ call.newest = calls[c].newest
          /\ call.step = "envelopes"
      BY <1>1, <3>1 DEF NoCall
    <3>3. Erased(calls[c]) \cup {} \subseteq Erased(call)
      BY <2>1, <3>2 DEF Erased
    <3> QED
      BY <2>1, <2>3, <3>1, <3>2, <3>3, GoesOn
  <2> QED
    BY <1>2, <2>2, <2>3 DEF Verified
<1>3. CASE LoadEnvelopes(c)
  <2>1. calls[c].kind \in {"open", "recover"} /\ calls[c].step = "envelopes"
    BY <1>3 DEF LoadEnvelopes, At
  <2>2. CASE Refuse(c, "envelopes")
    BY <2>1, <2>2, RefuseKeeps
  <2>3. ASSUME NEW step \in {"passkey", "tlock"},
               Awaits(c, [calls[c] EXCEPT !.step = step], {})
        PROVE  IInv'
    <3>1. PICK call : call = [calls[c] EXCEPT !.step = step]
      OBVIOUS
    <3>2. /\ DOMAIN call = DOMAIN calls[c] /\ call.kind = calls[c].kind
          /\ call.current = calls[c].current /\ call.newest = calls[c].newest
          /\ call.step = step
      BY <1>1, <3>1 DEF NoCall
    <3>3. Erased(calls[c]) \cup {} \subseteq Erased(call)
      BY <2>1, <3>2 DEF Erased
    <3> QED
      BY <2>1, <2>3, <3>1, <3>2, <3>3, GoesOn
  <2>4. PICK step \in {"passkey", "tlock"} :
            step = IF calls[c].kind = "open" THEN "passkey" ELSE "tlock"
    OBVIOUS
  <2>5. Refuse(c, "envelopes")
          \/ Awaits(c, [calls[c] EXCEPT !.step = step], {})
    BY <1>3, <2>4 DEF LoadEnvelopes
  <2> QED
    BY <2>2, <2>3, <2>5
<1>4. CASE UsePasskey(c)
  <2>1. calls[c].kind = "open" /\ calls[c].step = "passkey"
    BY <1>4 DEF UsePasskey, At
  <2>2. ASSUME NEW reason, Refuse(c, reason)
        PROVE  IInv'
    BY <2>1, <2>2, RefuseKeeps
  <2>3. ASSUME NEW seed,
               Awaits(c, [calls[c] EXCEPT !.step = "key", !.seed = seed],
                      {"privateKey"})
        PROVE  IInv'
    <3>1. PICK call : call = [calls[c] EXCEPT !.step = "key", !.seed = seed]
      OBVIOUS
    <3>2. /\ DOMAIN call = DOMAIN calls[c] /\ call.kind = calls[c].kind
          /\ call.current = calls[c].current /\ call.newest = calls[c].newest
          /\ call.step = "key"
      BY <1>1, <3>1 DEF NoCall
    <3>3. Erased(calls[c]) \cup {"privateKey"} \subseteq Erased(call)
      BY <2>1, <3>2 DEF Erased
    <3> QED
      BY <2>1, <2>3, <3>1, <3>2, <3>3, GoesOn
  <2>4. \/ \E reason : Refuse(c, reason)
        \/ \E seed : Awaits(c, [calls[c] EXCEPT !.step = "key",
                                                 !.seed = seed],
                             {"privateKey"})
    BY <1>4 DEF UsePasskey
  <2> QED
    BY <2>2, <2>3, <2>4
<1>5. CASE OpenRecovery(c)
  <2>1. calls[c].kind = "recover" /\ calls[c].step = "tlock"
    BY <1>5 DEF OpenRecovery, At
  <2>2. CASE Refuse(c, "early")
    BY <2>1, <2>2, RefuseKeeps
  <2>3. CASE Awaits(c, [calls[c] EXCEPT !.step = "unwrap"],
                    {"clientSeed", "clientKey", "recoveryCiphertext"})
    <3>1. PICK call : call = [calls[c] EXCEPT !.step = "unwrap"]
      OBVIOUS
    <3>2. /\ DOMAIN call = DOMAIN calls[c] /\ call.kind = calls[c].kind
          /\ call.current = calls[c].current /\ call.newest = calls[c].newest
          /\ call.step = "unwrap"
      BY <1>1, <3>1 DEF NoCall
    <3>3. Erased(calls[c])
              \cup {"clientSeed", "clientKey", "recoveryCiphertext"}
              \subseteq Erased(call)
      BY <2>1, <3>2 DEF Erased
    <3> QED
      BY <2>1, <2>3, <3>1, <3>2, <3>3, GoesOn
  <2> QED
    BY <1>5, <2>2, <2>3 DEF OpenRecovery
<1>6. CASE Unwrapped(c)
  <2>1. calls[c].kind = "recover" /\ calls[c].step = "unwrap"
    BY <1>6 DEF Unwrapped, At
  <2>2. ASSUME NEW reason, Refuse(c, reason)
        PROVE  IInv'
    BY <2>1, <2>2, RefuseKeeps
  <2>3. ASSUME NEW seed,
               Awaits(c, [calls[c] EXCEPT !.step = "key", !.seed = seed],
                      {"mailboxSeed", "privateKey"})
        PROVE  IInv'
    <3>1. PICK call : call = [calls[c] EXCEPT !.step = "key", !.seed = seed]
      OBVIOUS
    <3>2. /\ DOMAIN call = DOMAIN calls[c] /\ call.kind = calls[c].kind
          /\ call.current = calls[c].current /\ call.newest = calls[c].newest
          /\ call.step = "key"
      BY <1>1, <3>1 DEF NoCall
    <3>3. Erased(calls[c]) \cup {"mailboxSeed", "privateKey"}
              \subseteq Erased(call)
      BY <2>1, <3>2 DEF Erased
    <3> QED
      BY <2>1, <2>3, <3>1, <3>2, <3>3, GoesOn
  <2>4. \/ \E reason : Refuse(c, reason)
        \/ \E seed : Awaits(c, [calls[c] EXCEPT !.step = "key",
                                                 !.seed = seed],
                             {"mailboxSeed", "privateKey"})
    BY <1>6 DEF Unwrapped
  <2> QED
    BY <2>2, <2>3, <2>4
<1> QED
  BY <1>2, <1>3, <1>4, <1>5, <1>6

\* The steps of decryptWith.
LEMMA DecryptingInv ==
    ASSUME IInv, NEW c \in Slot,
           CheckKey(c) \/ FetchPackage(c) \/ Unlock(c) \/ Show(c)
    PROVE  IInv'
<1>1. DOMAIN calls[c] = DOMAIN NoCall /\ DOMAIN box = DOMAIN Mounted
  BY DEF IInv, Shaped
<1>2. /\ calls[c].kind \in {"open", "recover"}
      /\ calls[c].step \in {"key", "package", "unlock", "decrypt"}
  BY DEF CheckKey, FetchPackage, Unlock, Show, At
<1>3. ASSUME NEW reason, Refuse(c, reason)
      PROVE  IInv'
  BY <1>2, <1>3, RefuseKeeps
<1>4. ASSUME NEW call, NEW buffers, Awaits(c, call, buffers),
             DOMAIN call = DOMAIN calls[c], call.kind = calls[c].kind,
             call.current = calls[c].current, call.newest = calls[c].newest,
             call.step \in {"key", "package", "unlock", "decrypt"},
             buffers \subseteq {"letterKey"}
      PROVE  IInv'
  <2>1. Erased(calls[c]) \cup buffers \subseteq Erased(call)
    BY <1>2, <1>4 DEF Erased
  <2> QED
    BY <1>2, <1>4, <2>1, GoesOn
<1>5. CASE CheckKey(c)
  <2>1. PICK call : call = [calls[c] EXCEPT !.step = "package"]
    OBVIOUS
  <2>2. (\E reason : Refuse(c, reason)) \/ Awaits(c, call, {})
    BY <1>5, <2>1 DEF CheckKey
  <2>3. /\ DOMAIN call = DOMAIN calls[c] /\ call.kind = calls[c].kind
        /\ call.current = calls[c].current /\ call.newest = calls[c].newest
        /\ call.step = "package"
    BY <1>1, <2>1 DEF NoCall
  <2> QED
    BY <1>3, <1>4, <2>2, <2>3
<1>6. CASE FetchPackage(c)
  <2>1. ASSUME NEW a,
               Awaits(c, [calls[c] EXCEPT !.step = "unlock", !.archive = a], {})
        PROVE  IInv'
    <3>1. PICK call : call = [calls[c] EXCEPT !.step = "unlock",
                                              !.archive = a]
      OBVIOUS
    <3>2. /\ DOMAIN call = DOMAIN calls[c] /\ call.kind = calls[c].kind
          /\ call.current = calls[c].current /\ call.newest = calls[c].newest
          /\ call.step = "unlock"
      BY <1>1, <3>1 DEF NoCall
    <3>3. Awaits(c, call, {}) /\ {} \subseteq {"letterKey"}
      BY <2>1, <3>1
    <3> QED
      BY <1>4, <3>2, <3>3
  <2>2. \/ Refuse(c, "package")
        \/ \E a : Awaits(c, [calls[c] EXCEPT !.step = "unlock",
                                              !.archive = a], {})
    BY <1>6 DEF FetchPackage
  <2> QED
    BY <1>3, <2>1, <2>2
<1>7. CASE Unlock(c)
  <2>1. ASSUME NEW key,
               Awaits(c, [calls[c] EXCEPT !.step = "decrypt", !.key = key],
                      {"letterKey"})
        PROVE  IInv'
    <3>1. PICK call : call = [calls[c] EXCEPT !.step = "decrypt", !.key = key]
      OBVIOUS
    <3>2. /\ DOMAIN call = DOMAIN calls[c] /\ call.kind = calls[c].kind
          /\ call.current = calls[c].current /\ call.newest = calls[c].newest
          /\ call.step = "decrypt"
      BY <1>1, <3>1 DEF NoCall
    <3> QED
      BY <1>4, <2>1, <3>1, <3>2
  <2>2. \/ \E reason : Refuse(c, reason)
        \/ \E key : Awaits(c, [calls[c] EXCEPT !.step = "decrypt",
                                                !.key = key], {"letterKey"})
    BY <1>7 DEF Unlock
  <2> QED
    BY <1>3, <2>1, <2>2
<1>8. CASE Show(c)
  <2>1. ASSUME NEW opened, NEW tx, NEW recovery, NEW codeSent,
               Ends(c, [box EXCEPT !.opened = opened, !.openedTx = tx,
                                   !.recovery = recovery,
                                   !.codeSent = codeSent])
        PROVE  IInv'
    <3>1. PICK new : new = [box EXCEPT !.opened = opened, !.openedTx = tx,
                                       !.recovery = recovery,
                                       !.codeSent = codeSent]
      OBVIOUS
    <3>2. Ends(c, new) /\ DOMAIN new = DOMAIN Mounted /\ new.here = box.here
      BY <1>1, <2>1, <3>1 DEF Mounted
    <3>3. calls[c] # NoCall
      BY <1>2 DEF NoCall
    <3> QED
      BY <3>2, <3>3, EndsKeeps
  <2>2. \/ \E reason : Refuse(c, reason)
        \/ \E opened, tx, recovery, codeSent :
              Ends(c, [box EXCEPT !.opened = opened, !.openedTx = tx,
                                  !.recovery = recovery,
                                  !.codeSent = codeSent])
    BY <1>8 DEF Show
  <2> QED
    BY <1>3, <2>1, <2>2
<1> QED
  BY <1>5, <1>6, <1>7, <1>8

-----------------------------------------------------------------------------
(* The buttons, the page and the world. *)

LEMMA ButtonInv ==
    ASSUME IInv, NEW c \in Slot,
           \/ Enter(c) \/ RefreshAgain(c) \/ RequestCode(c) \/ Recover(c)
           \/ CodeSent(c) \/ CallFails(c) \/ \E t \in Letters : Open(c, t)
    PROVE  IInv'
<1>1. DOMAIN calls[c] = DOMAIN NoCall /\ DOMAIN box = DOMAIN Mounted
  BY DEF IInv, Shaped
<1>2. CASE Enter(c)
  <2>1. ~box.busy
    BY <1>2 DEF Enter, IInv, Hidden, Unmounted, Mounted
  <2>2. Mounted.here = TRUE
    BY DEF Mounted
  <2> QED
    BY <1>2, <2>1, <2>2, RefreshKeeps DEF Enter
<1>3. CASE RefreshAgain(c)
  <2>1. ~box.busy /\ Refresh(c, box) /\ (RetryButton \/ box.here)
    BY <1>3 DEF RefreshAgain, RetryButton
  <2>2. box.here = TRUE
    <3>1. box.here
      BY <2>1, ButtonsAreHere DEF RetryButton
    <3>2. box.here \in BOOLEAN
      BY DEF IInv, Shaped
    <3> QED
      BY <3>1, <3>2
  <2> QED
    BY <1>1, <2>1, <2>2, RefreshKeeps
<1>4. ASSUME NEW kind \in {"code", "recover"}, NEW step,
             FromPanel(c, kind, step)
      PROVE  IInv'
  <2>1. PICK call : call = Call(kind, step, box.recovery)
    OBVIOUS
  <2>2. PICK new : new = [box EXCEPT !.busy = TRUE, !.error = NoError]
    OBVIOUS
  <2>3. /\ DOMAIN call = DOMAIN NoCall /\ call # NoCall
        /\ call.current = TRUE /\ call.kind # "refresh"
    BY <2>1 DEF Call, NoCall
  <2>4. /\ DOMAIN new = DOMAIN Mounted /\ new.busy = TRUE
        /\ new.here = box.here
    BY <1>1, <2>2 DEF Mounted
  <2>5. box.here = TRUE
    BY <1>4, ButtonsAreHere DEF FromPanel, IInv, Shaped
  <2>6. /\ calls[c] = NoCall /\ ~box.busy /\ Becomes(c, call)
        /\ UNCHANGED secrets /\ box' = new
    BY <1>4, <2>1, <2>2 DEF FromPanel, Free
  <2> QED
    BY <2>3, <2>4, <2>5, <2>6, BeginsKeeps
<1>5. CASE RequestCode(c)
  BY <1>4, <1>5 DEF RequestCode
<1>6. CASE Recover(c)
  BY <1>4, <1>6 DEF Recover
<1>7. CASE CodeSent(c)
  <2>1. PICK new : new = [box EXCEPT !.codeSent = TRUE]
    OBVIOUS
  <2>2. /\ Ends(c, new) /\ calls[c] # NoCall
        /\ DOMAIN new = DOMAIN Mounted /\ new.here = box.here
    BY <1>1, <1>7, <2>1 DEF CodeSent, At, NoCall, Mounted
  <2> QED
    BY <2>2, EndsKeeps
<1>8. CASE CallFails(c)
  BY <1>8, RefuseKeeps DEF CallFails
<1>9. ASSUME NEW t \in Letters, Open(c, t)
      PROVE  IInv'
  <2>1. PICK call : call = Call("open", "envelopes", t)
    OBVIOUS
  <2>2. PICK new : new = [box EXCEPT !.selected = t, !.opened = Bad,
                            !.openedTx = NoTx, !.busy = TRUE,
                            !.error = NoError]
    OBVIOUS
  <2>3. /\ DOMAIN call = DOMAIN NoCall /\ call # NoCall
        /\ call.current = TRUE /\ call.kind # "refresh"
    BY <2>1 DEF Call, NoCall
  <2>4. /\ DOMAIN new = DOMAIN Mounted /\ new.busy = TRUE
        /\ new.here = box.here
    BY <1>1, <2>2 DEF Mounted
  <2>5. t \in Pressable \cup FirstButton \/ RetryButton
    BY <1>9 DEF Open
  <2>6. ~box.busy /\ (Listed # {} \/ box.letters # << >> \/ ListError)
    BY <2>5 DEF Pressable, FirstButton, RetryButton
  <2>7. box.here = TRUE
    BY <2>6, ButtonsAreHere DEF IInv, Shaped
  <2>8. /\ calls[c] = NoCall /\ Becomes(c, call) /\ UNCHANGED secrets
        /\ box' = new
    BY <1>9, <2>1, <2>2 DEF Open, Free
  <2> QED
    BY <2>3, <2>4, <2>6, <2>7, <2>8, BeginsKeeps
<1> QED
  BY <1>2, <1>3, <1>5, <1>6, <1>7, <1>8, <1>9

LEMMA PanelInv ==
    ASSUME IInv, ClosePanel \/ \E t \in Letters : OpenPanel(t)
    PROVE  IInv'
<1>1. DOMAIN box = DOMAIN Mounted
  BY DEF IInv, Shaped
<1>2. CASE ClosePanel
  <2>1. PICK new : new = [box EXCEPT !.recovery = NoTx, !.codeSent = FALSE]
    OBVIOUS
  <2>2. /\ DOMAIN new = DOMAIN Mounted /\ new.busy = box.busy
        /\ new.here = box.here
    BY <1>1, <2>1 DEF Mounted
  <2>3. box.here = TRUE
    BY <1>2, ButtonsAreHere DEF ClosePanel, IInv, Shaped
  <2> QED
    BY <1>2, <2>1, <2>2, <2>3, ScreenKeeps DEF ClosePanel
<1>3. ASSUME NEW t \in Letters, OpenPanel(t)
      PROVE  IInv'
  <2>1. PICK new : new = [box EXCEPT !.recovery = t]
    OBVIOUS
  <2>2. /\ DOMAIN new = DOMAIN Mounted /\ new.busy = box.busy
        /\ new.here = box.here
    BY <1>1, <2>1 DEF Mounted
  <2>3. Listed # {}
    BY <1>3 DEF OpenPanel, Pressable
  <2>4. box.here = TRUE
    BY <2>3, ButtonsAreHere DEF IInv, Shaped
  <2> QED
    BY <1>3, <2>1, <2>2, <2>4, ScreenKeeps DEF OpenPanel
<1> QED
  BY <1>2, <1>3

LEMMA LeaveInv ==
    ASSUME IInv, Leave
    PROVE  IInv'
<1>1. /\ DOMAIN calls' = Slot /\ secrets' = secrets /\ box' = Unmounted
      /\ \A d \in Slot :
            calls'[d] = IF calls[d] = NoCall THEN NoCall
                        ELSE [calls[d] EXCEPT !.newest = FALSE,
                                              !.current = FALSE]
  BY DEF Leave
<1>2. \A d \in Slot :
          /\ DOMAIN calls'[d] = DOMAIN NoCall
          /\ calls'[d].kind = calls[d].kind /\ calls'[d].step = calls[d].step
          /\ calls'[d] # NoCall =>
                calls'[d].newest = FALSE /\ calls'[d].current = FALSE
  BY <1>1 DEF IInv, Shaped, NoCall
<1>3. /\ DOMAIN Unmounted = DOMAIN Mounted
      /\ Unmounted.busy = FALSE /\ Unmounted.here = FALSE
  BY DEF Unmounted, Mounted
<1>4. Shaped'
  BY <1>1, <1>2, <1>3 DEF IInv, Shaped
<1>5. Covered'
  BY <1>1, <1>2 DEF IInv, Covered, Erased
<1>6. Heard'
  BY <1>2 DEF IInv, Heard, NoCall
<1>7. Alone'
  BY <1>1, <1>2, <1>3 DEF Alone, Live
<1>8. Hidden'
  BY <1>1 DEF Hidden, Unmounted, Mounted
<1> QED
  BY <1>4, <1>5, <1>6, <1>7, <1>8 DEF IInv

LEMMA InitInv == Init => IInv
<1> SUFFICES ASSUME Init PROVE IInv
  OBVIOUS
<1>1. /\ box = Unmounted /\ calls = [c \in Slot |-> NoCall]
      /\ secrets = [c \in Slot |-> {}]
  BY DEF Init, InboxInit
<1>2. /\ DOMAIN Unmounted = DOMAIN Mounted
      /\ Unmounted.busy = FALSE
  BY DEF Unmounted, Mounted
<1>3. box.here \in BOOLEAN
  BY <1>1 DEF Unmounted, Mounted
<1>4. \A c \in Slot : ~Live(c)
  BY <1>1 DEF Live
<1> QED
  BY <1>1, <1>2, <1>3, <1>4
  DEF IInv, Shaped, Covered, Heard, Alone, Hidden, NoCall

LEMMA StepInv == IInv /\ [Next]_vars => IInv'
<1> SUFFICES ASSUME IInv, [Next]_vars PROVE IInv'
  OBVIOUS
<1>1. CASE \/ UNCHANGED vars \/ SealParcel \/ SealElsewhere
           \/ MediaNext /\ UNCHANGED inboxVars
           \/ RotateKey \/ Publish \/ Countdown \/ LosePasskey
  <2>1. UNCHANGED <<box, calls, secrets>>
    BY <1>1 DEF vars, inboxVars, SealParcel, SealElsewhere, Sealed, RotateKey,
                Publish, Countdown, LosePasskey
  <2> QED
    BY <2>1, QuietKeeps
<1>2. CASE InboxNext
  <2>1. ASSUME NEW c \in Slot, CallStep(c)
        PROVE  IInv'
    BY <2>1, LoadingInv, ButtonInv, OpeningInv, DecryptingInv DEF CallStep
  <2>2. ASSUME NEW c \in Slot,
               \/ CallFails(c) \/ RefreshFails(c) \/ Enter(c)
               \/ RefreshAgain(c) \/ RequestCode(c) \/ Recover(c)
               \/ \E t \in Letters : Open(c, t)
        PROVE  IInv'
    BY <2>2, LoadingInv, ButtonInv
  <2>3. CASE (\E t \in Letters : OpenPanel(t)) \/ ClosePanel
    BY <2>3, PanelInv
  <2>4. CASE Leave
    BY <2>4, LeaveInv
  <2> QED
    BY <1>1, <1>2, <2>1, <2>2, <2>3, <2>4 DEF InboxNext
<1> QED
  BY <1>1, <1>2 DEF Next

-----------------------------------------------------------------------------

\* A call holds only what it will erase, and a mounted inbox runs one call for
\* exactly as long as it is busy.  (use-inbox.ts)
THEOREM SafetyInvariant == Spec => []IInv
<1>1. Init => IInv
  BY InitInv
<1>2. IInv /\ [Next]_vars => IInv'
  BY StepInv
<1> QED
  BY <1>1, <1>2, PTL DEF Spec

\* A call that ended, at whichever step, left no secret in memory.  (the
\* finally blocks of decryptWith and recover)
THEOREM SecretsErasedAlways == Spec => []SecretsErased
<1>1. IInv => SecretsErased
  BY DEF IInv, Covered, SecretsErased, Erased, NoCall
<1> QED
  BY <1>1, SafetyInvariant, PTL

\* One call of the mounted inbox runs at a time, and the inbox is busy just as
\* long.  (the busy flag of use-inbox.ts and the buttons it disables)
THEOREM OneAtATimeAlways == Spec => []OneAtATime
<1>1. IInv => OneAtATime
  <2> SUFFICES ASSUME IInv PROVE OneAtATime
    OBVIOUS
  <2> DEFINE live == {c \in Slot : calls[c] # NoCall /\ calls[c].current}
  <2>1. (box.busy <=> live # {}) /\ \A c, d \in live : c = d
    BY DEF IInv, Alone, Live
  <2>2. CASE live = {}
    <3>1. Cardinality(live) = 0
      BY <2>2, FS_EmptySet
    <3> QED
      BY <2>1, <3>1 DEF OneAtATime
  <2>3. CASE live # {}
    <3>1. PICK c : live = {c}
      BY <2>1, <2>3
    <3>2. Cardinality(live) = 1
      BY <3>1, FS_Singleton
    <3> QED
      BY <2>1, <3>2 DEF OneAtATime
  <2> QED
    BY <2>2, <2>3
<1> QED
  BY <1>1, SafetyInvariant, PTL

-----------------------------------------------------------------------------
(* Media preparation: where every preparation is, and what the core's files *)
(* are.  With one user of the core at a time they are that user's.          *)

\* What a record of a preparation may be.
Name == UNION {{files[i].name : i \in DOMAIN files} : files \in Selections}
MediaItem == [type: {1, 2}, codec: {1, 2, 16}, content: Name, size: Nat]
OfMapping(item) == <<item.type, item.codec>> \in MediaMapping
OnImage == {"decode", "webp", "jpeg"}
OnVideo ==
    {"open", "frames", "finalize", "load", "write", "exec", "read", "clean"}
Users == {"exec", "read", "clean"}
PrepState ==
    [files: Selections \cup {<< >>}, at: Nat,
     step: Rest \cup OnImage \cup OnVideo,
     items: Seq(MediaItem), result: Name \cup {Bad}, fault: BOOLEAN]

\* A preparation has made one item for each file before the current one, and
\* waits for what the current file needs.
Placed(q) ==
    /\ q.step = "idle" => q = Resting
    /\ q.step # "idle" => /\ q.at \in 1..(Len(q.files) + 1)
                          /\ Len(q.items) = q.at - 1
    /\ q.step = "done" => q.at = Len(q.files) + 1 /\ ~TooLarge(q.items)
    /\ q.step \in OnImage \cup OnVideo => q.at \in DOMAIN q.files
    /\ q.step \in OnImage => Image(q.files[q.at])
    /\ q.step \in OnVideo => q.files[q.at].type \in Extension
    /\ q.step # "clean" => q.result = Bad
    /\ \A i \in DOMAIN q.items : OfMapping(q.items[i])

\* What it failed for.
Cause(q) ==
    \/ q.fault \/ Estimate(q.items) > MaxArchiveBytes
    \/ \E i \in DOMAIN q.files : Refused(q.files[i])
Shows(q) == \A i \in DOMAIN q.items : q.items[i].content = q.files[i].name

MediaTyped ==
    /\ device \in [webp: BOOLEAN, plays: BOOLEAN, codecs: BOOLEAN]
    /\ core \in {"none", "loading", "loaded"}
    /\ collided \in BOOLEAN /\ mediaFaults \in 0..MaxMediaFaults
Advancing ==
    /\ prep \in [Preparation -> PrepState]
    /\ \A p \in Preparation : Placed(prep[p])
Holding ==
    /\ held \in [Preparation -> SUBSET {"bitmap", "input", "source", "output"}]
    /\ \A p \in Preparation :
          held[p] # {} =>
              prep[p].step \in {"webp", "jpeg", "frames", "finalize"}
Leftovers ==
    /\ disk \in [Extension \cup {"output"} -> Name \cup {Bad}]
    /\ \A f \in DOMAIN disk : disk[f] # Bad =>
          \E p \in Preparation : Using(p) /\ f \in {Current(p).type, "output"}

\* While the core has had one user at a time, its files are those of the user.
Undisturbed ==
    /\ \A p, r \in Preparation : Using(p) /\ Using(r) => p = r
    /\ \A p \in Preparation :
          /\ Shows(prep[p])
          /\ prep[p].step = "failed" => Cause(prep[p])
          /\ prep[p].step = "exec" => disk[Current(p).type] = Current(p).name
          /\ prep[p].step = "read" => disk["output"] = Current(p).name
          /\ prep[p].step = "clean" =>
                \/ prep[p].result = Current(p).name
                \/ prep[p].result = Bad /\ prep[p].fault

MediaInv ==
    /\ MediaTyped /\ Advancing /\ Holding /\ Leftovers
    /\ collided \/ Undisturbed

-----------------------------------------------------------------------------
(* The records of preparations. *)

LEMMA FilesOfSelection ==
    ASSUME NEW files \in Selections \cup {<< >>}
    PROVE  /\ Len(files) \in Nat /\ DOMAIN files = 1..Len(files)
           /\ \A i \in DOMAIN files : /\ files[i].name \in Name
                                      /\ files[i].name # Bad
                                      /\ files[i].size \in Nat
<1>1. CASE files \in Selections
  <2>1. files \in Seq({files[i] : i \in DOMAIN files})
    BY <1>1, MediaAssumption
  <2>2. Len(files) \in Nat /\ DOMAIN files = 1..Len(files)
    BY <2>1
  <2>3. \A i \in DOMAIN files : files[i].name # Bad /\ files[i].size \in Nat
    BY <1>1, MediaAssumption
  <2>4. \A i \in DOMAIN files : files[i].name \in Name
    BY <1>1 DEF Name
  <2> QED
    BY <2>2, <2>3, <2>4
<1>2. CASE files = << >>
  BY <1>2
<1> QED
  BY <1>1, <1>2

\* A preparation that comes to its next file.
Arriving(q) ==
    /\ q \in PrepState /\ q.at \in 1..(Len(q.files) + 1)
    /\ Len(q.items) = q.at - 1 /\ q.result = Bad
    /\ \A i \in DOMAIN q.items : OfMapping(q.items[i])

\* It fails for a cause, or begins with what the file needs.
LEMMA FirstPlaced ==
    ASSUME NEW q, Arriving(q), NEW r, r = [q EXCEPT !.step = First(q)]
    PROVE  /\ r \in PrepState /\ Placed(r)
           /\ r.step \in {"decode", "open", "load", "done", "failed"}
           /\ r.step = "failed" => Cause(r)
           /\ r.files = q.files /\ r.items = q.items /\ r.fault = q.fault
<1>1. /\ Len(q.files) \in Nat /\ DOMAIN q.files = 1..Len(q.files)
      /\ q.at \in Nat
  BY FilesOfSelection DEF Arriving, PrepState
<1>2. PICK step : step = First(q)
  OBVIOUS
<1>3. /\ step \in {"decode", "open", "load", "done", "failed"}
      /\ step = "done" => q.at > Len(q.files) /\ ~TooLarge(q.items)
      /\ step \in {"decode", "open", "load"} => q.at <= Len(q.files)
      /\ step = "decode" => Image(q.files[q.at])
      /\ step \in {"open", "load"} => q.files[q.at].type \in Extension
  BY <1>1, <1>2 DEF First
<1>4. step = "failed" => \/ Estimate(q.items) > MaxArchiveBytes
                         \/ q.at <= Len(q.files) /\ Refused(q.files[q.at])
  BY <1>1, <1>2 DEF First, TooLarge, Refused
<1>5. /\ r.step = step /\ r.files = q.files /\ r.at = q.at
      /\ r.items = q.items /\ r.result = Bad /\ r.fault = q.fault
      /\ r \in PrepState
  BY <1>2, <1>3 DEF Arriving, PrepState, Rest, OnImage, OnVideo
<1>6. Placed(r)
  <2>1. /\ r.at \in 1..(Len(r.files) + 1) /\ Len(r.items) = r.at - 1
        /\ \A i \in DOMAIN r.items : OfMapping(r.items[i])
    BY <1>5 DEF Arriving
  <2>2. step \in {"decode", "open", "load"} => q.at \in DOMAIN q.files
    BY <1>1, <1>3 DEF Arriving
  <2>3. step = "done" => q.at = Len(q.files) + 1
    BY <1>1, <1>3 DEF Arriving
  <2> QED
    BY <1>3, <1>5, <2>1, <2>2, <2>3 DEF Placed, OnImage, OnVideo
<1>7. ASSUME r.step = "failed" PROVE Cause(r)
  <2>1. q.at <= Len(q.files) => q.at \in DOMAIN q.files
    BY <1>1 DEF Arriving
  <2> QED
    BY <1>4, <1>5, <1>7, <2>1 DEF Cause
<1> QED
  BY <1>3, <1>5, <1>6, <1>7

LEMMA RestingPlaced ==
    Resting \in PrepState /\ Placed(Resting)
<1>1. << >> \in Seq(MediaItem)
  OBVIOUS
<1>2. Resting \in PrepState
  BY <1>1 DEF Resting, PrepState, Rest
<1>3. Placed(Resting)
  BY DEF Resting, Placed, OnImage, OnVideo
<1> QED
  BY <1>2, <1>3

\* The next file is the one after that of the new item.
LEMMA WithItemPlaced ==
    ASSUME NEW q \in PrepState, Placed(q), q.step \in OnImage \cup OnVideo,
           NEW item \in MediaItem, OfMapping(item),
           NEW r, r = WithItem(q, item)
    PROVE  /\ r \in PrepState /\ Placed(r)
           /\ r.step \in {"decode", "open", "load", "done", "failed"}
           /\ r.step = "failed" => Cause(r)
           /\ Shows(q) /\ item.content = q.files[q.at].name => Shows(r)
<1>1. PICK next : next = [q EXCEPT !.items = Append(@, item), !.at = @ + 1,
                                   !.result = Bad]
  OBVIOUS
<1>2. q.at \in DOMAIN q.files /\ Len(q.items) = q.at - 1
  BY DEF Placed, OnImage, OnVideo
<1>3. /\ Len(q.files) \in Nat /\ DOMAIN q.files = 1..Len(q.files)
      /\ q.at \in Nat /\ q.items \in Seq(MediaItem)
  BY FilesOfSelection DEF PrepState
<1>4. PICK items \in Seq(MediaItem) : items = Append(q.items, item)
  <2>1. PICK s \in Seq(MediaItem) : s = q.items
    BY <1>3
  <2>2. Append(s, item) \in Seq(MediaItem)
    OBVIOUS
  <2> QED
    BY <2>1, <2>2
<1>5. /\ DOMAIN items = 1..q.at /\ DOMAIN q.items = 1..(q.at - 1)
      /\ items[q.at] = item
      /\ \A i \in 1..(q.at - 1) : items[i] = q.items[i]
      /\ Len(items) = q.at
  BY <1>2, <1>3, <1>4
<1>6. /\ next.files = q.files /\ next.items = items /\ next.at = q.at + 1
      /\ next.result = Bad /\ next \in PrepState
  <2>1. PICK n \in Nat : n = q.at + 1
    BY <1>3
  <2>2. next = [q EXCEPT !.items = items, !.at = n, !.result = Bad]
    BY <1>1, <1>4, <2>1 DEF PrepState
  <2> QED
    BY <2>1, <2>2 DEF PrepState
<1>7. Arriving(next)
  <2>1. next.at \in 1..(Len(next.files) + 1) /\ Len(next.items) = next.at - 1
    BY <1>2, <1>3, <1>5, <1>6
  <2>2. \A i \in DOMAIN items : i = q.at \/ i \in 1..(q.at - 1)
    BY <1>3, <1>5
  <2>3. \A i \in DOMAIN items : OfMapping(items[i])
    BY <1>5, <2>2 DEF Placed
  <2> QED
    BY <1>6, <2>1, <2>3 DEF Arriving
<1>8. r = [next EXCEPT !.step = First(next)]
  BY <1>1 DEF WithItem
<1>9. /\ r \in PrepState /\ Placed(r)
      /\ r.step \in {"decode", "open", "load", "done", "failed"}
      /\ r.step = "failed" => Cause(r)
      /\ r.files = next.files /\ r.items = next.items
  BY <1>7, <1>8, FirstPlaced
<1>10. ASSUME Shows(q), item.content = q.files[q.at].name
       PROVE  Shows(r)
  <2>1. \A i \in DOMAIN items : i = q.at \/ i \in 1..(q.at - 1)
    BY <1>3, <1>5
  <2>2. \A i \in DOMAIN items : items[i].content = q.files[i].name
    BY <1>5, <1>10, <2>1 DEF Shows
  <2> QED
    BY <1>6, <1>9, <2>2 DEF Shows
<1> QED
  BY <1>9, <1>10

-----------------------------------------------------------------------------
(* Steps of a preparation. *)

\* A preparation goes on, and the others stay where they are.
LEMMA GoesPlaced ==
    ASSUME MediaInv, NEW p \in Preparation, NEW q \in PrepState, Placed(q),
           NEW kept \in SUBSET {"bitmap", "input", "source", "output"},
           kept # {} => q.step \in {"webp", "jpeg", "frames", "finalize"},
           Goes(p, q, kept), UNCHANGED device,
           mediaFaults' \in 0..MaxMediaFaults, collided' \in BOOLEAN
    PROVE  /\ MediaTyped' /\ Advancing' /\ Holding'
           /\ prep'[p] = q
           /\ \A r \in Preparation : r # p => prep'[r] = prep[r]
<1>1. /\ prep' = [prep EXCEPT ![p] = q] /\ held' = [held EXCEPT ![p] = kept]
      /\ core' \in {core, "loading"}
  BY DEF Goes
<1>2. MediaTyped'
  BY <1>1 DEF MediaInv, MediaTyped
<1>3. /\ prep \in [Preparation -> PrepState]
      /\ held \in [Preparation -> SUBSET {"bitmap", "input", "source", "output"}]
  BY DEF MediaInv, Advancing, Holding
<1>4. /\ prep' \in [Preparation -> PrepState] /\ prep'[p] = q
      /\ \A r \in Preparation : r # p => prep'[r] = prep[r]
  BY <1>1, <1>3
<1>5. /\ held' \in [Preparation -> SUBSET {"bitmap", "input", "source", "output"}]
      /\ held'[p] = kept
      /\ \A r \in Preparation : r # p => held'[r] = held[r]
  BY <1>1, <1>3
<1>6. Advancing'
  <2>1. \A r \in Preparation : Placed(prep'[r])
    BY <1>4 DEF MediaInv, Advancing
  <2> QED
    BY <1>4, <2>1 DEF Advancing, Placed, Resting
<1>7. Holding'
  BY <1>4, <1>5 DEF MediaInv, Holding
<1> QED
  BY <1>2, <1>4, <1>6, <1>7

\* A step away from the core.
LEMMA OffCoreKeeps ==
    ASSUME MediaInv, NEW p \in Preparation, NEW q \in PrepState, Placed(q),
           NEW kept \in SUBSET {"bitmap", "input", "source", "output"},
           kept # {} => q.step \in {"webp", "jpeg", "frames", "finalize"},
           Goes(p, q, kept), UNCHANGED <<device, disk, collided>>,
           mediaFaults' \in 0..MaxMediaFaults,
           ~Using(p), q.step \notin Users,
           q.step = "failed" => Cause(q),
           Shows(prep[p]) => Shows(q)
    PROVE  MediaInv'
<1>1. /\ MediaTyped' /\ Advancing' /\ Holding' /\ prep'[p] = q
      /\ \A r \in Preparation : r # p => prep'[r] = prep[r]
  BY GoesPlaced DEF MediaInv, MediaTyped
<1>2. \A r \in Preparation : Using(r)' <=> Using(r)
  BY <1>1 DEF Using, Users
<1>3. \A r \in Preparation : Using(r) => r # p /\ Current(r)' = Current(r)
  BY <1>1 DEF Current
<1>4. Leftovers'
  BY <1>2, <1>3 DEF MediaInv, Leftovers
<1>5. ASSUME Undisturbed PROVE Undisturbed'
  <2>1. \A r, s \in Preparation : Using(r)' /\ Using(s)' => r = s
    BY <1>2, <1>5 DEF Undisturbed
  <2>2. \A r \in Preparation : Shows(prep'[r])
    BY <1>1, <1>5 DEF Undisturbed
  <2>3. \A r \in Preparation : prep'[r].step = "failed" => Cause(prep'[r])
    BY <1>1, <1>5 DEF Undisturbed
  <2>4. ASSUME NEW r \in Preparation
        PROVE  /\ prep'[r].step = "exec" =>
                      disk[Current(r)'.type] = Current(r)'.name
               /\ prep'[r].step = "read" => disk["output"] = Current(r)'.name
               /\ prep'[r].step = "clean" =>
                     \/ prep'[r].result = Current(r)'.name
                     \/ prep'[r].result = Bad /\ prep'[r].fault
    <3>1. CASE r = p
      BY <1>1, <3>1 DEF Users
    <3>2. CASE r # p
      BY <1>1, <1>5, <3>2 DEF Undisturbed, Current
    <3> QED
      BY <3>1, <3>2
  <2>5. \A r \in Preparation : Cause(prep'[r]) => Cause(prep[r])'
    BY DEF Cause, Refused
  <2>6. \A r \in Preparation : Shows(prep'[r]) => Shows(prep[r])'
    BY DEF Shows
  <2> QED
    BY <2>1, <2>2, <2>3, <2>4, <2>5, <2>6 DEF Undisturbed
<1> QED
  BY <1>1, <1>4, <1>5 DEF MediaInv

\* Work on a file goes on, or fails.
Moved(o, step, fault) ==
    IF fault THEN [[o EXCEPT !.step = step] EXCEPT !.fault = TRUE]
    ELSE [o EXCEPT !.step = step]

LEMMA StepPlaced ==
    ASSUME NEW o \in PrepState, Placed(o), o.step \in OnImage \cup OnVideo,
           NEW q \in PrepState, q.step \in {"failed"} \cup OnImage \cup OnVideo,
           q.step \in OnImage => o.step \in OnImage,
           q.step \in OnVideo => o.step \in OnVideo,
           q.files = o.files, q.at = o.at, q.items = o.items, q.result = Bad
    PROVE  Placed(q) /\ (Shows(o) => Shows(q))
<1>1. o.step # "idle" /\ o.at \in DOMAIN o.files
  BY DEF Placed, OnImage, OnVideo
<1>2. q.step \notin {"idle", "done"}
  BY DEF OnImage, OnVideo
<1>3. Placed(q)
  BY <1>1, <1>2 DEF Placed, OnImage, OnVideo
<1> QED
  BY <1>3 DEF Shows

\* The record of such a step.
LEMMA StepRecord ==
    ASSUME NEW o \in PrepState, NEW step \in {"failed"} \cup OnImage \cup OnVideo,
           NEW fault \in BOOLEAN, NEW q,
           q = Moved(o, step, fault)
    PROVE  /\ q \in PrepState /\ q.step = step
           /\ q.files = o.files /\ q.at = o.at /\ q.items = o.items
           /\ q.result = o.result
           /\ q.fault = (o.fault \/ fault)
<1>1. step \in Rest \cup OnImage \cup OnVideo
  BY DEF Rest
<1>2. CASE fault
  BY <1>1, <1>2 DEF PrepState, Moved
<1>3. CASE ~fault
  BY <1>1, <1>3 DEF PrepState, Moved
<1> QED
  BY <1>2, <1>3

\* A step takes a preparation on with its file, or lets it fail.
LEMMA TakesOn ==
    ASSUME MediaInv, NEW p \in Preparation,
           NEW o \in {prep[p]}, o.step \in OnImage \cup OnVideo,
           o.result = Bad,
           NEW step \in {"failed"} \cup OnImage \cup OnVideo,
           step \in OnImage => o.step \in OnImage,
           step \in OnVideo => o.step \in OnVideo,
           NEW fault \in BOOLEAN, NEW q,
           q = Moved(o, step, fault)
    PROVE  /\ q \in PrepState /\ Placed(q) /\ q.step = step
           /\ q.files = o.files /\ q.at = o.at /\ q.items = o.items
           /\ q.result = Bad /\ q.fault = (o.fault \/ fault)
           /\ Shows(o) => Shows(q)
<1>1. o \in PrepState /\ Placed(o)
  BY DEF MediaInv, Advancing
<1>2. /\ q \in PrepState /\ q.step = step
      /\ q.files = o.files /\ q.at = o.at /\ q.items = o.items
      /\ q.result = o.result /\ q.fault = (o.fault \/ fault)
  BY <1>1, StepRecord
<1> QED
  BY <1>1, <1>2, StepPlaced

LEMMA FaultInRange ==
    ASSUME MediaInv, Fault \/ NoFault
    PROVE  mediaFaults' \in 0..MaxMediaFaults
<1>1. MaxMediaFaults \in Nat
  BY MediaAssumption
<1> QED
  BY <1>1 DEF MediaInv, MediaTyped, Fault, NoFault

\* Away from the core, work on a file goes on or fails for a cause.
LEMMA WorkKeeps ==
    ASSUME MediaInv, NEW p \in Preparation,
           NEW o \in {prep[p]}, o.step \in OnImage \cup OnVideo, ~Using(p),
           NEW step \in {"failed"} \cup OnImage \cup OnVideo,
           step \in OnImage => o.step \in OnImage,
           step \in OnVideo => o.step \in OnVideo,
           step \notin Users,
           NEW fault \in BOOLEAN, NEW q,
           q = Moved(o, step, fault),
           step = "failed" => Cause(q),
           NEW kept \in SUBSET {"bitmap", "input", "source", "output"},
           kept # {} => step \in {"webp", "jpeg", "frames", "finalize"},
           Goes(p, q, kept), UNCHANGED <<device, disk, collided>>,
           Fault \/ NoFault
    PROVE  MediaInv'
<1>1. o.result = Bad
  BY DEF MediaInv, Advancing, Placed, Using
<1>2. /\ q \in PrepState /\ Placed(q) /\ q.step = step
      /\ Shows(o) => Shows(q)
  BY <1>1, TakesOn
<1> QED
  BY <1>2, FaultInRange, OffCoreKeeps

\* A file is done, away from the core.
LEMMA ItemKeeps ==
    ASSUME MediaInv, NEW p \in Preparation,
           prep[p].step \in OnImage \cup OnVideo, ~Using(p),
           NEW item \in MediaItem, OfMapping(item),
           item.content = Current(p).name,
           Goes(p, WithItem(prep[p], item), {}),
           UNCHANGED <<device, disk, collided>>, NoFault
    PROVE  MediaInv'
<1>1. PICK q : q = WithItem(prep[p], item)
  OBVIOUS
<1>2. prep[p] \in PrepState /\ Placed(prep[p])
  BY DEF MediaInv, Advancing
<1>3. /\ q \in PrepState /\ Placed(q)
      /\ q.step \in {"decode", "open", "load", "done", "failed"}
      /\ q.step = "failed" => Cause(q)
      /\ Shows(prep[p]) => Shows(q)
  BY <1>1, <1>2, WithItemPlaced DEF Current
<1>4. q.step \notin Users
  BY <1>3 DEF Users
<1>5. PICK kept \in SUBSET {"bitmap", "input", "source", "output"} : kept = {}
  OBVIOUS
<1>6. Goes(p, q, kept)
  BY <1>1, <1>5
<1> QED
  BY <1>3, <1>4, <1>5, <1>6, FaultInRange, OffCoreKeeps

\* The steps of preprocessImage.
LEMMA SelectedItem ==
    ASSUME NEW file, file.name \in Name, file.size \in Nat,
           NEW type \in {"webp", "jpeg"}, NEW size \in EncodedSizes,
           NEW item, item = Selected(file, type, size)
    PROVE  item \in MediaItem /\ OfMapping(item) /\ item.content = file.name
<1>1. size \in Nat
  BY MediaAssumption
<1>2. Codecs.webp = 1 /\ Codecs.jpeg = 2
  BY DEF Codecs
<1>3. \A t \in {"webp", "jpeg"} : Codecs[t] \in {1, 2}
  BY <1>2
<1>4. PICK c \in {1, 2}, n \in Nat :
          item = [type |-> 1, codec |-> c, content |-> file.name, size |-> n]
  BY <1>1, <1>3 DEF Selected
<1>5. /\ item.type = 1 /\ item.codec = c /\ item.content = file.name
      /\ item \in MediaItem
  BY <1>4 DEF MediaItem
<1>6. <<1, c>> \in MediaMapping
  BY <1>4 DEF MediaMapping
<1> QED
  BY <1>5, <1>6 DEF OfMapping

\* The current file is one of the selection.
LEMMA CurrentFile ==
    ASSUME MediaInv, NEW p \in Preparation,
           prep[p].step \in OnImage \cup OnVideo
    PROVE  /\ prep[p].at \in DOMAIN prep[p].files
           /\ Current(p).name \in Name /\ Current(p).name # Bad
           /\ Current(p).size \in Nat
           /\ prep[p].step \in OnImage => Image(Current(p))
           /\ prep[p].step \in OnVideo => Current(p).type \in Extension
<1>1. prep[p] \in PrepState /\ Placed(prep[p])
  BY DEF MediaInv, Advancing
<1>2. prep[p].at \in DOMAIN prep[p].files
  BY <1>1 DEF Placed, OnImage, OnVideo
<1>3. prep[p].files \in Selections \cup {<< >>}
  BY <1>1 DEF PrepState
<1> QED
  BY <1>1, <1>2, <1>3, FilesOfSelection DEF Current, Placed

LEMMA EncodedKeeps ==
    ASSUME MediaInv, NEW p \in Preparation, prep[p].step \in OnImage,
           NEW type \in {"webp", "jpeg"}, NEW size \in EncodedSizes,
           Encoded(p, type, size), UNCHANGED <<device, disk, collided>>, NoFault
    PROVE  MediaInv'
<1>1. Current(p).name \in Name /\ Current(p).size \in Nat
  BY CurrentFile
<1>2. PICK item : item = Selected(Current(p), type, size)
  OBVIOUS
<1>3. /\ item \in MediaItem /\ OfMapping(item)
      /\ item.content = Current(p).name
  BY <1>1, <1>2, SelectedItem
<1>4. ~Using(p)
  BY DEF Using, OnImage
<1>5. Goes(p, WithItem(prep[p], item), {})
  BY <1>2 DEF Encoded
<1> QED
  BY <1>3, <1>4, <1>5, ItemKeeps

LEMMA ImageInv ==
    ASSUME MediaInv, NEW p \in Preparation,
           Decode(p) \/ EncodeWebp(p) \/ EncodeJpeg(p)
    PROVE  MediaInv'
<1>1. /\ prep[p].step \in OnImage /\ ~Using(p) /\ Image(Current(p))
      /\ prep[p].at \in DOMAIN prep[p].files /\ prep[p] \in PrepState
  BY CurrentFile DEF Decode, EncodeWebp, EncodeJpeg, OnImage, Using,
                     MediaInv, Advancing
<1>2. UNCHANGED <<device, disk, collided>>
  BY DEF Decode, EncodeWebp, EncodeJpeg
<1>3. ASSUME Fault, Goes(p, Failed(p), {})
      PROVE  MediaInv'
  <2>1. PICK o \in {prep[p]}, fault \in BOOLEAN : fault = TRUE
    OBVIOUS
  <2>2. PICK q : q = [[o EXCEPT !.step = "failed"] EXCEPT !.fault = TRUE]
    OBVIOUS
  <2>3. Cause(q) /\ Goes(p, q, {})
    <3>1. q.fault = TRUE
      BY <1>1, <2>2 DEF PrepState
    <3> QED
      BY <1>3, <2>2, <3>1 DEF Cause, Failed, To
  <2>4. PICK step \in {"failed"} : TRUE
    OBVIOUS
  <2>5. /\ step \in {"failed"} \cup OnImage \cup OnVideo /\ step = "failed"
        /\ step \notin OnImage /\ step \notin OnVideo /\ step \notin Users
    BY <2>4 DEF OnImage, OnVideo, Users
  <2>6. PICK kept \in SUBSET {"bitmap", "input", "source", "output"} : kept = {}
    OBVIOUS
  <2>7. q = Moved(o, step, fault)
    BY <2>1, <2>2, <2>4 DEF Moved
  <2> QED
    BY <1>1, <1>2, <1>3, <2>3, <2>5, <2>6, <2>7, WorkKeeps
<1>4. ASSUME NEW step \in {"webp", "jpeg"}, Fault \/ NoFault,
             NEW kept \in SUBSET {"bitmap", "input", "source", "output"},
             Goes(p, To(p, step), kept)
      PROVE  MediaInv'
  <2>0. PICK o \in {prep[p]}, fault \in BOOLEAN : fault = FALSE
    OBVIOUS
  <2>1. PICK q : q = Moved(o, step, fault)
    OBVIOUS
  <2>2. Goes(p, q, kept)
    BY <1>4, <2>0, <2>1 DEF To, Moved
  <2>3. /\ step \in OnImage /\ step \notin OnVideo /\ step \notin Users
        /\ step # "failed"
    BY DEF OnImage, OnVideo, Users
  <2> QED
    BY <1>1, <1>2, <1>4, <2>1, <2>2, <2>3, WorkKeeps
<1>5. held[p] \in SUBSET {"bitmap", "input", "source", "output"}
  BY DEF MediaInv, Holding
<1>6. CASE Decode(p)
  <2>1. CASE Current(p).pixels = "over" /\ NoFault /\ Goes(p, To(p, "failed"), {})
    <3>0. PICK o \in {prep[p]}, fault \in BOOLEAN : fault = FALSE
      OBVIOUS
    <3>1. PICK step \in {"failed"} : TRUE
      OBVIOUS
    <3>2. PICK q : q = Moved(o, step, fault)
      OBVIOUS
    <3>3. /\ step \in {"failed"} \cup OnImage \cup OnVideo /\ step = "failed"
          /\ step \notin OnImage /\ step \notin OnVideo /\ step \notin Users
      BY <3>1 DEF OnImage, OnVideo, Users
    <3>4. Goes(p, q, {}) /\ q.files = prep[p].files
      BY <1>1, <2>1, <3>0, <3>2, <3>3 DEF To, PrepState, Moved
    <3>5. Refused(q.files[prep[p].at]) /\ prep[p].at \in DOMAIN q.files
      BY <1>1, <2>1, <3>4 DEF Refused, Current
    <3>6. Cause(q)
      BY <3>5 DEF Cause
    <3>7. PICK kept \in SUBSET {"bitmap", "input", "source", "output"} : kept = {}
      OBVIOUS
    <3> QED
      BY <1>1, <1>2, <2>1, <3>2, <3>3, <3>4, <3>6, <3>7, WorkKeeps
  <2> QED
    BY <1>3, <1>4, <1>6, <2>1 DEF Decode
<1>7. CASE EncodeWebp(p)
  BY <1>1, <1>2, <1>3, <1>4, <1>5, <1>7, EncodedKeeps DEF EncodeWebp
<1>8. CASE EncodeJpeg(p)
  BY <1>1, <1>2, <1>3, <1>8, EncodedKeeps DEF EncodeJpeg
<1> QED
  BY <1>6, <1>7, <1>8

\* The steps of transcodeWithWebCodecs, and the wait for the core.
LEMMA TimelapseItem ==
    ASSUME NEW name \in Name, NEW size \in EncodedSizes,
           NEW item, item = Timelapse(name, size)
    PROVE  item \in MediaItem /\ OfMapping(item) /\ item.content = name
<1>1. size \in Nat
  BY MediaAssumption
<1>2. item = [type |-> 2, codec |-> 16, content |-> name, size |-> size]
  BY DEF Timelapse, Codecs
<1>3. <<2, 16>> \in MediaMapping
  BY DEF MediaMapping
<1> QED
  BY <1>1, <1>2, <1>3 DEF MediaItem, OfMapping

LEMMA VideoInv ==
    ASSUME MediaInv, NEW p \in Preparation,
           OpenVideo(p) \/ Frames(p) \/ FallBack(p) \/ Finalize(p) \/ HaveCore(p)
    PROVE  MediaInv'
<1>1. /\ prep[p].step \in {"open", "frames", "finalize", "load"}
      /\ UNCHANGED <<device, disk, collided>> /\ NoFault
  BY DEF OpenVideo, Frames, FallBack, Finalize, HaveCore, WebCodecs
<1>2. prep[p].step \in OnVideo /\ ~Using(p)
  BY <1>1 DEF OnVideo, Using
<1>3. ASSUME NEW step \in {"frames", "finalize", "load", "write"},
             NEW kept \in SUBSET {"bitmap", "input", "source", "output"},
             kept # {} => step \in {"frames", "finalize"},
             Goes(p, To(p, step), kept)
      PROVE  MediaInv'
  <2>0. PICK o \in {prep[p]}, fault \in BOOLEAN : fault = FALSE
    OBVIOUS
  <2>1. PICK q : q = Moved(o, step, fault)
    OBVIOUS
  <2>2. Goes(p, q, kept)
    BY <1>3, <2>0, <2>1 DEF To, Moved
  <2>3. /\ step \in OnVideo /\ step \notin OnImage /\ step \notin Users
        /\ step # "failed"
        /\ kept # {} => step \in {"webp", "jpeg", "frames", "finalize"}
    BY <1>3 DEF OnImage, OnVideo, Users
  <2> QED
    BY <1>1, <1>2, <2>1, <2>2, <2>3, WorkKeeps
<1>4. CASE Finalize(p)
  <2>1. PICK size \in EncodedSizes :
            Goes(p, WithItem(prep[p], Timelapse(Current(p).name, size)), {})
    BY <1>4 DEF Finalize
  <2>2. PICK item : item = Timelapse(Current(p).name, size)
    OBVIOUS
  <2>3. Current(p).name \in Name
    BY <1>2, CurrentFile
  <2>4. PICK name \in Name : name = Current(p).name
    BY <2>3
  <2>5. /\ item \in MediaItem /\ OfMapping(item)
        /\ item.content = Current(p).name
    BY <2>2, <2>4, TimelapseItem
  <2>6. Goes(p, WithItem(prep[p], item), {})
    BY <2>1, <2>2
  <2> QED
    BY <1>1, <1>2, <2>5, <2>6, ItemKeeps
<1>5. CASE OpenVideo(p)
  BY <1>3, <1>5 DEF OpenVideo, WebCodecs
<1>6. CASE Frames(p)
  BY <1>3, <1>6 DEF Frames, WebCodecs
<1>7. CASE FallBack(p)
  BY <1>3, <1>7 DEF FallBack, WebCodecs
<1>8. CASE HaveCore(p)
  BY <1>3, <1>8 DEF HaveCore
<1> QED
  BY <1>4, <1>5, <1>6, <1>7, <1>8

\* preprocessMediaFiles is called.
LEMMA PrepareInv ==
    ASSUME MediaInv, NEW p \in Preparation, NEW files \in Selections,
           Prepare(p, files)
    PROVE  MediaInv'
<1>1. PICK o : o = [Resting EXCEPT !.files = files, !.at = 1]
  OBVIOUS
<1>2. PICK q : q = [o EXCEPT !.step = First(o)]
  OBVIOUS
<1>3. /\ Goes(p, q, {}) /\ NoFault /\ UNCHANGED <<device, disk, collided>>
      /\ prep[p].step = "idle"
  BY <1>1, <1>2 DEF Prepare
<1>4. << >> \in Seq(MediaItem) /\ Len(files) \in Nat
  BY FilesOfSelection
<1>5. /\ o.files = files /\ o.at = 1 /\ o.items = << >> /\ o.result = Bad
      /\ o \in PrepState
  BY <1>1, <1>4 DEF Resting, PrepState, Rest
<1>6. Arriving(o)
  BY <1>4, <1>5 DEF Arriving
<1>7. /\ q \in PrepState /\ Placed(q)
      /\ q.step \in {"decode", "open", "load", "done", "failed"}
      /\ q.step = "failed" => Cause(q)
      /\ q.items = << >>
  BY <1>2, <1>5, <1>6, FirstPlaced
<1>8. Shows(q) /\ q.step \notin Users /\ ~Using(p)
  BY <1>3, <1>7 DEF Shows, Users, Using
<1>9. PICK kept \in SUBSET {"bitmap", "input", "source", "output"} : kept = {}
  OBVIOUS
<1> QED
  BY <1>3, <1>7, <1>8, <1>9, FaultInRange, OffCoreKeeps

\* Everyone who waited for the core fails.
LEMMA LoadFailsInv ==
    ASSUME MediaInv, LoadFails
    PROVE  MediaInv'
<1>1. /\ core' = "none" /\ UNCHANGED <<device, disk, held, collided>>
      /\ mediaFaults' \in 0..MaxMediaFaults
  BY FaultInRange DEF LoadFails
<1>2. MediaTyped'
  BY <1>1 DEF MediaInv, MediaTyped
<1>3. \A p \in Preparation :
          prep'[p] = IF prep[p].step = "load"
                     THEN [[prep[p] EXCEPT !.step = "failed"] EXCEPT !.fault = TRUE]
                     ELSE prep[p]
  BY DEF LoadFails, Failed, To
<1>4. ASSUME NEW p \in Preparation, prep[p].step = "load"
      PROVE  /\ prep'[p] \in PrepState /\ Placed(prep'[p])
             /\ prep'[p].step = "failed" /\ Cause(prep'[p])
             /\ Shows(prep[p]) => Shows(prep'[p])
  <2>1. PICK o \in {prep[p]}, fault \in BOOLEAN : fault = TRUE
    OBVIOUS
  <2>2. o.step \in OnVideo /\ o.result = Bad
    BY <1>4 DEF MediaInv, Advancing, Placed, OnVideo
  <2>3. PICK step \in {"failed"} : TRUE
    OBVIOUS
  <2>4. /\ step \in {"failed"} \cup OnImage \cup OnVideo /\ step = "failed"
        /\ step \notin OnImage /\ step \notin OnVideo
    BY <2>3 DEF OnImage, OnVideo
  <2>5. PICK q : q = Moved(o, step, fault)
    OBVIOUS
  <2>6. /\ q \in PrepState /\ Placed(q) /\ q.step = step
        /\ q.fault = (o.fault \/ fault)
        /\ Shows(o) => Shows(q)
    BY <2>2, <2>4, <2>5, TakesOn
  <2>7. q = prep'[p]
    BY <1>3, <1>4, <2>1, <2>4, <2>5 DEF Moved
  <2> QED
    BY <2>1, <2>4, <2>6, <2>7 DEF Cause
<1>5. \A p \in Preparation : prep[p].step # "load" => prep'[p] = prep[p]
  BY <1>3
<1>6. Advancing'
  <2>1. /\ DOMAIN prep' = Preparation
        /\ prep' = [p \in Preparation |-> prep'[p]]
    BY DEF LoadFails
  <2>2. \A p \in Preparation : prep'[p] \in PrepState /\ Placed(prep'[p])
    BY <1>4, <1>5 DEF MediaInv, Advancing
  <2>3. prep' \in [Preparation -> PrepState]
    BY <2>1, <2>2
  <2> QED
    BY <2>2, <2>3 DEF Advancing, Placed, Resting
<1>7. Holding'
  BY <1>1, <1>5 DEF MediaInv, Holding
<1>8. \A p \in Preparation :
          /\ Using(p)' <=> Using(p)
          /\ Using(p) => prep'[p] = prep[p] /\ Current(p)' = Current(p)
  BY <1>4, <1>5 DEF Using, Current
<1>9. Leftovers'
  BY <1>1, <1>8 DEF MediaInv, Leftovers
<1>10. ASSUME Undisturbed PROVE Undisturbed'
  <2>1. \A p, r \in Preparation : Using(p)' /\ Using(r)' => p = r
    BY <1>8, <1>10 DEF Undisturbed
  <2>2. \A p \in Preparation : Shows(prep'[p])
    BY <1>4, <1>5, <1>10 DEF Undisturbed
  <2>3. \A p \in Preparation : prep'[p].step = "failed" => Cause(prep'[p])
    BY <1>4, <1>5, <1>10 DEF Undisturbed
  <2>4. ASSUME NEW p \in Preparation
        PROVE  /\ prep'[p].step = "exec" =>
                      disk[Current(p)'.type] = Current(p)'.name
               /\ prep'[p].step = "read" => disk["output"] = Current(p)'.name
               /\ prep'[p].step = "clean" =>
                     \/ prep'[p].result = Current(p)'.name
                     \/ prep'[p].result = Bad /\ prep'[p].fault
    BY <1>4, <1>5, <1>8, <1>10 DEF Undisturbed, Using
  <2>5. \A p \in Preparation : Cause(prep'[p]) => Cause(prep[p])'
    BY <1>1 DEF Cause, Refused
  <2>6. \A p \in Preparation : Shows(prep'[p]) => Shows(prep[p])'
    BY DEF Shows
  <2> QED
    BY <1>1, <2>1, <2>2, <2>3, <2>4, <2>5, <2>6 DEF Undisturbed
<1> QED
  BY <1>1, <1>2, <1>6, <1>7, <1>9, <1>10 DEF MediaInv

\* A step of the core: without a collision its user is the only one.
LEMMA OnCoreKeeps ==
    ASSUME MediaInv, NEW p \in Preparation, prep[p].step \in OnVideo,
           NEW q \in PrepState, Placed(q), q.step \in Users,
           q.files = prep[p].files, q.at = prep[p].at, q.items = prep[p].items,
           Goes(p, q, {}), UNCHANGED device, Fault \/ NoFault,
           collided' \in BOOLEAN,
           collided' \/ /\ Undisturbed
                        /\ \A r \in Preparation : r # p => ~Using(r),
           disk' \in [Extension \cup {"output"} -> Name \cup {Bad}],
           \A f \in DOMAIN disk :
               \/ disk'[f] \in {disk[f], Bad}
               \/ f \in {Current(p).type, "output"},
           \/ collided'
           \/ /\ q.step = "exec" => disk'[Current(p).type] = Current(p).name
              /\ q.step = "read" => disk'["output"] = Current(p).name
              /\ q.step = "clean" => \/ q.result = Current(p).name
                                     \/ q.result = Bad /\ q.fault
    PROVE  MediaInv'
<1>0. PICK kept \in SUBSET {"bitmap", "input", "source", "output"} : kept = {}
  OBVIOUS
<1>1. /\ MediaTyped' /\ Advancing' /\ Holding' /\ prep'[p] = q
      /\ \A r \in Preparation : r # p => prep'[r] = prep[r]
  BY <1>0, FaultInRange, GoesPlaced
<1>2. /\ Using(p)' /\ Current(p)' = Current(p)
      /\ \A r \in Preparation : r # p =>
            (Using(r)' <=> Using(r)) /\ Current(r)' = Current(r)
  BY <1>1 DEF Using, Users, Current
<1>3. Leftovers'
  <2>1. DOMAIN disk' = DOMAIN disk
    BY DEF MediaInv, Leftovers
  <2>2. ASSUME NEW f \in DOMAIN disk, disk'[f] # Bad
        PROVE  \E r \in Preparation :
                   Using(r)' /\ f \in {Current(r)'.type, "output"}
    <3>1. CASE f \in {Current(p).type, "output"}
      BY <1>2, <3>1
    <3>2. CASE disk[f] # Bad
      BY <1>2, <3>2 DEF MediaInv, Leftovers
    <3> QED
      BY <2>2, <3>1, <3>2
  <2> QED
    BY <2>1, <2>2 DEF Leftovers
<1>4. ASSUME ~collided' PROVE Undisturbed'
  <2>1. Undisturbed /\ \A r \in Preparation : r # p => ~Using(r)
    BY <1>4
  <2>2. \A r, s \in Preparation : Using(r)' /\ Using(s)' => r = s
    BY <1>2, <2>1
  <2>3. \A r \in Preparation : Shows(prep'[r])
    <3>1. Shows(q)
      BY <2>1 DEF Undisturbed, Shows
    <3> QED
      BY <1>1, <2>1, <3>1 DEF Undisturbed
  <2>4. \A r \in Preparation : prep'[r].step = "failed" => Cause(prep'[r])
    BY <1>1, <2>1 DEF Undisturbed, Users
  <2>5. ASSUME NEW r \in Preparation
        PROVE  /\ prep'[r].step = "exec" =>
                      disk'[Current(r)'.type] = Current(r)'.name
               /\ prep'[r].step = "read" => disk'["output"] = Current(r)'.name
               /\ prep'[r].step = "clean" =>
                     \/ prep'[r].result = Current(r)'.name
                     \/ prep'[r].result = Bad /\ prep'[r].fault
    <3>1. CASE r = p
      BY <1>1, <1>2, <1>4, <3>1
    <3>2. CASE r # p
      BY <1>1, <1>2, <2>1, <3>2 DEF Using
    <3> QED
      BY <3>1, <3>2
  <2>6. \A r \in Preparation : Cause(prep'[r]) => Cause(prep[r])'
    BY DEF Cause, Refused
  <2>7. \A r \in Preparation : Shows(prep'[r]) => Shows(prep[r])'
    BY DEF Shows
  <2> QED
    BY <2>2, <2>3, <2>4, <2>5, <2>6, <2>7 DEF Undisturbed
<1> QED
  BY <1>1, <1>3, <1>4 DEF MediaInv

\* A call of the core fails.
LEMMA BrokenKeeps ==
    ASSUME MediaInv, NEW p \in Preparation,
           prep[p].step \in {"write", "exec", "read"},
           Broken(p), Fault, UNCHANGED device, collided' \in BOOLEAN,
           collided' \/ /\ Undisturbed
                        /\ \A r \in Preparation : r # p => ~Using(r)
    PROVE  MediaInv'
<1>1. PICK o \in {prep[p]}, fault \in BOOLEAN : fault = TRUE
  OBVIOUS
<1>2. o.step \in OnVideo /\ o.result = Bad
  BY DEF MediaInv, Advancing, Placed, OnVideo
<1>3. PICK step \in {"clean"} : TRUE
  OBVIOUS
<1>4. /\ step \in {"failed"} \cup OnImage \cup OnVideo /\ step = "clean"
      /\ step \notin OnImage /\ step \in Users
  BY <1>3 DEF OnImage, OnVideo, Users
<1>5. PICK q : q = Moved(o, step, fault)
  OBVIOUS
<1>6. /\ q \in PrepState /\ Placed(q) /\ q.step = step
      /\ q.files = o.files /\ q.at = o.at /\ q.items = o.items
      /\ q.result = Bad /\ q.fault = (o.fault \/ fault)
  BY <1>2, <1>4, <1>5, TakesOn
<1>7. Goes(p, q, {}) /\ disk' = disk
  BY <1>1, <1>4, <1>5 DEF Broken, To, Moved
<1>8. /\ disk' \in [Extension \cup {"output"} -> Name \cup {Bad}]
      /\ \A f \in DOMAIN disk : \/ disk'[f] \in {disk[f], Bad}
                                \/ f \in {Current(p).type, "output"}
  BY <1>7 DEF MediaInv, Leftovers
<1> QED
  BY <1>1, <1>2, <1>4, <1>6, <1>7, <1>8, OnCoreKeeps

\* A call of the core goes through, and leaves the disk.
LEMMA CoreCallKeeps ==
    ASSUME MediaInv, NEW p \in Preparation,
           prep[p].step \in {"write", "exec", "read"},
           NEW step \in Users, Goes(p, To(p, step), {}), NoFault,
           UNCHANGED device, collided' \in BOOLEAN,
           collided' \/ /\ Undisturbed
                        /\ \A r \in Preparation : r # p => ~Using(r),
           disk' \in [Extension \cup {"output"} -> Name \cup {Bad}],
           \A f \in DOMAIN disk :
               \/ disk'[f] \in {disk[f], Bad}
               \/ f \in {Current(p).type, "output"},
           \/ collided'
           \/ /\ step = "exec" => disk'[Current(p).type] = Current(p).name
              /\ step = "read" => disk'["output"] = Current(p).name
              /\ step # "clean"
    PROVE  MediaInv'
<1>1. PICK o \in {prep[p]}, fault \in BOOLEAN : fault = FALSE
  OBVIOUS
<1>2. o.step \in OnVideo /\ o.result = Bad
  BY DEF MediaInv, Advancing, Placed, OnVideo
<1>3. PICK q : q = Moved(o, step, fault)
  OBVIOUS
<1>4. /\ step \in {"failed"} \cup OnImage \cup OnVideo
      /\ step \in OnImage => o.step \in OnImage
      /\ step \in OnVideo => o.step \in OnVideo
      /\ o.step \in OnImage \cup OnVideo
  BY <1>2 DEF OnImage, OnVideo, Users
<1>5. /\ q \in PrepState /\ Placed(q) /\ q.step = step
      /\ q.files = o.files /\ q.at = o.at /\ q.items = o.items
  BY <1>2, <1>3, <1>4, TakesOn
<1>6. Goes(p, q, {})
  BY <1>1, <1>3 DEF To, Moved
<1>7. \/ collided'
      \/ /\ q.step = "exec" => disk'[Current(p).type] = Current(p).name
         /\ q.step = "read" => disk'["output"] = Current(p).name
         /\ q.step = "clean" => \/ q.result = Current(p).name
                                \/ q.result = Bad /\ q.fault
  BY <1>5
<1> QED
  BY <1>1, <1>2, <1>5, <1>6, <1>7, OnCoreKeeps

\* The only user of the core.
LEMMA AloneOnCore ==
    ASSUME MediaInv, NEW p \in Preparation, Using(p), UNCHANGED collided
    PROVE  /\ collided' \in BOOLEAN
           /\ collided' \/ /\ Undisturbed
                           /\ \A r \in Preparation : r # p => ~Using(r)
BY DEF MediaInv, MediaTyped, Undisturbed

LEMMA WriteInv ==
    ASSUME MediaInv, NEW p \in Preparation, Write(p)
    PROVE  MediaInv'
<1>1. /\ prep[p].step = "write" /\ ~Using(p) /\ UNCHANGED device
      /\ collided' = (collided \/ \E r \in Preparation : Using(r))
  BY DEF Write, Using
<1>2. /\ collided' \in BOOLEAN
      /\ collided' \/ /\ Undisturbed
                      /\ \A r \in Preparation : r # p => ~Using(r)
  BY <1>1 DEF MediaInv, MediaTyped
<1>3. CASE /\ disk' = [disk EXCEPT ![Current(p).type] = Current(p).name]
           /\ Goes(p, To(p, "exec"), {}) /\ NoFault
  <2>1. /\ Current(p).name \in Name /\ Current(p).type \in Extension
    BY <1>1, CurrentFile DEF OnVideo
  <2>2. PICK f \in Extension, name \in Name :
            f = Current(p).type /\ name = Current(p).name
    BY <2>1
  <2>3. disk' = [disk EXCEPT ![f] = name]
    BY <1>3, <2>2
  <2>4. disk \in [Extension \cup {"output"} -> Name \cup {Bad}]
    BY DEF MediaInv, Leftovers
  <2>5. /\ disk' \in [Extension \cup {"output"} -> Name \cup {Bad}]
        /\ disk'[f] = name
        /\ \A g \in DOMAIN disk : g = f \/ disk'[g] = disk[g]
    BY <2>3, <2>4
  <2>6. PICK step \in Users : step = "exec"
    BY DEF Users
  <2>7. Goes(p, To(p, step), {})
    BY <1>3, <2>6
  <2> QED
    BY <1>1, <1>2, <1>3, <2>2, <2>5, <2>6, <2>7, CoreCallKeeps
<1> QED
  BY <1>1, <1>2, <1>3, BrokenKeeps DEF Write

LEMMA ExecInv ==
    ASSUME MediaInv, NEW p \in Preparation, Exec(p)
    PROVE  MediaInv'
<1>1. /\ prep[p].step = "exec" /\ Using(p) /\ UNCHANGED <<device, collided>>
  BY DEF Exec, Using
<1>2. /\ collided' \in BOOLEAN
      /\ collided' \/ /\ Undisturbed
                      /\ \A r \in Preparation : r # p => ~Using(r)
  BY <1>1, AloneOnCore
<1>3. /\ Current(p).name \in Name /\ Current(p).type \in Extension
      /\ Current(p).name # Bad
  BY <1>1, CurrentFile DEF OnVideo
<1>4. PICK input : input = disk[Current(p).type]
  OBVIOUS
<1>5. /\ disk \in [Extension \cup {"output"} -> Name \cup {Bad}]
      /\ input \in Name \cup {Bad}
  BY <1>3, <1>4 DEF MediaInv, Leftovers
<1>6. collided' \/ input = Current(p).name
  BY <1>1, <1>2, <1>4 DEF Undisturbed
<1>7. CASE /\ input # Bad /\ NoFault /\ disk' = [disk EXCEPT !["output"] = input]
           /\ Goes(p, To(p, "read"), {})
  <2>1. /\ disk' \in [Extension \cup {"output"} -> Name \cup {Bad}]
        /\ disk'["output"] = input
        /\ \A g \in DOMAIN disk : g = "output" \/ disk'[g] = disk[g]
    BY <1>5, <1>7
  <2>2. PICK step \in Users : step = "read"
    BY DEF Users
  <2>3. Goes(p, To(p, step), {})
    BY <1>7, <2>2
  <2> QED
    BY <1>1, <1>2, <1>6, <1>7, <2>1, <2>2, <2>3, CoreCallKeeps
<1>8. CASE /\ input = Bad /\ NoFault
           /\ Goes(p, To(p, "clean"), {}) /\ UNCHANGED disk
  <2>1. collided'
    BY <1>3, <1>6, <1>8
  <2>2. PICK step \in Users : step = "clean"
    BY DEF Users
  <2>3. Goes(p, To(p, step), {})
    BY <1>8, <2>2
  <2> QED
    BY <1>1, <1>2, <1>5, <1>8, <2>1, <2>3, CoreCallKeeps
<1>9. CASE Fault /\ Broken(p)
  BY <1>1, <1>2, <1>9, BrokenKeeps
<1> QED
  BY <1>4, <1>7, <1>8, <1>9 DEF Exec

LEMMA ReadInv ==
    ASSUME MediaInv, NEW p \in Preparation, Read(p)
    PROVE  MediaInv'
<1>1. /\ prep[p].step = "read" /\ Using(p) /\ UNCHANGED <<device, collided>>
  BY DEF Read, Using
<1>2. /\ collided' \in BOOLEAN
      /\ collided' \/ /\ Undisturbed
                      /\ \A r \in Preparation : r # p => ~Using(r)
  BY <1>1, AloneOnCore
<1>3. CASE /\ NoFault /\ UNCHANGED disk
           /\ Goes(p, [To(p, "clean") EXCEPT !.result = disk["output"]], {})
  <2>1. PICK o \in PrepState : o = prep[p]
    BY DEF MediaInv, Advancing
  <2>2. Placed(o) /\ o.step = "read"
    BY <1>1, <2>1 DEF MediaInv, Advancing
  <2>3. /\ disk \in [Extension \cup {"output"} -> Name \cup {Bad}]
        /\ disk["output"] \in Name \cup {Bad}
    BY DEF MediaInv, Leftovers
  <2>4. PICK result \in Name \cup {Bad} : result = disk["output"]
    BY <2>3
  <2>5. PICK q : q = [[o EXCEPT !.step = "clean"] EXCEPT !.result = result]
    OBVIOUS
  <2>6. /\ q \in PrepState /\ q.step = "clean" /\ q.result = result
        /\ q.files = o.files /\ q.at = o.at /\ q.items = o.items
    BY <2>5 DEF PrepState, OnVideo
  <2>7. Placed(q)
    BY <2>2, <2>6 DEF Placed, OnImage, OnVideo
  <2>8. Goes(p, q, {})
    BY <1>3, <2>1, <2>4, <2>5 DEF To
  <2>9. collided' \/ q.result = Current(p).name
    BY <1>1, <1>2, <2>4, <2>6 DEF Undisturbed
  <2>10. q.step \in Users /\ prep[p].step \in OnVideo
    BY <1>1, <2>6 DEF Users, OnVideo
  <2>11. /\ disk' \in [Extension \cup {"output"} -> Name \cup {Bad}]
         /\ \A f \in DOMAIN disk : \/ disk'[f] \in {disk[f], Bad}
                                   \/ f \in {Current(p).type, "output"}
    BY <1>3, <2>3
  <2> QED
    BY <1>1, <1>2, <1>3, <2>1, <2>6, <2>7, <2>8, <2>9, <2>10, <2>11,
       OnCoreKeeps
<1>4. CASE Fault /\ Broken(p)
  BY <1>1, <1>2, <1>4, BrokenKeeps
<1> QED
  BY <1>3, <1>4 DEF Read

\* Its files go; the file is done, or the preparation fails.
LEMMA CleanInv ==
    ASSUME MediaInv, NEW p \in Preparation, Clean(p)
    PROVE  MediaInv'
<1>1. /\ prep[p].step = "clean" /\ Using(p) /\ UNCHANGED <<device, collided>>
      /\ disk' = Emptied(p) /\ NoFault
  BY DEF Clean, Using
<1>2. /\ collided' \in BOOLEAN
      /\ collided' \/ /\ Undisturbed
                      /\ \A r \in Preparation : r # p => ~Using(r)
  BY <1>1, AloneOnCore
<1>3. PICK o \in PrepState : o = prep[p]
  BY DEF MediaInv, Advancing
<1>4. Placed(o) /\ o.step = "clean" /\ o.step \in OnVideo
  BY <1>1, <1>3 DEF MediaInv, Advancing, OnVideo
<1>5. /\ disk \in [Extension \cup {"output"} -> Name \cup {Bad}]
      /\ disk' = [disk EXCEPT ![Current(p).type] = Bad, !["output"] = Bad]
  BY <1>1 DEF MediaInv, Leftovers, Emptied
<1>6. /\ disk' \in [Extension \cup {"output"} -> Name \cup {Bad}]
      /\ \A f \in DOMAIN disk :
            disk'[f] = IF f \in {Current(p).type, "output"} THEN Bad ELSE disk[f]
  BY <1>5
\* Where it goes from here, whatever happened.
<1>7. ASSUME NEW q \in PrepState, Placed(q), Goes(p, q, {}),
             q.step \in {"decode", "open", "load", "done", "failed"},
             collided \/ (q.step = "failed" => Cause(q)),
             collided \/ Shows(q)
      PROVE  MediaInv'
  <2>0. PICK kept \in SUBSET {"bitmap", "input", "source", "output"} : kept = {}
    OBVIOUS
  <2>1. /\ MediaTyped' /\ Advancing' /\ Holding' /\ prep'[p] = q
        /\ \A r \in Preparation : r # p => prep'[r] = prep[r]
    BY <1>1, <1>2, <1>7, <2>0, FaultInRange, GoesPlaced
  <2>2. /\ ~Using(p)'
        /\ \A r \in Preparation : r # p =>
              (Using(r)' <=> Using(r)) /\ Current(r)' = Current(r)
    BY <1>7, <2>1 DEF Using, Current
  <2>3. Leftovers'
    <3>1. DOMAIN disk' = DOMAIN disk
      BY <1>5, <1>6
    <3>2. ASSUME NEW f \in DOMAIN disk, disk'[f] # Bad
          PROVE  \E r \in Preparation :
                     Using(r)' /\ f \in {Current(r)'.type, "output"}
      <4>1. disk[f] # Bad /\ f \notin {Current(p).type, "output"}
        BY <1>6, <3>2
      <4>2. PICK r \in Preparation : Using(r) /\ f \in {Current(r).type, "output"}
        BY <4>1 DEF MediaInv, Leftovers
      <4> QED
        BY <2>2, <4>1, <4>2
    <3> QED
      BY <1>6, <3>1, <3>2 DEF Leftovers
  <2>4. ASSUME ~collided' PROVE Undisturbed'
    <3>1. Undisturbed /\ \A r \in Preparation : r # p => ~Using(r)
      BY <1>2, <2>4
    <3>2. \A r, s \in Preparation : Using(r)' /\ Using(s)' => r = s
      BY <2>2, <3>1
    <3>3. \A r \in Preparation : Shows(prep'[r])
      BY <1>1, <1>7, <2>1, <2>4, <3>1 DEF Undisturbed
    <3>4. \A r \in Preparation : prep'[r].step = "failed" => Cause(prep'[r])
      BY <1>1, <1>7, <2>1, <2>4, <3>1 DEF Undisturbed
    <3>5. \A r \in Preparation : prep'[r].step \notin {"exec", "read", "clean"}
      BY <1>7, <2>1, <3>1 DEF Using
    <3>6. \A r \in Preparation : Cause(prep'[r]) => Cause(prep[r])'
      BY <1>1 DEF Cause, Refused
    <3>7. \A r \in Preparation : Shows(prep'[r]) => Shows(prep[r])'
      BY DEF Shows
    <3> QED
      BY <3>2, <3>3, <3>4, <3>5, <3>6, <3>7 DEF Undisturbed
  <2> QED
    BY <2>1, <2>3, <2>4 DEF MediaInv
<1>8. CASE o.result = Bad
  <2>1. PICK step \in {"failed"}, fault \in BOOLEAN : fault = FALSE
    OBVIOUS
  <2>2. PICK q : q = Moved(o, step, fault)
    OBVIOUS
  <2>3. /\ step \in {"failed"} \cup OnImage \cup OnVideo /\ step = "failed"
        /\ step \notin OnImage /\ step \notin OnVideo
        /\ o \in {prep[p]}
    BY <1>3, <2>1 DEF OnImage, OnVideo
  <2>4. /\ q \in PrepState /\ Placed(q) /\ q.step = "failed"
        /\ q.fault = (o.fault \/ fault)
        /\ Shows(o) => Shows(q)
    BY <1>4, <1>8, <2>2, <2>3, TakesOn
  <2>5. Goes(p, q, {})
    BY <1>3, <1>8, <2>1, <2>2, <2>3 DEF Clean, To, Moved
  <2>6. collided \/ (Shows(q) /\ q.fault)
    <3>1. ASSUME ~collided PROVE Shows(o) /\ o.fault = TRUE
      <4>1. Undisturbed
        BY <1>1, <1>2, <3>1
      <4>2. Current(p).name # Bad
        BY <1>3, <1>4, CurrentFile
      <4> QED
        BY <1>1, <1>3, <1>8, <4>1, <4>2 DEF Undisturbed, PrepState
    <3> QED
      BY <2>4, <3>1
  <2>7. collided \/ Cause(q)
    BY <2>6 DEF Cause
  <2> QED
    BY <1>7, <2>4, <2>5, <2>6, <2>7
<1>9. CASE o.result # Bad
  <2>1. PICK size \in EncodedSizes :
            Goes(p, WithItem(o, Timelapse(o.result, size)), {})
    BY <1>3, <1>9 DEF Clean
  <2>2. PICK name \in Name : name = o.result
    BY <1>3, <1>9 DEF PrepState
  <2>3. PICK item : item = Timelapse(name, size)
    OBVIOUS
  <2>4. item \in MediaItem /\ OfMapping(item) /\ item.content = name
    BY <2>3, TimelapseItem
  <2>5. PICK q : q = WithItem(o, item)
    OBVIOUS
  <2>6. o.step \in OnImage \cup OnVideo
    BY <1>4
  <2>7. /\ q \in PrepState /\ Placed(q)
        /\ q.step \in {"decode", "open", "load", "done", "failed"}
        /\ q.step = "failed" => Cause(q)
        /\ Shows(o) /\ item.content = o.files[o.at].name => Shows(q)
    BY <1>4, <2>4, <2>5, <2>6, WithItemPlaced
  <2>8. Goes(p, q, {})
    BY <2>1, <2>2, <2>3, <2>5
  <2>9. collided \/ Shows(q)
    BY <1>1, <1>2, <1>3, <1>9, <2>2, <2>4, <2>7 DEF Undisturbed, Current
  <2> QED
    BY <1>7, <2>7, <2>8, <2>9
<1> QED
  BY <1>8, <1>9

\* The core is there, and nothing of the sender's tab changes.
LEMMA MediaQuiet ==
    ASSUME MediaInv, UNCHANGED <<device, prep, disk, held, collided, mediaFaults>>,
           core' \in {"none", "loading", "loaded"}
    PROVE  MediaInv'
<1>1. MediaTyped' /\ Holding'
  BY DEF MediaInv, MediaTyped, Holding
<1>2. Advancing'
  BY DEF MediaInv, Advancing, Placed, Resting
<1>3. Leftovers'
  BY DEF MediaInv, Leftovers, Using, Current
<1>4. ASSUME Undisturbed PROVE Undisturbed'
  <2>1. \A p \in Preparation : Cause(prep[p]) => Cause(prep[p])'
    BY DEF Cause, Refused
  <2>2. \A p \in Preparation : Shows(prep[p]) => Shows(prep[p])'
    BY DEF Shows
  <2> QED
    BY <1>4, <2>1, <2>2 DEF Undisturbed, Using, Current
<1> QED
  BY <1>1, <1>2, <1>3, <1>4 DEF MediaInv

\* The tab before anything was chosen.
LEMMA MediaStarts ==
    ASSUME device' \in [webp: BOOLEAN, plays: BOOLEAN, codecs: BOOLEAN],
           core' = "none",
           prep' = [p \in Preparation |-> Resting],
           held' = [p \in Preparation |-> {}],
           disk' = [f \in Extension \cup {"output"} |-> Bad],
           collided' = FALSE, mediaFaults' = 0
    PROVE  MediaInv'
<1>1. MediaTyped'
  <2>1. mediaFaults' \in 0..MaxMediaFaults
    BY MediaAssumption
  <2> QED
    BY <2>1 DEF MediaTyped
<1>2. Advancing'
  BY RestingPlaced DEF Advancing, Placed, Resting
<1>3. Holding'
  BY DEF Holding
<1>4. Leftovers'
  BY DEF Leftovers
<1>5. Undisturbed'
  BY DEF Undisturbed, Resting, Using, Shows
<1> QED
  BY <1>1, <1>2, <1>3, <1>4, <1>5 DEF MediaInv

LEMMA MediaInitInv == Init => MediaInv
<1> SUFFICES ASSUME Init PROVE MediaInv
  OBVIOUS
<1>1. /\ device \in [webp: BOOLEAN, plays: BOOLEAN, codecs: BOOLEAN]
      /\ core = "none" /\ prep = [p \in Preparation |-> Resting]
      /\ held = [p \in Preparation |-> {}]
      /\ disk = [f \in Extension \cup {"output"} |-> Bad]
      /\ collided = FALSE /\ mediaFaults = 0
  <2>1. PICK t \in BOOLEAN, f \in BOOLEAN : t = TRUE /\ f = FALSE
    OBVIOUS
  <2>2. \/ device \in [webp: BOOLEAN, plays: {TRUE}, codecs: BOOLEAN]
        \/ device = [webp |-> t, plays |-> f, codecs |-> f]
    BY <2>1 DEF Init, MediaInit
  <2>3. ASSUME device \in [webp: BOOLEAN, plays: {TRUE}, codecs: BOOLEAN]
        PROVE  device \in [webp: BOOLEAN, plays: BOOLEAN, codecs: BOOLEAN]
    BY <2>3, Zenon
  <2>4. [webp |-> t, plays |-> f, codecs |-> f]
            \in [webp: BOOLEAN, plays: BOOLEAN, codecs: BOOLEAN]
    OBVIOUS
  <2>5. device \in [webp: BOOLEAN, plays: BOOLEAN, codecs: BOOLEAN]
    BY <2>2, <2>3, <2>4
  <2> QED
    BY <2>5 DEF Init, MediaInit
<1>2. MediaTyped
  <2>1. mediaFaults \in 0..MaxMediaFaults
    BY <1>1, MediaAssumption
  <2> QED
    BY <1>1, <2>1 DEF MediaTyped
<1>3. Advancing
  BY <1>1, RestingPlaced DEF Advancing
<1>4. Holding /\ Leftovers
  BY <1>1 DEF Holding, Leftovers
<1>5. Undisturbed
  BY <1>1 DEF Undisturbed, Resting, Using, Shows
<1> QED
  BY <1>2, <1>3, <1>4, <1>5 DEF MediaInv

LEMMA MediaStepInv == MediaInv /\ [Next]_vars => MediaInv'
<1> SUFFICES ASSUME MediaInv, [Next]_vars PROVE MediaInv'
  OBVIOUS
<1>1. CASE MediaNext
  <2>1. ASSUME NEW p \in Preparation, MediaStep(p)
        PROVE  MediaInv'
    BY <2>1, ImageInv, VideoInv, WriteInv, ExecInv, ReadInv, CleanInv
    DEF MediaStep
  <2>2. ASSUME NEW p \in Preparation, NEW files \in Selections,
               Prepare(p, files)
        PROVE  MediaInv'
    BY <2>2, PrepareInv
  <2>3. CASE Loaded
    BY <2>3, MediaQuiet DEF Loaded
  <2>4. CASE LoadFails
    BY <2>4, LoadFailsInv
  <2> QED
    BY <1>1, <2>1, <2>2, <2>3, <2>4 DEF MediaNext
<1>2. CASE SealParcel
  <2>1. DOMAIN disk = Extension \cup {"output"}
    BY DEF MediaInv, Leftovers
  <2>2. Blank
    BY <1>2 DEF SealParcel
  <2> QED
    BY <2>1, <2>2, MediaStarts DEF Blank
<1>3. CASE UNCHANGED mediaVars
  <2>1. /\ UNCHANGED <<device, prep, disk, held, collided, mediaFaults>>
        /\ core' = core
    BY <1>3 DEF mediaVars
  <2> QED
    BY <2>1, MediaQuiet DEF MediaInv, MediaTyped
<1> QED
  BY <1>1, <1>2, <1>3 DEF Next, vars, SealElsewhere

-----------------------------------------------------------------------------

\* Where every preparation is, what it holds, and what the files of the core
\* are.  (preprocessMediaFiles, ffmpegTimelapseTranscoder)
THEOREM MediaInvariant == Spec => []MediaInv
<1>1. Init => MediaInv
  BY MediaInitInv
<1>2. MediaInv /\ [Next]_vars => MediaInv'
  BY MediaStepInv
<1> QED
  BY <1>1, <1>2, PTL DEF Spec

\* Every item of a prepared parcel shows the file in its place, whatever
\* failed and fell back on the way.  (preprocessMediaFiles 198-209)
THEOREM MediaInPlaceAlways == Spec => []MediaInPlace
<1>1. MediaInv => MediaInPlace
  <2> SUFFICES ASSUME MediaInv, NEW p \in Preparation,
                      prep[p].step = "done", ~collided
               PROVE  [i \in DOMAIN prep[p].items |-> prep[p].items[i].content]
                      = [i \in DOMAIN prep[p].files |-> prep[p].files[i].name]
    BY DEF MediaInPlace
  <2>1. prep[p] \in PrepState /\ Placed(prep[p]) /\ Shows(prep[p])
    BY DEF MediaInv, Advancing, Undisturbed
  <2>2. PICK items \in Seq(MediaItem) : items = prep[p].items
    BY <2>1 DEF PrepState
  <2>3. PICK files \in Selections \cup {<< >>} : files = prep[p].files
    BY <2>1 DEF PrepState
  <2>4. Len(files) \in Nat /\ DOMAIN files = 1..Len(files)
    BY FilesOfSelection
  <2>5. Len(items) = Len(files)
    BY <2>1, <2>2, <2>3, <2>4 DEF Placed
  <2>6. DOMAIN items = DOMAIN files
    BY <2>4, <2>5
  <2>7. \A i \in DOMAIN items : items[i].content = files[i].name
    BY <2>1, <2>2, <2>3 DEF Shows
  <2> QED
    BY <2>2, <2>3, <2>6, <2>7
<1> QED
  BY <1>1, MediaInvariant, PTL

\* A preparation fails only for a file that the page does not take, a parcel
\* that is too large, or a failure of the browser in this preparation, not for
\* what an earlier one left behind.  (loadSingleThreadFfmpeg,
\* ffmpegTimelapseTranscoder)
THEOREM FailsForACauseAlways == Spec => []FailsForACause
<1>1. MediaInv => FailsForACause
  BY DEF MediaInv, Undisturbed, Cause, FailsForACause
<1> QED
  BY <1>1, MediaInvariant, PTL

\* When nothing is being prepared, no bitmap, decoder or file of the core is
\* left.  (the finally blocks of media-preprocessing.ts and
\* timelapse-transcoder.ts)
THEOREM NothingHeldAlways == Spec => []NothingHeld
<1>1. MediaInv => NothingHeld
  <2> SUFFICES ASSUME MediaInv, \A p \in Preparation : prep[p].step \in Rest
               PROVE  /\ \A p \in Preparation : held[p] = {}
                      /\ \A f \in DOMAIN disk : disk[f] = Bad
    BY DEF NothingHeld
  <2>1. \A p \in Preparation : held[p] = {}
    BY DEF MediaInv, Holding, Rest
  <2>2. \A p \in Preparation : ~Using(p)
    BY DEF Using, Rest
  <2> QED
    BY <2>1, <2>2 DEF MediaInv, Leftovers
<1> QED
  BY <1>1, MediaInvariant, PTL

-----------------------------------------------------------------------------
(* The formats: what was made under a key opens under it.  The sizes of a   *)
(* whole sequence of bytes, which a fold adds up, are taken as they are.    *)

\* The first four of a longer sequence.
LEMMA IsFour ==
    ASSUME NEW S, NEW s \in Seq(S), Len(s) = 4
    PROVE  s = <<s[1], s[2], s[3], s[4]>>
  OBVIOUS

LEMMA FirstFour ==
    ASSUME NEW S, NEW s \in Seq(S), Len(s) >= 4
    PROVE  SubSeq(s, 1, 4) = <<s[1], s[2], s[3], s[4]>>
<1>1. /\ SubSeq(s, 1, 4) \in Seq(S) /\ Len(SubSeq(s, 1, 4)) = 4
      /\ SubSeq(s, 1, 4)[1] = s[1] /\ SubSeq(s, 1, 4)[2] = s[2]
      /\ SubSeq(s, 1, 4)[3] = s[3] /\ SubSeq(s, 1, 4)[4] = s[4]
  OBVIOUS
<1> QED
  BY <1>1, IsFour

LEMMA SixOfSet ==
    ASSUME NEW S, NEW a \in S, NEW b \in S, NEW c \in S, NEW d \in S,
           NEW e \in S, NEW f \in S
    PROVE  <<a, b, c, d>> \o <<e, f>> \in Seq(S)
  OBVIOUS

LEMMA PrefixOfSix ==
    ASSUME NEW a, NEW b, NEW c, NEW d, NEW e, NEW f
    PROVE  SubSeq(<<a, b, c, d>> \o <<e, f>>, 1, 4) = <<a, b, c, d>>
<1>1. <<a, b, c, d>> \o <<e, f>> \in Seq({a, b, c, d, e, f})
  BY SixOfSet
<1>2. PICK s : s = <<a, b, c, d>> \o <<e, f>>
  OBVIOUS
<1>3. Len(s) = 6 /\ s[1] = a /\ s[2] = b /\ s[3] = c /\ s[4] = d
  BY <1>2
<1>4. SubSeq(s, 1, 4) = <<s[1], s[2], s[3], s[4]>>
  <2>1. s \in Seq({a, b, c, d, e, f})
    BY <1>1, <1>2
  <2>2. Len(s) >= 4
    BY <1>3
  <2> QED
    BY ONLY <2>1, <2>2, FirstFour
<1> QED
  BY <1>2, <1>3, <1>4

\* The sizes and the chunks of the sequences that a text and an envelope are.
LEMMA FiveSizes ==
    ASSUME NEW s, DOMAIN s = 1..5
    PROVE  Sizes(s) = <<s[1].size, s[2].size, s[3].size, s[4].size, s[5].size>>
  BY DEF Sizes

LEMMA SixSizes ==
    ASSUME NEW s, DOMAIN s = 1..6
    PROVE  Sizes(s) = <<s[1].size, s[2].size, s[3].size, s[4].size,
                        s[5].size, s[6].size>>
  BY DEF Sizes

LEMMA TwoAfterThree ==
    ASSUME NEW a, NEW b, NEW c, NEW d, NEW e,
           NEW s, s = <<a, b, c>> \o <<d, e>>
    PROVE  /\ DOMAIN s = 1..5 /\ Len(s) = 5
           /\ s[1] = a /\ s[2] = b /\ s[3] = c /\ s[4] = d /\ s[5] = e
  OBVIOUS

LEMMA TwoAfterFour ==
    ASSUME NEW a, NEW b, NEW c, NEW d, NEW e, NEW f,
           NEW s, s = <<a, b, c, d>> \o <<e, f>>
    PROVE  /\ DOMAIN s = 1..6 /\ Len(s) = 6
           /\ s[1] = a /\ s[2] = b /\ s[3] = c /\ s[4] = d
           /\ s[5] = e /\ s[6] = f
  OBVIOUS

\* The authenticator's answer for an envelope opens the seed in it.
LEMMA SeedUnwraps ==
    ASSUME NEW seed, NEW credential, NEW prf, NEW salt,
           NEW s, s = WrapSeed(seed, credential, prf, salt)
    PROVE  /\ s[3].value = credential /\ s[4].value = salt
           /\ UnwrapSeed(s, prf) = seed
<1>1. PICK a, b, c, d : /\ a = Chunk("GPK1", 4) /\ b = Chunk(8, 2)
                        /\ c = Chunk(credential, 8) /\ d = Chunk(salt, 32)
  OBVIOUS
<1>2. PICK cipher : cipher = [key |-> Kek(prf, salt), iv |-> Iv,
                              aad |-> <<a, b, c, d>>, plain |-> seed,
                              size |-> 32 + TagBytes]
  OBVIOUS
<1>3. PICK e, f : e = Chunk(Iv, 12) /\ f = Chunk(cipher, 32 + TagBytes)
  OBVIOUS
<1>4. Prefix(credential, salt) = <<a, b, c, d>>
  BY <1>1 DEF Prefix
<1>5. s = <<a, b, c, d>> \o <<e, f>>
  BY <1>2, <1>3, <1>4 DEF WrapSeed, Encrypt
<1>6. /\ DOMAIN s = 1..6 /\ Len(s) = 6
      /\ s[1] = a /\ s[2] = b /\ s[3] = c /\ s[4] = d /\ s[5] = e /\ s[6] = f
  BY <1>5, TwoAfterFour
<1>7. SubSeq(s, 1, 4) = <<a, b, c, d>>
  BY <1>5, PrefixOfSix
<1>8. /\ a.value = "GPK1" /\ a.size = 4 /\ b.value = 8 /\ b.size = 2
      /\ c.value = credential /\ c.size = 8 /\ d.value = salt /\ d.size = 32
      /\ e.value = Iv /\ e.size = 12 /\ f.value = cipher
      /\ f.size = 32 + TagBytes
  BY <1>1, <1>3 DEF Chunk
<1>9. Gpk1Parses(s)
  <2>1. Sizes(s) = <<4, 2, 8, 32, 12, 32 + TagBytes>>
    BY <1>6, <1>8, SixSizes
  <2> QED
    BY <1>6, <1>8, <2>1 DEF Gpk1Parses
<1>10. Decrypt(Kek(prf, salt), <<a, b, c, d>>, e, f) = seed
  BY <1>2, <1>8 DEF Decrypt, TagBytes
<1> QED
  BY <1>6, <1>7, <1>8, <1>9, <1>10 DEF UnwrapSeed

\* What text encryption makes is decrypted under its key and context, and
\* under no other context.
LEMMA TextDecrypts ==
    ASSUME NEW text, text.size \in Nat, text.gzip \in Nat,
           \A zipped \in BOOLEAN : [text |-> text, zipped |-> zipped] # Bad,
           NEW key, NEW context, NEW other,
           NEW s, s = EncryptText(text, key, context), s # Bad
    PROVE  DecryptText(s, key, other) =
               IF other = context THEN [text EXCEPT !.mark = FALSE] ELSE Bad
<1>1. PICK zipped \in BOOLEAN : zipped = (text.gzip < text.size)
  <2>1. (text.gzip < text.size) \in BOOLEAN
    OBVIOUS
  <2> QED
    BY <2>1, Zenon
<1>2. PICK size \in Nat : size = IF zipped THEN text.gzip ELSE text.size
  OBVIOUS
<1>3. PICK plain : plain = [text |-> text, zipped |-> zipped]
  OBVIOUS
<1>4. PICK flag \in {0, 1} : flag = IF zipped THEN 1 ELSE 0
  OBVIOUS
<1>5. PICK cipher : cipher = [key |-> TextKey(key), iv |-> Iv,
                              aad |-> TextAad(context), plain |-> plain,
                              size |-> size + TagBytes]
  OBVIOUS
<1>6. PICK a, b, c, d, e :
          /\ a = Chunk("GTX1", 4) /\ b = Chunk(flag, 1)
          /\ c = Chunk(text.size, 4)
          /\ d = Chunk(Iv, 12) /\ e = Chunk(cipher, size + TagBytes)
  OBVIOUS
<1>7. s = <<a, b, c>> \o <<d, e>> /\ Total(s) <= MaxTextBytes
  BY <1>1, <1>2, <1>3, <1>4, <1>5, <1>6 DEF EncryptText, Encrypt
<1>8. /\ DOMAIN s = 1..5 /\ Len(s) = 5
      /\ s[1] = a /\ s[2] = b /\ s[3] = c /\ s[4] = d /\ s[5] = e
  BY <1>7, TwoAfterThree
<1>9. /\ a.value = "GTX1" /\ a.size = 4 /\ b.value = flag /\ b.size = 1
      /\ c.value = text.size /\ c.size = 4
      /\ d.value = Iv /\ d.size = 12 /\ e.value = cipher
      /\ e.size = size + TagBytes
  BY <1>6 DEF Chunk
<1>10. TextParses(s)
  <2>1. Sizes(s) = <<4, 1, 4, 12, s[5].size>>
    BY <1>8, <1>9, FiveSizes
  <2>2. s[5].size >= TagBytes
    BY <1>8, <1>9 DEF TagBytes
  <2> QED
    BY <1>7, <1>8, <1>9, <2>1, <2>2 DEF TextParses
<1>11. Decrypt(TextKey(key), TextAad(other), s[4], s[5]) =
           IF other = context THEN plain ELSE Bad
  <2>1. (TextAad(other) = TextAad(context)) <=> other = context
    BY DEF TextAad
  <2>2. /\ cipher.key = TextKey(key) /\ cipher.iv = Iv
        /\ cipher.aad = TextAad(context) /\ cipher.plain = plain
        /\ cipher.size = size + TagBytes /\ size + TagBytes >= TagBytes
    BY <1>5 DEF TagBytes
  <2> QED
    BY <1>8, <1>9, <2>1, <2>2 DEF Decrypt
<1>12. /\ plain # Bad /\ plain.zipped = (s[2].value = 1)
       /\ plain.text = text /\ plain.text.size = s[3].value
  BY <1>3, <1>4, <1>8, <1>9
<1>13. CASE other = context
  BY <1>10, <1>11, <1>12, <1>13 DEF DecryptText
<1>14. CASE other # context
  BY <1>11, <1>14 DEF DecryptText
<1> QED
  BY <1>13, <1>14

\* Where the parts of a concatenation and of a subsequence are.
LEMMA Concatenated ==
    ASSUME NEW S, NEW s \in Seq(S), NEW t \in Seq(S)
    PROVE  /\ s \o t \in Seq(S) /\ Len(s \o t) = Len(s) + Len(t)
           /\ \A i \in 1..Len(s) : (s \o t)[i] = s[i]
           /\ \A i \in 1..Len(t) : (s \o t)[Len(s) + i] = t[i]
  OBVIOUS

LEMMA SixFrom ==
    ASSUME NEW S, NEW s \in Seq(S), NEW m \in Nat, m + 6 <= Len(s),
           NEW r, r = SubSeq(s, m + 1, m + 6)
    PROVE  DOMAIN r = 1..6 /\ \A k \in 1..6 : r[k] = s[m + k]
  OBVIOUS

\* The chunks of the items one after the other.
Sixes(j, packed, n) ==
    \A i \in 1..n, k \in 1..6 : j[6 * (i - 1) + k] = packed[i][k]

LEMMA JoinedChunks ==
    ASSUME NEW packed, NEW n \in Nat, Len(packed) = n,
           NEW j, j = Joined(packed)
    PROVE  DOMAIN j = 1..(6 * n) /\ Sixes(j, packed, n)
<1>1. j = [k \in 1..(6 * n) |-> packed[(k + 5) \div 6][((k - 1) % 6) + 1]]
  BY DEF Joined
<1>2. ASSUME NEW i \in 1..n, NEW k \in 1..6
      PROVE  j[6 * (i - 1) + k] = packed[i][k]
  <2>1. PICK m \in 1..(6 * n) : m = 6 * (i - 1) + k
    OBVIOUS
  <2>2. (m + 5) \div 6 = i /\ ((m - 1) % 6) + 1 = k
    BY <2>1
  <2>3. j[m] = packed[i][k]
    BY <1>1, <2>2
  <2> QED
    BY <2>1, <2>3
<1> QED
  BY <1>1, <1>2 DEF Sixes

SixOf(f, chunks) == DOMAIN f = 1..6 /\ \A k \in 1..6 : f[k] = chunks[k]

\* The chunks of an item, after a header of four.
LEMMA ItemAfterHeader ==
    ASSUME NEW S, NEW h \in Seq(S), Len(h) = 4,
           NEW n \in Nat, NEW j \in Seq(S), Len(j) = 6 * n,
           NEW packed, Sixes(j, packed, n),
           NEW i \in 1..n, NEW f, f = Item(h \o j, i)
    PROVE  SixOf(f, packed[i])
<1>1. PICK s : s = h \o j
  OBVIOUS
<1>2. /\ s \in Seq(S) /\ Len(s) = 4 + 6 * n
      /\ \A m \in 1..(6 * n) : s[4 + m] = j[m]
  <2>1. /\ h \o j \in Seq(S) /\ Len(h \o j) = 4 + 6 * n
        /\ \A m \in 1..(6 * n) : (h \o j)[4 + m] = j[m]
    <3>1. /\ h \o j \in Seq(S) /\ Len(h \o j) = Len(h) + Len(j)
          /\ \A m \in 1..Len(j) : (h \o j)[Len(h) + m] = j[m]
      BY ONLY Concatenated, h \in Seq(S), j \in Seq(S)
    <3>2. ASSUME NEW m \in 1..(6 * n) PROVE (h \o j)[4 + m] = j[m]
      <4>1. m \in 1..Len(j)
        OBVIOUS
      <4>2. (h \o j)[Len(h) + m] = j[m]
        BY <3>1, <4>1
      <4>3. Len(h) = 4
        OBVIOUS
      <4> QED
        BY ONLY <4>2, <4>3
    <3>3. Len(h) + Len(j) = 4 + 6 * n
      OBVIOUS
    <3> QED
      BY <3>1, <3>2, <3>3
  <2> QED
    BY <1>1, <2>1
<1>3. f = SubSeq(s, 6 * i - 1, 6 * i + 4)
  BY <1>1 DEF Item
<1>4. DOMAIN f = 1..6 /\ \A k \in 1..6 : f[k] = s[6 * i - 2 + k]
  <2>1. PICK m \in Nat : m = 6 * i - 2
    OBVIOUS
  <2>2. m + 6 <= Len(s) /\ m + 1 = 6 * i - 1 /\ m + 6 = 6 * i + 4
    BY <1>2, <2>1
  <2>3. DOMAIN f = 1..6 /\ \A k \in 1..6 : f[k] = s[m + k]
    <3>1. f = SubSeq(s, m + 1, m + 6)
      BY <1>3, <2>2
    <3>2. s \in Seq(S) /\ m + 6 <= Len(s)
      BY <1>2, <2>2
    <3> QED
      BY ONLY <3>1, <3>2, SixFrom, m \in Nat
  <2> QED
    BY <2>1, <2>3
<1>5. ASSUME NEW k \in 1..6 PROVE f[k] = packed[i][k]
  <2>1. PICK m \in 1..(6 * n) : m = 6 * (i - 1) + k
    OBVIOUS
  <2>2. 6 * i - 2 + k = 4 + m
    BY <2>1
  <2>3. j[m] = packed[i][k]
    BY <2>1 DEF Sixes
  <2>4. f[k] = s[4 + m]
    BY <1>4, <2>2
  <2> QED
    BY <1>2, <2>3, <2>4
<1> QED
  BY <1>4, <1>5 DEF SixOf

\* The four chunks of the header.
LEMMA HeaderOf ==
    ASSUME NEW a, NEW b, NEW c, NEW d, NEW S, NEW j \in Seq(S),
           NEW n \in Nat, Len(j) = n, NEW s, s = <<a, b, c, d>> \o j
    PROVE  /\ Len(s) = 4 + n /\ s[1] = a /\ s[2] = b /\ s[3] = c /\ s[4] = d
           /\ SubSeq(s, 1, 4) = <<a, b, c, d>>
<1>1. PICK T : T = {a, b, c, d} \cup S
  OBVIOUS
<1>2. j \in Seq(T)
  BY <1>1
<1>3. <<a, b, c, d>> \in Seq(T)
  <2>1. a \in T /\ b \in T /\ c \in T /\ d \in T
    BY <1>1
  <2> QED
    BY <2>1
<1>4. s \in Seq(T)
  BY <1>2, <1>3
<1>5. Len(s) = 4 + n /\ s[1] = a /\ s[2] = b /\ s[3] = c /\ s[4] = d
  BY <1>2, <1>3
<1>6. SubSeq(s, 1, 4) = <<s[1], s[2], s[3], s[4]>>
  <2>1. Len(s) >= 4
    BY <1>5
  <2> QED
    BY ONLY <1>4, <2>1, FirstFour
<1> QED
  BY <1>5, <1>6

\* What parcels are made of: values that are no errors.
Field(item) ==
    /\ item \in [type: Nat, codec: Nat, content: {item.content}, size: Nat]
    /\ item.content # Bad

\* One item is taken apart into what it was packed from.
LEMMA PackedItem ==
    ASSUME NEW item, Field(item), NEW index, NEW key, NEW context,
           <<item.type, item.codec>> \in MediaMapping,
           NEW f, DOMAIN f = 1..6,
           NEW packed, packed = PackItem(item, index, key, context),
           \A k \in 1..6 : f[k] = packed[k]
    PROVE  /\ ItemParses(f)
           /\ Decrypt(MediaKey(key, index), MediaAad(context, index),
                      f[4], f[6]) = item.content
           /\ f[1].value = item.type /\ f[2].value = item.codec
           /\ f[6].size - TagBytes = item.size
<1>1. PICK size \in Nat : size = item.size
  BY DEF Field
<1>2. PICK cipher : cipher = [key |-> MediaKey(key, index), iv |-> Iv,
                              aad |-> MediaAad(context, index),
                              plain |-> item.content, size |-> size + TagBytes]
  OBVIOUS
<1>3. PICK a, b, c, d, e, g :
          /\ a = Chunk(item.type, 1) /\ b = Chunk(item.codec, 1)
          /\ c = Chunk(0, 2) /\ d = Chunk(Iv, 12)
          /\ e = Chunk(g.size, 4) /\ g = Chunk(cipher, size + TagBytes)
  OBVIOUS
<1>4. Encrypt(MediaKey(key, index), MediaAad(context, index), item.content,
              item.size) = <<d, g>>
  BY <1>1, <1>2, <1>3 DEF Encrypt
<1>5. packed = <<a, b, c, d, e, g>>
  BY <1>3, <1>4 DEF PackItem
<1>6. f[1] = a /\ f[2] = b /\ f[3] = c /\ f[4] = d /\ f[5] = e /\ f[6] = g
  BY <1>5
<1>7. /\ a.value = item.type /\ a.size = 1 /\ b.value = item.codec /\ b.size = 1
      /\ c.value = 0 /\ c.size = 2 /\ d.value = Iv /\ d.size = 12
      /\ e.value = g.size /\ e.size = 4
      /\ g.value = cipher /\ g.size = size + TagBytes
  BY <1>3 DEF Chunk
<1>8. ItemParses(f)
  <2>1. Sizes(f) = <<1, 1, 2, 12, 4, f[5].value>>
    BY <1>6, <1>7, SixSizes
  <2>2. f[5].value >= TagBytes
    BY <1>6, <1>7 DEF TagBytes
  <2> QED
    BY <1>6, <1>7, <2>1, <2>2 DEF ItemParses
<1>9. Decrypt(MediaKey(key, index), MediaAad(context, index), d, g)
          = item.content
  <2>1. /\ cipher.key = MediaKey(key, index) /\ cipher.iv = Iv
        /\ cipher.aad = MediaAad(context, index)
        /\ cipher.plain = item.content /\ cipher.size = size + TagBytes
    BY <1>2
  <2>2. size + TagBytes >= TagBytes
    BY DEF TagBytes
  <2> QED
    BY <1>7, <2>1, <2>2 DEF Decrypt
<1> QED
  BY <1>1, <1>6, <1>7, <1>8, <1>9 DEF TagBytes

ItemList(items, n) ==
    /\ DOMAIN items = 1..n /\ Len(items) = n
    /\ items = [i \in 1..n |-> items[i]]
    /\ \A i \in 1..n : Field(items[i])

\* The packer makes its chunks, or refuses.
ChunksOf(items, key, context) ==
    <<Chunk("GBYL", 4), Chunk(1, 1), Chunk(0, 1), Chunk(Len(items), 2)>>
    \o Joined([i \in DOMAIN items |->
           PackItem(items[i], i - 1, key, context)])
Packs(items, archive) ==
    /\ \A i \in DOMAIN items :
          <<items[i].type, items[i].codec>> \in MediaMapping
    /\ Len(items) <= MaxItems /\ Total(archive) <= MaxArchiveBytes

LEMMA PackedOrBad ==
    ASSUME NEW items, NEW key, NEW context
    PROVE  PackGbyl(items, key, context) =
               IF Packs(items, ChunksOf(items, key, context))
               THEN ChunksOf(items, key, context) ELSE Bad
  BY DEF PackGbyl, ChunksOf, Packs

\* What was packed is taken apart again into the same items.
LEMMA GbylDecrypts ==
    ASSUME NEW items, NEW n \in Nat, ItemList(items, n), NEW key, NEW context,
           NEW s, s = PackGbyl(items, key, context), s # Bad
    PROVE  GbylParses(s) /\ DecryptGbyl(s, key, context) = items
<1> SUFFICES ASSUME DOMAIN items = 1..n, Len(items) = n,
                    items = [i \in 1..n |-> items[i]],
                    \A i \in 1..n : Field(items[i])
             PROVE  GbylParses(s) /\ DecryptGbyl(s, key, context) = items
  BY DEF ItemList
<1>1. PICK packed : packed = [i \in 1..n |->
                                 PackItem(items[i], i - 1, key, context)]
  OBVIOUS
<1>2. Len(packed) = n
  BY <1>1
<1>3. PICK j : j = Joined(packed)
  OBVIOUS
<1>4. DOMAIN j = 1..(6 * n) /\ Sixes(j, packed, n)
  BY <1>2, <1>3, JoinedChunks
<1>5. PICK a, b, c, d : /\ a = Chunk("GBYL", 4) /\ b = Chunk(1, 1)
                        /\ c = Chunk(0, 1) /\ d = Chunk(n, 2)
  OBVIOUS
<1>6. PICK S : S = {a, b, c, d} \cup {j[k] : k \in 1..(6 * n)}
  OBVIOUS
<1>7. j \in Seq(S) /\ Len(j) = 6 * n
  <2>1. j = [k \in 1..(6 * n) |-> j[k]]
    BY <1>2, <1>3 DEF Joined
  <2>2. j \in [1..(6 * n) -> S]
    BY <1>6, <2>1
  <2> QED
    BY <2>2
<1>8. PICK h : h = <<a, b, c, d>>
  OBVIOUS
<1>9. h \in Seq(S) /\ Len(h) = 4
  <2>1. a \in S /\ b \in S /\ c \in S /\ d \in S
    BY <1>6
  <2> QED
    BY <1>8, <2>1
<1>10. /\ s = h \o j /\ Total(s) <= MaxArchiveBytes
       /\ \A i \in 1..n : <<items[i].type, items[i].codec>> \in MediaMapping
  <2>1. h \o j = ChunksOf(items, key, context)
    <3>1. [i \in DOMAIN items |-> PackItem(items[i], i - 1, key, context)]
              = packed
      BY <1>1
    <3>2. <<Chunk("GBYL", 4), Chunk(1, 1), Chunk(0, 1), Chunk(Len(items), 2)>>
              = h
      BY <1>5, <1>8
    <3> QED
      BY <1>3, <3>1, <3>2 DEF ChunksOf
  <2>2. Packs(items, h \o j) /\ s = h \o j
    <3>1. PICK archive : archive = ChunksOf(items, key, context)
      OBVIOUS
    <3>2. s = IF Packs(items, archive) THEN archive ELSE Bad
      BY ONLY <3>1, PackedOrBad, s = PackGbyl(items, key, context)
    <3> QED
      BY ONLY <2>1, <3>1, <3>2, s # Bad
  <2>3. Packs(items, s)
    BY ONLY <2>2
  <2>4. /\ Total(s) <= MaxArchiveBytes
        /\ \A i \in DOMAIN items :
              <<items[i].type, items[i].codec>> \in MediaMapping
    BY ONLY <2>3 DEF Packs
  <2> QED
    BY <2>2, <2>4
<1>11. /\ Len(s) = 4 + 6 * n
       /\ s[1] = a /\ s[2] = b /\ s[3] = c /\ s[4] = d
       /\ SubSeq(s, 1, 4) = <<a, b, c, d>>
  <2>1. PICK m \in Nat : m = 6 * n
    OBVIOUS
  <2>2. Len(j) = m /\ s = <<a, b, c, d>> \o j
    BY <1>7, <1>8, <1>10, <2>1
  <2>3. /\ Len(s) = 4 + m
        /\ s[1] = a /\ s[2] = b /\ s[3] = c /\ s[4] = d
        /\ SubSeq(s, 1, 4) = <<a, b, c, d>>
    <3>1. Len(s) = 4 + m
      BY ONLY <1>7, <2>2, HeaderOf, m \in Nat
    <3>2. s[1] = a /\ s[2] = b /\ s[3] = c /\ s[4] = d
      <4>1. s[1] = a
        BY ONLY <1>7, <2>2, HeaderOf, m \in Nat
      <4>2. s[2] = b
        BY ONLY <1>7, <2>2, HeaderOf, m \in Nat
      <4>3. s[3] = c
        BY ONLY <1>7, <2>2, HeaderOf, m \in Nat
      <4>4. s[4] = d
        BY ONLY <1>7, <2>2, HeaderOf, m \in Nat
      <4> QED
        BY ONLY <4>1, <4>2, <4>3, <4>4
    <3>3. SubSeq(s, 1, 4) = <<a, b, c, d>>
      <4>1. h \o j \in Seq(S)
        BY ONLY <1>7, <1>9, Concatenated
      <4>2. s \in Seq(S)
        BY <1>10, <4>1
      <4>3. Len(s) >= 4
        BY <3>1
      <4>4. SubSeq(s, 1, 4) = <<s[1], s[2], s[3], s[4]>>
        BY ONLY <4>2, <4>3, FirstFour
      <4> QED
        BY ONLY <3>2, <4>4
    <3> QED
      BY ONLY <3>1, <3>2, <3>3
  <2> QED
    BY <2>1, <2>3
<1>12. /\ a.value = "GBYL" /\ a.size = 4 /\ b.value = 1 /\ b.size = 1
       /\ c.value = 0 /\ c.size = 1 /\ d.value = n /\ d.size = 2
  BY <1>5 DEF Chunk
<1>13. ASSUME NEW i \in 1..n, NEW f, f = Item(s, i)
       PROVE  /\ ItemParses(f)
              /\ Decrypt(MediaKey(key, i - 1), MediaAad(context, i - 1),
                         f[4], f[6]) = items[i].content
              /\ f[1].value = items[i].type /\ f[2].value = items[i].codec
              /\ f[6].size - TagBytes = items[i].size
  <2>1. DOMAIN f = 1..6 /\ \A k \in 1..6 : f[k] = packed[i][k]
    <3>1. f = Item(h \o j, i)
      BY <1>10, <1>13
    <3>2. SixOf(f, packed[i])
      BY ONLY <1>4, <1>7, <1>9, <3>1, ItemAfterHeader, n \in Nat, i \in 1..n
    <3> QED
      BY <3>2 DEF SixOf
  <2>2. PICK item : item = items[i]
    OBVIOUS
  <2>3. PICK one : one = PackItem(item, i - 1, key, context)
    OBVIOUS
  <2>4. \A k \in 1..6 : f[k] = one[k]
    BY <1>1, <2>1, <2>2, <2>3
  <2>5. Field(item) /\ <<item.type, item.codec>> \in MediaMapping
    BY <1>10, <2>2
  <2> QED
    <3>1. /\ ItemParses(f)
          /\ Decrypt(MediaKey(key, i - 1), MediaAad(context, i - 1),
                     f[4], f[6]) = item.content
          /\ f[1].value = item.type /\ f[2].value = item.codec
          /\ f[6].size - TagBytes = item.size
      BY ONLY <2>1, <2>3, <2>4, <2>5, PackedItem
    <3> QED
      BY <2>2, <3>1
<1>14. GbylParses(s)
  <2>1. Sizes(SubSeq(s, 1, 4)) = <<4, 1, 1, 2>>
    BY <1>11, <1>12 DEF Sizes
  <2>2. HeaderParses(s)
    BY <1>11, <1>12, <2>1 DEF HeaderParses
  <2>3. \A i \in 1..n : ItemParses(Item(s, i))
    BY <1>13
  <2> QED
    BY <1>10, <1>11, <1>12, <2>2, <2>3 DEF GbylParses
<1>15. s[4].value = n
  BY <1>11, <1>12
<1>16. ASSUME NEW i \in 1..n
       PROVE  /\ Decrypt(MediaKey(key, i - 1), MediaAad(context, i - 1),
                         Item(s, i)[4], Item(s, i)[6]) = items[i].content
              /\ items[i].content # Bad
              /\ [type |-> Item(s, i)[1].value, codec |-> Item(s, i)[2].value,
                  content |-> items[i].content,
                  size |-> Item(s, i)[6].size - TagBytes] = items[i]
  BY <1>13 DEF Field
<1>17. DecryptGbyl(s, key, context) = [i \in 1..n |-> items[i]]
  BY <1>14, <1>15, <1>16 DEF DecryptGbyl
<1> QED
  BY <1>14, <1>17

-----------------------------------------------------------------------------
(* Sizes: a fold over the chunks of an archive, or over the items of a       *)
(* parcel, adds up, and both come to the same.                              *)

\* A set of numbers has a least one: what an induction over numbers rests on,
\* with the set of its counterexamples.
LEMMA Least ==
    ASSUME NEW S, S \subseteq Nat, S # {}
    PROVE  \E n \in S : \A m \in S : n <= m
<1>1. IsWellFoundedOn(OpToRel(<, Nat), Nat)
  BY NatLessThanWellFounded
<1>2. PICK n \in S : \A m \in S : ~ (<<m, n>> \in OpToRel(<, Nat))
  <2> HIDE DEF OpToRel
  <2> QED
    BY <1>1, WFMin
<1>3. \A m \in S : <<m, n>> \in OpToRel(<, Nat) <=> m < n
  BY DEF OpToRel
<1>4. \A m \in S : ~ (m < n)
  BY <1>2, <1>3
<1> QED
  BY <1>4

\* The function that a fold of sizes is defined by, from the largest index down.
IsRun(g, n, d, base) ==
    g = [t \in SUBSET (1..n) |->
            IF t = {} THEN base ELSE g[t \ {Max(t)}] + d[Max(t)]]

\* The index that a fold takes next.
LEMMA MaxIs ==
    ASSUME NEW n \in Nat, NEW t, t \subseteq 1..n, n \in t
    PROVE  Max(t) = n
<1>1. \A y \in t : n >= y
  OBVIOUS
<1>2. \A x \in t : (\A y \in t : x >= y) => x = n
  OBVIOUS
<1> QED
  BY <1>1, <1>2 DEF Max

LEMMA MaxIn ==
    ASSUME NEW n \in Nat, NEW t, t \subseteq 1..n, t # {}
    PROVE  Max(t) \in t
<1> DEFINE S == {k \in Nat : t \subseteq 1..k}
<1>1. S \subseteq Nat /\ n \in S
  OBVIOUS
<1> HIDE DEF S
<1>2. PICK k \in S : \A m \in S : k <= m
  BY <1>1, Least
<1>3. k \in Nat /\ t \subseteq 1..k
  BY <1>2 DEF S
<1>4. k \in t
  <2> SUFFICES ASSUME k \notin t PROVE FALSE
    OBVIOUS
  <2>0. \A x \in t : x \in 1..k /\ x # k
    BY <1>3
  <2>1. k # 0 /\ k - 1 \in Nat /\ t \subseteq 1..(k - 1)
    <3>1. PICK x \in t : TRUE
      OBVIOUS
    <3>2. x \in 1..k
      BY <1>3
    <3>3. \A y : y \in t => y \in 1..(k - 1)
      BY <2>0, <1>3
    <3> QED
      BY <1>3, <3>2, <3>3
  <2>2. k - 1 \in S
    BY <2>1 DEF S
  <2> QED
    BY <1>2, <1>3, <2>2
<1> QED
  BY <1>3, <1>4, MaxIs

\* There is such a function: one more index extends it.
LEMMA RunExists ==
    ASSUME NEW n \in Nat, NEW d \in [1..n -> Nat], NEW base \in Nat
    PROVE  \E g \in [SUBSET (1..n) -> Nat] : IsRun(g, n, d, base)
<1> DEFINE P(k) == \E g \in [SUBSET (1..k) -> Nat] : IsRun(g, k, d, base)
           S == {k \in 0..n : ~P(k)}
<1>1. P(0)
  <2>1. PICK g : g = [t \in SUBSET (1..0) |-> base]
    OBVIOUS
  <2>2. \A t \in SUBSET (1..0) : t = {}
    OBVIOUS
  <2>3. g \in [SUBSET (1..0) -> Nat]
    BY <2>1
  <2>4. IsRun(g, 0, d, base)
    BY <2>1, <2>2 DEF IsRun
  <2> QED
    BY <2>3, <2>4
<1>2. ASSUME NEW k \in 0..n, k # n, P(k) PROVE P(k + 1)
  <2>1. PICK g \in [SUBSET (1..k) -> Nat] : IsRun(g, k, d, base)
    BY <1>2
  <2>2. PICK h : h = [t \in SUBSET (1..(k + 1)) |->
                        IF k + 1 \in t THEN g[t \ {k + 1}] + d[k + 1] ELSE g[t]]
    OBVIOUS
  <2>3. \A t \in SUBSET (1..(k + 1)) :
           /\ t \ {k + 1} \in SUBSET (1..k)
           /\ k + 1 \notin t => t \in SUBSET (1..k)
    OBVIOUS
  <2>4. h \in [SUBSET (1..(k + 1)) -> Nat]
    <3>1. ASSUME NEW t \in SUBSET (1..(k + 1)) PROVE h[t] \in Nat
      <4>1. CASE k + 1 \in t
        <5>1. h[t] = g[t \ {k + 1}] + d[k + 1]
          BY <2>2, <4>1
        <5>2. g[t \ {k + 1}] \in Nat
          BY <2>1, <2>3
        <5>3. d[k + 1] \in Nat
          <6>1. k + 1 \in 1..n
            BY <1>2
          <6> QED
            BY <6>1
        <5> QED
          BY <5>1, <5>2, <5>3
      <4>2. CASE k + 1 \notin t
        <5>1. h[t] = g[t] /\ t \in SUBSET (1..k)
          BY <2>2, <2>3, <4>2
        <5> QED
          BY <2>1, <5>1
      <4> QED
        BY <4>1, <4>2
    <3> QED
      BY <2>2, <3>1
  <2>5. ASSUME NEW t \in SUBSET (1..(k + 1))
        PROVE  h[t] = IF t = {} THEN base ELSE h[t \ {Max(t)}] + d[Max(t)]
    <3>1. CASE k + 1 \in t
      <4>1. Max(t) = k + 1
        BY ONLY <3>1, k + 1 \in Nat, t \subseteq 1..(k + 1), MaxIs
      <4>2. t \ {k + 1} \in SUBSET (1..(k + 1)) /\ k + 1 \notin t \ {k + 1}
        OBVIOUS
      <4>3. h[t \ {k + 1}] = g[t \ {k + 1}]
        BY <2>2, <4>2
      <4>4. h[t] = g[t \ {k + 1}] + d[k + 1]
        BY <2>2, <3>1
      <4> QED
        BY <3>1, <4>1, <4>3, <4>4
    <3>2. CASE k + 1 \notin t /\ t # {}
      <4>1. t \in SUBSET (1..k)
        BY <2>3, <3>2
      <4>2. Max(t) \in t
        <5>1. k \in Nat
          BY <1>2
        <5> QED
          BY ONLY <3>2, <4>1, <5>1, MaxIn
      <4>3. g[t] = g[t \ {Max(t)}] + d[Max(t)]
        BY <2>1, <3>2, <4>1 DEF IsRun
      <4>4. h[t] = g[t]
        BY <2>2, <3>2
      <4>5. t \ {Max(t)} \in SUBSET (1..(k + 1)) /\ k + 1 \notin t \ {Max(t)}
        BY <3>2
      <4>6. h[t \ {Max(t)}] = g[t \ {Max(t)}]
        BY <2>2, <4>5
      <4> QED
        BY <3>2, <4>3, <4>4, <4>6
    <3>3. CASE t = {}
      <4>1. g[t] = base
        <5>1. t \in SUBSET (1..k)
          BY <3>3
        <5> QED
          BY <2>1, <3>3, <5>1 DEF IsRun
      <4> QED
        BY <2>2, <3>3, <4>1
    <3> QED
      BY <3>1, <3>2, <3>3
  <2>6. IsRun(h, k + 1, d, base)
    <3>1. h = [t \in SUBSET (1..(k + 1)) |-> h[t]]
      BY <2>2
    <3> QED
      BY <2>5, <3>1 DEF IsRun
  <2> QED
    BY <2>4, <2>6
<1> HIDE DEF P
<1>3. ASSUME S # {} PROVE FALSE
  <2>1. PICK m \in S : \A k \in S : m <= k
    <3>1. S \subseteq Nat
      OBVIOUS
    <3> QED
      BY <1>3, <3>1, Least
  <2>2. m \in 0..n /\ ~P(m) /\ m # 0
    BY <1>1, <2>1
  <2>3. m - 1 \in 0..n /\ m - 1 # n /\ ~ (m <= m - 1)
    BY <2>2
  <2>4. P(m - 1)
    BY <2>1, <2>3
  <2>5. P((m - 1) + 1)
    BY <1>2, <2>3, <2>4
  <2>6. (m - 1) + 1 = m
    BY <2>2
  <2> QED
    BY <2>2, <2>5, <2>6
<1>4. P(n)
  BY <1>3
<1> QED
  BY <1>4 DEF P

\* The sums of the first sizes.
Adds(r, n, d, base) ==
    /\ r \in [0..n -> Nat] /\ r[0] = base
    /\ \A k \in 1..n : r[k] = r[k - 1] + d[k]

LEMMA AddsUp ==
    ASSUME NEW n \in Nat, NEW d \in [1..n -> Nat], NEW base \in Nat,
           NEW r, r[0] = base,
           \A k \in 1..n : r[k - 1] \in Nat => r[k] = r[k - 1] + d[k]
    PROVE  \A k \in 0..n : r[k] \in Nat
<1> DEFINE S == {k \in 0..n : r[k] \notin Nat}
<1>1. ASSUME S # {} PROVE FALSE
  <2>1. S \subseteq Nat
    OBVIOUS
  <2>2. PICK m \in S : \A k \in S : m <= k
    BY <1>1, <2>1, Least
  <2>3. m \in 1..n /\ r[m] \notin Nat
    BY <2>2
  <2>4. m - 1 \in 0..n /\ m - 1 \notin S
    BY <2>2, <2>3
  <2>5. r[m - 1] \in Nat /\ d[m] \in Nat
    BY <2>3, <2>4
  <2>6. r[m] = r[m - 1] + d[m]
    BY <2>3, <2>5
  <2> QED
    BY <2>3, <2>5, <2>6
<1> QED
  BY <1>1

\* The index taken from the first k.
LEMMA UpTo ==
    ASSUME NEW n \in Nat, NEW k \in 1..n
    PROVE  /\ 1..k \in SUBSET (1..n) /\ 1..k # {} /\ Max(1..k) = k
           /\ (1..k) \ {Max(1..k)} = 1..(k - 1)
<1>1. k \in Nat /\ 1..k \subseteq 1..k /\ k \in 1..k
  <2>1. k \in Nat
    OBVIOUS
  <2> QED
    BY <2>1
<1>2. Max(1..k) = k
  BY ONLY <1>1, MaxIs
<1>3. (1..k) \ {k} = 1..(k - 1)
  OBVIOUS
<1> QED
  BY <1>1, <1>2, <1>3

\* A total is the last of the sums, and so is an estimate.
LEMMA TotalAdds ==
    ASSUME NEW s, NEW n \in Nat, DOMAIN s = 1..n,
           NEW d \in [1..n -> Nat], \A i \in 1..n : d[i] = s[i].size
    PROVE  \E r : Adds(r, n, d, 0) /\ Total(s) = r[n]
<1> DEFINE R(g) == g = [t \in SUBSET DOMAIN s |->
            IF t = {} THEN 0 ELSE g[t \ {Max(t)}] + s[Max(t)].size]
<1>1. PICK h \in [SUBSET (1..n) -> Nat] : IsRun(h, n, d, 0)
  <2>1. 0 \in Nat
    OBVIOUS
  <2> QED
    BY ONLY <2>1, RunExists, n \in Nat, d \in [1..n -> Nat]
<1>2. R(h)
  BY <1>1, MaxIn DEF IsRun
<1>3. PICK g : R(g) /\ Total(s) = g[DOMAIN s]
  <2>1. Total(s) = (CHOOSE g : R(g))[DOMAIN s]
    BY DEF Total, FoldLeft, MapThenFoldSet
  <2> HIDE DEF R
  <2>2. R(CHOOSE g : R(g))
    BY <1>2
  <2> QED
    BY <2>1, <2>2
<1>4. PICK r : r = [k \in 0..n |-> g[1..k]]
  OBVIOUS
<1>5. r[0] = 0
  <2>1. 1..0 = {} /\ 1..0 \in SUBSET (1..n)
    OBVIOUS
  <2> QED
    BY <1>3, <1>4, <2>1
<1>6. ASSUME NEW k \in 1..n PROVE r[k] = r[k - 1] + d[k]
  <2>0. /\ 1..k \in SUBSET (1..n) /\ 1..k # {} /\ Max(1..k) = k
        /\ (1..k) \ {Max(1..k)} = 1..(k - 1)
    BY UpTo
  <2>1. g[1..k] = g[1..(k - 1)] + s[k].size
    BY <1>3, <2>0
  <2> QED
    BY <1>4, <2>1
<1>7. Adds(r, n, d, 0)
  <2>1. 0 \in Nat /\ r = [k \in 0..n |-> r[k]]
    BY <1>4
  <2>2. \A k \in 1..n : r[k - 1] \in Nat => r[k] = r[k - 1] + d[k]
    BY <1>6
  <2>3. \A k \in 0..n : r[k] \in Nat
    BY ONLY <1>5, <2>1, <2>2, AddsUp, n \in Nat, d \in [1..n -> Nat]
  <2>4. r \in [0..n -> Nat]
    BY <2>1, <2>3
  <2>5. \A k \in 1..n : r[k] = r[k - 1] + d[k]
    <3>1. \A k \in 1..n : k - 1 \in 0..n
      OBVIOUS
    <3> QED
      BY ONLY <2>2, <2>3, <3>1
  <2> QED
    BY <1>5, <2>4, <2>5 DEF Adds
<1>8. Total(s) = r[n]
  <2>1. r[n] = g[1..n]
    BY <1>4
  <2> QED
    BY ONLY <1>3, <2>1, DOMAIN s = 1..n
<1> QED
  BY ONLY <1>7, <1>8

LEMMA EstimateAdds ==
    ASSUME NEW items, NEW n \in Nat, DOMAIN items = 1..n,
           \A i \in 1..n : items[i].size \in Nat,
           NEW d, d = [i \in 1..n |-> 36 + items[i].size]
    PROVE  \E r : Adds(r, n, d, 8) /\ Estimate(items) = r[n]
<1> DEFINE R(g) == g = [t \in SUBSET DOMAIN items |->
            IF t = {} THEN 8 ELSE g[t \ {Max(t)}] + 36 + items[Max(t)].size]
<1>0. d \in [1..n -> Nat]
  OBVIOUS
<1>1. PICK h \in [SUBSET (1..n) -> Nat] : IsRun(h, n, d, 8)
  <2>1. 8 \in Nat
    OBVIOUS
  <2> QED
    BY ONLY <1>0, <2>1, RunExists, n \in Nat
<1>2. R(h)
  <2>1. ASSUME NEW t \in SUBSET (1..n), t # {}
        PROVE  h[t] = h[t \ {Max(t)}] + 36 + items[Max(t)].size
    <3>1. Max(t) \in 1..n
      BY <2>1, MaxIn
    <3>2. h[t] = h[t \ {Max(t)}] + d[Max(t)]
      BY <1>1, <2>1 DEF IsRun
    <3>3. h[t \ {Max(t)}] \in Nat /\ items[Max(t)].size \in Nat
      BY <1>1, <3>1
    <3>4. d[Max(t)] = 36 + items[Max(t)].size
      BY <3>1
    <3> QED
      BY ONLY <3>2, <3>3, <3>4
  <2>2. h[{}] = 8 /\ h = [t \in SUBSET (1..n) |-> h[t]]
    BY <1>1 DEF IsRun
  <2> QED
    BY <2>1, <2>2
<1>3. PICK g : R(g) /\ Estimate(items) = g[DOMAIN items]
  <2>1. Estimate(items) = (CHOOSE g : R(g))[DOMAIN items]
    BY DEF Estimate, FoldLeft, MapThenFoldSet
  <2> HIDE DEF R
  <2>2. R(CHOOSE g : R(g))
    BY <1>2
  <2> QED
    BY <2>1, <2>2
<1>4. PICK r : r = [k \in 0..n |-> g[1..k]]
  OBVIOUS
<1>5. r[0] = 8
  <2>1. 1..0 = {} /\ 1..0 \in SUBSET (1..n)
    OBVIOUS
  <2> QED
    BY <1>3, <1>4, <2>1
<1>6. ASSUME NEW k \in 1..n, r[k - 1] \in Nat PROVE r[k] = r[k - 1] + d[k]
  <2>0. /\ 1..k \in SUBSET (1..n) /\ 1..k # {} /\ Max(1..k) = k
        /\ (1..k) \ {Max(1..k)} = 1..(k - 1)
    BY UpTo
  <2>1. g[1..k] = g[1..(k - 1)] + 36 + items[k].size
    BY <1>3, <2>0
  <2>2. g[1..(k - 1)] = r[k - 1] /\ g[1..k] = r[k]
    BY <1>4
  <2>3. items[k].size \in Nat /\ d[k] = 36 + items[k].size
    OBVIOUS
  <2> QED
    BY ONLY <1>6, <2>1, <2>2, <2>3
<1>7. Adds(r, n, d, 8)
  <2>1. 8 \in Nat /\ r = [k \in 0..n |-> r[k]]
    BY <1>4
  <2>2. \A k \in 1..n : r[k - 1] \in Nat => r[k] = r[k - 1] + d[k]
    BY <1>6
  <2>3. \A k \in 0..n : r[k] \in Nat
    BY ONLY <1>0, <1>5, <2>1, <2>2, AddsUp, n \in Nat
  <2>4. r \in [0..n -> Nat]
    BY <2>1, <2>3
  <2>5. \A k \in 1..n : r[k] = r[k - 1] + d[k]
    <3>1. \A k \in 1..n : k - 1 \in 0..n
      OBVIOUS
    <3> QED
      BY ONLY <2>2, <2>3, <3>1
  <2> QED
    BY <1>5, <2>4, <2>5 DEF Adds
<1>8. Estimate(items) = r[n]
  <2>1. r[n] = g[1..n]
    BY <1>4
  <2> QED
    BY ONLY <1>3, <2>1, DOMAIN items = 1..n
<1> QED
  BY ONLY <1>7, <1>8

\* An archive is its header and, for each item, the six chunks it packs to.
Archived(s, items, n, key, context) ==
    /\ s = [k \in 1..(4 + 6 * n) |-> s[k]]
    /\ s[1] = Chunk("GBYL", 4) /\ s[2] = Chunk(1, 1)
    /\ s[3] = Chunk(0, 1) /\ s[4] = Chunk(n, 2)
    /\ \A i \in 1..n, k \in 1..6 :
          s[6 * i - 2 + k] = PackItem(items[i], i - 1, key, context)[k]

\* Four chunks and what follows them.
LEMMA FourThen ==
    ASSUME NEW S, NEW a \in S, NEW b \in S, NEW c \in S, NEW d \in S,
           NEW j \in Seq(S), NEW m \in Nat, Len(j) = m,
           NEW s, s = <<a, b, c, d>> \o j
    PROVE  /\ s = [k \in 1..(4 + m) |-> s[k]]
           /\ s[1] = a /\ s[2] = b /\ s[3] = c /\ s[4] = d
           /\ \A k \in 1..m : s[4 + k] = j[k]
<1>1. PICK h : h = <<a, b, c, d>>
  OBVIOUS
<1>2. h \in Seq(S) /\ Len(h) = 4 /\ h[1] = a /\ h[2] = b /\ h[3] = c /\ h[4] = d
  BY <1>1
<1>3. /\ h \o j \in Seq(S) /\ Len(h \o j) = Len(h) + Len(j)
      /\ \A i \in 1..Len(h) : (h \o j)[i] = h[i]
      /\ \A i \in 1..Len(j) : (h \o j)[Len(h) + i] = j[i]
  <2>1. h \in Seq(S) /\ j \in Seq(S)
    BY <1>2
  <2>2. h \o j \in Seq(S) /\ Len(h \o j) = Len(h) + Len(j)
    BY ONLY Concatenated, <2>1
  <2>3. \A i \in 1..Len(h) : (h \o j)[i] = h[i]
    BY ONLY Concatenated, <2>1
  <2>4. \A i \in 1..Len(j) : (h \o j)[Len(h) + i] = j[i]
    BY ONLY Concatenated, <2>1
  <2> QED
    BY ONLY <2>2, <2>3, <2>4
<1>4. /\ \A i \in 1..4 : (h \o j)[i] = h[i]
      /\ \A i \in 1..m : (h \o j)[4 + i] = j[i]
      /\ Len(h \o j) = 4 + m
  <2>1. Len(h) = 4 /\ Len(j) = m
    BY <1>2
  <2> QED
    BY ONLY <1>3, <2>1
<1>5. s = h \o j
  BY <1>1
<1>6. s = [k \in 1..(4 + m) |-> s[k]]
  BY <1>3, <1>4, <1>5
<1>7. s[1] = a /\ s[2] = b /\ s[3] = c /\ s[4] = d
  BY <1>2, <1>4, <1>5
<1> QED
  BY <1>4, <1>5, <1>6, <1>7

\* What the packer makes is such an archive.
LEMMA PackedChunks ==
    ASSUME NEW items, NEW n \in Nat, DOMAIN items = 1..n, Len(items) = n,
           NEW key, NEW context,
           NEW s, s = ChunksOf(items, key, context)
    PROVE  Archived(s, items, n, key, context)
<1>1. PICK packed : packed = [i \in 1..n |->
                                 PackItem(items[i], i - 1, key, context)]
  OBVIOUS
<1>2. Len(packed) = n
  BY <1>1
<1>3. PICK j : j = Joined(packed)
  OBVIOUS
<1>4. DOMAIN j = 1..(6 * n) /\ Sixes(j, packed, n)
  BY <1>2, <1>3, JoinedChunks
<1>5. PICK a, b, c, d : /\ a = Chunk("GBYL", 4) /\ b = Chunk(1, 1)
                        /\ c = Chunk(0, 1) /\ d = Chunk(n, 2)
  OBVIOUS
<1>6. PICK S : S = {a, b, c, d} \cup {j[k] : k \in 1..(6 * n)}
  OBVIOUS
<1>7. j \in Seq(S) /\ Len(j) = 6 * n
  <2>1. j = [k \in 1..(6 * n) |-> j[k]]
    BY <1>2, <1>3 DEF Joined
  <2>2. j \in [1..(6 * n) -> S]
    BY <1>6, <2>1
  <2> QED
    BY <2>2
<1>8. PICK m \in Nat : m = 6 * n
  OBVIOUS
<1>9. s = <<a, b, c, d>> \o j
  <2>1. [i \in DOMAIN items |-> PackItem(items[i], i - 1, key, context)] = packed
    BY <1>1
  <2>2. <<Chunk("GBYL", 4), Chunk(1, 1), Chunk(0, 1), Chunk(Len(items), 2)>>
            = <<a, b, c, d>>
    BY <1>5
  <2> QED
    BY <1>3, <2>1, <2>2 DEF ChunksOf
<1>10. /\ s = [k \in 1..(4 + m) |-> s[k]]
       /\ s[1] = a /\ s[2] = b /\ s[3] = c /\ s[4] = d
       /\ \A k \in 1..m : s[4 + k] = j[k]
  <2>1. a \in S /\ b \in S /\ c \in S /\ d \in S
    BY <1>6
  <2>2. j \in Seq(S) /\ Len(j) = m
    BY <1>7, <1>8
  <2>3. s = [k \in 1..(4 + m) |-> s[k]]
    BY ONLY <1>9, <2>1, <2>2, m \in Nat, FourThen
  <2>4. s[1] = a /\ s[2] = b
    BY ONLY <1>9, <2>1, <2>2, m \in Nat, FourThen
  <2>5. s[3] = c /\ s[4] = d
    BY ONLY <1>9, <2>1, <2>2, m \in Nat, FourThen
  <2>6. \A k \in 1..m : s[4 + k] = j[k]
    BY ONLY <1>9, <2>1, <2>2, m \in Nat, FourThen
  <2> QED
    BY ONLY <2>3, <2>4, <2>5, <2>6
<1>11. ASSUME NEW i \in 1..n, NEW k \in 1..6
       PROVE  s[6 * i - 2 + k] = PackItem(items[i], i - 1, key, context)[k]
  <2>1. PICK l \in 1..m : l = 6 * (i - 1) + k
    BY <1>8
  <2>2. 6 * i - 2 + k = 4 + l
    BY <2>1
  <2>3. j[l] = packed[i][k]
    BY <1>4, <2>1 DEF Sixes
  <2>4. packed[i] = PackItem(items[i], i - 1, key, context)
    BY <1>1
  <2> QED
    BY <1>10, <2>2, <2>3, <2>4
<1> QED
  BY <1>5, <1>8, <1>10, <1>11 DEF Archived

\* The chunks of an item.
SealedItem(f, item, index, key, context) ==
    /\ f[1] = Chunk(item.type, 1) /\ f[2] = Chunk(item.codec, 1)
    /\ f[3] = Chunk(0, 2) /\ f[4] = Chunk(Iv, 12)
    /\ f[5] = Chunk(item.size + 16, 4)
    /\ f[6] = Chunk([key |-> MediaKey(key, index), iv |-> Iv,
                     aad |-> MediaAad(context, index),
                     plain |-> item.content, size |-> item.size + 16],
                    item.size + 16)

LEMMA PackedSix ==
    ASSUME NEW item, NEW index, NEW key, NEW context
    PROVE  SealedItem(PackItem(item, index, key, context), item, index, key,
                   context)
<1>1. PICK d, g : /\ d = Chunk(Iv, 12)
                  /\ g = Chunk([key |-> MediaKey(key, index), iv |-> Iv,
                            aad |-> MediaAad(context, index),
                            plain |-> item.content, size |-> item.size + 16],
                           item.size + 16)
  OBVIOUS
<1>2. Encrypt(MediaKey(key, index), MediaAad(context, index), item.content,
              item.size) = <<d, g>>
  BY <1>1 DEF Encrypt, TagBytes
<1>3. g.size = item.size + 16
  BY <1>1 DEF Chunk
<1>4. PICK f : f = PackItem(item, index, key, context)
  OBVIOUS
<1>5. f = <<Chunk(item.type, 1), Chunk(item.codec, 1), Chunk(0, 2), d,
            Chunk(item.size + 16, 4), g>>
  BY <1>2, <1>3, <1>4 DEF PackItem
<1> QED
  BY <1>1, <1>4, <1>5 DEF SealedItem

\* Every chunk after the header is one of an item's six.
LEMMA OfSomeItem ==
    ASSUME NEW n \in Nat, NEW k \in 1..(4 + 6 * n), k > 4
    PROVE  \E i \in 1..n, m \in 1..6 : k = 6 * i - 2 + m
<1>1. PICK i, m : i = ((k - 5) \div 6) + 1 /\ m = ((k - 5) % 6) + 1
  OBVIOUS
<1>2. i \in 1..n /\ m \in 1..6 /\ k = 6 * i - 2 + m
  BY <1>1
<1> QED
  BY <1>2

\* The packer makes as many bytes as the page estimates, for every list of items.
\* (estimateGbylBytes in media-preprocessing.ts, packGbyl in gbyl.ts)
LEMMA SizeOfArchive ==
    ASSUME NEW items, NEW n \in Nat, DOMAIN items = 1..n,
           \A i \in 1..n : items[i].size \in Nat, NEW key, NEW context,
           NEW s, Archived(s, items, n, key, context)
    PROVE  Total(s) = Estimate(items)
<1>1. PICK N \in Nat : N = 4 + 6 * n
  OBVIOUS
<1>2. DOMAIN s = 1..N
  BY <1>1 DEF Archived
<1>3. PICK d : d = [k \in 1..N |-> s[k].size]
  OBVIOUS
<1>4. d[1] = 4 /\ d[2] = 1 /\ d[3] = 1 /\ d[4] = 2
  BY <1>1, <1>3 DEF Archived, Chunk
<1>5. ASSUME NEW i \in 1..n
      PROVE  /\ d[6 * i - 1] = 1 /\ d[6 * i] = 1 /\ d[6 * i + 1] = 2
             /\ d[6 * i + 2] = 12 /\ d[6 * i + 3] = 4
             /\ d[6 * i + 4] = items[i].size + 16
  <2>1. PICK f, item, index : /\ f = PackItem(item, index, key, context)
                              /\ item = items[i] /\ index = i - 1
    OBVIOUS
  <2>2. /\ f[1].size = 1 /\ f[2].size = 1 /\ f[3].size = 2
        /\ f[4].size = 12 /\ f[5].size = 4 /\ f[6].size = items[i].size + 16
    <3>1. \A value, size : Chunk(value, size).size = size
      BY DEF Chunk
    <3>2. SealedItem(f, item, index, key, context)
      BY ONLY <2>1, PackedSix
    <3> QED
      BY <2>1, <3>1, <3>2 DEF SealedItem
  <2>3. \A k \in 1..6 : s[6 * i - 2 + k] = f[k]
    BY <2>1 DEF Archived
  <2>4. \A k \in 1..6 : 6 * i - 2 + k \in 1..N
    BY <1>1
  <2>5. \A k \in 1..6 : d[6 * i - 2 + k] = f[k].size
    BY <1>3, <2>3, <2>4
  <2>6. /\ 6 * i - 2 + 1 = 6 * i - 1 /\ 6 * i - 2 + 2 = 6 * i
        /\ 6 * i - 2 + 3 = 6 * i + 1 /\ 6 * i - 2 + 4 = 6 * i + 2
        /\ 6 * i - 2 + 5 = 6 * i + 3 /\ 6 * i - 2 + 6 = 6 * i + 4
    OBVIOUS
  <2> QED
    BY <2>2, <2>5, <2>6
<1>6. d \in [1..N -> Nat]
  <2>1. ASSUME NEW k \in 1..N PROVE d[k] \in Nat
    <3>1. CASE k <= 4
      <4>1. k = 1 \/ k = 2 \/ k = 3 \/ k = 4
        BY <3>1
      <4> QED
        BY <1>4, <4>1
    <3>2. CASE k > 4
      <4>1. PICK i \in 1..n, m \in 1..6 : k = 6 * i - 2 + m
        BY <1>1, <3>2, OfSomeItem
      <4>2. \/ k = 6 * i - 1 \/ k = 6 * i \/ k = 6 * i + 1 \/ k = 6 * i + 2
            \/ k = 6 * i + 3 \/ k = 6 * i + 4
        BY <4>1
      <4>3. items[i].size + 16 \in Nat
        OBVIOUS
      <4>4. d[k] \in {1, 2, 4, 12, items[i].size + 16}
        BY ONLY <1>5, <4>2, i \in 1..n
      <4> QED
        BY ONLY <4>3, <4>4
    <3> QED
      BY <3>1, <3>2
  <2> QED
    BY <1>3, <2>1
<1>7. PICK e : e = [i \in 1..n |-> 36 + items[i].size]
  OBVIOUS
<1>8. PICK r : Adds(r, N, d, 0) /\ Total(s) = r[N]
  <2>1. \A i \in 1..N : d[i] = s[i].size
    BY <1>3
  <2> QED
    BY ONLY <1>1, <1>2, <1>6, <2>1, TotalAdds
<1>9. PICK q : Adds(q, n, e, 8) /\ Estimate(items) = q[n]
  BY <1>7, EstimateAdds
<1>10. r[4] = 8
  <2>1. r[0] = 0 /\ \A k \in 1..N : r[k] = r[k - 1] + d[k]
    BY <1>8 DEF Adds
  <2>2. r[1] = r[0] + d[1] /\ r[2] = r[1] + d[2]
    BY <1>1, <2>1
  <2>3. r[3] = r[2] + d[3] /\ r[4] = r[3] + d[4]
    BY <1>1, <2>1
  <2> QED
    BY <1>4, <2>1, <2>2, <2>3
<1>11. ASSUME NEW i \in 1..n
       PROVE  r[6 * i + 4] = r[6 * i - 2] + 36 + items[i].size
  <2>1. \A k \in 1..N : r[k] = r[k - 1] + d[k]
    BY <1>8 DEF Adds
  <2>2. r[6 * i - 2] \in Nat
    <3>1. 6 * i - 2 \in 0..N
      BY <1>1
    <3> QED
      BY <1>8, <3>1 DEF Adds
  <2>3. r[6 * i - 1] = r[6 * i - 2] + d[6 * i - 1]
    <3>1. 6 * i - 1 \in 1..N /\ (6 * i - 1) - 1 = 6 * i - 2
      BY <1>1
    <3> QED
      BY <2>1, <3>1
  <2>4. r[6 * i] = r[6 * i - 1] + d[6 * i]
    BY <1>1, <2>1
  <2>5. r[6 * i + 1] = r[6 * i] + d[6 * i + 1]
    <3>1. 6 * i + 1 \in 1..N /\ (6 * i + 1) - 1 = 6 * i
      BY <1>1
    <3> QED
      BY <2>1, <3>1
  <2>6. r[6 * i + 2] = r[6 * i + 1] + d[6 * i + 2]
    <3>1. 6 * i + 2 \in 1..N /\ (6 * i + 2) - 1 = 6 * i + 1
      BY <1>1
    <3> QED
      BY <2>1, <3>1
  <2>7. r[6 * i + 3] = r[6 * i + 2] + d[6 * i + 3]
    <3>1. 6 * i + 3 \in 1..N /\ (6 * i + 3) - 1 = 6 * i + 2
      BY <1>1
    <3> QED
      BY <2>1, <3>1
  <2>8. r[6 * i + 4] = r[6 * i + 3] + d[6 * i + 4]
    <3>1. 6 * i + 4 \in 1..N /\ (6 * i + 4) - 1 = 6 * i + 3
      BY <1>1
    <3> QED
      BY <2>1, <3>1
  <2>9. items[i].size \in Nat
    OBVIOUS
  <2> QED
    BY ONLY <1>5, <2>2, <2>3, <2>4, <2>5, <2>6, <2>7, <2>8, <2>9, i \in 1..n
<1>12. \A i \in 0..n : r[6 * i + 4] = q[i]
  <2> DEFINE S == {i \in 0..n : r[6 * i + 4] # q[i]}
  <2>1. ASSUME S # {} PROVE FALSE
    <3>1. S \subseteq Nat
      OBVIOUS
    <3>2. PICK i \in S : \A k \in S : i <= k
      BY <2>1, <3>1, Least
    <3>3. i # 0
      BY <1>9, <1>10, <3>2 DEF Adds
    <3>4. i \in 1..n /\ i - 1 \in 0..n /\ ~ (i <= i - 1)
      BY <3>2, <3>3
    <3>5. r[6 * i - 2] = q[i - 1]
      <4>1. r[6 * (i - 1) + 4] = q[i - 1]
        BY <3>2, <3>4
      <4>2. 6 * (i - 1) + 4 = 6 * i - 2
        BY <3>4
      <4> QED
        BY ONLY <4>1, <4>2
    <3>6. q[i] = q[i - 1] + (36 + items[i].size)
      BY <1>7, <1>9, <3>4 DEF Adds
    <3>7. q[i - 1] \in Nat /\ items[i].size \in Nat
      BY <1>9, <3>4 DEF Adds
    <3>8. r[6 * i + 4] = r[6 * i - 2] + 36 + items[i].size
      BY <1>11, <3>4
    <3>9. r[6 * i + 4] = q[i]
      BY ONLY <3>5, <3>6, <3>7, <3>8
    <3> QED
      BY <3>2, <3>9
  <2> QED
    BY <2>1
<1>13. n \in 0..n /\ 6 * n + 4 = N
  BY <1>1
<1> QED
  BY <1>8, <1>9, <1>12, <1>13

-----------------------------------------------------------------------------
(* Damage: what differs from an archive or a text in one place is refused.   *)

\* The fields of a chunk, and the length of a sequence of chunks.
LEMMA ChunkFields ==
    \A value, size : /\ Chunk(value, size).value = value
                     /\ Chunk(value, size).size = size
  BY DEF Chunk

LEMMA LenOf ==
    ASSUME NEW N \in Nat, NEW t, t = [k \in 1..N |-> t[k]]
    PROVE  Len(t) = N /\ \E S : t \in Seq(S)
<1>1. PICK S : S = {t[k] : k \in 1..N}
  OBVIOUS
<1>2. t \in [1..N -> S]
  BY <1>1
<1>3. t \in Seq(S) /\ Len(t) = N
  BY <1>2
<1> QED
  BY <1>3

\* The chunks that an item is read from.
Reads(f, t, i) == DOMAIN f = 1..6 /\ \A m \in 1..6 : f[m] = t[6 * i - 2 + m]

LEMMA ChunksRead ==
    ASSUME NEW n \in Nat, NEW N \in Nat, NEW t, t = [k \in 1..N |-> t[k]],
           NEW i \in 1..n, 4 + 6 * n <= N, NEW f, f = Item(t, i)
    PROVE  Reads(f, t, i)
<1>1. PICK S : t \in Seq(S) /\ Len(t) = N
  BY LenOf
<1>2. PICK m \in Nat : m = 6 * i - 2
  OBVIOUS
<1>3. m + 6 <= Len(t) /\ m + 1 = 6 * i - 1 /\ m + 6 = 6 * i + 4
  BY <1>1, <1>2
<1>4. f = SubSeq(t, m + 1, m + 6)
  BY <1>3 DEF Item
<1>5. DOMAIN f = 1..6 /\ \A k \in 1..6 : f[k] = t[m + k]
  BY ONLY <1>1, <1>2, <1>3, <1>4, SixFrom
<1> QED
  BY <1>2, <1>5 DEF Reads

\* What makes the reader refuse an archive.
LEMMA Unparsed ==
    ASSUME NEW t, NEW key, NEW context,
           \/ Len(t) # 4 + 6 * t[4].value
           \/ t[1].value # "GBYL" \/ t[2].value # 1 \/ t[3].value # 0
           \/ ~ (Len(t) >= 4) \/ Sizes(SubSeq(t, 1, 4)) # <<4, 1, 1, 2>>
    PROVE  DecryptGbyl(t, key, context) = Bad
<1>1. ~GbylParses(t)
  BY DEF GbylParses, HeaderParses
<1> QED
  BY <1>1 DEF DecryptGbyl

\* The same of one of its items.
LEMMA BadItem ==
    ASSUME NEW t, NEW key, NEW context, NEW i \in 1..t[4].value,
           NEW f, f = Item(t, i), DOMAIN f = 1..6,
           \/ <<f[1].value, f[2].value>> \notin MediaMapping
           \/ f[3].value # 0 \/ f[6].size # f[5].value
           \/ Decrypt(MediaKey(key, i - 1), MediaAad(context, i - 1),
                      f[4], f[6]) = Bad
    PROVE  DecryptGbyl(t, key, context) = Bad
<1>1. CASE Decrypt(MediaKey(key, i - 1), MediaAad(context, i - 1),
                   f[4], f[6]) = Bad
  BY <1>1 DEF DecryptGbyl
<1>2. CASE f[6].size # f[5].value
  <2>1. Sizes(f) # <<1, 1, 2, 12, 4, f[5].value>>
    BY <1>2, SixSizes
  <2>2. ~ItemParses(f)
    BY <2>1 DEF ItemParses
  <2>3. ~GbylParses(t)
    BY <2>2 DEF GbylParses
  <2> QED
    BY <2>3 DEF DecryptGbyl
<1>3. CASE <<f[1].value, f[2].value>> \notin MediaMapping \/ f[3].value # 0
  <2>2. ~ItemParses(f)
    BY <1>3 DEF ItemParses
  <2>3. ~GbylParses(t)
    BY <2>2 DEF GbylParses
  <2> QED
    BY <2>3 DEF DecryptGbyl
<1> QED
  BY <1>1, <1>2, <1>3

\* Under another key than the item's nothing opens.
LEMMA OtherKey ==
    ASSUME NEW key, NEW aad, NEW iv, NEW cipher, cipher.value.key # key
    PROVE  Decrypt(key, aad, iv, cipher) = Bad
  BY DEF Decrypt

\* Where an archive may be damaged.
LEMMA DamageOfGbyl ==
    ASSUME NEW s, NEW n, s[4].value = n, NEW t \in DamagedGbyl(s)
    PROVE  \/ \E k \in {2, 3, 4} : t = Numbered(s, k)
           \/ \E i \in 1..n, m \in {1, 3, 5} : t = Numbered(s, 6 * i - 2 + m)
           \/ \E i \in 1..n : t = Garbled(s, 6 * i + 4)
           \/ \E i \in 1..n : t = Replaced(s, 6 * i + 2)
           \/ /\ t # s
              /\ \E i, j \in 1..n : t = [k \in DOMAIN s |->
                   IF k \in 6 * i - 1 .. 6 * i + 4 THEN s[k + 6 * (j - i)]
                   ELSE IF k \in 6 * j - 1 .. 6 * j + 4 THEN s[k + 6 * (i - j)]
                   ELSE s[k]]
           \/ t = Replaced(s, 1) \/ t = Shorter(s) \/ t = Front(s)
           \/ t = Append(s, Chunk(0, 1))
<1> DEFINE numbers ==
               {2, 3, 4} \cup {6 * i - 2 + k : i \in 1..n, k \in {1, 3, 5}}
           moved(i, j) == [k \in DOMAIN s |->
               IF k \in 6 * i - 1 .. 6 * i + 4 THEN s[k + 6 * (j - i)]
               ELSE IF k \in 6 * j - 1 .. 6 * j + 4 THEN s[k + 6 * (i - j)]
               ELSE s[k]]
           A == {Numbered(s, k) : k \in numbers}
           B == {Garbled(s, 6 * i + 4) : i \in 1..n}
           C == {moved(i, j) : i, j \in 1..n}
           D == {Replaced(s, 6 * i + 2) : i \in 1..n}
           E == {Replaced(s, 1), Shorter(s), Front(s), Append(s, Chunk(0, 1))}
<1>1. DamagedGbyl(s) = A \cup B \cup (C \ {s}) \cup D \cup E
  BY DEF DamagedGbyl
<1>2. ASSUME t \in A
      PROVE  \/ \E k \in {2, 3, 4} : t = Numbered(s, k)
             \/ \E i \in 1..n, m \in {1, 3, 5} : t = Numbered(s, 6 * i - 2 + m)
  <2>1. PICK k \in numbers : t = Numbered(s, k)
    BY <1>2
  <2>2. CASE k \in {2, 3, 4}
    BY <2>1, <2>2
  <2>3. CASE k \notin {2, 3, 4}
    <3>1. PICK i \in 1..n, m \in {1, 3, 5} : k = 6 * i - 2 + m
      BY <2>3
    <3> QED
      BY <2>1, <3>1
  <2> QED
    BY <2>2, <2>3
<1>3. ASSUME t \in B PROVE \E i \in 1..n : t = Garbled(s, 6 * i + 4)
  BY <1>3
<1>4. ASSUME t \in C PROVE \E i, j \in 1..n : t = moved(i, j)
  BY <1>4
<1>5. ASSUME t \in D PROVE \E i \in 1..n : t = Replaced(s, 6 * i + 2)
  BY <1>5
<1>6. ASSUME t \in E
       PROVE  \/ t = Replaced(s, 1) \/ t = Shorter(s) \/ t = Front(s)
              \/ t = Append(s, Chunk(0, 1))
  BY <1>6
<1> HIDE DEF A, B, C, D, E
<1>7. t \in A \/ t \in B \/ (t \in C /\ t # s) \/ t \in D \/ t \in E
  <2>1. t \in A \cup B \cup (C \ {s}) \cup D \cup E
    BY <1>1, Zenon
  <2> QED
    BY ONLY <2>1, Zenon
<1>8. CASE t \in A
  BY <1>2, <1>8, Zenon
<1>9. CASE t \in B
  BY <1>3, <1>9, Zenon
<1>10. CASE t \in C /\ t # s
  BY <1>4, <1>10, Zenon
<1>11. CASE t \in D
  BY <1>11, <1>5, Zenon
<1>12. CASE t \in E
  BY <1>6, <1>12, Zenon
<1> QED
  BY <1>7, <1>8, <1>9, <1>10, <1>11, <1>12, Zenon

\* The fields of item i of an archive that damage may hit.
ItemIn(s, item, i, key) ==
    /\ s[6 * i - 1].value = item.type
    /\ s[6 * i].value = item.codec
    /\ s[6 * i + 1].value = 0
    /\ s[6 * i + 3].value = item.size + 16
    /\ s[6 * i + 4].value.key = MediaKey(key, i - 1)
    /\ s[6 * i + 4].size = item.size + 16

LEMMA ItemOfArchive ==
    ASSUME NEW items, NEW n \in Nat, NEW key, NEW context,
           NEW s, Archived(s, items, n, key, context), NEW i \in 1..n
    PROVE  ItemIn(s, items[i], i, key)
<1>1. PICK f, item, index : /\ f = PackItem(item, index, key, context)
                            /\ item = items[i] /\ index = i - 1
  OBVIOUS
<1>2. SealedItem(f, item, index, key, context)
  BY ONLY <1>1, PackedSix
<1>3. /\ f[1].value = item.type /\ f[2].value = item.codec /\ f[3].value = 0
      /\ f[5].value = item.size + 16 /\ f[6].size = item.size + 16
      /\ f[6].value.key = MediaKey(key, index)
  BY <1>2, ChunkFields DEF SealedItem
<1>4. \A k \in 1..6 : s[6 * i - 2 + k] = f[k]
  BY <1>1 DEF Archived
<1>5. /\ 6 * i - 2 + 1 = 6 * i - 1 /\ 6 * i - 2 + 2 = 6 * i
      /\ 6 * i - 2 + 3 = 6 * i + 1 /\ 6 * i - 2 + 5 = 6 * i + 3
      /\ 6 * i - 2 + 6 = 6 * i + 4
  OBVIOUS
<1>6. /\ s[6 * i - 1] = f[1] /\ s[6 * i] = f[2] /\ s[6 * i + 1] = f[3]
      /\ s[6 * i + 3] = f[5] /\ s[6 * i + 4] = f[6]
  BY <1>4, <1>5
<1> QED
  BY ONLY <1>1, <1>3, <1>6 DEF ItemIn

\* One chunk is another.
Changed(t, s, N, l, c) ==
    /\ t = [k \in 1..N |-> t[k]] /\ Len(t) = N
    /\ t[l] = c /\ \A k \in 1..N : k # l => t[k] = s[k]

LEMMA OneChunk ==
    ASSUME NEW N \in Nat, NEW s, s = [k \in 1..N |-> s[k]],
           NEW l \in 1..N, NEW c, NEW t, t = [s EXCEPT ![l] = c]
    PROVE  Changed(t, s, N, l, c)
<1>1. t = [k \in 1..N |-> IF k = l THEN c ELSE s[k]]
  OBVIOUS
<1>2. t = [k \in 1..N |-> t[k]]
  BY <1>1
<1>3. Len(t) = N
  BY <1>2, LenOf
<1>4. t[l] = c /\ \A k \in 1..N : k # l => t[k] = s[k]
  BY <1>1
<1> QED
  BY <1>2, <1>3, <1>4 DEF Changed

\* A wrong number in the header.
LEMMA WrongHeader ==
    ASSUME NEW items, NEW n \in Nat, NEW key, NEW context,
           NEW s, Archived(s, items, n, key, context),
           NEW l \in {2, 3, 4}, NEW t, t = Numbered(s, l)
    PROVE  DecryptGbyl(t, key, context) = Bad
<1>1. PICK c : c = [s[l] EXCEPT !.value = @ + 1]
  OBVIOUS
<1>2. t = [s EXCEPT ![l] = c]
  BY <1>1 DEF Numbered
<1>3. PICK N \in Nat : N = 4 + 6 * n
  OBVIOUS
<1>4. /\ Len(t) = N /\ N = 4 + 6 * n
      /\ t[l] = c /\ \A k \in 1..N : k # l => t[k] = s[k]
  <2>1. l \in 1..N /\ s = [k \in 1..N |-> s[k]]
    BY <1>3 DEF Archived
  <2>2. Changed(t, s, N, l, c)
    BY ONLY <1>2, <2>1, N \in Nat, OneChunk
  <2> QED
    BY <1>3, <2>2 DEF Changed
<1>5. s[2].value = 1 /\ s[3].value = 0 /\ s[4].value = n
  BY ChunkFields DEF Archived
<1>6. s[l] = Chunk(s[l].value, s[l].size)
  BY ChunkFields DEF Archived
<1>7. c.value = s[l].value + 1
  BY <1>1, <1>6 DEF Chunk
<1>8. \/ t[2].value # 1 \/ t[3].value # 0 \/ Len(t) # 4 + 6 * t[4].value
  <2>1. CASE l = 2
    BY <1>4, <1>5, <1>7, <2>1
  <2>2. CASE l = 3
    BY <1>4, <1>5, <1>7, <2>2
  <2>3. CASE l = 4
    <3>1. t[4].value = n + 1
      BY <1>4, <1>5, <1>7, <2>3
    <3>2. 4 + 6 * n # 4 + 6 * (n + 1)
      OBVIOUS
    <3> QED
      BY <1>4, <3>1, <3>2
  <2> QED
    BY <2>1, <2>2, <2>3
<1> QED
  BY ONLY <1>8, Unparsed

\* Other bytes than the magic.
LEMMA WrongMagic ==
    ASSUME NEW items, NEW n \in Nat, NEW key, NEW context,
           NEW s, Archived(s, items, n, key, context),
           NEW t, t = Replaced(s, 1)
    PROVE  DecryptGbyl(t, key, context) = Bad
<1>1. PICK c : c = [s[1] EXCEPT !.value = "otherBytes"]
  OBVIOUS
<1>2. t = [s EXCEPT ![1] = c]
  BY <1>1 DEF Replaced
<1>3. PICK N \in Nat : N = 4 + 6 * n
  OBVIOUS
<1>4. t[1] = c
  <2>1. 1 \in 1..N /\ s = [k \in 1..N |-> s[k]]
    BY <1>3 DEF Archived
  <2>2. Changed(t, s, N, 1, c)
    BY ONLY <1>2, <2>1, N \in Nat, OneChunk
  <2> QED
    BY <2>2 DEF Changed
<1>5. t[1].value # "GBYL"
  BY <1>1, <1>4 DEF Archived, Chunk
<1> QED
  BY ONLY <1>5, Unparsed

\* A wrong number in an item.
LEMMA WrongItem ==
    ASSUME NEW items, NEW n \in Nat, NEW key, NEW context,
           NEW s, Archived(s, items, n, key, context),
           NEW i \in 1..n, NEW m \in {1, 3, 5},
           <<items[i].type, items[i].codec>> \in MediaMapping,
           items[i].size \in Nat, NEW t, t = Numbered(s, 6 * i - 2 + m)
    PROVE  DecryptGbyl(t, key, context) = Bad
<1>0. PICK N \in Nat : N = 4 + 6 * n
  OBVIOUS
<1>1. PICK l \in 1..N : l = 6 * i - 2 + m
  BY <1>0
<1>2. PICK c : c = [s[l] EXCEPT !.value = @ + 1]
  OBVIOUS
<1>3. t = [s EXCEPT ![l] = c]
  BY <1>1, <1>2 DEF Numbered
<1>4. /\ t = [k \in 1..N |-> t[k]]
      /\ t[l] = c /\ \A k \in 1..N : k # l => t[k] = s[k]
  <2>1. s = [k \in 1..N |-> s[k]]
    BY <1>0 DEF Archived
  <2>2. Changed(t, s, N, l, c)
    BY ONLY <1>3, <2>1, N \in Nat, l \in 1..N, OneChunk
  <2> QED
    BY ONLY <2>2 DEF Changed
<1>5. PICK f : f = Item(t, i)
  OBVIOUS
<1>6. DOMAIN f = 1..6 /\ \A k \in 1..6 : f[k] = t[6 * i - 2 + k]
  <2>1. 4 + 6 * n <= N
    BY <1>0
  <2>2. Reads(f, t, i)
    BY ONLY <1>4, <1>5, <2>1, ChunksRead, N \in Nat, n \in Nat, i \in 1..n
  <2> QED
    BY ONLY <2>2 DEF Reads
<1>7. i \in 1..t[4].value
  <2>1. 4 \in 1..N /\ l # 4
    BY <1>0, <1>1
  <2>2. s[4].value = n
    BY ChunkFields DEF Archived
  <2>3. t[4].value = n
    BY ONLY <1>4, <2>1, <2>2
  <2> QED
    BY <2>3
<1>8. /\ s[6 * i - 1].value = items[i].type
      /\ s[6 * i].value = items[i].codec
      /\ s[6 * i + 1].value = 0
      /\ s[6 * i + 3].value = items[i].size + 16
      /\ s[6 * i + 4].size = items[i].size + 16
  <2>1. PICK item : item = items[i]
    OBVIOUS
  <2>2. ItemIn(s, item, i, key)
    BY <2>1, ItemOfArchive
  <2> QED
    BY ONLY <2>1, <2>2 DEF ItemIn
<1>9. c.value = s[l].value + 1
  <2>1. PICK g, item, index : /\ g = PackItem(item, index, key, context)
                              /\ item = items[i] /\ index = i - 1
    OBVIOUS
  <2>2. SealedItem(g, item, index, key, context)
    BY ONLY <2>1, PackedSix
  <2>3. s[l] = g[m]
    <3>1. m \in 1..6
      OBVIOUS
    <3>2. s[6 * i - 2 + m] = PackItem(items[i], i - 1, key, context)[m]
      BY <3>1 DEF Archived
    <3> QED
      BY ONLY <1>1, <2>1, <3>2
  <2>4. g[m] = Chunk(g[m].value, g[m].size)
    BY <2>2, ChunkFields DEF SealedItem
  <2> QED
    BY <1>2, <2>3, <2>4 DEF Chunk
<1>10. \/ <<f[1].value, f[2].value>> \notin MediaMapping
       \/ f[3].value # 0 \/ f[6].size # f[5].value
  <2>1. \A k \in 1..6 : k # m => f[k] = s[6 * i - 2 + k]
    <3>1. ASSUME NEW k \in 1..6, k # m PROVE f[k] = s[6 * i - 2 + k]
      <4>1. 6 * i - 2 + k \in 1..N /\ 6 * i - 2 + k # l
        BY <1>0, <1>1, <3>1
      <4> QED
        BY <1>4, <1>6, <4>1
    <3> QED
      BY <3>1
  <2>2. f[m] = c
    <3>1. m \in 1..6
      OBVIOUS
    <3> QED
      BY ONLY <1>1, <1>4, <1>6, <3>1
  <2>3. CASE m = 1
    <3>1. f[2].value = items[i].codec
      <4>1. f[2] = s[6 * i - 2 + 2] /\ 6 * i - 2 + 2 = 6 * i
        BY <2>1, <2>3
      <4> QED
        BY <1>8, <4>1
    <3>2. f[1].value = items[i].type + 1
      <4>1. l = 6 * i - 1
        BY <1>1, <2>3
      <4> QED
        BY <1>8, <1>9, <2>2, <2>3, <4>1
    <3> QED
      BY <3>1, <3>2 DEF MediaMapping
  <2>4. CASE m = 3
    <3>1. l = 6 * i + 1
      BY <1>1, <2>4
    <3> QED
      BY <1>8, <1>9, <2>2, <2>4, <3>1
  <2>5. CASE m = 5
    <3>1. l = 6 * i + 3
      BY <1>1, <2>5
    <3>2. f[5].value = items[i].size + 16 + 1
      BY <1>8, <1>9, <2>2, <2>5, <3>1
    <3>3. f[6].size = items[i].size + 16
      <4>1. f[6] = s[6 * i - 2 + 6] /\ 6 * i - 2 + 6 = 6 * i + 4
        BY <2>1, <2>5
      <4> QED
        BY <1>8, <4>1
    <3> QED
      BY <3>2, <3>3
  <2> QED
    BY <2>3, <2>4, <2>5
<1> QED
  BY ONLY <1>5, <1>6, <1>7, <1>10, BadItem

\* A ciphertext that was made under another key than that of its place.
LEMMA WrongKey ==
    ASSUME NEW t, NEW n \in Nat, NEW N \in Nat, N = 4 + 6 * n,
           t = [k \in 1..N |-> t[k]], t[4].value = n, NEW i \in 1..n,
           NEW key, NEW context, t[6 * i + 4].value.key # MediaKey(key, i - 1)
    PROVE  DecryptGbyl(t, key, context) = Bad
<1>1. PICK f : f = Item(t, i)
  OBVIOUS
<1>2. Reads(f, t, i)
  <2>1. 4 + 6 * n <= N
    OBVIOUS
  <2> QED
    BY ONLY <1>1, <2>1, ChunksRead, N \in Nat, n \in Nat, i \in 1..n,
            t = [k \in 1..N |-> t[k]]
<1>3. f[6].value.key # MediaKey(key, i - 1)
  <2>1. 6 * i - 2 + 6 = 6 * i + 4 /\ 6 \in 1..6
    OBVIOUS
  <2>2. f[6] = t[6 * i + 4]
    BY ONLY <1>2, <2>1 DEF Reads
  <2> QED
    BY ONLY <2>2, t[6 * i + 4].value.key # MediaKey(key, i - 1)
<1>4. Decrypt(MediaKey(key, i - 1), MediaAad(context, i - 1), f[4], f[6]) = Bad
  BY ONLY <1>3, OtherKey
<1>5. i \in 1..t[4].value
  OBVIOUS
<1>6. DOMAIN f = 1..6
  BY <1>2 DEF Reads
<1> QED
  BY ONLY <1>1, <1>4, <1>5, <1>6, BadItem

\* A nonce that is not the one the ciphertext was made with.
LEMMA WrongNonce ==
    ASSUME NEW items, NEW n \in Nat, NEW key, NEW context,
           NEW s, Archived(s, items, n, key, context), NEW i \in 1..n,
           NEW t, t = Replaced(s, 6 * i + 2)
    PROVE  DecryptGbyl(t, key, context) = Bad
<1>1. PICK N \in Nat : N = 4 + 6 * n
  OBVIOUS
<1>2. PICK l \in 1..N : l = 6 * i + 2
  BY <1>1
<1>3. PICK c : c = [s[l] EXCEPT !.value = "otherBytes"]
  OBVIOUS
<1>4. t = [s EXCEPT ![l] = c]
  BY <1>2, <1>3 DEF Replaced
<1>5. Changed(t, s, N, l, c)
  <2>1. s = [k \in 1..N |-> s[k]]
    BY <1>1 DEF Archived
  <2> QED
    BY ONLY <1>4, <2>1, N \in Nat, l \in 1..N, OneChunk
<1>6. c.value = "otherBytes" /\ s[6 * i + 4].value.iv = Iv
  <2>1. PICK g, item, index : /\ g = PackItem(item, index, key, context)
                              /\ item = items[i] /\ index = i - 1
    OBVIOUS
  <2>2. SealedItem(g, item, index, key, context)
    BY ONLY <2>1, PackedSix
  <2>3. \A m \in 1..6 : s[6 * i - 2 + m] = g[m]
    BY <2>1 DEF Archived
  <2>4. 6 * i - 2 + 4 = l /\ 6 * i - 2 + 6 = 6 * i + 4 /\ {4, 6} \subseteq 1..6
    BY <1>2
  <2>5. s[l] = g[4] /\ s[6 * i + 4] = g[6]
    BY ONLY <2>3, <2>4
  <2>6. s[l] = Chunk(Iv, 12)
    BY ONLY <2>2, <2>5 DEF SealedItem
  <2>7. c.value = "otherBytes"
    BY ONLY <1>3, <2>6 DEF Chunk
  <2>8. g[6].value.iv = Iv
    <3>1. \E cipher : g[6].value = cipher /\ cipher.iv = Iv
      BY <2>2, ChunkFields DEF SealedItem
    <3> QED
      BY ONLY <3>1
  <2> QED
    BY ONLY <2>5, <2>7, <2>8
<1>7. PICK f : f = Item(t, i)
  OBVIOUS
<1>8. Reads(f, t, i)
  <2>1. t = [k \in 1..N |-> t[k]]
    BY ONLY <1>5 DEF Changed
  <2>2. 4 + 6 * n <= N
    BY ONLY <1>1, n \in Nat
  <2> QED
    BY ONLY <1>7, <2>1, <2>2, ChunksRead, N \in Nat, n \in Nat, i \in 1..n
<1>9. f[4].value # f[6].value.iv
  <2>1. 6 * i - 2 + 4 = l /\ 6 * i - 2 + 6 = 6 * i + 4 /\ {4, 6} \subseteq 1..6
    BY <1>2
  <2>2. f[4] = t[l] /\ f[6] = t[6 * i + 4]
    BY ONLY <1>8, <2>1 DEF Reads
  <2>3. 6 * i + 4 \in 1..N /\ 6 * i + 4 # l
    BY <1>1, <1>2
  <2>4. f[4] = c /\ f[6] = s[6 * i + 4]
    BY ONLY <1>5, <2>2, <2>3 DEF Changed
  <2> QED
    BY <1>6, <2>4 DEF Iv
<1>10. Decrypt(MediaKey(key, i - 1), MediaAad(context, i - 1), f[4], f[6]) = Bad
  BY ONLY <1>9 DEF Decrypt
<1>11. i \in 1..t[4].value
  <2>1. 4 \in 1..N /\ l # 4
    BY <1>1, <1>2
  <2>2. s[4].value = n
    BY ChunkFields DEF Archived
  <2>3. t[4].value = n
    BY ONLY <1>5, <2>1, <2>2 DEF Changed
  <2> QED
    BY <2>3
<1>12. DOMAIN f = 1..6
  BY <1>8 DEF Reads
<1> QED
  BY ONLY <1>7, <1>10, <1>11, <1>12, BadItem

\* A ciphertext that is no longer what was made.
LEMMA GarbledItem ==
    ASSUME NEW items, NEW n \in Nat, NEW key, NEW context,
           NEW s, Archived(s, items, n, key, context), NEW i \in 1..n,
           MediaKey(key, i - 1) # Bad, NEW t, t = Garbled(s, 6 * i + 4)
    PROVE  DecryptGbyl(t, key, context) = Bad
<1>1. PICK N \in Nat : N = 4 + 6 * n
  OBVIOUS
<1>2. PICK l \in 1..N : l = 6 * i + 4
  BY <1>1
<1>3. PICK c : c = [s[l] EXCEPT !.value.key = Bad]
  OBVIOUS
<1>4. t = [s EXCEPT ![l] = c]
  BY <1>2, <1>3 DEF Garbled
<1>5. Changed(t, s, N, l, c)
  <2>1. s = [k \in 1..N |-> s[k]]
    BY <1>1 DEF Archived
  <2> QED
    BY ONLY <1>4, <2>1, N \in Nat, l \in 1..N, OneChunk
<1>6. c.value.key = Bad
  <2>1. PICK g, item, index : /\ g = PackItem(item, index, key, context)
                              /\ item = items[i] /\ index = i - 1
    OBVIOUS
  <2>2. SealedItem(g, item, index, key, context)
    BY ONLY <2>1, PackedSix
  <2>3. s[l] = g[6]
    <3>1. PICK m \in 1..6 : m = 6
      OBVIOUS
    <3>2. s[6 * i - 2 + m] = PackItem(items[i], i - 1, key, context)[m]
      BY DEF Archived
    <3>3. 6 * i - 2 + m = l
      BY <1>2, <3>1
    <3> QED
      BY ONLY <2>1, <3>1, <3>2, <3>3
  <2> QED
    BY <1>3, <2>2, <2>3 DEF SealedItem, Chunk
<1>7. t[6 * i + 4].value.key # MediaKey(key, i - 1)
  BY <1>2, <1>5, <1>6 DEF Changed
<1>8. t[4].value = n
  <2>1. 4 \in 1..N /\ l # 4
    BY <1>1, <1>2
  <2>2. s[4].value = n
    BY ChunkFields DEF Archived
  <2> QED
    BY ONLY <1>5, <2>1, <2>2 DEF Changed
<1>9. t = [k \in 1..N |-> t[k]]
  BY <1>5 DEF Changed
<1> QED
  BY ONLY <1>1, <1>7, <1>8, <1>9, WrongKey, n \in Nat, N \in Nat, i \in 1..n

\* Two items in each other's place.
LEMMA MovedItem ==
    ASSUME NEW items, NEW n \in Nat, NEW key, NEW context,
           NEW s, Archived(s, items, n, key, context),
           NEW i \in 1..n, NEW j \in 1..n, NEW t, t # s,
           t = [k \in DOMAIN s |->
                   IF k \in 6 * i - 1 .. 6 * i + 4 THEN s[k + 6 * (j - i)]
                   ELSE IF k \in 6 * j - 1 .. 6 * j + 4 THEN s[k + 6 * (i - j)]
                   ELSE s[k]]
    PROVE  DecryptGbyl(t, key, context) = Bad
<1>1. PICK N \in Nat : N = 4 + 6 * n
  OBVIOUS
<1>2. s = [k \in 1..N |-> s[k]] /\ DOMAIN s = 1..N
  BY <1>1 DEF Archived
<1>3. t = [k \in 1..N |-> t[k]]
  BY <1>2
<1>4. i # j
  <2> SUFFICES ASSUME i = j PROVE FALSE
    OBVIOUS
  <2>1. ASSUME NEW k \in 1..N PROVE t[k] = s[k]
    <3>1. k + 6 * (j - i) = k
      OBVIOUS
    <3> QED
      BY <1>2, <3>1
  <2>2. t = s
    BY <1>2, <1>3, <2>1
  <2> QED
    BY <2>2
<1>5. t[6 * i + 4] = s[6 * j + 4]
  <2>1. PICK l \in 1..N : l = 6 * i + 4
    BY <1>1
  <2>2. l \in 6 * i - 1 .. 6 * i + 4 /\ l + 6 * (j - i) = 6 * j + 4
    BY <2>1
  <2>3. t[l] = s[l + 6 * (j - i)]
    BY <1>2, <2>2
  <2> QED
    BY ONLY <2>1, <2>2, <2>3
<1>6. s[6 * j + 4].value.key = MediaKey(key, j - 1)
  <2>1. PICK item : item = items[j]
    OBVIOUS
  <2>2. ItemIn(s, item, j, key)
    BY <2>1, ItemOfArchive
  <2> QED
    BY ONLY <2>2 DEF ItemIn
<1>7. t[6 * i + 4].value.key # MediaKey(key, i - 1)
  <2>1. MediaKey(key, j - 1) # MediaKey(key, i - 1)
    BY <1>4 DEF MediaKey
  <2> QED
    BY ONLY <1>5, <1>6, <2>1
<1>8. t[4].value = n
  <2>1. /\ 4 \in 1..N /\ 4 \notin 6 * i - 1 .. 6 * i + 4
        /\ 4 \notin 6 * j - 1 .. 6 * j + 4
    BY <1>1
  <2>2. s[4].value = n
    BY ChunkFields DEF Archived
  <2>3. t[4] = s[4]
    BY <1>2, <2>1
  <2> QED
    BY ONLY <2>2, <2>3
<1> QED
  BY ONLY <1>1, <1>3, <1>7, <1>8, WrongKey, n \in Nat, N \in Nat, i \in 1..n

\* Chunks missing or left over.
LEMMA WrongCount ==
    ASSUME NEW items, NEW n \in Nat, NEW key, NEW context,
           NEW s, Archived(s, items, n, key, context),
           NEW t, t = Front(s) \/ \E c : t = Append(s, c)
    PROVE  DecryptGbyl(t, key, context) = Bad
<1>1. PICK N \in Nat : N = 4 + 6 * n
  OBVIOUS
<1>2. s = [k \in 1..N |-> s[k]]
  BY <1>1 DEF Archived
<1>3. PICK S : s \in Seq(S) /\ Len(s) = N
  BY <1>2, LenOf
<1>4. s[4].value = n
  BY ChunkFields DEF Archived
<1>5. CASE t = Front(s)
  <2>1. Len(t) = N - 1 /\ (4 <= N - 1 => t[4] = s[4])
    <3>1. t = SubSeq(s, 1, N - 1)
      BY <1>3, <1>5 DEF Front
    <3>2. 1 <= N - 1 /\ N - 1 <= Len(s)
      BY <1>1, <1>3
    <3> QED
      BY ONLY <1>3, <3>1, <3>2, N \in Nat
  <2>2. ~ (Len(t) >= 4) \/ Len(t) # 4 + 6 * t[4].value
    BY <1>1, <1>4, <2>1
  <2> QED
    BY ONLY <2>2, Unparsed
<1>6. CASE \E c : t = Append(s, c)
  <2>1. PICK c : t = Append(s, c)
    BY <1>6
  <2>2. PICK T : T = S \cup {c}
    OBVIOUS
  <2>3. s \in Seq(T) /\ c \in T
    BY <1>3, <2>2
  <2>4. Len(t) = N + 1 /\ \A k \in 1..N : t[k] = s[k]
    BY ONLY <1>3, <2>1, <2>3
  <2>5. t[4] = s[4]
    BY <1>1, <2>4
  <2>6. Len(t) # 4 + 6 * t[4].value
    BY <1>1, <1>4, <2>4, <2>5
  <2> QED
    BY ONLY <2>6, Unparsed
<1> QED
  BY <1>5, <1>6

\* Bytes missing from the last chunk.
LEMMA ShorterArchive ==
    ASSUME NEW items, NEW n \in Nat, NEW key, NEW context,
           NEW s, Archived(s, items, n, key, context),
           \A i \in 1..n : items[i].size \in Nat, NEW t, t = Shorter(s)
    PROVE  DecryptGbyl(t, key, context) = Bad
<1>1. PICK N \in Nat : N = 4 + 6 * n
  OBVIOUS
<1>2. s = [k \in 1..N |-> s[k]]
  BY <1>1 DEF Archived
<1>3. Len(s) = N
  BY <1>2, LenOf
<1>4. PICK c : c = [s[N] EXCEPT !.size = @ - 1]
  OBVIOUS
<1>5. Changed(t, s, N, N, c)
  <2>1. t = [s EXCEPT ![N] = c]
    BY <1>3, <1>4 DEF Shorter
  <2>2. N \in 1..N
    BY <1>1
  <2> QED
    BY ONLY <1>2, <2>1, <2>2, N \in Nat, OneChunk
<1>6. CASE n = 0
  <2>1. N = 4 /\ s[4] = Chunk(0, 2)
    BY <1>1, <1>6 DEF Archived
  <2>2. t[4].size = 1
    <3>1. c.size = 1
      BY <1>4, <2>1 DEF Chunk
    <3> QED
      BY <1>5, <2>1, <3>1 DEF Changed
  <2>3. PICK S : t \in Seq(S) /\ Len(t) = 4 /\ Len(t) >= 4
    <3>1. t = [k \in 1..N |-> t[k]]
      BY <1>5 DEF Changed
    <3>2. Len(t) = N /\ \E S : t \in Seq(S)
      BY ONLY <3>1, LenOf, N \in Nat
    <3> QED
      BY <2>1, <3>2
  <2>4. SubSeq(t, 1, 4) = <<t[1], t[2], t[3], t[4]>>
    BY ONLY <2>3, FirstFour
  <2>5. Sizes(SubSeq(t, 1, 4)) # <<4, 1, 1, 2>>
    BY <2>2, <2>4 DEF Sizes
  <2> QED
    BY ONLY <2>5, Unparsed
<1>7. CASE n # 0
  <2>1. PICK f : f = Item(t, n)
    OBVIOUS
  <2>2. Reads(f, t, n)
    <3>1. 4 + 6 * n <= N /\ n \in 1..n /\ t = [k \in 1..N |-> t[k]]
      BY <1>1, <1>5, <1>7 DEF Changed
    <3> QED
      BY ONLY <2>1, <3>1, ChunksRead, N \in Nat, n \in Nat
  <2>3. PICK size \in Nat : size = items[n].size
    BY <1>7
  <2>4. s[6 * n + 3].value = size + 16 /\ s[6 * n + 4].size = size + 16
    <3>1. PICK item : item = items[n]
      OBVIOUS
    <3>2. ItemIn(s, item, n, key)
      BY <1>7, <3>1, ItemOfArchive
    <3> QED
      BY ONLY <2>3, <3>1, <3>2 DEF ItemIn
  <2>5. c.size = size + 16 - 1
    <3>1. PICK g, item, index : /\ g = PackItem(item, index, key, context)
                                /\ item = items[n] /\ index = n - 1
      OBVIOUS
    <3>2. SealedItem(g, item, index, key, context)
      BY ONLY <3>1, PackedSix
    <3>3. s[N] = g[6]
      <4>1. PICK i \in 1..n, m \in 1..6 : i = n /\ m = 6
        BY <1>7
      <4>2. s[6 * i - 2 + m] = PackItem(items[i], i - 1, key, context)[m]
        BY DEF Archived
      <4>3. 6 * i - 2 + m = N
        BY <1>1, <4>1
      <4> QED
        BY ONLY <3>1, <4>1, <4>2, <4>3
    <3>4. g[6] = Chunk(g[6].value, size + 16)
      BY <2>3, <3>1, <3>2, ChunkFields DEF SealedItem
    <3> QED
      BY <1>4, <3>3, <3>4 DEF Chunk
  <2>6. f[5].value = size + 16 /\ f[6].size = size + 16 - 1
    <3>1. f[5] = t[6 * n + 3] /\ f[6] = t[6 * n + 4]
      <4>1. /\ 6 * n - 2 + 5 = 6 * n + 3 /\ 5 \in 1..6
            /\ 6 * n - 2 + 6 = 6 * n + 4 /\ 6 \in 1..6
        OBVIOUS
      <4> QED
        BY ONLY <2>2, <4>1 DEF Reads
    <3>2. t[6 * n + 3] = s[6 * n + 3] /\ t[6 * n + 4] = c
      <4>1. 6 * n + 3 \in 1..N /\ 6 * n + 3 # N /\ 6 * n + 4 = N
        BY <1>1
      <4> QED
        BY ONLY <1>5, <4>1 DEF Changed
    <3> QED
      BY ONLY <2>4, <2>5, <3>1, <3>2
  <2>7. n \in 1..t[4].value
    <3>1. 4 \in 1..N /\ 4 # N
      BY <1>1, <1>7
    <3>2. s[4].value = n
      BY ChunkFields DEF Archived
    <3>3. t[4].value = n
      BY ONLY <1>5, <3>1, <3>2 DEF Changed
    <3> QED
      BY <1>7, <3>3
  <2>8. DOMAIN f = 1..6 /\ f[6].size # f[5].value
    BY <2>2, <2>6 DEF Reads
  <2> QED
    BY ONLY <2>1, <2>7, <2>8, BadItem
<1> QED
  BY <1>6, <1>7

\* An archive that is damaged in one place does not open.
LEMMA GbylDamage ==
    ASSUME NEW items, NEW n \in Nat, NEW key, NEW context,
           NEW s, Archived(s, items, n, key, context),
           \A i \in 1..n : /\ items[i].size \in Nat
                           /\ <<items[i].type, items[i].codec>> \in MediaMapping
                           /\ MediaKey(key, i - 1) # Bad,
           NEW t \in DamagedGbyl(s)
    PROVE  DecryptGbyl(t, key, context) = Bad
<1>1. s[4].value = n
  BY ChunkFields DEF Archived
<1>2. ASSUME NEW k \in {2, 3, 4}, t = Numbered(s, k)
      PROVE  DecryptGbyl(t, key, context) = Bad
  BY <1>2, WrongHeader
<1>3. ASSUME NEW i \in 1..n, NEW m \in {1, 3, 5}, t = Numbered(s, 6 * i - 2 + m)
      PROVE  DecryptGbyl(t, key, context) = Bad
  <2>1. /\ <<items[i].type, items[i].codec>> \in MediaMapping
        /\ items[i].size \in Nat
    OBVIOUS
  <2> QED
    BY ONLY <1>3, <2>1, WrongItem, n \in Nat, i \in 1..n, m \in {1, 3, 5},
            Archived(s, items, n, key, context)
<1>4. ASSUME NEW i \in 1..n, t = Garbled(s, 6 * i + 4)
      PROVE  DecryptGbyl(t, key, context) = Bad
  BY <1>4, GarbledItem
<1>5. ASSUME NEW i \in 1..n, t = Replaced(s, 6 * i + 2)
      PROVE  DecryptGbyl(t, key, context) = Bad
  BY <1>5, WrongNonce
<1>6. ASSUME t = Replaced(s, 1) PROVE DecryptGbyl(t, key, context) = Bad
  BY <1>6, WrongMagic
<1>7. ASSUME t # s, NEW i \in 1..n, NEW j \in 1..n,
             t = [k \in DOMAIN s |->
                   IF k \in 6 * i - 1 .. 6 * i + 4 THEN s[k + 6 * (j - i)]
                   ELSE IF k \in 6 * j - 1 .. 6 * j + 4 THEN s[k + 6 * (i - j)]
                   ELSE s[k]]
      PROVE  DecryptGbyl(t, key, context) = Bad
  BY <1>7, MovedItem
<1>8. ASSUME t = Shorter(s) PROVE DecryptGbyl(t, key, context) = Bad
  BY <1>8, ShorterArchive
<1>9. ASSUME t = Front(s) \/ t = Append(s, Chunk(0, 1))
      PROVE  DecryptGbyl(t, key, context) = Bad
  <2>1. t = Front(s) \/ \E c : t = Append(s, c)
    BY <1>9
  <2> QED
    BY <2>1, WrongCount
<1> QED
  BY <1>1, <1>2, <1>3, <1>4, <1>5, <1>6, <1>7, <1>8, <1>9,
     DamageOfGbyl

\* The chunks of a text.
SealedText(s, text, zipped, size, key, context) ==
    /\ s = [k \in 1..5 |-> s[k]]
    /\ s[1] = Chunk("GTX1", 4) /\ s[2] = Chunk(IF zipped THEN 1 ELSE 0, 1)
    /\ s[3] = Chunk(text.size, 4) /\ s[4] = Chunk(Iv, 12)
    /\ s[5] = Chunk([key |-> TextKey(key), iv |-> Iv, aad |-> TextAad(context),
                     plain |-> [text |-> text, zipped |-> zipped],
                     size |-> size + 16], size + 16)

\* What text encryption makes is such chunks.
LEMMA TextChunks ==
    ASSUME NEW text, text.size \in Nat, text.gzip \in Nat,
           NEW key, NEW context,
           NEW s, s = EncryptText(text, key, context), s # Bad
    PROVE  \E zipped \in BOOLEAN, size \in Nat :
              SealedText(s, text, zipped, size, key, context)
<1>1. PICK zipped \in BOOLEAN : zipped = (text.gzip < text.size)
  <2>1. (text.gzip < text.size) \in BOOLEAN
    OBVIOUS
  <2> QED
    BY <2>1, Zenon
<1>2. PICK size \in Nat : size = IF zipped THEN text.gzip ELSE text.size
  OBVIOUS
<1>3. PICK plain : plain = [text |-> text, zipped |-> zipped]
  OBVIOUS
<1>4. PICK cipher : cipher = [key |-> TextKey(key), iv |-> Iv,
                              aad |-> TextAad(context), plain |-> plain,
                              size |-> size + 16]
  OBVIOUS
<1>5. PICK a, b, c, d, e :
          /\ a = Chunk("GTX1", 4) /\ b = Chunk(IF zipped THEN 1 ELSE 0, 1)
          /\ c = Chunk(text.size, 4)
          /\ d = Chunk(Iv, 12) /\ e = Chunk(cipher, size + 16)
  OBVIOUS
<1>6. s = <<a, b, c>> \o <<d, e>>
  BY <1>1, <1>2, <1>3, <1>4, <1>5 DEF EncryptText, Encrypt, TagBytes
<1>7. s = [k \in 1..5 |-> s[k]]
  <2>1. <<a, b, c>> \in Seq({a, b, c, d, e}) /\ <<d, e>> \in Seq({a, b, c, d, e})
    OBVIOUS
  <2>2. s \in Seq({a, b, c, d, e}) /\ Len(s) = 5
    BY <1>6, <2>1
  <2> QED
    BY <2>2
<1>8. s[1] = a /\ s[2] = b /\ s[3] = c /\ s[4] = d /\ s[5] = e
  BY <1>6, TwoAfterThree
<1>9. SealedText(s, text, zipped, size, key, context)
  BY ONLY <1>3, <1>4, <1>5, <1>7, <1>8 DEF SealedText
<1> QED
  BY <1>9

\* What makes the reader refuse a text.
LEMMA NoText ==
    ASSUME NEW t, NEW key, NEW context,
           \/ ~TextParses(t)
           \/ Decrypt(TextKey(key), TextAad(context), t[4], t[5]) = Bad
    PROVE  DecryptText(t, key, context) = Bad
  BY DEF DecryptText

\* A text whose flag or length is wrong.
LEMMA WrongText ==
    ASSUME NEW s, NEW text, NEW zipped \in BOOLEAN, NEW size \in Nat, NEW key,
           NEW context, SealedText(s, text, zipped, size, key, context),
           NEW t, t[4] = s[4], t[5] = s[5],
           \/ (zipped /\ t[2].value # 1) \/ (~zipped /\ t[2].value = 1)
           \/ text.size # t[3].value
    PROVE  DecryptText(t, key, context) = Bad
<1>1. PICK plain : plain = [text |-> text, zipped |-> zipped]
  OBVIOUS
<1>2. plain.text = text /\ plain.zipped = zipped
  BY <1>1
<1>3. Decrypt(TextKey(key), TextAad(context), t[4], t[5]) = plain
  BY <1>1 DEF SealedText, Decrypt, Chunk, TagBytes
<1> QED
  BY <1>2, <1>3 DEF DecryptText

\* A text that is damaged in one place does not open.
LEMMA TextDamage ==
    ASSUME NEW text, text.size \in Nat, text.gzip \in Nat,
           NEW key, TextKey(key) # Bad, NEW context,
           NEW s, s = EncryptText(text, key, context), s # Bad,
           NEW t \in DamagedText(s)
    PROVE  DecryptText(t, key, context) = Bad
<1>1. PICK zipped \in BOOLEAN, size \in Nat :
          SealedText(s, text, zipped, size, key, context)
  BY TextChunks
<1>2. s = [k \in 1..5 |-> s[k]]
  BY <1>1 DEF SealedText
<1>3. PICK S : s \in Seq(S) /\ Len(s) = 5
  <2>1. 5 \in Nat
    OBVIOUS
  <2> QED
    BY ONLY <1>2, <2>1, LenOf
<1>4. /\ s[2].value = (IF zipped THEN 1 ELSE 0) /\ s[3].value = text.size
      /\ s[5].size = size + 16 /\ s[5].value.size = size + 16
      /\ s[5].value.key = TextKey(key)
  BY <1>1, ChunkFields DEF SealedText
<1>5. /\ s[2] = Chunk(s[2].value, s[2].size)
      /\ s[3] = Chunk(s[3].value, s[3].size)
  BY <1>1, ChunkFields DEF SealedText
<1>6. CASE t = [s EXCEPT ![2].value = 1 - @]
  <2>1. t = [k \in 1..5 |-> IF k = 2 THEN [s[2] EXCEPT !.value = 1 - @] ELSE s[k]]
    BY <1>2, <1>6
  <2>2. t[3] = s[3] /\ t[4] = s[4] /\ t[5] = s[5]
    BY <2>1
  <2>3. t[2].value = 1 - s[2].value
    BY <1>5, <2>1 DEF Chunk
  <2>4. (zipped /\ t[2].value # 1) \/ (~zipped /\ t[2].value = 1)
    BY <1>4, <2>3
  <2> QED
    BY ONLY <1>1, <2>2, <2>4, WrongText, zipped \in BOOLEAN, size \in Nat
<1>7. CASE t = [s EXCEPT ![2].value = @ + 2]
  <2>1. t = [k \in 1..5 |-> IF k = 2 THEN [s[2] EXCEPT !.value = @ + 2] ELSE s[k]]
    BY <1>2, <1>7
  <2>2. t[2].value = s[2].value + 2
    BY <1>5, <2>1 DEF Chunk
  <2>3. t[2].value \notin {0, 1}
    BY <1>4, <2>2
  <2>4. ~TextParses(t)
    BY ONLY <2>3 DEF TextParses
  <2> QED
    BY ONLY <2>4, NoText
<1>8. CASE t = Numbered(s, 3)
  <2>1. t = [k \in 1..5 |-> IF k = 3 THEN [s[3] EXCEPT !.value = @ + 1] ELSE s[k]]
    BY <1>2, <1>8 DEF Numbered
  <2>2. t[4] = s[4] /\ t[5] = s[5]
    BY <2>1
  <2>3. t[3].value = text.size + 1
    BY <1>4, <1>5, <2>1 DEF Chunk
  <2>4. text.size # t[3].value
    BY <2>3
  <2> QED
    BY ONLY <1>1, <2>2, <2>4, WrongText, zipped \in BOOLEAN, size \in Nat
<1>9. CASE t = Garbled(s, 5)
  <2>1. t = [k \in 1..5 |-> IF k = 5 THEN [s[5] EXCEPT !.value.key = Bad]
                            ELSE s[k]]
    BY <1>2, <1>9 DEF Garbled
  <2>2. t[5].value.key = Bad
    <3>1. t[5] = [s[5] EXCEPT !.value.key = Bad]
      BY <2>1
    <3> QED
      BY <1>1, <3>1 DEF SealedText, Chunk
  <2>3. Decrypt(TextKey(key), TextAad(context), t[4], t[5]) = Bad
    BY ONLY <2>2, OtherKey, TextKey(key) # Bad
  <2> QED
    BY ONLY <2>3, NoText
<1>10. CASE t = Shorter(s)
  <2>1. t = [k \in 1..5 |-> IF k = 5 THEN [s[5] EXCEPT !.size = @ - 1]
                            ELSE s[k]]
    BY <1>2, <1>3, <1>10 DEF Shorter
  <2>2. t[5].size = size + 16 - 1 /\ t[5].value.size = size + 16
    <3>1. t[5] = [s[5] EXCEPT !.size = @ - 1]
      BY <2>1
    <3> QED
      BY <1>1, <3>1 DEF SealedText, Chunk
  <2>3. t[5].size # t[5].value.size
    BY <2>2
  <2>4. Decrypt(TextKey(key), TextAad(context), t[4], t[5]) = Bad
    BY ONLY <2>3 DEF Decrypt
  <2> QED
    BY ONLY <2>4, NoText
<1>11. CASE t = Front(s)
  <2>1. t = SubSeq(s, 1, 4)
    BY <1>3, <1>11 DEF Front
  <2>2. Len(t) = 4
    BY <1>3, <2>1
  <2>3. ~TextParses(t)
    BY ONLY <2>2 DEF TextParses
  <2> QED
    BY ONLY <2>3, NoText
<1>12. CASE t = Append(s, Chunk(0, 1))
  <2>1. Len(t) = 6
    <3>1. PICK c, T : c = Chunk(0, 1) /\ T = S \cup {c}
      OBVIOUS
    <3>2. s \in Seq(T) /\ c \in T /\ t = Append(s, c)
      BY <1>3, <1>12, <3>1
    <3>3. Len(t) = Len(s) + 1
      BY ONLY <3>2
    <3> QED
      BY ONLY <1>3, <3>3
  <2>2. ~TextParses(t)
    BY ONLY <2>1 DEF TextParses
  <2> QED
    BY ONLY <2>2, NoText
<1>13. CASE t = Replaced(s, 1)
  <2>1. t = [k \in 1..5 |-> IF k = 1 THEN [s[1] EXCEPT !.value = "otherBytes"]
                            ELSE s[k]]
    BY <1>2, <1>13 DEF Replaced
  <2>2. t[1] = [s[1] EXCEPT !.value = "otherBytes"]
    BY <2>1
  <2>3. t[1].value # "GTX1"
    BY <1>1, <2>2 DEF SealedText, Chunk
  <2>4. ~TextParses(t)
    BY ONLY <2>3 DEF TextParses
  <2> QED
    BY ONLY <2>4, NoText
<1>14. CASE t = Replaced(s, 4)
  <2>1. t = [k \in 1..5 |-> IF k = 4 THEN [s[4] EXCEPT !.value = "otherBytes"]
                            ELSE s[k]]
    BY <1>2, <1>14 DEF Replaced
  <2>2. t[4] = [s[4] EXCEPT !.value = "otherBytes"] /\ t[5] = s[5]
    BY <2>1
  <2>3. t[4].value # t[5].value.iv
    BY <1>1, <2>2 DEF SealedText, Chunk, Iv
  <2>4. Decrypt(TextKey(key), TextAad(context), t[4], t[5]) = Bad
    BY ONLY <2>3 DEF Decrypt
  <2> QED
    BY ONLY <2>4, NoText
<1> QED
  BY <1>6, <1>7, <1>8, <1>9, <1>10, <1>11, <1>12, <1>13, <1>14 DEF DamagedText

-----------------------------------------------------------------------------
(* Prepared parcels.                                                         *)

\* What a prepared parcel is made of.
LEMMA PreparedItems ==
    ASSUME MediaInv, NEW p \in Preparation, prep[p].step = "done",
           NEW items, items = prep[p].items, NEW n, n = Len(items)
    PROVE  /\ n \in Nat /\ ItemList(items, n) /\ ~TooLarge(items)
           /\ \A i \in 1..n : /\ items[i].size \in Nat
                              /\ <<items[i].type, items[i].codec>>
                                     \in MediaMapping
<1>1. prep[p] \in PrepState /\ Placed(prep[p])
  BY DEF MediaInv, Advancing
<1>2. /\ items \in Seq(MediaItem) /\ ~TooLarge(items)
      /\ \A i \in DOMAIN items : OfMapping(items[i])
  BY <1>1 DEF PrepState, Placed
<1>3. n \in Nat /\ DOMAIN items = 1..n /\ items = [i \in 1..n |-> items[i]]
  BY <1>2
<1>4. \A i \in 1..n : items[i] \in MediaItem
  BY <1>2, <1>3
<1>5. ASSUME NEW i \in 1..n PROVE Field(items[i])
  <2>1. PICK item \in MediaItem : item = items[i]
    BY <1>4
  <2>2. item.content # Bad
    <3>1. item.content \in Name
      BY DEF MediaItem
    <3>2. \A name \in Name : name # Bad
      BY MediaAssumption DEF Name
    <3> QED
      BY ONLY <3>1, <3>2
  <2>3. item \in [type: Nat, codec: Nat, content: {item.content}, size: Nat]
    BY DEF MediaItem
  <2>4. Field(item)
    BY ONLY <2>2, <2>3 DEF Field
  <2> QED
    BY ONLY <2>1, <2>4
<1>6. ItemList(items, n)
  BY ONLY <1>3, <1>5, n = Len(items) DEF ItemList
<1>7. \A i \in 1..n : items[i].size \in Nat
  BY <1>4 DEF MediaItem
<1>8. \A i \in 1..n : <<items[i].type, items[i].codec>> \in MediaMapping
  BY <1>2, <1>3 DEF OfMapping
<1> QED
  BY <1>2, <1>3, <1>6, <1>7, <1>8

\* An estimate is a number.
LEMMA Estimated ==
    ASSUME NEW items, NEW n \in Nat, DOMAIN items = 1..n,
           \A i \in 1..n : items[i].size \in Nat
    PROVE  Estimate(items) \in Nat
<1>1. PICK d : d = [i \in 1..n |-> 36 + items[i].size]
  OBVIOUS
<1>2. PICK r : Adds(r, n, d, 8) /\ Estimate(items) = r[n]
  BY <1>1, EstimateAdds
<1> QED
  BY <1>2 DEF Adds

\* Its chunks, which it packs to unless the packer refuses.
LEMMA ParcelChunks ==
    ASSUME MediaInv, NEW p \in Preparation, prep[p].step = "done",
           NEW key, key = LetterKey(Honest),
           NEW context, context = ContextFor(Honest),
           NEW s, s = ChunksOf(prep[p].items, key, context)
    PROVE  /\ PackedParcel(p) = IF Packs(prep[p].items, s) THEN s ELSE Bad
           /\ Archived(s, prep[p].items, Len(prep[p].items), key, context)
<1>1. PICK items, n : items = prep[p].items /\ n = Len(items)
  OBVIOUS
<1>2. n \in Nat /\ DOMAIN items = 1..n /\ Len(items) = n
  BY <1>1, PreparedItems DEF ItemList
<1>3. Archived(s, items, n, key, context)
  <2>1. s = ChunksOf(items, key, context)
    BY <1>1
  <2> QED
    BY ONLY <1>2, <2>1, PackedChunks
<1>4. PackedParcel(p) = PackGbyl(items, key, context)
  BY <1>1 DEF PackedParcel, Archive
<1>5. PackGbyl(items, key, context) =
          IF Packs(items, s) THEN s ELSE Bad
  <2>1. s = ChunksOf(items, key, context)
    BY <1>1
  <2> QED
    BY ONLY <2>1, PackedOrBad
<1> QED
  BY <1>1, <1>3, <1>4, <1>5

\* It has at least a header.
LEMMA EstimatedHeader ==
    ASSUME NEW items, NEW n \in Nat, DOMAIN items = 1..n,
           \A i \in 1..n : items[i].size \in Nat
    PROVE  Estimate(items) >= 8
<1>1. PICK d : d = [i \in 1..n |-> 36 + items[i].size]
  OBVIOUS
<1>2. PICK r : Adds(r, n, d, 8) /\ Estimate(items) = r[n]
  BY <1>1, EstimateAdds
<1>3. \A i \in 1..n : d[i] \in Nat
  BY <1>1
<1> DEFINE S == {k \in 0..n : r[k] < 8}
<1>4. ASSUME S # {} PROVE FALSE
  <2>1. S \subseteq Nat
    OBVIOUS
  <2>2. PICK m \in S : \A k \in S : m <= k
    BY <1>4, <2>1, Least
  <2>3. m \in 1..n /\ r[m] < 8
    BY <1>2, <2>2 DEF Adds
  <2>4. m - 1 \in 0..n /\ m - 1 \notin S
    BY <2>2, <2>3
  <2>5. /\ r[m - 1] \in Nat /\ r[m - 1] >= 8 /\ d[m] \in Nat
        /\ r[m] = r[m - 1] + d[m]
    BY <1>2, <1>3, <2>3, <2>4 DEF Adds
  <2> QED
    BY ONLY <2>3, <2>5
<1>5. r[n] \in Nat /\ n \in 0..n /\ n \notin S
  BY <1>2, <1>4 DEF Adds
<1> QED
  BY <1>2, <1>5

\* What a reader parses, the store keeps: it reads the fields as the reader does.
LEMMA StoreKeeps ==
    ASSUME NEW s, GbylParses(s), s[4].value \in Nat, Total(s) >= 8
    PROVE  Uploaded(s)
<1>1. PICK n \in Nat : n = s[4].value
  OBVIOUS
<1>2. /\ HeaderParses(s) /\ Len(s) = 4 + 6 * n /\ Total(s) <= MaxArchiveBytes
      /\ \A i \in 1..n : ItemParses(Item(s, i))
  BY <1>1 DEF GbylParses
<1>3. \A i \in 1..n : ItemValid(Item(s, i))
  <2> SUFFICES ASSUME NEW i \in 1..n, NEW f, f = Item(s, i), ItemParses(f)
               PROVE  ItemValid(f)
    BY <1>2
  <2> QED
    BY DEF ItemParses, ItemValid, MediaMapping, TagBytes
<1>4. Validates(s, Total(s))
  <2>1. /\ Len(s) >= 4 /\ Sizes(SubSeq(s, 1, 4)) = <<4, 1, 1, 2>>
        /\ s[1].value = "GBYL" /\ s[2].value = 1 /\ s[3].value = 0
    BY ONLY <1>2 DEF HeaderParses
  <2>2. \A i \in 1..n : 6 * i + 4 <= Len(s)
    BY ONLY <1>2, <2>1
  <2> QED
    BY ONLY <1>1, <1>2, <1>3, <2>1, <2>2 DEF Validates
<1> QED
  BY <1>2, <1>4 DEF Uploaded, StoreAccepts

\* If no bytes are the error, a prepared parcel packs without one, in as many
\* bytes as was estimated, and the store keeps it, whatever the files and their
\* sizes, as long as the format can count them.
\* (estimateGbylBytes in media-preprocessing.ts, packGbyl in gbyl.ts,
\* GbylValidator.php)
THEOREM ParcelFitsAlways ==
    ASSUME \A S : Bad \notin Seq(S)
    PROVE  Spec => []ParcelFits
<1>1. ASSUME MediaInv PROVE ParcelFits
  <2> SUFFICES ASSUME NEW p \in Prepared
               PROVE  /\ PackedParcel(p) # Bad
                      /\ Total(PackedParcel(p)) = Estimate(prep[p].items)
                      /\ Uploaded(PackedParcel(p))
    BY DEF ParcelFits
  <2>1. PICK items, n : items = prep[p].items /\ n = Len(items)
    OBVIOUS
  <2>2. p \in Preparation /\ prep[p].step = "done" /\ n <= MaxItems
    BY <2>1 DEF Prepared
  <2>3. PICK s : s = ChunksOf(items, LetterKey(Honest), ContextFor(Honest))
    OBVIOUS
  <2>4. /\ n \in Nat /\ DOMAIN items = 1..n /\ ~TooLarge(items)
        /\ \A i \in 1..n : /\ items[i].size \in Nat
                           /\ <<items[i].type, items[i].codec>>
                                  \in MediaMapping
    BY <1>1, <2>1, <2>2, PreparedItems DEF ItemList
  <2>5. /\ PackedParcel(p) = IF Packs(items, s) THEN s ELSE Bad
        /\ Archived(s, items, n, LetterKey(Honest), ContextFor(Honest))
    BY <1>1, <2>1, <2>2, <2>3, ParcelChunks
  <2>6. Total(s) = Estimate(items)
    BY ONLY <2>4, <2>5, SizeOfArchive
  <2>7. Total(s) <= MaxArchiveBytes
    <3>1. Estimate(items) \in Nat
      BY ONLY <2>4, Estimated
    <3>2. MaxArchiveBytes \in Nat
      BY FormatAssumption
    <3> QED
      BY ONLY <2>4, <2>6, <3>1, <3>2 DEF TooLarge
  <2>8. Packs(items, s)
    BY ONLY <2>1, <2>2, <2>4, <2>7 DEF Packs
  <2>9. s # Bad
    <3>1. s = [k \in 1..(4 + 6 * n) |-> s[k]]
      BY ONLY <2>5 DEF Archived
    <3>2. PICK N \in Nat : N = 4 + 6 * n
      BY <2>4
    <3>3. s = [k \in 1..N |-> s[k]]
      BY ONLY <3>1, <3>2
    <3>4. \E S : s \in Seq(S)
      BY ONLY <3>3, LenOf, N \in Nat
    <3> QED
      BY <3>4
  <2>10. PackedParcel(p) = s
    BY ONLY <2>5, <2>8
  <2>11. GbylParses(s)
    <3>1. PackedParcel(p) = PackGbyl(items, LetterKey(Honest),
                                     ContextFor(Honest))
      BY <2>1 DEF PackedParcel, Archive
    <3>2. ItemList(items, n)
      BY <1>1, <2>1, <2>2, PreparedItems
    <3> QED
      BY ONLY <2>4, <2>9, <2>10, <3>1, <3>2, GbylDecrypts
  <2>12. Uploaded(s)
    <3>1. Total(s) >= 8
      BY ONLY <2>4, <2>6, EstimatedHeader
    <3>2. s[4].value \in Nat
      BY ONLY <2>4, <2>5 DEF Archived, Chunk
    <3> QED
      BY ONLY <2>11, <3>1, <3>2, StoreKeeps
  <2> QED
    BY ONLY <2>1, <2>6, <2>9, <2>10, <2>12
<1> QED
  BY <1>1, MediaInvariant, PTL

\* What was packed opens as what it was; with a number, a ciphertext, the order
\* of the items or the length changed it opens under the same key as an error.
\* (parseGbyl, decryptGbyl in gbyl.ts; parseGtx1, decryptTextGtx1 in gtx1.ts)
THEOREM DamageShowsAlways == Spec => []DamageShows
<1>1. TextDamageShows
  <2> SUFFICES ASSUME NEW text \in Texts,
                      NEW packed, packed = EncryptText(text, LetterKey(Honest),
                                                       ContextFor(Honest)),
                      packed # Bad
               PROVE  /\ DecryptText(packed, LetterKey(Honest),
                                     ContextFor(Honest))
                             = [text EXCEPT !.mark = FALSE]
                      /\ \A damaged \in DamagedText(packed) :
                            DecryptText(damaged, LetterKey(Honest),
                                        ContextFor(Honest)) = Bad
    BY DEF TextDamageShows
  <2>1. /\ text.size \in Nat /\ text.gzip \in Nat
        /\ \A zipped \in BOOLEAN : [text |-> text, zipped |-> zipped] # Bad
    BY DeliveryAssumption
  <2>2. TextKey(LetterKey(Honest)) # Bad
    BY ONLY KeyAssumption
  <2>3. DecryptText(packed, LetterKey(Honest), ContextFor(Honest))
            = [text EXCEPT !.mark = FALSE]
    BY <2>1, TextDecrypts
  <2>4. \A damaged \in DamagedText(packed) :
           DecryptText(damaged, LetterKey(Honest), ContextFor(Honest)) = Bad
    BY <2>1, <2>2, TextDamage
  <2> QED
    BY <2>3, <2>4
<1>2. ASSUME MediaInv, NEW p \in Prepared,
             NEW key, key = LetterKey(Honest),
             NEW context, context = ContextFor(Honest),
             NEW packed, packed = PackedParcel(p), packed # Bad
      PROVE  /\ DecryptGbyl(packed, key, context) = prep[p].items
             /\ \A archive \in DamagedGbyl(packed) :
                   DecryptGbyl(archive, key, context) = Bad
  <2>1. PICK items, n : items = prep[p].items /\ n = Len(items)
    OBVIOUS
  <2>2. p \in Preparation /\ prep[p].step = "done" /\ n <= MaxItems
    BY <2>1 DEF Prepared
  <2>3. PICK s : s = ChunksOf(items, key, context)
    OBVIOUS
  <2>4. /\ n \in Nat /\ ItemList(items, n)
        /\ \A i \in 1..n : /\ items[i].size \in Nat
                           /\ <<items[i].type, items[i].codec>>
                                  \in MediaMapping
    BY <1>2, <2>1, <2>2, PreparedItems
  <2>5. /\ PackedParcel(p) = IF Packs(items, s) THEN s ELSE Bad
        /\ Archived(s, items, n, key, context)
    BY <1>2, <2>1, <2>2, <2>3, ParcelChunks
  <2>6. packed = s
    BY ONLY <1>2, <2>5
  <2>7. packed = PackGbyl(items, key, context)
    BY <1>2, <2>1 DEF PackedParcel, Archive
  <2>8. DecryptGbyl(packed, key, context) = items
    BY ONLY <1>2, <2>4, <2>7, GbylDecrypts
  <2>9. \A i \in 1..n : MediaKey(key, i - 1) # Bad
    <3>1. \A i \in 1..n : i - 1 \in 0..(MaxItems - 1)
      <4>1. MaxItems \in Nat
        BY DEF MaxItems
      <4>2. n \in Nat /\ n <= MaxItems
        BY <2>2, <2>4
      <4> QED
        BY ONLY <4>1, <4>2
    <3> QED
      BY ONLY <1>2, <3>1, KeyAssumption
  <2>10. \A archive \in DamagedGbyl(packed) :
            DecryptGbyl(archive, key, context) = Bad
    BY ONLY <2>4, <2>5, <2>6, <2>9, GbylDamage
  <2> QED
    BY ONLY <2>1, <2>8, <2>10
<1>3. MediaInv => DamageShows
  BY <1>1, <1>2 DEF DamageShows
<1> QED
  BY <1>3, MediaInvariant, PTL

-----------------------------------------------------------------------------
(* The chain, what a call has in hand, and what the screen shows. *)

KeyTx == [kind: {"key"}, keyId: Nat, block: Nat]
LetterTx ==
    [kind: {"letter"}, letter: {Honest, Foreign}, bytes: {Honest, Foreign},
     block: Nat, keyId: Nat, wrappedFor: Nat, text: Texts, items: Parcels,
     direct: BOOLEAN, honest: BOOLEAN]

LettersOf(ch) == {t \in DOMAIN ch : ch[t].kind = "letter"}
KeysOf(ch) == DOMAIN ch \ LettersOf(ch)
KeyCount(ch) == Cardinality(KeysOf(ch))
Latest(ch) == ch[Len(ch)].block

\* A letter packs, and this program wraps its key for the mailbox key it names.
WellSealed(l) ==
    /\ TextBytes(l) # Bad /\ Archive(Parcel(l)) # Bad
    /\ l.honest => l.letter = l.bytes /\ l.wrappedFor = l.keyId /\ l.direct
    /\ l.wrappedFor \in 1..MaxKeys

\* Every key id up to the current one is registered once.
RegisteredOnce(ch) ==
    /\ KeyCount(ch) \in 1..MaxKeys
    /\ \A t \in KeysOf(ch) : ch[t].keyId \in 1..KeyCount(ch)
    /\ \A k \in 1..KeyCount(ch) : \E t \in KeysOf(ch) : ch[t].keyId = k
    /\ \A t, u \in KeysOf(ch) : ch[t].keyId = ch[u].keyId => t = u

Mined(ch) ==
    /\ ch \in Seq(KeyTx \cup LetterTx) /\ Len(ch) > 0
    /\ \A t \in DOMAIN ch : ch[t].block > 0
LettersSealed(ch) ==
    \A t \in LettersOf(ch) :
        WellSealed(ch[t]) /\ ch[t].keyId \in 1..KeyCount(ch)
ChainOK(ch) == Mined(ch) /\ RegisteredOnce(ch) /\ LettersSealed(ch)

\* The letters before block n, and a list of all of a set, each once.
Before(ch, n) == {t \in LettersOf(ch) : ch[t].block < n}
Lists(s, S) ==
    /\ s \in Seq(S) /\ \A t \in S : \E i \in DOMAIN s : s[i] = t
    /\ \A i, j \in DOMAIN s : s[i] = s[j] => i = j

\* The ranges cover the blocks from n to head, in order and each once.
Chained(ranges, n, head) ==
    /\ ranges \in Seq([from: Nat, to: Nat])
    /\ Len(ranges) = 0 => n = head + 1
    /\ Len(ranges) > 0 => ranges[1].from = n /\ ranges[Len(ranges)].to = head
    /\ \A i \in 1..Len(ranges) :
          ranges[i].from <= ranges[i].to /\ ranges[i].to <= head
    /\ \A i \in 1..Len(ranges) : i + 1 <= Len(ranges) =>
          ranges[i + 1].from = ranges[i].to + 1

\* A refresh has all letters before the ranges it has not read yet.
Loading(call, ch) ==
    \E n \in Nat \ {0} : /\ Chained(call.ranges, n, call.head)
                         /\ n <= call.head + 1
                         /\ Lists(call.logs, Before(ch, n))

\* The seed, the archive and the key that a call has are those of its letter.
Proceeds(call, l, isPublished) ==
    /\ call.step = "unwrap" => isPublished
    /\ call.step \in {"key", "package", "unlock", "decrypt"} =>
          call.seed = Seed(l.keyId)
    /\ call.step \in {"unlock", "decrypt"} =>
          call.archive = Archive(Parcel(l))
    /\ call.step = "decrypt" => call.key = LetterKey(l.bytes)

CallOK(call, ch, isPublished) ==
    /\ call.kind \in {"idle", "refresh", "open", "code", "recover"}
    /\ call.head \in 0..Latest(ch)
    /\ call.kind \in {"open", "code", "recover"} => call.tx \in LettersOf(ch)
    /\ call.kind = "refresh" /\ call.step = "head" => call.logs = << >>
    /\ call.kind = "refresh" /\ call.step = "page" => Loading(call, ch)
    /\ call.kind \in {"open", "recover"} =>
          Proceeds(call, ch[call.tx], isPublished)

ListOK(letters, head, ch) ==
    /\ head \in 0..Latest(ch) /\ Lists(letters, Before(ch, head + 1))
    /\ \A i, j \in DOMAIN letters :
          i < j => ch[letters[i]].block >= ch[letters[j]].block
ErrorOK(error, ch) ==
    /\ error \in [tx: LettersOf(ch) \cup {NoTx}, reason: Reasons]
    /\ error.reason \in {"envelopes", "key", "calldata", "letterKey", "content"}
       => error.tx \in LettersOf(ch) /\ ~ch[error.tx].honest
Authentic(opened, l) ==
    /\ l.letter = l.bytes /\ opened.message = [l.text EXCEPT !.mark = FALSE]
    /\ opened.media = l.items
OpenedOK(opened, tx, ch) ==
    opened # Bad => tx \in LettersOf(ch) /\ Authentic(opened, ch[tx])
ScreenOK(b, ch) ==
    /\ ListOK(b.letters, b.head, ch) /\ ErrorOK(b.error, ch)
    /\ OpenedOK(b.opened, b.openedTx, ch)
    /\ b.selected \in LettersOf(ch) \cup {NoTx}
    /\ b.openedTx \in LettersOf(ch) \cup {NoTx}
    /\ b.recovery \in LettersOf(ch) \cup {NoTx}
    /\ b.codeSent \in BOOLEAN

WorldOK ==
    /\ ChainOK(chain) /\ passkeys \subseteq 1..MaxKeys
    /\ published \in BOOLEAN /\ clock \in BOOLEAN
    /\ boxFaults \in 0..MaxBoxFaults
InboxInv ==
    /\ WorldOK /\ ScreenOK(box, chain)
    /\ \A c \in Slot : CallOK(calls[c], chain, published)

\* The model's sets of transactions are those of the chain.
LEMMA OfChain ==
    ASSUME ChainOK(chain)
    PROVE  /\ Tx = DOMAIN chain /\ Letters = LettersOf(chain)
           /\ Keys = KeysOf(chain)
           /\ CurrentKeyId = KeyCount(chain) /\ LatestBlock = Latest(chain)
           /\ Latest(chain) \in Nat \ {0}
<1>1. /\ Tx = DOMAIN chain /\ Letters = LettersOf(chain)
      /\ Keys = KeysOf(chain)
  BY DEF Tx, Letters, IsLetter, LettersOf, Keys, KeysOf
<1>2. CurrentKeyId = KeyCount(chain)
  BY <1>1 DEF CurrentKeyId, KeyCount
<1>3. chain \in Seq(KeyTx \cup LetterTx) /\ Len(chain) > 0
  BY DEF ChainOK, Mined
<1>4. chain # << >>
  BY <1>3
<1>5. LatestBlock = Latest(chain)
  BY <1>4 DEF LatestBlock, Latest
<1>6. Len(chain) \in DOMAIN chain
  BY <1>3
<1>7. chain[Len(chain)] \in KeyTx \cup LetterTx
  BY <1>3, <1>6
<1>8. chain[Len(chain)].block \in Nat
  BY <1>7 DEF KeyTx, LetterTx
<1>9. chain[Len(chain)].block > 0
  BY <1>6 DEF ChainOK, Mined
<1> QED
  BY <1>1, <1>2, <1>5, <1>8, <1>9 DEF Latest

\* Transactions are records of their kind.
LEMMA TxOfChain ==
    ASSUME NEW ch, Mined(ch), NEW t \in DOMAIN ch
    PROVE  /\ ch[t] \in KeyTx \cup LetterTx /\ ch[t].block \in Nat \ {0}
           /\ t \in LettersOf(ch) <=> ch[t].kind = "letter"
           /\ t \in LettersOf(ch) => ch[t] \in LetterTx
           /\ t \in KeysOf(ch) => ch[t] \in KeyTx
           /\ t \in Nat \ {0}
<1>1. ch \in Seq(KeyTx \cup LetterTx)
  BY DEF Mined
<1>2. ch[t] \in KeyTx \cup LetterTx /\ t \in Nat \ {0}
  BY <1>1
<1>3. t \in LettersOf(ch) <=> ch[t].kind = "letter"
  BY DEF LettersOf
<1>4. /\ ch[t].kind = "letter" => ch[t] \in LetterTx
      /\ ch[t].kind # "letter" => ch[t] \in KeyTx
  BY <1>2 DEF KeyTx, LetterTx
<1>5. ch[t].block \in Nat
  BY <1>2 DEF KeyTx, LetterTx
<1>6. ch[t].block > 0
  BY DEF Mined
<1> QED
  BY <1>2, <1>3, <1>4, <1>5, <1>6 DEF KeysOf

\* A transaction is mined: the others stay where they are.
Grows(ch, tx, next) ==
    /\ Mined(next) /\ Latest(next) = tx.block
    /\ DOMAIN next = DOMAIN ch \cup {Len(ch) + 1}
    /\ Len(ch) + 1 \notin DOMAIN ch /\ next[Len(ch) + 1] = tx
    /\ \A t \in DOMAIN ch : next[t] = ch[t]

LEMMA Mines ==
    ASSUME NEW ch, Mined(ch), NEW tx \in KeyTx \cup LetterTx, tx.block > 0,
           NEW next, next = Append(ch, tx)
    PROVE  Grows(ch, tx, next)
<1>1. ch \in Seq(KeyTx \cup LetterTx) /\ Len(ch) > 0
  BY DEF Mined
<1>2. PICK S : S = KeyTx \cup LetterTx
  OBVIOUS
<1>3. /\ next \in Seq(S) /\ Len(next) = Len(ch) + 1
      /\ DOMAIN next = 1..(Len(ch) + 1) /\ DOMAIN ch = 1..Len(ch)
      /\ next[Len(ch) + 1] = tx /\ \A t \in 1..Len(ch) : next[t] = ch[t]
      /\ Len(ch) \in Nat
  BY <1>1, <1>2
<1>4. /\ DOMAIN next = DOMAIN ch \cup {Len(ch) + 1}
      /\ Len(ch) + 1 \notin DOMAIN ch
  BY <1>3
<1>5. Mined(next)
  <2>1. \A t \in DOMAIN next : next[t].block > 0
    BY <1>3, <1>4 DEF Mined
  <2> QED
    BY <1>2, <1>3, <2>1 DEF Mined
<1> QED
  BY <1>3, <1>4, <1>5 DEF Latest, Grows

\* What a mined transaction adds to the letters and to the keys.
LEMMA MinedSets ==
    ASSUME NEW ch, Mined(ch), NEW tx \in KeyTx \cup LetterTx, tx.block > 0,
           NEW next, next = Append(ch, tx)
    PROVE  /\ tx.kind = "letter" =>
                 /\ LettersOf(next) = LettersOf(ch) \cup {Len(ch) + 1}
                 /\ KeysOf(next) = KeysOf(ch)
           /\ tx.kind # "letter" =>
                 /\ KeysOf(next) = KeysOf(ch) \cup {Len(ch) + 1}
                 /\ LettersOf(next) = LettersOf(ch)
           /\ LettersOf(ch) \subseteq LettersOf(next)
           /\ LettersOf(ch) \subseteq DOMAIN ch
<1>1. /\ DOMAIN next = DOMAIN ch \cup {Len(ch) + 1}
      /\ Len(ch) + 1 \notin DOMAIN ch /\ next[Len(ch) + 1] = tx
      /\ \A t \in DOMAIN ch : next[t] = ch[t]
  BY Mines DEF Grows
<1> QED
  BY <1>1 DEF LettersOf, KeysOf

\* It does not change the letters of the blocks that were read.
LEMMA MinedBefore ==
    ASSUME NEW ch, Mined(ch), NEW tx \in KeyTx \cup LetterTx, tx.block > 0,
           NEW next, next = Append(ch, tx), NEW n \in Nat, tx.block >= n
    PROVE  Before(next, n) = Before(ch, n)
<1>1. /\ DOMAIN next = DOMAIN ch \cup {Len(ch) + 1}
      /\ next[Len(ch) + 1] = tx /\ \A t \in DOMAIN ch : next[t] = ch[t]
  BY Mines DEF Grows
<1>2. tx.block \in Nat
  BY DEF KeyTx, LetterTx
<1>3. ~(tx.block < n)
  BY <1>2
<1> QED
  BY <1>1, <1>3 DEF Before, LettersOf

\* A call and a screen that saw the chain before it see no difference.
LEMMA CallStays ==
    ASSUME NEW ch, Mined(ch), NEW tx \in KeyTx \cup LetterTx, tx.block > 0,
           NEW next, next = Append(ch, tx), Latest(ch) \in Nat,
           tx.block >= Latest(ch), NEW isPublished,
           NEW call, CallOK(call, ch, isPublished), call.head < tx.block
    PROVE  CallOK(call, next, isPublished)
<1>1. /\ DOMAIN ch \subseteq DOMAIN next /\ Latest(next) = tx.block
      /\ \A t \in DOMAIN ch : next[t] = ch[t]
  <2>1. Grows(ch, tx, next)
    BY Mines
  <2> QED
    BY <2>1 DEF Grows
<1>2. tx.block \in Nat
  BY DEF KeyTx, LetterTx
<1>3. /\ LettersOf(ch) \subseteq LettersOf(next)
      /\ LettersOf(ch) \subseteq DOMAIN ch
  BY MinedSets
<1>4. call.head \in 0..Latest(next)
  BY <1>1, <1>2 DEF CallOK
<1>5. call.kind \in {"open", "code", "recover"} =>
          call.tx \in LettersOf(next) /\ next[call.tx] = ch[call.tx]
  BY <1>1, <1>3 DEF CallOK
<1>6. ASSUME call.kind = "refresh", call.step = "page"
      PROVE  Loading(call, next)
  <2>1. PICK n \in Nat \ {0} :
            /\ Chained(call.ranges, n, call.head) /\ n <= call.head + 1
            /\ Lists(call.logs, Before(ch, n))
    BY <1>6 DEF CallOK, Loading
  <2>2. call.head \in Nat
    BY DEF CallOK
  <2>3. tx.block >= n
    BY <1>2, <2>1, <2>2
  <2>4. Before(next, n) = Before(ch, n)
    BY <2>3, MinedBefore
  <2> QED
    BY <2>1, <2>4 DEF Loading
<1>7. call.kind \in {"open", "recover"} =>
          Proceeds(call, next[call.tx], isPublished)
  BY <1>5 DEF CallOK
<1> QED
  BY <1>4, <1>5, <1>6, <1>7 DEF CallOK

LEMMA ScreenStays ==
    ASSUME NEW ch, Mined(ch), NEW tx \in KeyTx \cup LetterTx, tx.block > 0,
           NEW next, next = Append(ch, tx), Latest(ch) \in Nat,
           tx.block >= Latest(ch),
           NEW b, ScreenOK(b, ch), b.head < tx.block
    PROVE  ScreenOK(b, next)
<1>1. /\ DOMAIN ch \subseteq DOMAIN next /\ Latest(next) = tx.block
      /\ \A t \in DOMAIN ch : next[t] = ch[t]
  <2>1. Grows(ch, tx, next)
    BY Mines
  <2> QED
    BY <2>1 DEF Grows
<1>2. tx.block \in Nat
  BY DEF KeyTx, LetterTx
<1>3. /\ LettersOf(ch) \subseteq LettersOf(next)
      /\ LettersOf(ch) \subseteq DOMAIN ch
  BY MinedSets
<1>4. ListOK(b.letters, b.head, next)
  <2>1. b.head \in Nat /\ b.head \in 0..Latest(next)
    BY <1>1, <1>2 DEF ScreenOK, ListOK
  <2>2. PICK n \in Nat : n = b.head + 1
    BY <2>1
  <2>3. tx.block >= n
    BY <1>2, <2>1, <2>2
  <2>4. Before(next, n) = Before(ch, n)
    BY <2>3, MinedBefore
  <2>5. Lists(b.letters, Before(next, b.head + 1))
    BY <2>2, <2>4 DEF ScreenOK, ListOK
  <2>6. \A i \in DOMAIN b.letters : b.letters[i] \in DOMAIN ch
    BY <1>3 DEF ScreenOK, ListOK, Lists, Before
  <2>7. \A i, j \in DOMAIN b.letters :
            i < j => next[b.letters[i]].block >= next[b.letters[j]].block
    BY <1>1, <2>6 DEF ScreenOK, ListOK
  <2> QED
    BY <2>1, <2>5, <2>7 DEF ListOK
<1>5. ErrorOK(b.error, next)
  BY <1>1, <1>3 DEF ScreenOK, ErrorOK
<1>6. OpenedOK(b.opened, b.openedTx, next)
  BY <1>1, <1>3 DEF ScreenOK, OpenedOK
<1> QED
  BY <1>3, <1>4, <1>5, <1>6 DEF ScreenOK

\* A letter is sealed under the current key.
LEMMA LetterMined ==
    ASSUME NEW ch, ChainOK(ch), NEW tx \in LetterTx, tx.block > 0,
           WellSealed(tx), tx.keyId = KeyCount(ch),
           NEW next, next = Append(ch, tx)
    PROVE  ChainOK(next)
<1>1. Mined(ch) /\ RegisteredOnce(ch) /\ LettersSealed(ch)
  BY DEF ChainOK
<1>2. /\ Mined(next) /\ next[Len(ch) + 1] = tx
      /\ \A t \in DOMAIN ch : next[t] = ch[t]
  <2>1. Grows(ch, tx, next)
    BY <1>1, Mines
  <2> QED
    BY <2>1 DEF Grows
<1>3. tx.kind = "letter"
  BY DEF LetterTx
<1>4. /\ LettersOf(next) = LettersOf(ch) \cup {Len(ch) + 1}
      /\ KeysOf(next) = KeysOf(ch)
      /\ LettersOf(ch) \subseteq DOMAIN ch
  BY <1>1, <1>3, MinedSets
<1>5. KeyCount(next) = KeyCount(ch) /\ KeysOf(ch) \subseteq DOMAIN ch
  BY <1>4 DEF KeyCount, KeysOf
<1>6. RegisteredOnce(next)
  <2>1. \A t \in KeysOf(ch) : next[t].keyId = ch[t].keyId
    BY <1>2, <1>5
  <2>2. \A k \in 1..KeyCount(ch) : \E t \in KeysOf(ch) : next[t].keyId = k
    BY <1>1, <2>1 DEF RegisteredOnce
  <2>3. /\ KeyCount(ch) \in 1..MaxKeys
        /\ \A t \in KeysOf(ch) : next[t].keyId \in 1..KeyCount(ch)
        /\ \A t, u \in KeysOf(ch) : next[t].keyId = next[u].keyId => t = u
    BY <1>1, <2>1 DEF RegisteredOnce
  <2> QED
    BY <1>4, <1>5, <2>2, <2>3 DEF RegisteredOnce
<1>7. LettersSealed(next)
  <2>1. KeyCount(ch) \in 1..KeyCount(ch)
    BY <1>1 DEF RegisteredOnce
  <2> QED
    BY <1>1, <1>2, <1>4, <1>5, <2>1 DEF LettersSealed
<1> QED
  BY <1>2, <1>6, <1>7 DEF ChainOK

\* The next key is registered.
LEMMA KeyMined ==
    ASSUME NEW ch, ChainOK(ch), NEW tx \in KeyTx, tx.block > 0,
           KeyCount(ch) < MaxKeys, tx.keyId = KeyCount(ch) + 1,
           NEW next, next = Append(ch, tx)
    PROVE  ChainOK(next)
<1>1. Mined(ch) /\ RegisteredOnce(ch) /\ LettersSealed(ch)
  BY DEF ChainOK
<1>2. /\ Mined(next) /\ next[Len(ch) + 1] = tx
      /\ Len(ch) + 1 \notin DOMAIN ch
      /\ \A t \in DOMAIN ch : next[t] = ch[t]
  <2>1. Grows(ch, tx, next)
    BY <1>1, Mines
  <2> QED
    BY <2>1 DEF Grows
<1>3. tx.kind # "letter"
  BY DEF KeyTx
<1>4. /\ KeysOf(next) = KeysOf(ch) \cup {Len(ch) + 1}
      /\ LettersOf(next) = LettersOf(ch)
      /\ LettersOf(ch) \subseteq DOMAIN ch
      /\ KeysOf(ch) \subseteq DOMAIN ch
  BY <1>1, <1>3, MinedSets DEF KeysOf
<1>5. KeyCount(next) = KeyCount(ch) + 1
  <2>1. IsFiniteSet(DOMAIN ch)
    <3>1. DOMAIN ch = 1..Len(ch) /\ Len(ch) \in Nat
      BY <1>1 DEF Mined
    <3> QED
      BY <3>1, FS_Interval
  <2>2. IsFiniteSet(KeysOf(ch))
    BY <1>4, <2>1, FS_Subset
  <2>3. Len(ch) + 1 \notin KeysOf(ch)
    BY <1>2, <1>4
  <2> QED
    BY <1>4, <2>2, <2>3, FS_AddElement DEF KeyCount
<1>6. PICK k \in Nat : k = KeyCount(ch)
  BY <1>1 DEF RegisteredOnce
<1>7. \A t \in KeysOf(ch) : next[t].keyId \in 1..k
  BY <1>1, <1>2, <1>4, <1>6 DEF RegisteredOnce
<1>8. next[Len(ch) + 1].keyId = k + 1 /\ k + 1 \in 1..MaxKeys
  <2>1. MaxKeys \in Nat
    BY InboxAssumption
  <2> QED
    BY <1>2, <1>6, <2>1
<1>9. RegisteredOnce(next)
  <2>1. \A t \in KeysOf(next) : next[t].keyId \in 1..(k + 1)
    BY <1>4, <1>7, <1>8
  <2>2. ASSUME NEW i \in 1..(k + 1)
        PROVE  \E t \in KeysOf(next) : next[t].keyId = i
    <3>1. CASE i = k + 1
      BY <1>4, <1>8, <3>1
    <3>2. CASE i # k + 1
      <4>1. i \in 1..k
        BY <3>2
      <4>2. PICK t \in KeysOf(ch) : ch[t].keyId = i
        BY <1>1, <1>6, <4>1 DEF RegisteredOnce
      <4> QED
        BY <1>2, <1>4, <4>2
    <3> QED
      BY <3>1, <3>2
  <2>3. ASSUME NEW t \in KeysOf(next), NEW u \in KeysOf(next),
               next[t].keyId = next[u].keyId
        PROVE  t = u
    <3>1. CASE t \in KeysOf(ch) /\ u \in KeysOf(ch)
      BY <1>1, <1>2, <1>4, <2>3, <3>1 DEF RegisteredOnce
    <3>2. CASE t \notin KeysOf(ch) \/ u \notin KeysOf(ch)
      <4>1. k + 1 \notin 1..k
        OBVIOUS
      <4> QED
        BY <1>4, <1>7, <1>8, <2>3, <3>2, <4>1
    <3> QED
      BY <3>1, <3>2
  <2> QED
    BY <1>5, <1>6, <1>8, <2>1, <2>2, <2>3 DEF RegisteredOnce
<1>10. LettersSealed(next)
  <2>1. \A i \in 1..k : i \in 1..(k + 1)
    OBVIOUS
  <2> QED
    BY <1>1, <1>2, <1>4, <1>5, <1>6, <2>1 DEF LettersSealed
<1> QED
  BY <1>2, <1>9, <1>10 DEF ChainOK

\* What a mined transaction leaves alone.
LEMMA ChainGrows ==
    ASSUME InboxInv, NEW tx \in KeyTx \cup LetterTx, tx.block > 0,
           chain' = Append(chain, tx), ChainOK(chain'),
           tx.block >= LatestBlock, box.head < tx.block,
           \A c \in Slot : calls[c].head < tx.block,
           UNCHANGED <<published, clock, box, calls, boxFaults>>,
           passkeys' \subseteq 1..MaxKeys
    PROVE  InboxInv'
<1>1. ChainOK(chain) /\ Mined(chain) /\ ScreenOK(box, chain)
  BY DEF InboxInv, WorldOK, ChainOK
<1>2. Latest(chain) \in Nat /\ tx.block >= Latest(chain)
  BY <1>1, OfChain
<1>3. ScreenOK(box, chain)'
  <2>1. ScreenOK(box, chain')
    BY <1>1, <1>2, ScreenStays
  <2> QED
    BY <2>1
<1>4. ASSUME NEW c \in Slot PROVE CallOK(calls'[c], chain', published')
  <2>1. CallOK(calls[c], chain, published) /\ calls[c].head < tx.block
    BY DEF InboxInv
  <2>2. CallOK(calls[c], chain', published)
    BY <1>1, <1>2, <2>1, CallStays
  <2> QED
    BY <2>2
<1>5. WorldOK'
  BY DEF InboxInv, WorldOK
<1> QED
  BY <1>3, <1>4, <1>5 DEF InboxInv

LEMMA HeadsSeen ==
    ASSUME InboxInv
    PROVE  /\ LatestBlock \in Nat \ {0} /\ box.head \in 0..LatestBlock
           /\ \A c \in Slot : calls[c].head \in 0..LatestBlock
<1>1. LatestBlock = Latest(chain) /\ Latest(chain) \in Nat \ {0}
  BY OfChain DEF InboxInv, WorldOK
<1>2. box.head \in 0..Latest(chain)
  BY DEF InboxInv, ScreenOK, ListOK
<1>3. \A c \in Slot : calls[c].head \in 0..Latest(chain)
  BY DEF InboxInv, CallOK
<1> QED
  BY <1>1, <1>2, <1>3

LEMMA RotateInv ==
    ASSUME InboxInv, RotateKey
    PROVE  InboxInv'
<1>1. PICK k \in Nat : k = CurrentKeyId
  BY OfChain DEF InboxInv, WorldOK, ChainOK, RegisteredOnce
<1>2. PICK block \in Nat : block = LatestBlock + 1
  BY HeadsSeen
<1>3. PICK tx : tx = Registration(k + 1, block)
  OBVIOUS
<1>4. tx \in KeyTx /\ tx.keyId = k + 1 /\ tx.block = block
  BY <1>3 DEF Registration, KeyTx
<1>5. /\ chain' = Append(chain, tx) /\ k < MaxKeys
      /\ passkeys' = passkeys \cup {k + 1}
      /\ UNCHANGED <<published, clock, box, calls, boxFaults>>
  BY <1>1, <1>2, <1>3 DEF RotateKey
<1>6. ChainOK(chain')
  <2>1. ChainOK(chain) /\ k = KeyCount(chain)
    BY <1>1, OfChain DEF InboxInv, WorldOK
  <2>2. tx.block > 0
    BY <1>2, <1>4, HeadsSeen
  <2> QED
    BY <1>4, <1>5, <2>1, <2>2, KeyMined
<1>7. passkeys' \subseteq 1..MaxKeys
  <2>1. k + 1 \in 1..MaxKeys
    BY <1>5, InboxAssumption
  <2> QED
    BY <1>5, <2>1 DEF InboxInv, WorldOK
<1>8. /\ tx.block > 0 /\ tx.block >= LatestBlock /\ box.head < tx.block
      /\ \A c \in Slot : calls[c].head < tx.block
  BY <1>2, <1>4, HeadsSeen
<1> QED
  BY <1>4, <1>5, <1>6, <1>7, <1>8, ChainGrows

\* Some client seals a letter.
LEMMA SealedInv ==
    ASSUME InboxInv, NEW letter \in LetterTx, WellSealed(letter),
           NEW block \in Nat, block >= LatestBlock, box.head < block,
           \A c \in Slot : calls[c].head < block,
           Sealed(letter, block)
    PROVE  InboxInv'
<1>1. PICK tx : tx = [letter EXCEPT !.block = block]
  OBVIOUS
<1>2. /\ tx \in LetterTx /\ tx.block = block /\ tx.keyId = letter.keyId
      /\ tx.text = letter.text /\ tx.bytes = letter.bytes
      /\ tx.items = letter.items /\ tx.honest = letter.honest
      /\ tx.letter = letter.letter /\ tx.direct = letter.direct
      /\ tx.wrappedFor = letter.wrappedFor
  BY <1>1 DEF LetterTx
<1>3. WellSealed(tx)
  <2>1. TextBytes(tx) = TextBytes(letter) /\ Parcel(tx) = Parcel(letter)
    BY <1>2 DEF TextBytes, Parcel
  <2> QED
    BY <1>2, <2>1 DEF WellSealed
<1>4. /\ chain' = Append(chain, tx) /\ letter.keyId = CurrentKeyId
      /\ UNCHANGED <<published, passkeys, clock, box, calls, boxFaults>>
  BY <1>1 DEF Sealed
<1>5. tx.block > 0
  BY <1>2, HeadsSeen
<1>6. ChainOK(chain')
  <2>1. ChainOK(chain) /\ tx.keyId = KeyCount(chain)
    BY <1>2, <1>4, OfChain DEF InboxInv, WorldOK
  <2> QED
    BY <1>2, <1>3, <1>4, <1>5, <2>1, LetterMined
<1>7. passkeys' \subseteq 1..MaxKeys
  BY <1>4 DEF InboxInv, WorldOK
<1> QED
  BY <1>2, <1>4, <1>5, <1>6, <1>7, ChainGrows

\* A letter for the current key can be mined in the next block.
LEMMA PackedLetter ==
    ASSUME InboxInv, NEW id \in {Honest, Foreign}, NEW text \in Texts,
           NEW items \in Parcels,
           NEW letter, letter = Pack(id, text, items, CurrentKeyId)
    PROVE  /\ letter \in LetterTx /\ letter.keyId \in 1..MaxKeys
           /\ letter.letter = letter.bytes /\ letter.wrappedFor = letter.keyId
           /\ letter.direct /\ letter.honest
<1>1. CurrentKeyId \in 1..MaxKeys
  BY OfChain DEF InboxInv, WorldOK, ChainOK, RegisteredOnce
<1> QED
  BY <1>1 DEF Pack, LetterTx

LEMMA SealParcelInv ==
    ASSUME InboxInv, SealParcel
    PROVE  InboxInv'
<1>1. PICK p \in Preparation :
          LET letter == Pack(Honest, HonestText, prep[p].items, CurrentKeyId)
          IN /\ prep[p].items \in Parcels
             /\ TextBytes(letter) # Bad /\ Archive(Parcel(letter)) # Bad
             /\ Sealed(letter, LatestBlock + 1)
  BY DEF SealParcel
<1>2. PICK letter :
          letter = Pack(Honest, HonestText, prep[p].items, CurrentKeyId)
  OBVIOUS
<1>3. PICK block \in Nat : block = LatestBlock + 1
  BY HeadsSeen
<1>4. /\ prep[p].items \in Parcels /\ TextBytes(letter) # Bad
      /\ Archive(Parcel(letter)) # Bad /\ Sealed(letter, block)
  BY <1>1, <1>2, <1>3
<1>5. /\ letter \in LetterTx /\ letter.keyId \in 1..MaxKeys
      /\ letter.letter = letter.bytes /\ letter.wrappedFor = letter.keyId
      /\ letter.direct
  BY <1>2, <1>4, PackedLetter DEF Texts
<1>6. WellSealed(letter)
  BY <1>4, <1>5 DEF WellSealed
<1>7. /\ block >= LatestBlock /\ box.head < block
      /\ \A c \in Slot : calls[c].head < block
  BY <1>3, HeadsSeen
<1> QED
  BY <1>4, <1>5, <1>6, <1>7, SealedInv

LEMMA SealElsewhereInv ==
    ASSUME InboxInv, SealElsewhere
    PROVE  InboxInv'
<1>1. PICK letter \in ForeignLetters, block \in NextBlock :
          /\ TextBytes(letter) # Bad /\ Archive(Parcel(letter)) # Bad
          /\ Sealed(letter, block)
  BY DEF SealElsewhere
<1>2. /\ block \in Nat /\ block >= LatestBlock /\ box.head < block
      /\ \A c \in Slot : calls[c].head < block
  BY <1>1, HeadsSeen DEF NextBlock, Seen
<1>3. CurrentKeyId \in 1..MaxKeys
  BY OfChain DEF InboxInv, WorldOK, ChainOK, RegisteredOnce
<1>4. letter \in LetterTx /\ letter.wrappedFor \in 1..MaxKeys /\ ~letter.honest
  <2>1. PICK items \in Parcels : items = CHOOSE i \in Parcels : TRUE
    <3>1. \E i \in Parcels : TRUE
      BY DeliveryAssumption
    <3> QED
      BY <3>1, Zenon
  <2>2. PICK packed : packed = Pack(Foreign, ForeignText, items, CurrentKeyId)
    OBVIOUS
  <2>3. /\ packed \in LetterTx /\ packed.keyId \in 1..MaxKeys
        /\ packed.wrappedFor = packed.keyId
    BY <2>2, PackedLetter DEF Texts
  <2>4. PICK proper : proper = [packed EXCEPT !.honest = FALSE]
    OBVIOUS
  <2>5. /\ proper \in LetterTx /\ proper.wrappedFor \in 1..MaxKeys
        /\ proper.honest = FALSE
    BY <2>3, <2>4 DEF LetterTx
  <2>6. \/ letter = proper \/ letter = [proper EXCEPT !.direct = FALSE]
        \/ \E k \in 1..(CurrentKeyId - 1) :
              letter = [proper EXCEPT !.wrappedFor = k]
        \/ \E t \in Letters :
              letter = [chain[t] EXCEPT !.letter = Foreign,
                           !.keyId = CurrentKeyId, !.honest = FALSE]
    BY <2>1, <2>2, <2>4 DEF ForeignLetters
  <2>7. CASE letter = proper \/ letter = [proper EXCEPT !.direct = FALSE]
    BY <2>5, <2>7 DEF LetterTx
  <2>8. ASSUME NEW k \in 1..(CurrentKeyId - 1),
               letter = [proper EXCEPT !.wrappedFor = k]
        PROVE  letter \in LetterTx /\ letter.wrappedFor \in 1..MaxKeys
               /\ ~letter.honest
    <3>1. k \in Nat /\ k \in 1..MaxKeys
      BY <1>3, InboxAssumption
    <3> QED
      BY <2>5, <2>8, <3>1 DEF LetterTx
  <2>9. ASSUME NEW t \in Letters,
               letter = [chain[t] EXCEPT !.letter = Foreign,
                            !.keyId = CurrentKeyId, !.honest = FALSE]
        PROVE  letter \in LetterTx /\ letter.wrappedFor \in 1..MaxKeys
               /\ ~letter.honest
    <3>1. /\ chain[t] \in LetterTx /\ chain[t].wrappedFor \in 1..MaxKeys
      <4>1. ChainOK(chain) /\ t \in LettersOf(chain) /\ t \in DOMAIN chain
        BY OfChain DEF InboxInv, WorldOK, LettersOf
      <4> QED
        BY <4>1, TxOfChain DEF ChainOK, LettersSealed, WellSealed
    <3>2. CurrentKeyId \in Nat
      BY <1>3
    <3> QED
      BY <2>9, <3>1, <3>2 DEF LetterTx
  <2> QED
    BY <2>6, <2>7, <2>8, <2>9
<1>5. WellSealed(letter)
  BY <1>1, <1>4 DEF WellSealed
<1> QED
  BY <1>1, <1>2, <1>4, <1>5, SealedInv

-----------------------------------------------------------------------------
(* Lists of letters. *)

\* A list has as many entries as its set, and lists of disjoint sets make one
\* of both.
LEMMA NoneListed == Lists(<< >>, {})
  BY DEF Lists

LEMMA ListCount ==
    ASSUME NEW s, NEW S, Lists(s, S)
    PROVE  Cardinality(S) = Len(s)
<1>1. s \in Seq(S) /\ Len(s) \in Nat /\ DOMAIN s = 1..Len(s)
  BY DEF Lists
<1>2. s \in [1..Len(s) -> S]
  BY <1>1
<1>3. \A i, j \in 1..Len(s) : s[i] = s[j] => i = j
  BY <1>1 DEF Lists
<1>4. \A t \in S : \E i \in 1..Len(s) : s[i] = t
  BY <1>1 DEF Lists
<1>5. s \in Bijection(1..Len(s), S)
  BY <1>2, <1>3, <1>4 DEF Bijection, Injection, Surjection, IsInjective
<1>6. ExistsBijection(1..Len(s), S)
  BY <1>5 DEF ExistsBijection
<1> QED
  BY <1>1, <1>6, FS_CountingElements

LEMMA ListsBoth ==
    ASSUME NEW a, NEW A, Lists(a, A), NEW b, NEW B, Lists(b, B), A \cap B = {}
    PROVE  Lists(a \o b, A \cup B)
<1>1. PICK S : S = A \cup B
  OBVIOUS
<1>2. a \in Seq(S) /\ b \in Seq(S)
  BY <1>1 DEF Lists
<1>3. PICK s : s = a \o b
  OBVIOUS
<1>4. /\ a \o b \in Seq(S) /\ Len(a \o b) = Len(a) + Len(b)
      /\ \A i \in 1..Len(a) : (a \o b)[i] = a[i]
      /\ \A i \in 1..Len(b) : (a \o b)[Len(a) + i] = b[i]
  BY ONLY <1>2, Concatenated
<1>5. PICK m \in Nat, n \in Nat : m = Len(a) /\ n = Len(b)
  BY <1>2
<1>6. /\ s \in Seq(S) /\ DOMAIN s = 1..(m + n)
      /\ DOMAIN a = 1..m /\ DOMAIN b = 1..n
      /\ \A i \in 1..m : s[i] = a[i]
      /\ \A i \in 1..n : s[m + i] = b[i]
  BY <1>2, <1>3, <1>4, <1>5
<1>7. ASSUME NEW i \in 1..(m + n)
      PROVE  \/ i \in 1..m /\ s[i] = a[i] /\ a[i] \in A
             \/ i - m \in 1..n /\ s[i] = b[i - m] /\ b[i - m] \in B
  <2>1. CASE i <= m
    BY <1>6, <2>1 DEF Lists
  <2>2. CASE ~(i <= m)
    <3>1. PICK k \in 1..n : k = i - m
      BY <2>2
    <3>2. m + k = i
      BY <3>1
    <3>3. s[i] = b[k] /\ b[k] \in B
      BY <1>6, <3>2 DEF Lists
    <3> QED
      BY <3>1, <3>3
  <2> QED
    BY <2>1, <2>2
<1>8. ASSUME NEW t \in S PROVE \E i \in DOMAIN s : s[i] = t
  <2>1. CASE t \in A
    <3>1. PICK i \in 1..m : a[i] = t
      BY <1>6, <2>1 DEF Lists
    <3>2. i \in DOMAIN s /\ s[i] = t
      BY <1>6, <3>1
    <3> QED
      BY <3>2
  <2>2. CASE t \in B
    <3>1. PICK i \in 1..n : b[i] = t
      BY <1>6, <2>2 DEF Lists
    <3>2. m + i \in DOMAIN s /\ s[m + i] = t
      BY <1>6, <3>1
    <3> QED
      BY <3>2
  <2> QED
    BY <1>1, <2>1, <2>2
<1>9. ASSUME NEW i \in DOMAIN s, NEW j \in DOMAIN s, s[i] = s[j]
      PROVE  i = j
  <2>1. i \in 1..(m + n) /\ j \in 1..(m + n)
    BY <1>6
  <2>2. CASE i \in 1..m /\ j \in 1..m
    BY <1>6, <1>9, <2>2 DEF Lists
  <2>3. CASE i - m \in 1..n /\ j - m \in 1..n
    <3>1. b[i - m] = b[j - m]
      <4>1. ~(i \in 1..m) /\ ~(j \in 1..m)
        BY <2>3
      <4> QED
        BY <1>7, <1>9, <2>1, <4>1
    <3>2. i - m = j - m
      BY <1>6, <2>3, <3>1 DEF Lists
    <3> QED
      BY <2>1, <3>2
  <2>4. CASE (i \in 1..m) # (j \in 1..m)
    BY <1>7, <1>9, <2>1, <2>4
  <2>5. \A k \in 1..(m + n) : k \in 1..m \/ k - m \in 1..n
    OBVIOUS
  <2> QED
    BY <2>1, <2>2, <2>3, <2>4, <2>5
<1> QED
  BY <1>1, <1>3, <1>6, <1>8, <1>9 DEF Lists

\* What getLogs answers are the letters of the range, each once.
LEMMA LogsListed ==
    ASSUME ChainOK(chain), NEW r, NEW logs \in Logs(r)
    PROVE  Lists(logs, Found(r))
<1>1. IsFiniteSet(Found(r))
  <2>1. Mined(chain)
    BY DEF ChainOK
  <2>2. DOMAIN chain = 1..Len(chain) /\ Len(chain) \in Nat
    BY <2>1 DEF Mined
  <2>3. IsFiniteSet(DOMAIN chain)
    BY <2>2, FS_Interval
  <2>4. Found(r) \subseteq DOMAIN chain
    BY DEF Found, Letters, Tx
  <2> QED
    BY <2>3, <2>4, FS_Subset
<1>2. PICK n \in Nat : n = Cardinality(Found(r))
  BY <1>1, FS_CardinalityType
<1>3. /\ logs \in [1..n -> Found(r)]
      /\ \A i, j \in 1..n : i < j => logs[i] < logs[j]
  BY <1>2 DEF Logs
<1>4. ASSUME NEW i \in 1..n, NEW j \in 1..n, logs[i] = logs[j]
      PROVE  i = j
  <2>1. logs[i] \in Nat
    <3>1. logs[i] \in DOMAIN chain
      BY <1>3 DEF Found, Letters, Tx
    <3> QED
      BY <3>1, TxOfChain DEF ChainOK
  <2>2. ~(logs[i] < logs[j]) /\ ~(logs[j] < logs[i])
    BY <1>4, <2>1
  <2> QED
    BY <1>3, <2>2
<1>5. logs \in Injection(1..n, Found(r))
  BY <1>3, <1>4 DEF Injection, IsInjective
<1>6. IsFiniteSet(1..n) /\ Cardinality(1..n) = n
  <2>1. Cardinality(1..n) = IF 1 > n THEN 0 ELSE n - 1 + 1
    BY FS_Interval
  <2> QED
    BY <2>1, FS_Interval
<1>7. logs \in Surjection(1..n, Found(r))
  BY <1>1, <1>2, <1>5, <1>6, FS_Injection
<1>8. \A t \in Found(r) : \E i \in 1..n : logs[i] = t
  BY <1>7 DEF Surjection
<1>9. logs \in Seq(Found(r)) /\ DOMAIN logs = 1..n
  BY <1>3
<1> QED
  BY <1>4, <1>8, <1>9 DEF Lists

-----------------------------------------------------------------------------
(* Pages of blocks. *)

\* Facts about quotients, for a divisor that is not a number.
LEMMA Multiples ==
    ASSUME NEW i \in Nat, NEW q \in Nat, NEW p \in Nat, i <= q
    PROVE  i * p <= q * p /\ i * p \in Nat
  OBVIOUS

LEMMA QuotientBounds ==
    ASSUME NEW a \in Nat, NEW p \in Nat \ {0}, NEW q \in Int,
           NEW r \in 0..(p - 1), a = p * q + r
    PROVE  q \in Nat /\ q * p <= a /\ a < q * p + p
  OBVIOUS

LEMMA Divided ==
    ASSUME NEW a \in Nat, NEW p \in Nat \ {0}
    PROVE  \E q \in Nat : q = a \div p /\ q * p <= a /\ a < q * p + p
<1>1. PICK q \in Int : q = a \div p
  OBVIOUS
<1>2. PICK r \in 0..(p - 1) : r = a % p
  OBVIOUS
<1>3. a = p * q + r
  BY <1>1, <1>2
<1>4. q \in Nat /\ q * p <= a /\ a < q * p + p
  BY <1>3, QuotientBounds
<1> QED
  BY <1>1, <1>4

\* blockRanges covers the blocks from 1 to head.
LEMMA RangesChained ==
    ASSUME NEW head \in Nat \ {0}, NEW ranges, ranges = BlockRanges(1, head)
    PROVE  Chained(ranges, 1, head)
<1>1. PICK P \in Nat \ {0} : P = PageBlocks
  BY InboxAssumption
<1>2. PICK q \in Nat : /\ q = (head - 1) \div P
                       /\ q * P <= head - 1 /\ head - 1 < q * P + P
  BY Divided
<1>3. PICK n \in Nat \ {0} : n = q + 1
  OBVIOUS
<1>4. ranges = [i \in 1..n |->
                   [from |-> 1 + (i - 1) * P,
                    to |-> IF 1 + (i - 1) * P + (P - 1) < head
                           THEN 1 + (i - 1) * P + (P - 1) ELSE head]]
  <2>1. ~(head < 1)
    OBVIOUS
  <2> QED
    BY <1>1, <1>2, <1>3, <2>1 DEF BlockRanges, Pages
<1>5. ASSUME NEW i \in 1..n
      PROVE  /\ ranges[i].from = 1 + (i - 1) * P
             /\ (i - 1) * P \in Nat /\ ranges[i].from <= head
             /\ i < n => ranges[i].to = i * P /\ i * P <= head - 1
             /\ i = n => ranges[i].to = head
  <2>1. PICK k \in Nat : k = i - 1 /\ k <= q
    BY <1>3
  <2>2. k * P <= q * P /\ k * P \in Nat
    BY <2>1, Multiples
  <2>3. PICK kP \in Nat : kP = k * P
    BY <2>2
  <2>4. ranges[i] = [from |-> 1 + kP,
                     to |-> IF 1 + kP + (P - 1) < head
                            THEN 1 + kP + (P - 1) ELSE head]
    BY <1>4, <2>1, <2>3
  <2>5. ranges[i].from = 1 + kP
        /\ ranges[i].to = IF kP + P < head THEN kP + P ELSE head
    BY <2>4
  <2>6. i * P = kP + P
    BY <2>1, <2>3
  <2>7. CASE i < n
    <3>1. i * P <= q * P
      BY <1>3, <2>7, Multiples
    <3>2. kP + P <= head - 1
      BY <1>2, <2>6, <3>1
    <3> QED
      BY <1>2, <2>1, <2>2, <2>3, <2>5, <2>6, <2>7, <3>2
  <2>8. CASE i = n
    <3>1. k = q
      BY <1>3, <2>1, <2>8
    <3>2. kP <= head - 1 /\ head - 1 < kP + P
      BY <1>2, <2>3, <3>1
    <3> QED
      BY <2>1, <2>3, <2>5, <2>8, <3>2
  <2> QED
    BY <1>3, <2>7, <2>8
<1>6. ASSUME NEW i \in 1..n
      PROVE  /\ ranges[i] \in [from: Nat, to: Nat]
             /\ ranges[i].from <= ranges[i].to /\ ranges[i].to <= head
  <2>1. PICK f \in Nat : f = 1 + (i - 1) * P /\ f <= head
    BY <1>5
  <2>2. PICK t \in Nat : t = IF f + (P - 1) < head THEN f + (P - 1) ELSE head
    OBVIOUS
  <2>3. ranges[i] = [from |-> f, to |-> t]
    BY <1>4, <2>1, <2>2
  <2> QED
    BY <2>1, <2>2, <2>3
<1>7. ranges \in Seq([from: Nat, to: Nat]) /\ Len(ranges) = n
  <2>1. PICK S : S = [from: Nat, to: Nat]
    OBVIOUS
  <2>5. \A i \in 1..n : ranges[i] \in S
    BY <1>6, <2>1
  <2>6. DOMAIN ranges = 1..n /\ ranges = [i \in 1..n |-> ranges[i]]
    BY <1>4
  <2>7. ranges \in [1..n -> S]
    BY <2>5, <2>6
  <2>8. ranges \in Seq(S)
    BY <2>7
  <2>2. ranges \in Seq([from: Nat, to: Nat])
    BY <2>1, <2>8
  <2>3. DOMAIN ranges = 1..n
    BY <1>4
  <2>4. Len(ranges) = n
    BY <2>8, <2>3
  <2> QED
    BY <2>2, <2>4
<1>8. ASSUME NEW i \in 1..n, i + 1 <= n
      PROVE  ranges[i + 1].from = ranges[i].to + 1
  <2>1. PICK j \in 1..n : j = i + 1
    BY <1>8
  <2>2. ranges[j].from = 1 + (j - 1) * P
    BY <1>5
  <2>3. (j - 1) * P = i * P
    BY <2>1
  <2>4. ranges[i].to = i * P
    <3>1. i < n
      BY <1>8
    <3> QED
      BY <1>5, <3>1
  <2>5. PICK iP \in Nat : iP = i * P
    OBVIOUS
  <2> QED
    BY <2>1, <2>2, <2>3, <2>4, <2>5
<1>9. ranges[1].from = 1 /\ ranges[n].to = head
  <2>1. 1 \in 1..n /\ (1 - 1) * P = 0
    OBVIOUS
  <2> QED
    BY <1>5, <2>1
<1> QED
  BY <1>6, <1>7, <1>8, <1>9 DEF Chained

\* The ranges that are left after the first.
LEMMA RestChained ==
    ASSUME NEW ranges, NEW n \in Nat, NEW head \in Nat,
           Chained(ranges, n, head), ranges # << >>
    PROVE  /\ ranges[1] \in [from: Nat, to: Nat] /\ ranges[1].from = n
           /\ n <= ranges[1].to /\ ranges[1].to <= head
           /\ Chained(Tail(ranges), ranges[1].to + 1, head)
<1>1. ranges \in Seq([from: Nat, to: Nat])
  BY DEF Chained
<1>2. PICK m \in Nat : m = Len(ranges)
  BY <1>1
<1>3. m > 0 /\ 1 \in 1..m
  BY <1>1, <1>2
<1>4. /\ ranges[1] \in [from: Nat, to: Nat] /\ ranges[1].from = n
      /\ n <= ranges[1].to /\ ranges[1].to <= head /\ ranges[m].to = head
  <2>1. ranges[1].from = n /\ ranges[m].to = head
    BY <1>2, <1>3 DEF Chained
  <2>2. ranges[1].from <= ranges[1].to /\ ranges[1].to <= head
    <3>1. \A i \in 1..m : ranges[i].from <= ranges[i].to
      BY <1>2 DEF Chained
    <3>2. \A i \in 1..m : ranges[i].to <= head
      BY <1>2 DEF Chained
    <3> QED
      BY <1>3, <3>1, <3>2
  <2>3. ranges[1] \in [from: Nat, to: Nat]
    <3>1. PICK S : S = [from: Nat, to: Nat]
      OBVIOUS
    <3>2. ranges \in Seq(S)
      BY <1>1, <3>1
    <3>3. ranges[1] \in S
      BY <1>2, <1>3, <3>2
    <3> QED
      BY <3>1, <3>3
  <2> QED
    BY <2>1, <2>2, <2>3
<1>5. PICK rest : rest = Tail(ranges)
  OBVIOUS
<1>6. /\ rest \in Seq([from: Nat, to: Nat]) /\ Len(rest) = m - 1
      /\ \A i \in 1..(m - 1) : rest[i] = ranges[i + 1]
  BY <1>1, <1>2, <1>3, <1>5
<1>7. \A i \in 1..(m - 1) : i + 1 \in 1..m
  BY <1>2
<1>8. \A i \in 1..m : /\ ranges[i].from <= ranges[i].to /\ ranges[i].to <= head
                      /\ i + 1 <= m => ranges[i + 1].from = ranges[i].to + 1
  BY <1>2 DEF Chained
<1>9. Chained(rest, ranges[1].to + 1, head)
  <2>1. m - 1 = 0 => ranges[1].to + 1 = head + 1
    BY <1>3, <1>4
  <2>2. m - 1 > 0 => rest[1].from = ranges[1].to + 1 /\ rest[m - 1].to = head
    <3>1. SUFFICES ASSUME m - 1 > 0
                   PROVE  rest[1].from = ranges[1].to + 1
                          /\ rest[m - 1].to = head
      OBVIOUS
    <3>2. rest[1] = ranges[2] /\ ranges[2].from = ranges[1].to + 1
      <4>1. 1 \in 1..(m - 1) /\ 1 + 1 = 2 /\ 1 + 1 <= m
        BY <1>3, <3>1
      <4> QED
        BY <1>3, <1>6, <1>8, <4>1
    <3>3. rest[m - 1] = ranges[m]
      <4>1. m - 1 \in 1..(m - 1) /\ (m - 1) + 1 = m
        BY <1>3, <3>1
      <4> QED
        BY <1>6, <4>1
    <3> QED
      BY <1>4, <3>2, <3>3
  <2>3. \A i \in 1..(m - 1) : rest[i].from <= rest[i].to /\ rest[i].to <= head
    BY <1>6, <1>7, <1>8
  <2>4. ASSUME NEW i \in 1..(m - 1), i + 1 <= m - 1
        PROVE  rest[i + 1].from = rest[i].to + 1
    <3>1. PICK j \in 1..m : j = i + 1 /\ j + 1 <= m /\ j \in 1..(m - 1)
      BY <2>4
    <3>2. rest[j] = ranges[j + 1] /\ rest[i] = ranges[j]
      BY <1>6, <3>1
    <3> QED
      BY <1>8, <3>1, <3>2
  <2> QED
    BY <1>6, <2>1, <2>2, <2>3, <2>4 DEF Chained
<1> QED
  BY <1>4, <1>5, <1>9

-----------------------------------------------------------------------------
(* How a step may change the calls and the screen. *)

\* No letter is in a block before the first.
LEMMA NothingBefore ==
    ASSUME NEW ch, Mined(ch)
    PROVE  Before(ch, 1) = {}
<1>1. ASSUME NEW t \in Before(ch, 1) PROVE FALSE
  <2>1. t \in DOMAIN ch /\ ch[t].block < 1
    BY <1>1 DEF Before, LettersOf
  <2>2. ch[t].block \in Nat \ {0}
    BY <2>1, TxOfChain
  <2> QED
    BY <2>1, <2>2
<1> QED
  BY <1>1

\* A call is judged by these fields.
LEMMA SameCall ==
    ASSUME NEW call, NEW ch, NEW isPublished, CallOK(call, ch, isPublished),
           NEW new, new.kind = call.kind, new.step = call.step,
           new.tx = call.tx, new.head = call.head, new.ranges = call.ranges,
           new.logs = call.logs, new.seed = call.seed,
           new.archive = call.archive, new.key = call.key
    PROVE  CallOK(new, ch, isPublished)
  BY DEF CallOK, Loading, Proceeds

\* And the screen by these.
LEMMA SameScreen ==
    ASSUME NEW b, NEW ch, ScreenOK(b, ch), NEW new,
           new.letters = b.letters, new.head = b.head,
           new.error = b.error, new.opened = b.opened,
           new.openedTx = b.openedTx, new.selected = b.selected,
           new.recovery = b.recovery, new.codeSent = b.codeSent
    PROVE  ScreenOK(new, ch)
  BY DEF ScreenOK

LEMMA NoCallOK ==
    ASSUME ChainOK(chain), NEW isPublished
    PROVE  CallOK(NoCall, chain, isPublished)
<1>1. Latest(chain) \in Nat
  BY OfChain
<1> QED
  BY <1>1 DEF CallOK, NoCall

\* One call and the screen change.
LEMMA CallMoves ==
    ASSUME InboxInv, Shaped, NEW c \in Slot, NEW call, Becomes(c, call),
           CallOK(call, chain, published), ScreenOK(box', chain),
           UNCHANGED world, BoxFault \/ UNCHANGED boxFaults
    PROVE  InboxInv'
<1>1. UNCHANGED <<chain, published, passkeys, clock>>
  BY DEF world
<1>2. boxFaults' \in 0..MaxBoxFaults
  BY InboxAssumption DEF BoxFault, InboxInv, WorldOK
<1>3. WorldOK'
  BY <1>1, <1>2 DEF InboxInv, WorldOK
<1>4. ASSUME NEW d \in Slot PROVE CallOK(calls'[d], chain', published')
  <2>1. calls'[d] = call \/ calls'[d] = calls[d]
    BY DEF Becomes, Shaped
  <2> QED
    BY <1>1, <2>1 DEF InboxInv
<1>5. ScreenOK(box, chain)'
  BY <1>1
<1> QED
  BY <1>3, <1>4, <1>5 DEF InboxInv

\* A call goes on.
LEMMA AwaitsRead ==
    ASSUME InboxInv, Shaped, NEW c \in Slot, NEW call, NEW buffers,
           Awaits(c, call, buffers), CallOK(call, chain, published),
           UNCHANGED world, BoxFault \/ UNCHANGED boxFaults
    PROVE  InboxInv'
<1>1. Becomes(c, call) /\ box' = box
  BY DEF Awaits
<1>2. ScreenOK(box', chain)
  BY <1>1 DEF InboxInv
<1> QED
  BY <1>1, <1>2, CallMoves

\* A call ends.
LEMMA EndsRead ==
    ASSUME InboxInv, Shaped, NEW c \in Slot, NEW new, Ends(c, new),
           DOMAIN new = DOMAIN Mounted, ScreenOK(new, chain),
           UNCHANGED world, BoxFault \/ UNCHANGED boxFaults
    PROVE  InboxInv'
<1>1. /\ Becomes(c, NoCall)
      /\ box' = IF calls[c].current THEN [new EXCEPT !.busy = FALSE] ELSE box
  BY DEF Ends
<1>2. ScreenOK(box', chain)
  <2>1. PICK shown : shown = [new EXCEPT !.busy = FALSE]
    OBVIOUS
  <2>2. /\ shown.letters = new.letters /\ shown.head = new.head
        /\ shown.error = new.error /\ shown.opened = new.opened
        /\ shown.openedTx = new.openedTx /\ shown.selected = new.selected
        /\ shown.recovery = new.recovery /\ shown.codeSent = new.codeSent
    BY <2>1 DEF Mounted
  <2>3. ScreenOK(shown, chain)
    BY <2>2, SameScreen
  <2> QED
    BY <1>1, <2>1, <2>3 DEF InboxInv
<1>3. CallOK(NoCall, chain, published)
  BY NoCallOK DEF InboxInv, WorldOK
<1> QED
  BY <1>1, <1>2, <1>3, CallMoves

\* What an honest letter is never refused for.
Blamed == {"envelopes", "key", "calldata", "letterKey", "content"}

LEMMA RefuseRead ==
    ASSUME InboxInv, Shaped, NEW c \in Slot, NEW reason \in Reasons,
           Refuse(c, reason), calls[c].kind \in {"open", "code", "recover"},
           reason \in Blamed => ~chain[calls[c].tx].honest,
           UNCHANGED world, BoxFault \/ UNCHANGED boxFaults
    PROVE  InboxInv'
<1>1. PICK error : error = [tx |-> calls[c].tx, reason |-> reason]
  OBVIOUS
<1>2. PICK new : new = [box EXCEPT !.error = error]
  OBVIOUS
<1>3. Ends(c, new)
  BY <1>1, <1>2 DEF Refuse
<1>4. /\ DOMAIN new = DOMAIN Mounted /\ new.error = error
      /\ new.letters = box.letters /\ new.head = box.head
      /\ new.opened = box.opened /\ new.openedTx = box.openedTx
      /\ new.selected = box.selected /\ new.recovery = box.recovery
      /\ new.codeSent = box.codeSent
  BY <1>2 DEF Shaped, Mounted
<1>5. ErrorOK(error, chain)
  <2>1. calls[c].tx \in LettersOf(chain)
    BY DEF InboxInv, CallOK
  <2> QED
    BY <1>1, <2>1 DEF ErrorOK, Blamed
<1>6. ScreenOK(new, chain)
  BY <1>4, <1>5 DEF InboxInv, ScreenOK
<1> QED
  BY <1>3, <1>4, <1>6, EndsRead

-----------------------------------------------------------------------------
(* Loading the letters. *)

\* The ranges are those up to the latest block.
LEMMA HeadInv ==
    ASSUME InboxInv, Shaped, NEW c \in Slot, RefreshHead(c)
    PROVE  InboxInv'
<1>1. ChainOK(chain) /\ Mined(chain)
  BY DEF InboxInv, WorldOK, ChainOK
<1>2. PICK head \in Nat \ {0} : head = LatestBlock /\ head = Latest(chain)
  BY <1>1, OfChain
<1>3. PICK call : call = [calls[c] EXCEPT !.step = "page", !.head = head,
                             !.ranges = BlockRanges(1, head)]
  OBVIOUS
<1>4. /\ calls[c].kind = "refresh" /\ calls[c].step = "head"
      /\ calls[c].logs = << >>
  BY DEF RefreshHead, At, InboxInv, CallOK
<1>5. /\ call.kind = "refresh" /\ call.step = "page" /\ call.head = head
      /\ call.ranges = BlockRanges(1, head) /\ call.logs = << >>
  BY <1>3, <1>4 DEF Shaped, NoCall
<1>6. Loading(call, chain)
  <2>1. Chained(call.ranges, 1, head)
    BY <1>5, RangesChained
  <2>2. Lists(call.logs, Before(chain, 1))
    BY <1>1, <1>5, NothingBefore, NoneListed
  <2>3. 1 \in Nat \ {0} /\ 1 <= call.head + 1
    BY <1>5
  <2> QED
    BY <1>5, <2>1, <2>2, <2>3 DEF Loading
<1>7. CallOK(call, chain, published)
  BY <1>2, <1>5, <1>6 DEF CallOK
<1>8. Awaits(c, call, {}) /\ UNCHANGED world /\ UNCHANGED boxFaults
  BY <1>2, <1>3 DEF RefreshHead
<1> QED
  BY <1>7, <1>8, AwaitsRead

\* The letters of one more range are known.
LEMMA PageInv ==
    ASSUME InboxInv, Shaped, NEW c \in Slot, RefreshPage(c)
    PROVE  InboxInv'
<1>1. ChainOK(chain) /\ Mined(chain)
  BY DEF InboxInv, WorldOK, ChainOK
<1>2. /\ calls[c].kind = "refresh" /\ calls[c].step = "page"
      /\ calls[c].ranges # << >> /\ calls[c].head \in 0..Latest(chain)
      /\ CallOK(calls[c], chain, published)
  BY DEF RefreshPage, At, InboxInv, CallOK
<1>3. PICK r : r = calls[c].ranges[1]
  OBVIOUS
<1>4. PICK logs \in Logs(r) :
          Awaits(c, [calls[c] EXCEPT !.ranges = Tail(@),
                                     !.logs = @ \o logs], {})
  BY <1>3 DEF RefreshPage
<1>5. PICK call : call = [calls[c] EXCEPT !.ranges = Tail(@),
                                          !.logs = @ \o logs]
  OBVIOUS
<1>6. /\ call.kind = "refresh" /\ call.step = "page"
      /\ call.head = calls[c].head /\ call.ranges = Tail(calls[c].ranges)
      /\ call.logs = calls[c].logs \o logs
  BY <1>2, <1>5 DEF Shaped, NoCall
<1>7. PICK head \in Nat : head = calls[c].head
  BY <1>1, <1>2, OfChain
<1>8. PICK n \in Nat \ {0} : /\ Chained(calls[c].ranges, n, head)
                             /\ Lists(calls[c].logs, Before(chain, n))
  BY <1>2, <1>7 DEF CallOK, Loading
<1>9. /\ r \in [from: Nat, to: Nat] /\ r.from = n
      /\ n <= r.to /\ r.to <= head
      /\ Chained(call.ranges, r.to + 1, head)
  BY <1>2, <1>3, <1>6, <1>8, RestChained
<1>10. PICK next \in Nat \ {0} : next = r.to + 1
  BY <1>9
<1>11. /\ Before(chain, next) = Before(chain, n) \cup Found(r)
       /\ Before(chain, n) \cap Found(r) = {}
  <2>1. \A t \in LettersOf(chain) :
            chain[t].block \in Nat /\ t \in DOMAIN chain
    BY <1>1, TxOfChain DEF LettersOf
  <2>2. Letters = LettersOf(chain)
    BY <1>1, OfChain
  <2>3. \A t \in LettersOf(chain) :
            /\ t \in Found(r) <=> n <= chain[t].block /\ chain[t].block <= r.to
            /\ t \in Before(chain, n) <=> chain[t].block < n
            /\ t \in Before(chain, next) <=> chain[t].block < next
    BY <1>9, <2>1, <2>2 DEF Found, Before
  <2>4. \A t \in LettersOf(chain) :
            /\ t \in Before(chain, next) <=>
                  t \in Before(chain, n) \/ t \in Found(r)
            /\ ~(t \in Before(chain, n) /\ t \in Found(r))
    BY <1>9, <1>10, <2>1, <2>3
  <2>5. /\ Found(r) \subseteq LettersOf(chain)
        /\ Before(chain, n) \subseteq LettersOf(chain)
        /\ Before(chain, next) \subseteq LettersOf(chain)
    BY <2>2 DEF Found, Before
  <2> QED
    BY <2>4, <2>5
<1>12. Lists(call.logs, Before(chain, next))
  <2>1. Lists(logs, Found(r))
    BY <1>1, LogsListed
  <2> QED
    BY <1>6, <1>8, <1>11, <2>1, ListsBoth
<1>13. Loading(call, chain)
  <2>1. Chained(call.ranges, next, call.head) /\ next <= call.head + 1
    BY <1>6, <1>7, <1>9, <1>10
  <2> QED
    BY <1>12, <2>1 DEF Loading
<1>14. CallOK(call, chain, published)
  BY <1>2, <1>6, <1>13 DEF CallOK
<1>15. Awaits(c, call, {}) /\ UNCHANGED world /\ UNCHANGED boxFaults
  BY <1>4, <1>5 DEF RefreshPage, Quiet
<1> QED
  BY <1>14, <1>15, AwaitsRead

\* Sorting loses no letter.
LEMMA SortedLists ==
    ASSUME NEW logs, NEW S, Lists(logs, S), NEW s \in NewestFirst(logs)
    PROVE  /\ Lists(s, S)
           /\ \A i, j \in DOMAIN s :
                 i < j => chain[s[i]].block >= chain[s[j]].block
<1>1. PICK p \in Bijection(DOMAIN logs, DOMAIN logs) :
          s = [i \in DOMAIN logs |-> logs[p[i]]]
  BY DEF NewestFirst
<1>2. PICK n \in Nat : n = Len(logs) /\ DOMAIN logs = 1..n
  BY DEF Lists
<1>3. /\ p \in [1..n -> 1..n]
      /\ \A i, j \in 1..n : p[i] = p[j] => i = j
      /\ \A k \in 1..n : \E i \in 1..n : p[i] = k
  BY <1>1, <1>2 DEF Bijection, Injection, Surjection, IsInjective
<1>4. \A i \in 1..n : logs[i] \in S
  BY <1>2 DEF Lists
<1>5. s \in [1..n -> S] /\ DOMAIN s = 1..n
  BY <1>1, <1>2, <1>3, <1>4
<1>6. s \in Seq(S)
  BY <1>5
<1>7. ASSUME NEW i \in 1..n, NEW j \in 1..n, s[i] = s[j]
      PROVE  i = j
  <2>1. logs[p[i]] = logs[p[j]] /\ p[i] \in 1..n /\ p[j] \in 1..n
    BY <1>1, <1>2, <1>3, <1>7
  <2>2. p[i] = p[j]
    BY <1>2, <2>1 DEF Lists
  <2> QED
    BY <1>3, <2>2
<1>8. ASSUME NEW t \in S PROVE \E i \in 1..n : s[i] = t
  <2>1. PICK k \in 1..n : logs[k] = t
    BY <1>2 DEF Lists
  <2>2. PICK i \in 1..n : p[i] = k
    BY <1>3
  <2> QED
    BY <1>1, <1>2, <2>1, <2>2
<1>9. Lists(s, S)
  BY <1>5, <1>6, <1>7, <1>8 DEF Lists
<1> QED
  BY <1>9 DEF NewestFirst

LEMMA LoadedInv ==
    ASSUME InboxInv, Shaped, NEW c \in Slot, LettersLoaded(c)
    PROVE  InboxInv'
<1>1. ChainOK(chain) /\ CallOK(NoCall, chain, published)
  BY NoCallOK DEF InboxInv, WorldOK
<1>2. /\ Becomes(c, NoCall) /\ UNCHANGED world /\ UNCHANGED boxFaults
      /\ calls[c].kind = "refresh" /\ calls[c].step = "page"
      /\ calls[c].ranges = << >>
  BY DEF LettersLoaded, Quiet, At
<1>3. PICK head \in Nat : head = calls[c].head /\ head \in 0..Latest(chain)
  BY <1>1, OfChain DEF InboxInv, CallOK
<1>4. Lists(calls[c].logs, Before(chain, head + 1))
  <2>1. PICK n \in Nat \ {0} : /\ Chained(calls[c].ranges, n, head)
                               /\ Lists(calls[c].logs, Before(chain, n))
    BY <1>2, <1>3 DEF InboxInv, CallOK, Loading
  <2>2. n = head + 1
    <3>1. Len(calls[c].ranges) = 0
      BY <1>2
    <3> QED
      BY <2>1, <3>1 DEF Chained
  <2> QED
    BY <2>1, <2>2
<1>5. ScreenOK(box', chain)
  <2>1. CASE ~calls[c].newest
    <3>1. box' = box
      BY <2>1 DEF LettersLoaded
    <3> QED
      BY <3>1 DEF InboxInv
  <2>2. CASE calls[c].newest
    <3>1. PICK s \in NewestFirst(calls[c].logs) :
              box' = [box EXCEPT !.letters = s, !.head = calls[c].head,
                                 !.busy = FALSE]
      BY <2>2 DEF LettersLoaded
    <3>2. PICK new : new = box'
      OBVIOUS
    <3>3. /\ new.letters = s /\ new.head = head /\ new.error = box.error
          /\ new.opened = box.opened /\ new.openedTx = box.openedTx
          /\ new.selected = box.selected /\ new.recovery = box.recovery
          /\ new.codeSent = box.codeSent
      BY <1>3, <3>1, <3>2 DEF Shaped, Mounted
    <3>4. /\ Lists(s, Before(chain, head + 1))
          /\ \A i, j \in DOMAIN s :
                i < j => chain[s[i]].block >= chain[s[j]].block
      BY <1>4, <3>1, SortedLists
    <3>5. ListOK(new.letters, new.head, chain)
      BY <1>3, <3>3, <3>4 DEF ListOK
    <3>6. ScreenOK(new, chain)
      BY <3>3, <3>5 DEF InboxInv, ScreenOK
    <3> QED
      BY <3>2, <3>6
  <2> QED
    BY <2>1, <2>2
<1> QED
  BY <1>1, <1>2, <1>5, CallMoves

LEMMA RefreshFailsInv ==
    ASSUME InboxInv, Shaped, NEW c \in Slot, RefreshFails(c)
    PROVE  InboxInv'
<1>1. CallOK(NoCall, chain, published)
  BY NoCallOK DEF InboxInv, WorldOK
<1>2. Becomes(c, NoCall) /\ UNCHANGED world /\ BoxFault
  BY DEF RefreshFails
<1>3. PICK new : new = [box EXCEPT !.busy = FALSE,
                           !.error = [tx |-> NoTx, reason |-> "fault"]]
  OBVIOUS
<1>4. box' = new \/ box' = box
  BY <1>3 DEF RefreshFails
<1>5. /\ new.letters = box.letters /\ new.head = box.head
      /\ new.error = [tx |-> NoTx, reason |-> "fault"]
      /\ new.opened = box.opened /\ new.openedTx = box.openedTx
      /\ new.selected = box.selected /\ new.recovery = box.recovery
      /\ new.codeSent = box.codeSent
  BY <1>3 DEF Shaped, Mounted
<1>6. ErrorOK(new.error, chain)
  BY <1>5 DEF ErrorOK, Reasons
<1>7. ScreenOK(new, chain)
  BY <1>5, <1>6 DEF InboxInv, ScreenOK
<1>8. ScreenOK(box', chain)
  BY <1>4, <1>7 DEF InboxInv
<1> QED
  BY <1>1, <1>2, <1>8, CallMoves

-----------------------------------------------------------------------------
(* Opening a letter. *)

\* What is known of the letter that a call opens.
LEMMA LetterInHand ==
    ASSUME InboxInv, NEW c \in Slot, calls[c].kind \in {"open", "recover"},
           NEW l, l = LetterOf(c)
    PROVE  /\ l = chain[calls[c].tx] /\ calls[c].tx \in LettersOf(chain)
           /\ l \in LetterTx /\ WellSealed(l)
           /\ l.keyId \in 1..KeyCount(chain) /\ l.keyId \in 1..MaxKeys
           /\ Proceeds(calls[c], l, published)
<1>1. ChainOK(chain) /\ Mined(chain)
  BY DEF InboxInv, WorldOK, ChainOK
<1>2. l = chain[calls[c].tx]
  BY DEF LetterOf
<1>3. /\ calls[c].tx \in LettersOf(chain)
      /\ Proceeds(calls[c], chain[calls[c].tx], published)
  BY DEF InboxInv, CallOK
<1>4. calls[c].tx \in DOMAIN chain
  BY <1>3 DEF LettersOf
<1>5. l \in LetterTx
  BY <1>1, <1>2, <1>3, <1>4, TxOfChain
<1>6. WellSealed(l) /\ l.keyId \in 1..KeyCount(chain)
  BY <1>1, <1>2, <1>3 DEF ChainOK, LettersSealed
<1>7. l.keyId \in 1..MaxKeys
  <2>1. KeyCount(chain) \in 1..MaxKeys
    BY <1>1 DEF ChainOK, RegisteredOnce
  <2> QED
    BY <1>6, <2>1, InboxAssumption
<1> QED
  BY <1>2, <1>3, <1>5, <1>6, <1>7

\* A call goes on with its letter.
LEMMA OpensOn ==
    ASSUME InboxInv, Shaped, NEW c \in Slot,
           calls[c].kind \in {"open", "recover"},
           NEW call, NEW buffers, Awaits(c, call, buffers),
           call.kind = calls[c].kind, call.tx = calls[c].tx,
           call.head = calls[c].head, Proceeds(call, LetterOf(c), published),
           UNCHANGED world, BoxFault \/ UNCHANGED boxFaults
    PROVE  InboxInv'
<1>1. CallOK(calls[c], chain, published)
  BY DEF InboxInv
<1>2. CallOK(call, chain, published)
  BY <1>1 DEF CallOK, LetterOf
<1> QED
  BY <1>2, AwaitsRead

\* A registered key has one registration, which is found.
LEMMA OneRegistration ==
    ASSUME InboxInv, NEW k \in 1..KeyCount(chain)
    PROVE  /\ Registrations(k) # {} /\ Envelopes(k).keyId = k
           /\ RegisteredKey(k) = PublicOf(Seed(k))
<1>1. /\ ChainOK(chain) /\ Mined(chain) /\ RegisteredOnce(chain)
      /\ Keys = KeysOf(chain)
  BY OfChain DEF InboxInv, WorldOK, ChainOK
<1>2. PICK t \in Keys : chain[t].keyId = k
  BY <1>1 DEF RegisteredOnce
<1>3. Registrations(k) = {t}
  BY <1>1, <1>2 DEF Registrations, RegisteredOnce
<1>4. t \in Nat
  BY <1>1, <1>2, TxOfChain DEF KeysOf
<1>5. Envelopes(k) = chain[t]
  <2>1. \E u \in Registrations(k) : \A v \in Registrations(k) : v <= u
    BY <1>3, <1>4
  <2>2. PICK u : u = CHOOSE v \in Registrations(k) :
                         \A w \in Registrations(k) : w <= v
    OBVIOUS
  <2>3. u \in Registrations(k)
    BY <2>1, <2>2, Zenon
  <2> QED
    BY <1>3, <2>2, <2>3 DEF Envelopes
<1>6. RegisteredKey(k) = PublicKey(chain[t])
  <2>1. PICK u : u = CHOOSE v \in Keys : chain[v].keyId = k
    OBVIOUS
  <2>2. u \in Keys /\ chain[u].keyId = k
    BY <1>2, <2>1, Zenon
  <2>3. u = t
    BY <1>1, <1>2, <2>2 DEF RegisteredOnce
  <2> QED
    BY <2>1, <2>3 DEF RegisteredKey
<1> QED
  BY <1>2, <1>3, <1>5, <1>6 DEF PublicKey

LEMMA VerifiedInv ==
    ASSUME InboxInv, Shaped, NEW c \in Slot, Verified(c)
    PROVE  InboxInv'
<1>1. /\ calls[c].kind = "recover" /\ UNCHANGED world /\ UNCHANGED boxFaults
  BY DEF Verified, At, Quiet
<1>2. CASE Refuse(c, "code")
  BY <1>1, <1>2, RefuseRead DEF Reasons, Blamed
<1>3. CASE Awaits(c, [calls[c] EXCEPT !.step = "envelopes"], {})
  <2>1. PICK call : call = [calls[c] EXCEPT !.step = "envelopes"]
    OBVIOUS
  <2>2. /\ call.kind = calls[c].kind /\ call.tx = calls[c].tx
        /\ call.head = calls[c].head /\ call.step = "envelopes"
    BY <2>1 DEF Shaped, NoCall
  <2>3. Proceeds(call, LetterOf(c), published)
    BY <2>2 DEF Proceeds
  <2> QED
    BY <1>1, <1>3, <2>1, <2>2, <2>3, OpensOn
<1> QED
  BY <1>2, <1>3 DEF Verified

LEMMA EnvelopesInv ==
    ASSUME InboxInv, Shaped, NEW c \in Slot, LoadEnvelopes(c)
    PROVE  InboxInv'
<1>1. /\ calls[c].kind \in {"open", "recover"}
      /\ UNCHANGED world /\ UNCHANGED boxFaults
  BY DEF LoadEnvelopes, At
<1>2. PICK l : l = LetterOf(c)
  OBVIOUS
<1>3. l.keyId \in 1..KeyCount(chain)
  BY <1>1, <1>2, LetterInHand
<1>4. Registrations(l.keyId) # {}
  BY <1>3, OneRegistration
<1>5. PICK step \in {"passkey", "tlock"} :
          step = IF calls[c].kind = "open" THEN "passkey" ELSE "tlock"
  OBVIOUS
<1>6. PICK call : call = [calls[c] EXCEPT !.step = step]
  OBVIOUS
<1>7. Awaits(c, call, {})
  BY <1>2, <1>4, <1>5, <1>6 DEF LoadEnvelopes
<1>8. /\ call.kind = calls[c].kind /\ call.tx = calls[c].tx
      /\ call.head = calls[c].head /\ call.step = step
  BY <1>6 DEF Shaped, NoCall
<1>9. Proceeds(call, LetterOf(c), published)
  BY <1>5, <1>8 DEF Proceeds
<1> QED
  BY <1>1, <1>7, <1>8, <1>9, OpensOn

\* The passkey of the letter's key opens its envelope.
LEMMA PasskeyInv ==
    ASSUME InboxInv, Shaped, NEW c \in Slot, UsePasskey(c)
    PROVE  InboxInv'
<1>1. /\ calls[c].kind = "open"
      /\ UNCHANGED world /\ UNCHANGED boxFaults
  BY DEF UsePasskey, At, Quiet
<1>2. PICK l : l = LetterOf(c)
  OBVIOUS
<1>3. PICK k : k = l.keyId
  OBVIOUS
<1>4. k \in 1..KeyCount(chain) /\ k \in 1..MaxKeys
  BY <1>1, <1>2, <1>3, LetterInHand
<1>5. Envelopes(k).keyId = k
  BY <1>4, OneRegistration
<1>6. PICK envelope : envelope = PasskeyEnvelope(Envelopes(k))
  OBVIOUS
<1>7. envelope = WrapSeed(Seed(k), k, Prf(k, "salt"), "salt")
  BY <1>5, <1>6 DEF PasskeyEnvelope
<1>8. /\ envelope[3].value = k /\ envelope[4].value = "salt"
      /\ UnwrapSeed(envelope, Prf(k, "salt")) = Seed(k)
  BY <1>7, SeedUnwraps
<1>9. Seed(k) # Bad
  BY <1>4, DeliveryAssumption
<1>10. PICK call : call = [calls[c] EXCEPT !.step = "key", !.seed = Seed(k)]
  OBVIOUS
<1>11. Refuse(c, "passkey") \/ Awaits(c, call, {"privateKey"})
  BY <1>2, <1>3, <1>6, <1>8, <1>9, <1>10 DEF UsePasskey
<1>12. CASE Refuse(c, "passkey")
  BY <1>1, <1>12, RefuseRead DEF Reasons, Blamed
<1>13. CASE Awaits(c, call, {"privateKey"})
  <2>1. /\ call.kind = calls[c].kind /\ call.tx = calls[c].tx
        /\ call.head = calls[c].head /\ call.step = "key"
        /\ call.seed = Seed(k)
    BY <1>10 DEF Shaped, NoCall
  <2>2. Proceeds(call, LetterOf(c), published)
    BY <1>2, <1>3, <2>1 DEF Proceeds
  <2> QED
    BY <1>1, <1>13, <2>1, <2>2, OpensOn
<1> QED
  BY <1>11, <1>12, <1>13

LEMMA RecoveryInv ==
    ASSUME InboxInv, Shaped, NEW c \in Slot, OpenRecovery(c)
    PROVE  InboxInv'
<1>1. /\ calls[c].kind = "recover" /\ UNCHANGED world /\ UNCHANGED boxFaults
  BY DEF OpenRecovery, At, Quiet
<1>2. CASE Refuse(c, "early")
  BY <1>1, <1>2, RefuseRead DEF Reasons, Blamed
<1>3. CASE ~Refuse(c, "early")
  <2>1. PICK call : call = [calls[c] EXCEPT !.step = "unwrap"]
    OBVIOUS
  <2>2. /\ published
        /\ Awaits(c, call, {"clientSeed", "clientKey", "recoveryCiphertext"})
    BY <1>3, <2>1 DEF OpenRecovery, TlockOpen
  <2>3. /\ call.kind = calls[c].kind /\ call.tx = calls[c].tx
        /\ call.head = calls[c].head /\ call.step = "unwrap"
    BY <2>1 DEF Shaped, NoCall
  <2>4. Proceeds(call, LetterOf(c), published)
    BY <2>2, <2>3 DEF Proceeds
  <2> QED
    BY <1>1, <2>2, <2>3, <2>4, OpensOn
<1> QED
  BY <1>2, <1>3

\* The server opens the seed of the letter's key.
LEMMA UnwrappedInv ==
    ASSUME InboxInv, Shaped, NEW c \in Slot, Unwrapped(c)
    PROVE  InboxInv'
<1>1. /\ calls[c].kind = "recover" /\ calls[c].step = "unwrap"
      /\ UNCHANGED world
  BY DEF Unwrapped, At
<1>2. PICK l : l = LetterOf(c)
  OBVIOUS
<1>3. PICK k : k = l.keyId
  OBVIOUS
<1>4. k \in 1..KeyCount(chain) /\ k \in 1..MaxKeys /\ published
  BY <1>1, <1>2, <1>3, LetterInHand DEF Proceeds
<1>5. PICK e : e = Envelopes(k)
  OBVIOUS
<1>6. e.keyId = k
  BY <1>4, <1>5, OneRegistration
<1>7. PICK sealed : sealed = TlockOpen(RecoveryEnvelope(e), published)
  OBVIOUS
<1>8. sealed = SealBox(Seed(k), RecoveryKey.public)
  BY <1>4, <1>6, <1>7 DEF TlockOpen, RecoveryEnvelope, Tlock
<1>9. OpenSealBox(sealed, RecoveryKey) = Seed(k)
  BY <1>8 DEF OpenSealBox, SealBox
<1>10. Seed(k) # Bad /\ PublicOf(Seed(k)) = PublicKey(e)
  BY <1>4, <1>6, DeliveryAssumption DEF PublicKey
<1>11. PICK call : call = [calls[c] EXCEPT !.step = "key", !.seed = Seed(k)]
  OBVIOUS
<1>12. \/ BoxFault /\ Refuse(c, "proof")
       \/ /\ UNCHANGED boxFaults
          /\ Awaits(c, call, {"mailboxSeed", "privateKey"})
  BY <1>2, <1>3, <1>5, <1>7, <1>9, <1>10, <1>11 DEF Unwrapped
<1>13. CASE BoxFault /\ Refuse(c, "proof")
  BY <1>1, <1>13, RefuseRead DEF Reasons, Blamed
<1>14. CASE /\ UNCHANGED boxFaults
            /\ Awaits(c, call, {"mailboxSeed", "privateKey"})
  <2>1. /\ call.kind = calls[c].kind /\ call.tx = calls[c].tx
        /\ call.head = calls[c].head /\ call.step = "key"
        /\ call.seed = Seed(k)
    BY <1>11 DEF Shaped, NoCall
  <2>2. Proceeds(call, LetterOf(c), published)
    BY <1>2, <1>3, <2>1 DEF Proceeds
  <2> QED
    BY <1>1, <1>14, <2>1, <2>2, OpensOn
<1> QED
  BY <1>12, <1>13, <1>14

-----------------------------------------------------------------------------
(* Decrypting it. *)

\* The pair is that of the letter's key; only another client's letter has a
\* transaction that is no call of sealLetter.
LEMMA CheckedInv ==
    ASSUME InboxInv, Shaped, NEW c \in Slot, CheckKey(c)
    PROVE  InboxInv'
<1>1. /\ calls[c].kind \in {"open", "recover"} /\ calls[c].step = "key"
      /\ UNCHANGED world /\ UNCHANGED boxFaults
  BY DEF CheckKey, At, Quiet
<1>2. PICK l : l = LetterOf(c)
  OBVIOUS
<1>3. /\ l = chain[calls[c].tx] /\ l.keyId \in 1..KeyCount(chain)
      /\ WellSealed(l) /\ calls[c].seed = Seed(l.keyId)
  BY <1>1, <1>2, LetterInHand DEF Proceeds
<1>4. PublicOf(calls[c].seed) = RegisteredKey(l.keyId)
  BY <1>3, OneRegistration
<1>5. CASE ~l.direct
  <2>1. Refuse(c, "calldata")
    BY <1>2, <1>4, <1>5 DEF CheckKey
  <2>2. ~chain[calls[c].tx].honest
    BY <1>3, <1>5 DEF WellSealed
  <2> QED
    BY <1>1, <2>1, <2>2, RefuseRead DEF Reasons
<1>6. CASE l.direct
  <2>1. PICK call : call = [calls[c] EXCEPT !.step = "package"]
    OBVIOUS
  <2>2. Awaits(c, call, {})
    BY <1>2, <1>4, <1>6, <2>1 DEF CheckKey
  <2>3. /\ call.kind = calls[c].kind /\ call.tx = calls[c].tx
        /\ call.head = calls[c].head /\ call.step = "package"
        /\ call.seed = calls[c].seed
    BY <2>1 DEF Shaped, NoCall
  <2>4. Proceeds(call, LetterOf(c), published)
    BY <1>2, <1>3, <2>3 DEF Proceeds
  <2> QED
    BY <1>1, <2>2, <2>3, <2>4, OpensOn
<1> QED
  BY <1>5, <1>6

\* What passes the comparison of hashes is the archive of the letter.
LEMMA FetchedInv ==
    ASSUME InboxInv, Shaped, NEW c \in Slot, FetchPackage(c)
    PROVE  InboxInv'
<1>1. /\ calls[c].kind \in {"open", "recover"} /\ calls[c].step = "package"
      /\ UNCHANGED world /\ (BoxFault \/ UNCHANGED boxFaults)
  BY DEF FetchPackage, At
<1>2. PICK l : l = LetterOf(c)
  OBVIOUS
<1>3. calls[c].seed = Seed(l.keyId)
  BY <1>1, <1>2, LetterInHand DEF Proceeds
<1>4. PICK archive : archive = Archive(Parcel(l))
  OBVIOUS
<1>5. PICK call : call = [calls[c] EXCEPT !.step = "unlock",
                                          !.archive = archive]
  OBVIOUS
<1>6. Refuse(c, "package") \/ Awaits(c, call, {})
  BY <1>2, <1>4, <1>5 DEF FetchPackage, Matches
<1>7. CASE Refuse(c, "package")
  BY <1>1, <1>7, RefuseRead DEF Reasons, Blamed
<1>8. CASE Awaits(c, call, {})
  <2>1. /\ call.kind = calls[c].kind /\ call.tx = calls[c].tx
        /\ call.head = calls[c].head /\ call.step = "unlock"
        /\ call.seed = calls[c].seed /\ call.archive = archive
    BY <1>5 DEF Shaped, NoCall
  <2>2. Proceeds(call, LetterOf(c), published)
    BY <1>2, <1>3, <1>4, <2>1 DEF Proceeds
  <2> QED
    BY <1>1, <1>8, <2>1, <2>2, OpensOn
<1> QED
  BY <1>6, <1>7, <1>8

\* The key of a letter opens under the mailbox key it was wrapped for.
LEMMA UnlockInv ==
    ASSUME InboxInv, Shaped, NEW c \in Slot, Unlock(c)
    PROVE  InboxInv'
<1>1. /\ calls[c].kind \in {"open", "recover"} /\ calls[c].step = "unlock"
      /\ UNCHANGED world /\ UNCHANGED boxFaults
  BY DEF Unlock, At, Quiet
<1>2. PICK l : l = LetterOf(c)
  OBVIOUS
<1>3. /\ l = chain[calls[c].tx] /\ l.keyId \in 1..MaxKeys /\ l \in LetterTx
      /\ WellSealed(l) /\ calls[c].seed = Seed(l.keyId)
      /\ calls[c].archive = Archive(Parcel(l))
  BY <1>1, <1>2, LetterInHand DEF Proceeds
<1>4. PICK key : key = UnwrapLetterKey(SealedKey(l), KeyPair(calls[c].seed),
                                       published)
  OBVIOUS
<1>5. CASE ~published
  <2>1. Refuse(c, "early")
    BY <1>5 DEF Unlock
  <2> QED
    BY <1>1, <2>1, RefuseRead DEF Reasons, Blamed
<1>6. CASE published
  <2>2. l.bytes \in {Honest, Foreign} /\ l.wrappedFor \in 1..MaxKeys
    BY <1>3 DEF LetterTx, WellSealed
  <2>3. /\ key # Bad => key = LetterKey(l.bytes)
        /\ l.wrappedFor = l.keyId => key # Bad
    <3>1. PICK b : b = SealBox(LetterKey(l.bytes), PublicOf(Seed(l.wrappedFor)))
      OBVIOUS
    <3>2. b # Bad /\ LetterKey(l.bytes) # Bad
      BY <2>2, <3>1, DeliveryAssumption
    <3>3. key = OpenSealBox(b, KeyPair(Seed(l.keyId)))
      BY <1>3, <1>4, <1>6, <3>1, <3>2
         DEF UnwrapLetterKey, SealedKey, WrapLetterKey, Tlock, TlockOpen
    <3>4. key = IF PublicOf(Seed(l.wrappedFor)) = PublicOf(Seed(l.keyId))
                THEN LetterKey(l.bytes) ELSE Bad
      BY <3>1, <3>3 DEF OpenSealBox, SealBox, KeyPair
    <3> QED
      BY <3>2, <3>4
  <2>4. CASE key = Bad
    <3>1. Refuse(c, "letterKey")
      BY <1>2, <1>4, <1>6, <2>4 DEF Unlock
    <3>2. ~chain[calls[c].tx].honest
      BY <1>3, <2>3, <2>4 DEF WellSealed
    <3> QED
      BY <1>1, <3>1, <3>2, RefuseRead DEF Reasons
  <2>5. CASE key # Bad
    <3>1. PICK call : call = [calls[c] EXCEPT !.step = "decrypt", !.key = key]
      OBVIOUS
    <3>2. Awaits(c, call, {"letterKey"})
      BY <1>2, <1>4, <1>6, <2>5, <3>1 DEF Unlock
    <3>3. /\ call.kind = calls[c].kind /\ call.tx = calls[c].tx
          /\ call.head = calls[c].head /\ call.step = "decrypt"
          /\ call.seed = calls[c].seed /\ call.archive = calls[c].archive
          /\ call.key = key
      BY <3>1 DEF Shaped, NoCall
    <3>4. Proceeds(call, LetterOf(c), published)
      BY <1>2, <1>3, <2>3, <2>5, <3>3 DEF Proceeds
    <3> QED
      BY <1>1, <3>2, <3>3, <3>4, OpensOn
  <2> QED
    BY <2>4, <2>5
<1> QED
  BY <1>5, <1>6

\* Under the key of a letter's bytes its text opens only as the letter they
\* were encrypted for, and then its items do.
LEMMA LetterDecrypts ==
    ASSUME NEW l \in LetterTx, WellSealed(l),
           NEW message, message = DecryptText(TextBytes(l), LetterKey(l.bytes),
                                              ContextFor(l.letter)),
           NEW media, media = DecryptGbyl(Archive(Parcel(l)),
                                          LetterKey(l.bytes),
                                          ContextFor(l.letter))
    PROVE  /\ message # Bad =>
                 /\ l.letter = l.bytes /\ media = l.items /\ media # Bad
                 /\ message = [l.text EXCEPT !.mark = FALSE]
           /\ l.letter = l.bytes => message # Bad
<1>1. l.text \in Texts /\ l.items \in Parcels
  BY DEF LetterTx
<1>2. PICK text : text = l.text
  OBVIOUS
<1>3. /\ text.size \in Nat /\ text.gzip \in Nat
      /\ [text EXCEPT !.mark = FALSE] # Bad
      /\ \A zipped \in BOOLEAN : [text |-> text, zipped |-> zipped] # Bad
  BY <1>1, <1>2, DeliveryAssumption
<1>4. PICK key, own, other :
          /\ key = LetterKey(l.bytes)
          /\ own = ContextFor(l.bytes) /\ other = ContextFor(l.letter)
  OBVIOUS
<1>8. PICK s : s = TextBytes(l)
  OBVIOUS
<1>9. s = EncryptText(text, key, own) /\ s # Bad
  BY <1>2, <1>4, <1>8 DEF TextBytes, WellSealed
<1>5. message = IF other = own THEN [text EXCEPT !.mark = FALSE] ELSE Bad
  <2>1. message = DecryptText(s, key, other)
    BY <1>4, <1>8
  <2>2. DecryptText(s, key, other) =
            IF other = own THEN [text EXCEPT !.mark = FALSE] ELSE Bad
    BY ONLY <1>3, <1>9, TextDecrypts
  <2> QED
    BY <2>1, <2>2
<1>6. other = own <=> l.letter = l.bytes
  BY <1>4 DEF ContextFor, Context
<1>7. ASSUME l.letter = l.bytes
      PROVE  media = l.items /\ media # Bad
  <2>1. PICK items \in Parcels : items = l.items
    BY <1>1
  <2>2. /\ items # Bad /\ items \in Seq({items[i] : i \in DOMAIN items})
        /\ \A i \in DOMAIN items :
              /\ items[i] \in [type: Nat, codec: Nat,
                               content: {items[i].content}, size: Nat]
              /\ items[i].content # Bad
    BY DeliveryAssumption
  <2>3. PICK n \in Nat : n = Len(items)
    BY <2>2
  <2>4. DOMAIN items = 1..n /\ items = [i \in 1..n |-> items[i]]
    BY <2>2, <2>3
  <2>5. ItemList(items, n)
    BY <2>2, <2>3, <2>4 DEF Field, ItemList
  <2>6. PICK archive : archive = Archive(Parcel(l))
    OBVIOUS
  <2>7. archive = PackGbyl(items, key, own) /\ archive # Bad
    BY <1>4, <2>1, <2>6 DEF Archive, Parcel, WellSealed
  <2>8. DecryptGbyl(archive, key, own) = items
    BY ONLY <2>5, <2>7, GbylDecrypts, n \in Nat
  <2> QED
    BY <1>4, <1>7, <2>1, <2>2, <2>6, <2>8
<1> QED
  BY <1>2, <1>3, <1>5, <1>6, <1>7

LEMMA ShowInv ==
    ASSUME InboxInv, Shaped, NEW c \in Slot, Show(c)
    PROVE  InboxInv'
<1>1. /\ calls[c].kind \in {"open", "recover"} /\ calls[c].step = "decrypt"
      /\ UNCHANGED world /\ UNCHANGED boxFaults
  BY DEF Show, At, Quiet
<1>2. PICK l : l = LetterOf(c)
  OBVIOUS
<1>3. /\ l = chain[calls[c].tx] /\ calls[c].tx \in LettersOf(chain)
      /\ l \in LetterTx /\ WellSealed(l)
      /\ calls[c].archive = Archive(Parcel(l))
      /\ calls[c].key = LetterKey(l.bytes)
  BY <1>1, <1>2, LetterInHand DEF Proceeds
<1>4. PICK message : message = DecryptText(TextBytes(l), calls[c].key,
                                           ContextFor(l.letter))
  OBVIOUS
<1>5. PICK media : media = DecryptGbyl(calls[c].archive, calls[c].key,
                                       ContextFor(l.letter))
  OBVIOUS
<1>6. /\ message # Bad =>
            /\ l.letter = l.bytes /\ media = l.items /\ media # Bad
            /\ message = [l.text EXCEPT !.mark = FALSE]
      /\ l.letter = l.bytes => message # Bad
  BY <1>3, <1>4, <1>5, LetterDecrypts
<1>7. CASE message = Bad
  <2>1. Refuse(c, "content")
    BY <1>2, <1>4, <1>7 DEF Show
  <2>2. ~chain[calls[c].tx].honest
    BY <1>3, <1>6, <1>7 DEF WellSealed
  <2> QED
    BY <1>1, <2>1, <2>2, RefuseRead DEF Reasons
<1>8. CASE message # Bad
  <2>1. PICK opened : opened = [message |-> message, media |-> media]
    OBVIOUS
  <2>2. PICK recovery : recovery = IF calls[c].kind = "recover"
                                   THEN NoTx ELSE box.recovery
    OBVIOUS
  <2>3. PICK codeSent : codeSent = IF calls[c].kind = "recover"
                                   THEN FALSE ELSE box.codeSent
    OBVIOUS
  <2>4. PICK new : new = [box EXCEPT !.opened = opened,
                             !.openedTx = calls[c].tx, !.recovery = recovery,
                             !.codeSent = codeSent]
    OBVIOUS
  <2>5. Ends(c, new)
    BY <1>2, <1>4, <1>5, <1>6, <1>8, <2>1, <2>2, <2>3, <2>4 DEF Show
  <2>6. /\ DOMAIN new = DOMAIN Mounted /\ new.opened = opened
        /\ new.openedTx = calls[c].tx /\ new.recovery = recovery
        /\ new.codeSent = codeSent /\ new.letters = box.letters
        /\ new.head = box.head /\ new.error = box.error
        /\ new.selected = box.selected
    BY <2>4 DEF Shaped, Mounted
  <2>7. OpenedOK(opened, calls[c].tx, chain)
    BY <1>3, <1>6, <1>8, <2>1 DEF OpenedOK, Authentic
  <2>8. /\ recovery \in LettersOf(chain) \cup {NoTx} /\ codeSent \in BOOLEAN
    BY <2>2, <2>3 DEF InboxInv, ScreenOK
  <2>9. ScreenOK(new, chain)
    BY <1>3, <2>6, <2>7, <2>8 DEF InboxInv, ScreenOK
  <2> QED
    BY <1>1, <2>5, <2>6, <2>9, EndsRead
<1> QED
  BY <1>7, <1>8

-----------------------------------------------------------------------------
(* The buttons, the page and the world. *)

\* A freshly mounted inbox shows nothing.
LEMMA NothingShown ==
    ASSUME ChainOK(chain), NEW here, NEW b, b = [Mounted EXCEPT !.here = here]
    PROVE  ScreenOK(b, chain)
<1>1. Mined(chain) /\ Latest(chain) \in Nat
  BY OfChain DEF ChainOK
<1>2. /\ b.letters = << >> /\ b.head = 0 /\ b.selected = NoTx
      /\ b.opened = Bad /\ b.openedTx = NoTx /\ b.error = NoError
      /\ b.recovery = NoTx /\ b.codeSent = FALSE
  BY DEF Mounted
<1>3. ListOK(b.letters, b.head, chain)
  <2>1. Before(chain, b.head + 1) = {}
    BY <1>1, <1>2, NothingBefore
  <2>2. Lists(b.letters, Before(chain, b.head + 1))
    BY <1>2, <2>1, NoneListed
  <2>3. DOMAIN b.letters = {}
    BY <1>2
  <2> QED
    BY <1>1, <1>2, <2>2, <2>3 DEF ListOK
<1>4. ErrorOK(b.error, chain)
  BY <1>2 DEF ErrorOK, NoError, Reasons
<1> QED
  BY <1>2, <1>3, <1>4 DEF ScreenOK, OpenedOK

LEMMA RefreshInv ==
    ASSUME InboxInv, Shaped, NEW c \in Slot, NEW new, Refresh(c, new), Quiet,
           DOMAIN new = DOMAIN Mounted, ScreenOK(new, chain)
    PROVE  InboxInv'
<1>1. UNCHANGED <<chain, published, passkeys, clock, boxFaults>>
  BY DEF Quiet, world
<1>2. WorldOK'
  BY <1>1 DEF InboxInv, WorldOK
<1>3. ScreenOK(box, chain)'
  <2>1. PICK b : b = [new EXCEPT !.selected = NoTx, !.busy = TRUE,
                                 !.error = NoError]
    OBVIOUS
  <2>2. /\ b.letters = new.letters /\ b.head = new.head
        /\ b.error = NoError /\ b.opened = new.opened
        /\ b.openedTx = new.openedTx /\ b.selected = NoTx
        /\ b.recovery = new.recovery /\ b.codeSent = new.codeSent
    BY <2>1 DEF Mounted
  <2>3. ErrorOK(NoError, chain)
    BY DEF ErrorOK, NoError, Reasons
  <2>4. ScreenOK(b, chain)
    BY <2>2, <2>3 DEF ScreenOK
  <2>5. box' = b
    BY <2>1 DEF Refresh
  <2> QED
    BY <1>1, <2>4, <2>5
<1>4. ASSUME NEW d \in Slot PROVE CallOK(calls'[d], chain', published')
  <2>1. CASE d = c
    <3>1. PICK call : call = [Call("refresh", "head", NoTx) EXCEPT
                                 !.newest = TRUE]
      OBVIOUS
    <3>2. calls'[d] = call
      BY <2>1, <3>1 DEF Refresh
    <3>3. /\ call.kind = "refresh" /\ call.step = "head" /\ call.head = 0
          /\ call.logs = << >>
      BY <3>1 DEF Call, NoCall
    <3>4. Latest(chain) \in Nat
      BY OfChain DEF InboxInv, WorldOK
    <3>5. CallOK(call, chain, published)
      BY <3>3, <3>4 DEF CallOK
    <3> QED
      BY <1>1, <3>2, <3>5
  <2>2. CASE d # c
    <3>1. PICK call : call = [calls[d] EXCEPT !.newest = FALSE]
      OBVIOUS
    <3>2. calls'[d] = call
      BY <2>2, <3>1 DEF Refresh
    <3>3. /\ call.kind = calls[d].kind /\ call.step = calls[d].step
          /\ call.tx = calls[d].tx /\ call.head = calls[d].head
          /\ call.ranges = calls[d].ranges /\ call.logs = calls[d].logs
          /\ call.seed = calls[d].seed /\ call.archive = calls[d].archive
          /\ call.key = calls[d].key
      BY <3>1 DEF Shaped, NoCall
    <3>4. CallOK(calls[d], chain, published)
      BY DEF InboxInv
    <3>5. CallOK(call, chain, published)
      BY <3>3, <3>4, SameCall
    <3> QED
      BY <1>1, <3>2, <3>5
  <2> QED
    BY <2>1, <2>2
<1> QED
  BY <1>2, <1>3, <1>4 DEF InboxInv

\* A button starts a call for a letter and takes an error away.
LEMMA Begins ==
    ASSUME InboxInv, Shaped, NEW c \in Slot,
           NEW kind \in {"open", "code", "recover"},
           NEW step \in {"envelopes", "mail", "verify"},
           NEW t \in LettersOf(chain), Becomes(c, Call(kind, step, t)),
           ScreenOK(box', chain), Quiet
    PROVE  InboxInv'
<1>1. PICK call : call = Call(kind, step, t)
  OBVIOUS
<1>2. /\ call.kind = kind /\ call.step = step /\ call.tx = t /\ call.head = 0
  BY <1>1 DEF Call, NoCall
<1>3. Latest(chain) \in Nat
  BY OfChain DEF InboxInv, WorldOK
<1>4. CallOK(call, chain, published)
  BY <1>2, <1>3 DEF CallOK, Proceeds
<1>5. UNCHANGED world /\ UNCHANGED boxFaults
  BY DEF Quiet
<1> QED
  BY <1>1, <1>4, <1>5, CallMoves

LEMMA OpenInv ==
    ASSUME InboxInv, Shaped, NEW c \in Slot, NEW t \in Letters, Open(c, t)
    PROVE  InboxInv'
<1>1. t \in LettersOf(chain)
  BY OfChain DEF InboxInv, WorldOK
<1>2. Becomes(c, Call("open", "envelopes", t)) /\ Quiet
  BY DEF Open
<1>3. PICK new : new = [box EXCEPT !.selected = t, !.opened = Bad,
                           !.openedTx = NoTx, !.busy = TRUE,
                           !.error = NoError]
  OBVIOUS
<1>4. box' = new
  BY <1>3 DEF Open
<1>5. /\ new.letters = box.letters /\ new.head = box.head
      /\ new.error = NoError /\ new.opened = Bad /\ new.openedTx = NoTx
      /\ new.selected = t /\ new.recovery = box.recovery
      /\ new.codeSent = box.codeSent
  BY <1>3 DEF Shaped, Mounted
<1>6. ErrorOK(NoError, chain)
  BY DEF ErrorOK, NoError, Reasons
<1>7. ScreenOK(new, chain)
  BY <1>1, <1>5, <1>6 DEF InboxInv, ScreenOK, OpenedOK
<1> QED
  BY <1>1, <1>2, <1>4, <1>7, Begins

LEMMA FromPanelInv ==
    ASSUME InboxInv, Shaped, NEW c \in Slot, RequestCode(c) \/ Recover(c)
    PROVE  InboxInv'
<1>1. PICK kind \in {"code", "recover"}, step \in {"mail", "verify"} :
          FromPanel(c, kind, step)
  BY DEF RequestCode, Recover
<1>2. PICK t : t = box.recovery
  OBVIOUS
<1>3. t \in LettersOf(chain)
  BY <1>1, <1>2 DEF FromPanel, InboxInv, ScreenOK
<1>4. Becomes(c, Call(kind, step, t)) /\ Quiet
  BY <1>1, <1>2 DEF FromPanel
<1>5. PICK new : new = [box EXCEPT !.busy = TRUE, !.error = NoError]
  OBVIOUS
<1>6. box' = new
  BY <1>1, <1>5 DEF FromPanel
<1>7. /\ new.letters = box.letters /\ new.head = box.head
      /\ new.error = NoError /\ new.opened = box.opened
      /\ new.openedTx = box.openedTx /\ new.selected = box.selected
      /\ new.recovery = box.recovery /\ new.codeSent = box.codeSent
  BY <1>5 DEF Shaped, Mounted
<1>8. ErrorOK(NoError, chain)
  BY DEF ErrorOK, NoError, Reasons
<1>9. ScreenOK(new, chain)
  BY <1>7, <1>8 DEF InboxInv, ScreenOK
<1> QED
  BY <1>1, <1>3, <1>4, <1>6, <1>9, Begins

LEMMA CodeSentInv ==
    ASSUME InboxInv, Shaped, NEW c \in Slot, CodeSent(c)
    PROVE  InboxInv'
<1>1. PICK new : new = [box EXCEPT !.codeSent = TRUE]
  OBVIOUS
<1>2. Ends(c, new) /\ UNCHANGED world /\ UNCHANGED boxFaults
  BY <1>1 DEF CodeSent, Quiet
<1>3. /\ DOMAIN new = DOMAIN Mounted
      /\ new.letters = box.letters /\ new.head = box.head
      /\ new.error = box.error /\ new.opened = box.opened
      /\ new.openedTx = box.openedTx /\ new.selected = box.selected
      /\ new.recovery = box.recovery /\ new.codeSent = TRUE
  BY <1>1 DEF Shaped, Mounted
<1>4. ScreenOK(new, chain)
  BY <1>3 DEF InboxInv, ScreenOK
<1> QED
  BY <1>2, <1>3, <1>4, EndsRead

LEMMA CallFailsInv ==
    ASSUME InboxInv, Shaped, NEW c \in Slot, CallFails(c)
    PROVE  InboxInv'
  BY RefuseRead DEF CallFails, Reasons, Blamed

\* Only the screen changes.
LEMMA ScreenMoves ==
    ASSUME InboxInv, ScreenOK(box', chain), UNCHANGED calls, Quiet
    PROVE  InboxInv'
<1>1. UNCHANGED <<chain, published, passkeys, clock, boxFaults, calls>>
  BY DEF Quiet, world
<1>2. WorldOK'
  BY <1>1 DEF InboxInv, WorldOK
<1>3. ScreenOK(box, chain)'
  BY <1>1
<1>4. \A c \in Slot : CallOK(calls'[c], chain', published')
  BY <1>1 DEF InboxInv
<1> QED
  BY <1>2, <1>3, <1>4 DEF InboxInv

LEMMA RecoveryPanelInv ==
    ASSUME InboxInv, Shaped, (\E t \in Letters : OpenPanel(t)) \/ ClosePanel
    PROVE  InboxInv'
<1>1. CASE ClosePanel
  <2>1. PICK new : new = [box EXCEPT !.recovery = NoTx, !.codeSent = FALSE]
    OBVIOUS
  <2>2. box' = new /\ UNCHANGED calls /\ Quiet
    BY <1>1, <2>1 DEF ClosePanel
  <2>3. /\ new.letters = box.letters /\ new.head = box.head
        /\ new.error = box.error /\ new.opened = box.opened
        /\ new.openedTx = box.openedTx /\ new.selected = box.selected
        /\ new.recovery = NoTx /\ new.codeSent = FALSE
    BY <2>1 DEF Shaped, Mounted
  <2>4. ScreenOK(new, chain)
    BY <2>3 DEF InboxInv, ScreenOK
  <2> QED
    BY <2>2, <2>4, ScreenMoves
<1>2. ASSUME NEW t \in Letters, OpenPanel(t)
      PROVE  InboxInv'
  <2>1. PICK new : new = [box EXCEPT !.recovery = t]
    OBVIOUS
  <2>2. box' = new /\ UNCHANGED calls /\ Quiet
    BY <1>2, <2>1 DEF OpenPanel
  <2>3. /\ new.letters = box.letters /\ new.head = box.head
        /\ new.error = box.error /\ new.opened = box.opened
        /\ new.openedTx = box.openedTx /\ new.selected = box.selected
        /\ new.recovery = t /\ new.codeSent = box.codeSent
    BY <2>1 DEF Shaped, Mounted
  <2>4. t \in LettersOf(chain)
    BY OfChain DEF InboxInv, WorldOK
  <2>5. ScreenOK(new, chain)
    BY <2>3, <2>4 DEF InboxInv, ScreenOK
  <2> QED
    BY <2>2, <2>5, ScreenMoves
<1> QED
  BY <1>1, <1>2

\* The calls go on when the page is left.
LEMMA LeaveRead ==
    ASSUME InboxInv, Shaped, Leave
    PROVE  InboxInv'
<1>1. UNCHANGED <<chain, published, passkeys, clock>>
  BY DEF Leave, world
<1>2. boxFaults' \in 0..MaxBoxFaults
  <2>1. BoxFault /\ boxFaults \in 0..MaxBoxFaults
    BY DEF Leave, InboxInv, WorldOK
  <2> QED
    BY <2>1, InboxAssumption DEF BoxFault
<1>3. WorldOK'
  BY <1>1, <1>2 DEF InboxInv, WorldOK
<1>4. ScreenOK(box, chain)'
  <2>1. box' = [Mounted EXCEPT !.here = FALSE]
    BY DEF Leave, Unmounted
  <2>2. ScreenOK(box', chain)
    BY <2>1, NothingShown DEF InboxInv, WorldOK
  <2> QED
    BY <1>1, <2>2
<1>5. ASSUME NEW d \in Slot PROVE CallOK(calls'[d], chain', published')
  <2>1. CallOK(calls[d], chain, published)
    BY DEF InboxInv
  <2>2. CASE calls[d] = NoCall
    <3>1. calls'[d] = calls[d]
      BY <2>2 DEF Leave
    <3> QED
      BY <1>1, <2>1, <3>1
  <2>3. CASE calls[d] # NoCall
    <3>1. PICK call : call = [calls[d] EXCEPT !.newest = FALSE,
                                              !.current = FALSE]
      OBVIOUS
    <3>2. calls'[d] = call
      BY <2>3, <3>1 DEF Leave
    <3>3. /\ call.kind = calls[d].kind /\ call.step = calls[d].step
          /\ call.tx = calls[d].tx /\ call.head = calls[d].head
          /\ call.ranges = calls[d].ranges /\ call.logs = calls[d].logs
          /\ call.seed = calls[d].seed /\ call.archive = calls[d].archive
          /\ call.key = calls[d].key
      BY <3>1 DEF Shaped, NoCall
    <3>4. CallOK(call, chain, published)
      BY <2>1, <3>3, SameCall
    <3> QED
      BY <1>1, <3>2, <3>4
  <2> QED
    BY <2>2, <2>3
<1> QED
  BY <1>3, <1>4, <1>5 DEF InboxInv

\* The network publishes its round, Christmas comes, a passkey is lost.
LEMMA WorldMoves ==
    ASSUME InboxInv, Publish \/ Countdown \/ LosePasskey
    PROVE  InboxInv'
<1>1. /\ UNCHANGED <<chain, box, calls>> /\ passkeys' \subseteq passkeys
      /\ published' \in BOOLEAN /\ clock' \in BOOLEAN
      /\ published => published'
      /\ BoxFault \/ UNCHANGED boxFaults
  BY DEF Publish, Countdown, LosePasskey, InboxInv, WorldOK
<1>2. boxFaults' \in 0..MaxBoxFaults
  BY <1>1, InboxAssumption DEF BoxFault, InboxInv, WorldOK
<1>3. WorldOK'
  BY <1>1, <1>2 DEF InboxInv, WorldOK
<1>4. ScreenOK(box, chain)'
  BY <1>1 DEF InboxInv
<1>5. ASSUME NEW d \in Slot PROVE CallOK(calls'[d], chain', published')
  <2>1. CallOK(calls[d], chain, published)
    BY DEF InboxInv
  <2>2. CallOK(calls[d], chain, published')
    BY <1>1, <2>1 DEF CallOK, Proceeds
  <2> QED
    BY <1>1, <2>2
<1> QED
  BY <1>3, <1>4, <1>5 DEF InboxInv

LEMMA InboxQuiet ==
    ASSUME InboxInv, UNCHANGED inboxVars
    PROVE  InboxInv'
<1>1. UNCHANGED calls /\ UNCHANGED box /\ Quiet
  BY DEF inboxVars, Quiet
<1>2. ScreenOK(box', chain)
  BY <1>1 DEF InboxInv
<1> QED
  BY <1>1, <1>2, ScreenMoves

LEMMA InboxInitInv == Init => InboxInv
<1> SUFFICES ASSUME Init PROVE InboxInv
  OBVIOUS
<1>1. PICK tx : tx = Registration(1, 1)
  OBVIOUS
<1>2. tx \in KeyTx /\ tx.kind = "key" /\ tx.keyId = 1 /\ tx.block = 1
  BY <1>1 DEF Registration, KeyTx
<1>3. /\ chain = <<tx>> /\ published = FALSE /\ passkeys = {1}
      /\ clock = FALSE /\ box = Unmounted /\ boxFaults = 0
      /\ \A c \in Slot : calls[c] = NoCall
  BY <1>1 DEF Init, InboxInit
<1>4. Mined(chain)
  <2>1. PICK S : S = KeyTx \cup LetterTx
    OBVIOUS
  <2>2. <<tx>> \in Seq(S) /\ Len(<<tx>>) > 0
    BY <1>2, <2>1
  <2> QED
    BY <1>2, <1>3, <2>1, <2>2 DEF Mined
<1>5. KeysOf(chain) = {1} /\ LettersOf(chain) = {}
  BY <1>2, <1>3 DEF KeysOf, LettersOf
<1>6. KeyCount(chain) = 1
  <2>1. Cardinality({1}) = 1
    BY FS_Singleton
  <2> QED
    BY <1>5, <2>1 DEF KeyCount
<1>7. 1 \in 1..MaxKeys
  BY InboxAssumption
<1>8. RegisteredOnce(chain)
  BY <1>2, <1>3, <1>5, <1>6, <1>7 DEF RegisteredOnce
<1>9. ChainOK(chain)
  BY <1>4, <1>5, <1>8 DEF ChainOK, LettersSealed
<1>10. WorldOK
  <2>1. boxFaults \in 0..MaxBoxFaults
    BY <1>3, InboxAssumption
  <2>2. passkeys \subseteq 1..MaxKeys
    BY <1>3, <1>7
  <2>3. published \in BOOLEAN /\ clock \in BOOLEAN
    BY <1>3
  <2> QED
    BY <1>9, <2>1, <2>2, <2>3 DEF WorldOK
<1>11. ScreenOK(box, chain)
  BY <1>3, <1>9, NothingShown DEF Unmounted
<1>12. CallOK(NoCall, chain, published)
  BY <1>9, NoCallOK
<1> QED
  BY <1>3, <1>10, <1>11, <1>12 DEF InboxInv

LEMMA InboxStepInv == InboxInv /\ IInv /\ [Next]_vars => InboxInv'
<1> SUFFICES ASSUME InboxInv, IInv, [Next]_vars
             PROVE  InboxInv'
  OBVIOUS
<1>1. Shaped
  BY DEF IInv
<1>2. CASE UNCHANGED inboxVars
  BY <1>2, InboxQuiet
<1>3. CASE SealParcel
  BY <1>3, SealParcelInv
<1>4. CASE SealElsewhere
  BY <1>4, SealElsewhereInv
<1>5. ASSUME NEW c \in Slot, CallStep(c)
      PROVE  InboxInv'
  BY <1>1, <1>5, HeadInv, PageInv, LoadedInv, CodeSentInv, VerifiedInv,
     EnvelopesInv, PasskeyInv, RecoveryInv, UnwrappedInv, CheckedInv,
     FetchedInv, UnlockInv, ShowInv DEF CallStep
<1>6. ASSUME NEW c \in Slot, Enter(c)
      PROVE  InboxInv'
  <2>1. Refresh(c, Mounted) /\ Quiet
    BY <1>6 DEF Enter
  <2>2. PICK b : b = [Mounted EXCEPT !.here = TRUE]
    OBVIOUS
  <2>4. ScreenOK(b, chain)
    BY <2>2, NothingShown DEF InboxInv, WorldOK
  <2>5. /\ Mounted.letters = b.letters /\ Mounted.head = b.head
        /\ Mounted.error = b.error /\ Mounted.opened = b.opened
        /\ Mounted.openedTx = b.openedTx /\ Mounted.selected = b.selected
        /\ Mounted.recovery = b.recovery /\ Mounted.codeSent = b.codeSent
    BY <2>2 DEF Mounted
  <2>3. ScreenOK(Mounted, chain)
    BY <2>4, <2>5, SameScreen
  <2> QED
    BY <1>1, <2>1, <2>3, RefreshInv
<1>7. ASSUME NEW c \in Slot, RefreshAgain(c)
      PROVE  InboxInv'
  <2>1. Refresh(c, box) /\ Quiet /\ DOMAIN box = DOMAIN Mounted
    BY <1>1, <1>7 DEF RefreshAgain, Shaped
  <2>2. ScreenOK(box, chain)
    BY DEF InboxInv
  <2> QED
    BY <1>1, <2>1, <2>2, RefreshInv
<1>8. ASSUME NEW c \in Slot,
             \/ CallFails(c) \/ RefreshFails(c)
             \/ RequestCode(c) \/ Recover(c) \/ \E t \in Letters : Open(c, t)
      PROVE  InboxInv'
  BY <1>1, <1>8, CallFailsInv, RefreshFailsInv, FromPanelInv, OpenInv
<1>9. CASE InboxNext
  <2>1. CASE RotateKey
    BY <2>1, RotateInv
  <2>2. CASE Leave
    BY <1>1, <2>2, LeaveRead
  <2>3. CASE Publish \/ Countdown \/ LosePasskey
    BY <2>3, WorldMoves
  <2>4. CASE (\E t \in Letters : OpenPanel(t)) \/ ClosePanel
    BY <1>1, <2>4, RecoveryPanelInv
  <2> QED
    BY <1>5, <1>6, <1>7, <1>8, <1>9, <2>1, <2>2, <2>3, <2>4 DEF InboxNext
<1> QED
  BY <1>2, <1>3, <1>4, <1>9 DEF Next, vars, inboxVars

\* Reading works on what the chain holds: the calls, the list, the error and
\* the open letter agree with the transactions they are about, and with those
\* that came since.  (use-inbox.ts, onchain-inbox.ts)
THEOREM InboxInvariant == Spec => []InboxInv
<1>1. Init => IInv /\ InboxInv
  BY InitInv, InboxInitInv
<1>2. (IInv /\ InboxInv) /\ [Next]_vars => (IInv /\ InboxInv)'
  BY StepInv, InboxStepInv
<1> QED
  BY <1>1, <1>2, PTL DEF Spec

\* The list shows every letter to this wallet up to the block that was the
\* latest when it was loaded, each once and the newest block first: however
\* many pages, and whatever is mined while they are read.  (loadInbox,
\* blockRanges)
THEOREM LettersCompleteAlways == Spec => []LettersComplete
<1>1. InboxInv => LettersComplete
  <2> SUFFICES ASSUME InboxInv PROVE LettersComplete
    OBVIOUS
  <2>1. ChainOK(chain) /\ Mined(chain) /\ Letters = LettersOf(chain)
    BY OfChain DEF InboxInv, WorldOK, ChainOK
  <2>2. PICK head \in Nat : head = box.head
    BY DEF InboxInv, ScreenOK, ListOK
  <2>3. PICK s : s = box.letters
    OBVIOUS
  <2>4. PICK S : S = Before(chain, head + 1)
    OBVIOUS
  <2>5. /\ Lists(s, S)
        /\ \A i, j \in DOMAIN s :
              i < j => chain[s[i]].block >= chain[s[j]].block
    BY <2>2, <2>3, <2>4 DEF InboxInv, ScreenOK, ListOK
  <2>6. S = {t \in Letters : chain[t].block <= head}
    <3>1. \A t \in LettersOf(chain) : chain[t].block \in Nat
      BY <2>1, TxOfChain DEF LettersOf
    <3>2. \A t \in LettersOf(chain) :
              chain[t].block < head + 1 <=> chain[t].block <= head
      BY <3>1
    <3> QED
      BY <2>1, <2>4, <3>2 DEF Before
  <2>7. Listed = S
    <3>1. /\ \A i \in DOMAIN s : s[i] \in S
          /\ \A t \in S : \E i \in DOMAIN s : s[i] = t
      BY <2>5 DEF Lists
    <3> QED
      BY <2>3, <3>1 DEF Listed
  <2>8. Len(s) = Cardinality(S)
    BY <2>5, ListCount
  <2> QED
    BY <2>2, <2>3, <2>5, <2>6, <2>7, <2>8 DEF LettersComplete
<1> QED
  BY <1>1, InboxInvariant, PTL

\* What is shown as a letter is the text and the media its author sealed, for
\* every letter, parcel, key and order of calls.  (use-inbox.ts:70-84)
THEOREM OpenedIsAuthenticAlways == Spec => []OpenedIsAuthentic
<1>1. InboxInv => OpenedIsAuthentic
  BY DEF InboxInv, ScreenOK, OpenedOK, Authentic, OpenedIsAuthentic
<1> QED
  BY <1>1, InboxInvariant, PTL

\* An honest letter is never refused for its keys or its content, however often
\* the mailbox key was rotated.  (decryptWith, loadMailboxEnvelopes)
THEOREM HonestLetterOpensAlways == Spec => []HonestLetterOpens
<1>1. InboxInv => HonestLetterOpens
  BY DEF InboxInv, ScreenOK, ErrorOK, HonestLetterOpens
<1> QED
  BY <1>1, InboxInvariant, PTL

LEMMA MediaTyping ==
    ASSUME MediaInv
    PROVE  MediaTypeOK
<1>1. ASSUME NEW p \in Preparation
      PROVE  /\ prep[p].files \in Selections \cup {<< >>}
             /\ prep[p].at \in 0..(Len(prep[p].files) + 1)
             /\ prep[p].step \in Rest \cup OnImage \cup OnVideo
             /\ \A i \in DOMAIN prep[p].items : OfMapping(prep[p].items[i])
             /\ prep[p].fault \in BOOLEAN
             /\ held[p] \subseteq {"bitmap", "input", "source", "output"}
  <2>1. prep[p] \in PrepState /\ Placed(prep[p])
    BY DEF MediaInv, Advancing
  <2>2. PICK files \in Selections \cup {<< >>} : files = prep[p].files
    BY <2>1 DEF PrepState
  <2>3. Len(files) \in Nat
    BY FilesOfSelection
  <2>4. prep[p].at \in 0..(Len(files) + 1)
    BY <2>1, <2>2, <2>3 DEF Placed, Resting
  <2>5. /\ prep[p].step \in Rest \cup OnImage \cup OnVideo
        /\ prep[p].fault \in BOOLEAN
        /\ \A i \in DOMAIN prep[p].items : OfMapping(prep[p].items[i])
    BY <2>1 DEF PrepState, Placed
  <2>6. held[p] \subseteq {"bitmap", "input", "source", "output"}
    BY DEF MediaInv, Holding
  <2> QED
    BY <2>2, <2>4, <2>5, <2>6
<1>2. /\ device \in [webp: BOOLEAN, plays: BOOLEAN, codecs: BOOLEAN]
      /\ core \in {"none", "loading", "loaded"}
      /\ collided \in BOOLEAN /\ mediaFaults \in 0..MaxMediaFaults
      /\ DOMAIN disk = Extension \cup {"output"}
  BY DEF MediaInv, MediaTyped, Leftovers
<1> QED
  BY <1>1, <1>2 DEF MediaTypeOK, OnImage, OnVideo, OfMapping

\* The state of both tabs has the types its components expect.
THEOREM TypeCorrect == Spec => []TypeOK
<1>1. MediaInv /\ InboxInv /\ IInv => TypeOK
  <2> SUFFICES ASSUME MediaInv, InboxInv, IInv PROVE TypeOK
    OBVIOUS
  <2>1. MediaTypeOK
    BY MediaTyping
  <2>2. InboxTypeOK
    <3>1. Letters = LettersOf(chain)
      BY OfChain DEF InboxInv, WorldOK
    <3>2. Listed \subseteq Letters
      <4>1. \A i \in DOMAIN box.letters : box.letters[i] \in LettersOf(chain)
        BY DEF InboxInv, ScreenOK, ListOK, Lists, Before
      <4> QED
        BY <3>1, <4>1 DEF Listed
    <3>3. \A c \in Slot : secrets[c] \subseteq Buffers
      BY DEF IInv, Covered, Erased, Buffers
    <3>4. /\ box.error \in [tx : Letters \cup {NoTx}, reason : Reasons]
          /\ {box.selected, box.openedTx, box.recovery} \subseteq
                 Letters \cup {NoTx}
          /\ {box.here, box.busy, box.codeSent} \subseteq BOOLEAN
      BY <3>1 DEF InboxInv, ScreenOK, ErrorOK, IInv, Shaped
    <3>5. /\ passkeys \subseteq 1..MaxKeys
          /\ {published, clock} \subseteq BOOLEAN
          /\ boxFaults \in 0..MaxBoxFaults
      BY DEF InboxInv, WorldOK
    <3> QED
      BY <3>2, <3>3, <3>4, <3>5 DEF InboxTypeOK
  <2> QED
    BY <2>1, <2>2 DEF TypeOK
<1> QED
  BY <1>1, MediaInvariant, InboxInvariant, SafetyInvariant, PTL
=============================================================================
