------------------------ MODULE WalletSession_proofs -------------------------
(***************************************************************************)
(* For any accounts, any number of overlapping calls and any trouble: the  *)
(* screen shows the wallet the server acts for, and the e-mail it calls    *)
(* verified was verified for that wallet.                                  *)
(***************************************************************************)
EXTENDS WalletSession, TLAPS

-----------------------------------------------------------------------------
(* The inductive invariant. *)

\* A provider is listened to for a session, and only then is the timer set.
Heard(p, s) ==
    /\ p.listening # None => s # None
    /\ p.timer => p.listening # None

ListenOK == Heard(page, session)

\* Whoever is asked to sign is an account.
CallsOK ==
    \A c \in Slot :
        calls[c].step \in {"sign", "verify"} => calls[c].address \in Address

\* The e-mail status is asked for the address that the page shows.
AskedIsShown == statusAsked \in {None, Shown}

\* A code that is on its way is for the wallet of its cookie.
PostOfItsWallet ==
    /\ ~elsewhere /\ email.post # None
    /\ email.post.address # None /\ email.post.wallet # None
    => email.post.address = email.post.wallet

IInv ==
    /\ TypeOK /\ ListenOK /\ CallsOK /\ AskedIsShown /\ PostOfItsWallet
    /\ ScreenMatchesCookie /\ EmailOfItsWallet

-----------------------------------------------------------------------------
(* A render. *)

Status == {"restoring", "authenticated", "anonymous"}
Active == Connector \cup {None}

\* The effects of a render change neither what is listened to, nor the
\* question whether the wallet has changed.
LEMMA EffectTyped ==
    ASSUME NEW s, NEW st, NEW p \in Page, NEW act \in Active,
           NEW e, e = ProviderEffect(s, st, p, act)
    PROVE  /\ e.page \in Page /\ e.active \in Active
           /\ e.restorer \in {"live", "orphan"}
           /\ e.page.mismatch = p.mismatch
           /\ e.page.listening = p.listening /\ e.page.timer = p.timer
<1>1. CASE st # "authenticated" \/ s = None
  <2>1. PICK b \in BOOLEAN : b = (st = "restoring")
    OBVIOUS
  <2>2. /\ e.page = [p EXCEPT !.ready = FALSE, !.restoring = b]
        /\ e.active = act /\ e.restorer = "orphan"
    BY <1>1, <2>1 DEF ProviderEffect
  <2> QED
    BY <2>2 DEF Page
<1>2. CASE ~(st # "authenticated" \/ s = None) /\ act # None
  <2>1. /\ e.page = [p EXCEPT !.ready = TRUE, !.restoring = FALSE]
        /\ e.active = act /\ e.restorer = "orphan"
    BY <1>2 DEF ProviderEffect
  <2> QED
    BY <2>1 DEF Page
<1>3. CASE ~(st # "authenticated" \/ s = None) /\ act = None
  <2>1. /\ e.page = [p EXCEPT !.restoring = TRUE] /\ e.restorer = "live"
        /\ e.active \in {"injected", None}
    BY <1>3 DEF ProviderEffect
  <2> QED
    BY <2>1 DEF Page, Active, Connector
<1> QED
  BY <1>1, <1>2, <1>3

LEMMA ListenTyped ==
    ASSUME NEW s, NEW p \in Page, NEW act \in Active, NEW again \in BOOLEAN,
           Heard(p, session), NEW q, q = Listen(s, p, act, again)
    PROVE  q \in Page /\ q.mismatch = p.mismatch /\ Heard(q, s)
<1>1. CASE again \/ s # session \/ p.ready # page.ready
  <2>1. PICK l \in Active : /\ q = [p EXCEPT !.timer = FALSE, !.listening = l]
                            /\ l # None => s # None
    BY <1>1 DEF Listen, Active
  <2> QED
    BY <2>1 DEF Page, Active, Heard
<1>2. CASE ~(again \/ s # session \/ p.ready # page.ready)
  BY <1>2 DEF Listen
<1> QED
  BY <1>1, <1>2

\* What a render leaves.
LEMMA CommitTyped ==
    ASSUME IInv, NEW s \in Maybe, NEW st \in Status, NEW p \in Page,
           Heard(p, session), NEW act \in Active, NEW mounting \in BOOLEAN,
           Commit(s, st, p, act, mounting)
    PROVE  /\ session' = s /\ status' = st
           /\ page' \in Page /\ page'.mismatch = p.mismatch
           /\ active' \in Active /\ restorer' \in {"idle", "live", "orphan"}
           /\ statusAsked' \in Maybe /\ ListenOK' /\ AskedIsShown'
<1> DEFINE moved == mounting \/ s # session \/ st # status
<1>1. PICK e : e = IF moved THEN ProviderEffect(s, st, p, act)
                   ELSE [page |-> p, active |-> act, restorer |-> restorer]
  OBVIOUS
<1>2. /\ session' = s /\ status' = st
      /\ page' = Listen(s, e.page, e.active, mounting)
      /\ active' = e.active
      /\ restorer' = IF e.restorer = "orphan" /\ restorer = "idle"
                     THEN "idle" ELSE e.restorer
      /\ statusAsked' = IF mounting \/ Shows(s, st, p) # Shown
                        THEN Shows(s, st, p) ELSE statusAsked
  BY <1>1 DEF Commit
<1>3. /\ e.page \in Page /\ e.active \in Active
      /\ e.restorer \in {"idle", "live", "orphan"}
      /\ e.page.mismatch = p.mismatch
      /\ e.page.listening = p.listening /\ e.page.timer = p.timer
  <2>1. CASE moved
    BY <1>1, <2>1, EffectTyped
  <2>2. CASE ~moved
    BY <1>1, <2>2 DEF IInv, TypeOK
  <2> QED
    BY <2>1, <2>2
<1>4. Heard(e.page, session)
  BY <1>3 DEF Heard
<1>5. page' \in Page /\ page'.mismatch = p.mismatch /\ ListenOK'
  BY <1>2, <1>3, <1>4, ListenTyped DEF ListenOK, Heard
<1>6. Shown' = Shows(s, st, p)
  BY <1>2, <1>5 DEF Shown, Shows
<1>7. statusAsked' \in Maybe /\ AskedIsShown'
  BY <1>2, <1>6 DEF IInv, TypeOK, AskedIsShown, Shown, Shows, Maybe
<1> QED
  BY <1>2, <1>3, <1>5, <1>7

\* A step renders once, and changes what is around the store as the other
\* hypotheses say.
LEMMA RenderInv ==
    ASSUME IInv, NEW s \in Maybe, NEW st \in Status, NEW p \in Page,
           Heard(p, session), NEW act \in Active, NEW mounting \in BOOLEAN,
           Commit(s, st, p, act, mounting),
           st = "authenticated" => s # None,
           UNCHANGED <<device, elsewhere, recorded>>,
           cookie' \in Maybe, saved' \in Maybe,
           accounts' \in [Connector -> SUBSET Address], wcMade' \in BOOLEAN,
           restore' \in {"none", "rehydrate", "fetch"},
           calls' \in [Slot -> Call], CallsOK', email' \in Email,
           trouble' \in 0..MaxTrouble,
           PostOfItsWallet', email'.verified \in {email.verified, None},
           ~elsewhere /\ st = "authenticated" => cookie' \in {s, None}
    PROVE  IInv'
<1>1. /\ session' = s /\ status' = st /\ page' \in Page
      /\ active' \in Active /\ restorer' \in {"idle", "live", "orphan"}
      /\ statusAsked' \in Maybe /\ ListenOK' /\ AskedIsShown'
  BY CommitTyped
<1>2. TypeOK'
  BY <1>1 DEF IInv, TypeOK, Active, Status
<1>3. ScreenMatchesCookie'
  BY <1>1 DEF ScreenMatchesCookie
<1>4. EmailOfItsWallet'
  BY DEF IInv, EmailOfItsWallet
<1> QED
  BY <1>1, <1>2, <1>3, <1>4 DEF IInv

\* The same for the steps of the calls and buttons: the e-mail registration
\* and the restoring are left alone.
LEMMA QuietRenderInv ==
    ASSUME IInv, NEW s \in Maybe, NEW st \in Status, NEW p \in Page,
           Heard(p, session), NEW act \in Active,
           Commit(s, st, p, act, FALSE),
           st = "authenticated" => s # None, Quiet,
           cookie' \in Maybe, saved' \in Maybe,
           accounts' \in [Connector -> SUBSET Address], wcMade' \in BOOLEAN,
           calls' \in [Slot -> Call], CallsOK', trouble' \in 0..MaxTrouble,
           ~elsewhere /\ st = "authenticated" => cookie' \in {s, None}
    PROVE  IInv'
<1>1. UNCHANGED <<device, restore, email, recorded, elsewhere>>
  BY DEF Quiet, mail
<1>2. /\ email' \in Email /\ email'.verified \in {email.verified, None}
      /\ PostOfItsWallet' /\ restore' \in {"none", "rehydrate", "fetch"}
  BY <1>1 DEF IInv, TypeOK, PostOfItsWallet
<1> QED
  BY <1>1, <1>2, RenderInv

\* A step that leaves the store and the cookie alone.
LEMMA StoreKeptInv ==
    ASSUME IInv, NEW p \in Page, Heard(p, session), NEW act \in Active,
           Render(p, act), Quiet,
           accounts' \in [Connector -> SUBSET Address], wcMade' \in BOOLEAN,
           calls' \in [Slot -> Call], CallsOK', trouble' \in 0..MaxTrouble
    PROVE  IInv'
<1>1. /\ session \in Maybe /\ status \in Status
      /\ status = "authenticated" => session # None
      /\ cookie \in Maybe /\ saved \in Maybe
      /\ ~elsewhere /\ status = "authenticated" => cookie \in {session, None}
  BY DEF IInv, TypeOK, Status, ScreenMatchesCookie
<1>2. /\ Commit(session, status, p, act, FALSE)
      /\ saved' = saved /\ cookie' = cookie
  BY DEF Render
<1> QED
  BY <1>1, <1>2, QuietRenderInv

-----------------------------------------------------------------------------
(* The slots of the calls, the bound, and the answers of an old mount. *)

LEMMA TroubleTyped ==
    ASSUME IInv, Trouble \/ UNCHANGED trouble
    PROVE  trouble' \in 0..MaxTrouble
  BY WalletAssumption DEF IInv, TypeOK, Trouble

LEMMA BeginTyped ==
    ASSUME IInv, NEW c \in Slot, NEW call \in Call, Begin(c, call),
           call.step \in {"sign", "verify"} => call.address \in Address
    PROVE  /\ calls' \in [Slot -> Call] /\ CallsOK'
           /\ trouble' \in 0..MaxTrouble
<1>1. PICK new \in Call : new = [call EXCEPT !.current = TRUE]
  BY DEF Call
<1>2. new.step \in {"sign", "verify"} => new.address \in Address
  BY <1>1 DEF Call
<1>3. calls' = [calls EXCEPT ![c] = new] /\ calls \in [Slot -> Call]
  BY <1>1 DEF Begin, IInv, TypeOK
<1>4. CallsOK'
  BY <1>2, <1>3 DEF IInv, CallsOK
<1>5. trouble' \in 0..MaxTrouble
  BY TroubleTyped DEF Begin
<1> QED
  BY <1>3, <1>4, <1>5

LEMMA EndTyped ==
    ASSUME IInv, NEW c \in Slot, End(c)
    PROVE  calls' \in [Slot -> Call] /\ CallsOK'
<1> USE WalletAssumption
<1>1. NoCall \in Call /\ NoCall.step = "none"
  BY DEF NoCall, Call, Maybe
<1> QED
  BY <1>1 DEF End, IInv, TypeOK, CallsOK

LEMMA StepTyped ==
    ASSUME IInv, NEW c \in Slot, Step(c, "connect") \/ Step(c, "disconnect")
                 \/ (Step(c, "verify") /\ At(c, "sign"))
    PROVE  calls' \in [Slot -> Call] /\ CallsOK'
<1>1. calls \in [Slot -> Call] /\ calls[c] \in Call
  BY DEF IInv, TypeOK
<1>2. PICK st \in {"connect", "disconnect", "verify"} :
          /\ Step(c, st) /\ (st = "verify" => At(c, "sign"))
  OBVIOUS
<1>3. PICK old \in Call, new \in Call :
          old = calls[c] /\ new = [old EXCEPT !.step = st]
  BY <1>1, <1>2 DEF Call
<1>4. calls' = [calls EXCEPT ![c] = new]
  BY <1>2, <1>3 DEF Step
<1>5. new.step \in {"sign", "verify"} => new.address \in Address
  BY <1>2, <1>3 DEF Call, At, IInv, CallsOK
<1> QED
  BY <1>1, <1>4, <1>5 DEF IInv, CallsOK

\* A change of the page that reaches the mounted hook, or not.
LEMMA OwnTyped ==
    ASSUME IInv, NEW c \in Slot, NEW p \in Page, Heard(p, session)
    PROVE  Own(c, p) \in Page /\ Heard(Own(c, p), session)
  BY DEF Own, IInv, TypeOK, ListenOK

\* The hook's state with new flags and choices, listening as before.
Redrawn(p, q) == q \in Page /\ q.listening = p.listening /\ q.timer = p.timer

LEMMA RedrawnHeard ==
    ASSUME NEW p, NEW q, NEW s, Heard(p, s), Redrawn(p, q)
    PROVE  q \in Page /\ Heard(q, s)
  BY DEF Heard, Redrawn

\* What the proofs use of the invariant.
LEMMA Types ==
    ASSUME IInv
    PROVE  /\ page \in Page /\ Heard(page, session) /\ session \in Maybe
           /\ status \in Status /\ cookie \in Maybe /\ saved \in Maybe
           /\ status = "authenticated" => session # None
           /\ active \in Active /\ wcMade \in BOOLEAN
           /\ device \in [injected: BOOLEAN, mobile: BOOLEAN]
           /\ accounts \in [Connector -> SUBSET Address]
           /\ calls \in [Slot -> Call] /\ CallsOK
           /\ email \in Email /\ recorded \subseteq Address
           /\ restore \in {"none", "rehydrate", "fetch"}
           /\ trouble \in 0..MaxTrouble
           /\ ~elsewhere /\ status = "authenticated" =>
                  cookie \in {session, None}
  BY DEF IInv, TypeOK, ListenOK, Status, Active, ScreenMatchesCookie

-----------------------------------------------------------------------------
(* The buttons. *)

LEMMA ConnectStartTyped ==
    ASSUME IInv, NEW call, NEW p, NEW s, NEW st, ConnectStart(call, p, s, st)
    PROVE  /\ accounts' \in [Connector -> SUBSET Address]
           /\ \E act \in Active : Commit(s, st, p, act, FALSE)
  BY Types DEF ConnectStart, Active, Connector

LEMMA ConnectInv ==
    ASSUME IInv, NEW c \in Slot, Connect(c)
    PROVE  IInv'
<1> USE WalletAssumption
<1>1. PICK call \in Call : /\ call.step = "connect" /\ Begin(c, call)
                           /\ ConnectStart(call, Asking(page), session, status)
  <2>1. PICK call : call = [NoCall EXCEPT !.kind = "login", !.step = "connect"]
    OBVIOUS
  <2>2. call \in Call /\ call.step = "connect"
    BY <2>1 DEF NoCall, Call, Maybe
  <2> QED
    BY <2>1, <2>2 DEF Connect
<1>2. Redrawn(page, Asking(page))
  BY Types DEF Asking, Page, Redrawn, Maybe
<1>3. PICK p \in Page : p = Asking(page) /\ Heard(p, session)
  BY <1>2, Types, RedrawnHeard
<1>4. PICK act \in Active : Commit(session, status, p, act, FALSE)
  BY <1>1, <1>3, ConnectStartTyped
<1>5. accounts' \in [Connector -> SUBSET Address]
  BY <1>1, ConnectStartTyped
<1>6. /\ calls' \in [Slot -> Call] /\ CallsOK' /\ trouble' \in 0..MaxTrouble
  BY <1>1, BeginTyped
<1>7. Quiet /\ UNCHANGED <<wcMade, saved, cookie>>
  BY DEF Connect
<1> QED
  BY <1>3, <1>4, <1>5, <1>6, <1>7, Types, StoreKeptInv DEF Render

\* A button that starts a call, or that only says why it does not.
LEMMA ButtonInv ==
    ASSUME IInv, NEW c \in Slot, NEW p, Redrawn(page, p), Render(p, active),
           Quiet, UNCHANGED <<accounts, wcMade>>,
           \/ UNCHANGED <<calls, trouble>>
           \/ \E call \in Call :
                 /\ Begin(c, call)
                 /\ call.step \in {"sign", "verify"} => call.address \in Address
    PROVE  IInv'
<1>1. calls' \in [Slot -> Call] /\ CallsOK' /\ trouble' \in 0..MaxTrouble
  <2>1. CASE UNCHANGED <<calls, trouble>>
    BY <2>1, Types DEF CallsOK
  <2>2. CASE ~UNCHANGED <<calls, trouble>>
    <3>1. PICK call \in Call :
              /\ Begin(c, call)
              /\ call.step \in {"sign", "verify"} => call.address \in Address
      BY <2>2
    <3> QED
      BY <3>1, BeginTyped
  <2> QED
    BY <2>1, <2>2
<1>2. p \in Page /\ Heard(p, session)
  BY Types, RedrawnHeard
<1> QED
  BY <1>1, <1>2, Types, StoreKeptInv

LEMMA ReconnectInv ==
    ASSUME IInv, NEW c \in Slot, Reconnect(c)
    PROVE  IInv'
<1>1. PICK call : call = [NoCall EXCEPT !.kind = "reconnect",
                                        !.step = "connect", !.address = session]
  OBVIOUS
<1>2. call \in Call /\ call.step = "connect"
  BY <1>1, Types DEF NoCall, Call, Maybe
<1>3. PICK p : p = [page EXCEPT !.busy = TRUE, !.error = FALSE]
  OBVIOUS
<1>4. Redrawn(page, p)
  BY <1>3, Types DEF Page, Redrawn
<1>5. /\ Begin(c, call) /\ Render(p, active) /\ Quiet
      /\ UNCHANGED <<accounts, wcMade>>
  BY <1>1, <1>3 DEF Reconnect
<1> QED
  BY <1>2, <1>4, <1>5, ButtonInv

LEMMA ContinueInv ==
    ASSUME IInv, NEW c \in Slot, Continue(c)
    PROVE  IInv'
<1> USE WalletAssumption
<1>1. CASE active = None
  <2>1. PICK p : p = [page EXCEPT !.error = TRUE, !.pending = None]
    OBVIOUS
  <2>2. Redrawn(page, p)
    BY <2>1, Types DEF Page, Redrawn, Maybe
  <2>3. /\ UNCHANGED <<calls, trouble>> /\ Render(p, active) /\ Quiet
        /\ UNCHANGED <<accounts, wcMade>>
    BY <1>1, <2>1 DEF Continue
  <2> QED
    BY <2>2, <2>3, ButtonInv
<1>2. CASE active # None
  <2>1. PICK p : p = [page EXCEPT !.busy = TRUE, !.error = FALSE]
    OBVIOUS
  <2>2. Redrawn(page, p)
    BY <2>1, Types DEF Page, Redrawn
  <2>3. PICK call : call = [NoCall EXCEPT !.kind = "login", !.step = "sign",
                                          !.address = page.pending]
    OBVIOUS
  <2>4. page.pending \in Address
    BY Types DEF Continue, Page, Maybe
  <2>5. call \in Call /\ call.address \in Address
    BY <2>3, <2>4 DEF NoCall, Call, Maybe
  <2>6. /\ Begin(c, call) /\ Render(p, active) /\ Quiet
        /\ UNCHANGED <<accounts, wcMade>>
    BY <1>2, <2>1, <2>3 DEF Continue
  <2> QED
    BY <2>2, <2>5, <2>6, ButtonInv
<1> QED
  BY <1>1, <1>2

LEMMA SelectInv ==
    ASSUME IInv, NEW c \in Slot, NEW a \in Address, Select(c, a)
    PROVE  IInv'
<1> USE WalletAssumption
<1>1. CASE active = None /\ ~device.injected
  <2>1. PICK p : p = [page EXCEPT !.error = TRUE]
    OBVIOUS
  <2>2. Redrawn(page, p)
    BY <2>1, Types DEF Page, Redrawn
  <2>3. /\ UNCHANGED <<calls, trouble>> /\ Render(p, active) /\ Quiet
        /\ UNCHANGED <<accounts, wcMade>>
    BY <1>1, <2>1 DEF Select
  <2> QED
    BY <2>2, <2>3, ButtonInv
<1>2. CASE ~(active = None /\ ~device.injected)
  <2>1. PICK p : p = [page EXCEPT !.busy = TRUE, !.error = FALSE,
                                  !.pending = None]
    OBVIOUS
  <2>2. Redrawn(page, p)
    BY <2>1, Types DEF Page, Redrawn, Maybe
  <2>3. PICK call : call = [NoCall EXCEPT !.kind = "select", !.step = "sign",
                                          !.address = a]
    OBVIOUS
  <2>4. call \in Call /\ call.address \in Address
    BY <2>3 DEF NoCall, Call, Maybe
  <2>5. /\ Begin(c, call) /\ Render(p, active) /\ Quiet
        /\ UNCHANGED <<accounts, wcMade>>
    BY <1>2, <2>1, <2>3 DEF Select
  <2> QED
    BY <2>2, <2>4, <2>5, ButtonInv
<1> QED
  BY <1>1, <1>2

LEMMA CancelInv ==
    ASSUME IInv, CancelSelection
    PROVE  IInv'
<1> USE WalletAssumption
<1>1. PICK p : p = [page EXCEPT !.choices = {}, !.pending = None,
                                !.error = FALSE]
  OBVIOUS
<1>2. Redrawn(page, p)
  BY <1>1, Types DEF Page, Redrawn, Maybe
<1>3. /\ Render(p, active) /\ Quiet /\ UNCHANGED <<accounts, wcMade>>
      /\ UNCHANGED <<calls, trouble>>
  BY <1>1 DEF CancelSelection, Calm
<1>4. p \in Page /\ Heard(p, session)
  BY <1>2, Types, RedrawnHeard
<1>5. CallsOK'
  BY <1>3, Types DEF CallsOK
<1> QED
  BY <1>3, <1>4, <1>5, Types, StoreKeptInv

LEMMA ChangeInv ==
    ASSUME IInv, NEW c \in Slot, Change(c)
    PROVE  IInv'
<1> USE WalletAssumption
<1>1. \E call \in Call : Begin(c, call) /\ call.step = "clear"
  <2>1. \A r \in BOOLEAN, k \in Connector \cup {"auto"} :
            LET call == [[NoCall EXCEPT !.replace = r, !.connector = k]
                            EXCEPT !.kind = "login", !.step = "clear"]
            IN call \in Call /\ call.step = "clear"
    BY DEF NoCall, Call, Maybe
  <2>2. \E r \in BOOLEAN, k \in Connector \cup {"auto"} :
            Begin(c, [[NoCall EXCEPT !.replace = r, !.connector = k]
                        EXCEPT !.kind = "login", !.step = "clear"])
    BY Types DEF Change, Active, Connector
  <2> QED
    BY <2>1, <2>2
<1>2. Redrawn(page, page)
  BY Types DEF Redrawn
<1>3. Render(page, active) /\ Quiet /\ UNCHANGED <<accounts, wcMade>>
  BY DEF Change
<1> QED
  BY <1>1, <1>2, <1>3, ButtonInv

LEMMA LogoutInv ==
    ASSUME IInv, NEW c \in Slot, Logout(c)
    PROVE  IInv'
<1> USE WalletAssumption
<1>1. PICK call : call = [NoCall EXCEPT !.kind = "logout", !.step = "logout"]
  OBVIOUS
<1>2. call \in Call /\ call.step = "logout"
  BY <1>1 DEF NoCall, Call, Maybe
<1>3. PICK p : p = [page EXCEPT !.busy = TRUE, !.error = FALSE]
  OBVIOUS
<1>4. Redrawn(page, p)
  BY <1>3, Types DEF Page, Redrawn
<1>5. /\ Begin(c, call) /\ Render(p, active) /\ Quiet
      /\ UNCHANGED <<accounts, wcMade>>
  BY <1>1, <1>3 DEF Logout
<1> QED
  BY <1>2, <1>4, <1>5, ButtonInv

-----------------------------------------------------------------------------
(* The page is opened, left and restored. *)

LEMMA FreshTyped ==
    ASSUME NEW act, NEW s
    PROVE  Fresh(act) \in Page /\ Heard(Fresh(act), s)
  BY DEF Fresh, Page, Maybe, Heard

LEMMA NavigateInv ==
    ASSUME IInv, Navigate
    PROVE  IInv'
<1>1. PICK p \in Page : p = Fresh(active) /\ Heard(p, session)
  BY FreshTyped
<1>2. /\ Commit(session, status, p, active, TRUE)
      /\ restore' = ToRestore
      /\ calls' = [c \in Slot |-> [calls[c] EXCEPT !.current = FALSE]]
      /\ UNCHANGED <<device, accounts, wcMade, cookie, saved, recorded,
                     elsewhere>>
      /\ Trouble
  BY <1>1 DEF Navigate
<1>3. calls' \in [Slot -> Call] /\ CallsOK'
  <2>1. ASSUME NEW c \in Slot
        PROVE  /\ [calls[c] EXCEPT !.current = FALSE] \in Call
               /\ calls'[c].step = calls[c].step
               /\ calls'[c].address = calls[c].address
    <3>1. PICK old \in Call : old = calls[c]
      BY Types
    <3>2. calls'[c] = [old EXCEPT !.current = FALSE]
      BY <1>2, <3>1
    <3> QED
      BY <3>1, <3>2 DEF Call
  <2> QED
    BY <1>2, <2>1, Types DEF CallsOK
<1>4. email' \in Email /\ email'.verified = None /\ PostOfItsWallet'
  <2>1. CASE email.post = None
    <3>1. email' = [NoEmail EXCEPT !.post = None]
      BY <2>1 DEF Navigate
    <3> QED
      BY <3>1 DEF NoEmail, Email, Maybe, PostOfItsWallet
  <2>2. CASE email.post # None
    <3>1. PICK q \in [address: Maybe, wallet: Maybe] : q = email.post
      BY <2>2, Types DEF Email
    <3>2. PICK r : r = [q EXCEPT !.address = None]
      OBVIOUS
    <3>3. email' = [NoEmail EXCEPT !.post = r]
      BY <2>2, <3>1, <3>2 DEF Navigate
    <3>4. r \in [address: Maybe, wallet: Maybe] /\ r.address = None
      BY <3>1, <3>2 DEF Maybe
    <3> QED
      BY <3>3, <3>4 DEF NoEmail, Email, Maybe, PostOfItsWallet
  <2> QED
    BY <2>1, <2>2
<1>5. restore' \in {"none", "rehydrate", "fetch"} /\ trouble' \in 0..MaxTrouble
  BY <1>2, TroubleTyped DEF ToRestore
<1> QED
  BY <1>1, <1>2, <1>3, <1>4, <1>5, Types, RenderInv

LEMMA ReloadInv ==
    ASSUME IInv, Reload
    PROVE  IInv'
<1>1. /\ session' = None /\ status' = "restoring" /\ page' = Fresh(None)
      /\ active' = None /\ wcMade' = FALSE
      /\ restore' = "rehydrate" /\ restorer' = "idle"
      /\ calls' = [c \in Slot |-> NoCall]
      /\ email' = NoEmail /\ statusAsked' = None
      /\ UNCHANGED <<device, accounts, saved, recorded, elsewhere>>
  BY DEF Reload
<1>2. cookie' \in Maybe
  <2>1. cookie' \in {cookie} \cup {calls[c].address : c \in Slot} \cup {None}
    BY DEF Reload
  <2>2. \A c \in Slot : calls[c].address \in Maybe
    BY Types DEF Call
  <2> QED
    BY <2>1, <2>2, Types DEF Maybe
<1>3. calls' \in [Slot -> Call] /\ CallsOK'
  <2>1. NoCall \in Call /\ NoCall.step = "none"
    BY DEF NoCall, Call, Maybe
  <2> QED
    BY <1>1, <2>1 DEF CallsOK
<1>4. page' \in Page /\ ListenOK'
  BY <1>1, FreshTyped DEF ListenOK, Heard
<1>5. trouble' \in 0..MaxTrouble
  BY TroubleTyped DEF Reload
<1>6. email' \in Email /\ None \in Maybe
  BY <1>1 DEF NoEmail, Email, Maybe
<1>7. TypeOK'
  BY <1>1, <1>2, <1>3, <1>4, <1>5, <1>6 DEF IInv, TypeOK
<1>8. AskedIsShown' /\ PostOfItsWallet' /\ EmailOfItsWallet'
      /\ ScreenMatchesCookie'
  BY <1>1 DEF AskedIsShown, PostOfItsWallet, EmailOfItsWallet,
     ScreenMatchesCookie, NoEmail
<1> QED
  BY <1>3, <1>4, <1>7, <1>8 DEF IInv

LEMMA MailKept ==
    ASSUME IInv, UNCHANGED <<email, recorded, elsewhere>>
    PROVE  /\ email' \in Email /\ email'.verified \in {email.verified, None}
           /\ PostOfItsWallet'
  BY Types DEF IInv, PostOfItsWallet

LEMMA CallsKept ==
    ASSUME IInv, UNCHANGED calls
    PROVE  calls' \in [Slot -> Call] /\ CallsOK'
  BY Types DEF CallsOK

\* The answers that restore a session.
LEMMA RestoredInv ==
    ASSUME IInv, NEW s \in Maybe, NEW st \in Status, NEW p \in Page,
           Heard(p, session), Write(s, st, p, active),
           st = "authenticated" => s # None /\ s = cookie,
           RestoreQuiet, restore' \in {"none", "fetch"}, UNCHANGED cookie,
           Trouble \/ UNCHANGED trouble
    PROVE  IInv'
<1>1. UNCHANGED <<device, accounts, wcMade, calls, email, recorded, elsewhere>>
  BY DEF RestoreQuiet, mail
<1>2. Commit(s, st, p, active, FALSE) /\ saved' = s
  BY DEF Write
<1>3. active \in Active
  BY Types
<1> QED
  BY <1>1, <1>2, <1>3, Types, MailKept, CallsKept, TroubleTyped, RenderInv

LEMMA RestoreInv ==
    ASSUME IInv, Rehydrate \/ RestoreAnswer \/ RestoreFails
    PROVE  IInv'
<1>1. None \in Maybe /\ {"anonymous", "restoring", "authenticated"} = Status
  BY DEF Maybe, Status
<1>2. CASE Rehydrate
  <2>1. PICK st \in {"anonymous", "restoring"} :
            st = IF saved = None THEN "anonymous" ELSE "restoring"
    OBVIOUS
  <2>2. /\ Write(saved, st, page, active) /\ RestoreQuiet
        /\ restore' \in {"none", "fetch"} /\ UNCHANGED <<cookie, trouble>>
    BY <1>2, <2>1 DEF Rehydrate
  <2> QED
    BY <1>1, <2>1, <2>2, Types, RestoredInv
<1>3. CASE RestoreAnswer /\ cookie # None
  <2>1. /\ Write(cookie, "authenticated", page, active) /\ RestoreQuiet
        /\ restore' = "none" /\ UNCHANGED <<cookie, trouble>>
    BY <1>3 DEF RestoreAnswer
  <2> QED
    BY <1>1, <1>3, <2>1, Types, RestoredInv
<1>4. CASE RestoreAnswer /\ cookie = None
  <2>1. PICK p : p = [page EXCEPT !.mismatch = FALSE]
    OBVIOUS
  <2>2. Redrawn(page, p)
    BY <2>1, Types DEF Page, Redrawn
  <2>3. /\ Write(None, "anonymous", p, active) /\ RestoreQuiet
        /\ restore' = "none" /\ UNCHANGED <<cookie, trouble>>
    BY <1>4, <2>1 DEF RestoreAnswer, Forgotten
  <2>4. p \in Page /\ Heard(p, session)
    BY <2>2, Types, RedrawnHeard
  <2> QED
    BY <1>1, <2>3, <2>4, RestoredInv
<1>5. CASE RestoreFails
  <2>1. PICK p : p = [[page EXCEPT !.error = TRUE] EXCEPT !.mismatch = FALSE]
    OBVIOUS
  <2>2. Redrawn(page, p)
    BY <2>1, Types DEF Page, Redrawn
  <2>3. /\ Write(None, "anonymous", p, active) /\ RestoreQuiet
        /\ restore' = "none" /\ UNCHANGED cookie /\ Trouble
    BY <1>5, <2>1 DEF RestoreFails, Forgotten
  <2>4. p \in Page /\ Heard(p, session)
    BY <2>2, Types, RedrawnHeard
  <2> QED
    BY <1>1, <2>3, <2>4, RestoredInv
<1> QED
  BY <1>2, <1>3, <1>4, <1>5

\* The provider comes back without a render of the store.
LEMMA RestoreProviderInv ==
    ASSUME IInv, RestoreProvider
    PROVE  IInv'
<1>1. /\ UNCHANGED <<session, status, statusAsked, saved, cookie, calls, device,
                     restore, email, recorded, elsewhere, trouble>>
      /\ restorer' = "idle" /\ wcMade' = (wcMade \/ ~device.injected)
  BY DEF RestoreProvider, Calm, Quiet, mail
<1>2. PICK p : /\ \E ok \in BOOLEAN :
                     p = IF restorer # "live" THEN page
                         ELSE [page EXCEPT !.ready = ok, !.restoring = FALSE]
               /\ page' = Listen(session, p, active', FALSE)
               /\ active' \in Active
               /\ accounts' \in [Connector -> SUBSET Address]
  <2> DEFINE found == IF device.injected THEN "injected" ELSE "walletconnect"
             usable == device.injected \/ accounts[found] # {}
             matches == restorer = "live" /\ session \in accounts[found]
             after(ok) == IF restorer # "live" THEN page
                          ELSE [page EXCEPT !.ready = ok, !.restoring = FALSE]
  <2>1. device.injected \in BOOLEAN /\ found \in Connector
    BY Types DEF Connector
  <2>2. PICK u \in BOOLEAN, m \in BOOLEAN : u = usable /\ m = (u /\ matches)
    BY <2>1
  <2>3. CASE /\ active' = (IF usable THEN found ELSE active)
             /\ page' = Listen(session, after(usable /\ matches), active', FALSE)
             /\ UNCHANGED accounts
    BY <2>1, <2>2, <2>3, Types DEF Active
  <2>4. CASE /\ active' = active
             /\ page' = Listen(session, after(FALSE), active', FALSE)
             /\ accounts' \in {accounts} \cup
                  {[accounts EXCEPT !["walletconnect"] = {}] : k \in
                       {found} \ {"injected"}}
    BY <2>4, Types DEF Connector
  <2> QED
    BY <2>3, <2>4 DEF RestoreProvider
<1>3. Redrawn(page, p) /\ p.mismatch = page.mismatch
  BY <1>2, Types DEF Page, Redrawn
<1>4. p \in Page /\ Heard(p, session)
  BY <1>3, Types, RedrawnHeard
<1>5. page' \in Page /\ page'.mismatch = page.mismatch /\ Heard(page', session)
  <2>1. PICK act \in Active : act = active'
    BY <1>2
  <2>2. PICK s \in {session}, again \in BOOLEAN : s = session /\ again = FALSE
    OBVIOUS
  <2>3. PICK q : q = Listen(s, p, act, again)
    OBVIOUS
  <2>4. q \in Page /\ q.mismatch = p.mismatch /\ Heard(q, s)
    BY <1>4, <2>3, ListenTyped
  <2>5. q = page'
    BY <1>2, <2>1, <2>2, <2>3
  <2> QED
    BY <1>3, <2>2, <2>4, <2>5 DEF Heard
<1>6. ListenOK' /\ CallsOK'
  BY <1>1, <1>5, Types DEF ListenOK, Heard, CallsOK
<1>7. AskedIsShown' /\ PostOfItsWallet' /\ EmailOfItsWallet'
      /\ ScreenMatchesCookie'
  BY <1>1, <1>5 DEF IInv, AskedIsShown, Shown, Shows, PostOfItsWallet,
     EmailOfItsWallet, ScreenMatchesCookie
<1>8. wcMade' \in BOOLEAN
  BY <1>1, Types
<1>9. TypeOK'
  BY <1>1, <1>2, <1>5, <1>8 DEF IInv, TypeOK, Active
<1> QED
  BY <1>6, <1>7, <1>9 DEF IInv

-----------------------------------------------------------------------------
(* The answers a call waits for. *)

LEMMA ClearedInv ==
    ASSUME IInv, NEW c \in Slot, Cleared(c)
    PROVE  IInv'
<1>1. PICK p : p = [Asking(page) EXCEPT !.mismatch = FALSE]
  OBVIOUS
<1>2. Redrawn(page, p)
  BY <1>1, Types DEF Asking, Page, Redrawn, Maybe
<1>3. p \in Page /\ Heard(p, session)
  BY <1>2, Types, RedrawnHeard
<1>4. PICK q \in Page : q = Own(c, p) /\ Heard(q, session)
  BY <1>3, OwnTyped
<1>5. /\ Step(c, "connect") /\ ConnectStart(calls[c], q, None, "anonymous")
      /\ saved' = None /\ Quiet /\ UNCHANGED wcMade
      /\ cookie' \in {cookie, None} /\ (Trouble \/ UNCHANGED trouble)
  BY <1>1, <1>4 DEF Cleared
<1>6. /\ accounts' \in [Connector -> SUBSET Address]
      /\ \E act \in Active : Commit(None, "anonymous", q, act, FALSE)
  BY <1>5, ConnectStartTyped
<1>7. PICK act \in Active : Commit(None, "anonymous", q, act, FALSE)
  BY <1>6
<1>8. None \in Maybe /\ "anonymous" \in Status
  BY DEF Maybe, Status
<1> QED
  BY <1>4, <1>5, <1>6, <1>7, <1>8, Types, StepTyped, TroubleTyped,
     QuietRenderInv DEF Maybe

\* A wallet that connects: the page that its mount draws.
LEMMA ConnectedTyped ==
    ASSUME IInv, NEW c \in Slot, NEW k \in Connector,
           NEW granted \in (SUBSET Address) \ {{}}, Connected(c, k, granted)
    PROVE  /\ calls' \in [Slot -> Call] /\ CallsOK'
           /\ \E p \in Page : Heard(p, session) /\ Render(p, k)
<1>1. CASE calls[c].kind = "reconnect"
  <2>1. PICK p : /\ p = IF calls[c].address \in granted
                        THEN [page EXCEPT !.busy = FALSE, !.restoring = FALSE,
                                          !.ready = TRUE, !.mismatch = FALSE]
                        ELSE [page EXCEPT !.busy = FALSE, !.restoring = FALSE,
                                          !.ready = FALSE, !.error = TRUE]
    OBVIOUS
  <2>2. End(c) /\ Render(Own(c, p), k)
    BY <1>1, <2>1 DEF Connected
  <2>3. Redrawn(page, p)
    BY <2>1, Types DEF Page, Redrawn
  <2> QED
    BY <2>2, <2>3, Types, RedrawnHeard, OwnTyped, EndTyped
<1>2. CASE calls[c].kind # "reconnect" /\ Cardinality(granted) > 1
  <2>1. PICK p : p = [page EXCEPT !.busy = FALSE, !.choices = granted]
    OBVIOUS
  <2>2. End(c) /\ Render(Own(c, p), k)
    BY <1>2, <2>1 DEF Connected
  <2>3. Redrawn(page, p)
    BY <2>1, Types DEF Page, Redrawn
  <2> QED
    BY <2>2, <2>3, Types, RedrawnHeard, OwnTyped, EndTyped
<1>3. CASE ~(calls[c].kind = "reconnect") /\ ~(Cardinality(granted) > 1)
  <2>1. PICK a \in Address : a = CHOOSE x \in granted : TRUE
    <3>1. \E x \in granted : TRUE
      OBVIOUS
    <3>2. (CHOOSE x \in granted : TRUE) \in granted
      BY <3>1, Zenon
    <3> QED
      BY <3>2
  <2>2. CASE k = "walletconnect" /\ device.mobile
    <3>1. PICK p : p = [page EXCEPT !.busy = FALSE, !.pending = a]
      OBVIOUS
    <3>2. End(c) /\ Render(Own(c, p), k)
      BY <1>3, <2>1, <2>2, <3>1 DEF Connected
    <3>3. Redrawn(page, p)
      BY <3>1, Types DEF Page, Redrawn, Maybe
    <3> QED
      BY <3>2, <3>3, Types, RedrawnHeard, OwnTyped, EndTyped
  <2>3. CASE ~(k = "walletconnect" /\ device.mobile)
    <3>1. /\ calls' = [calls EXCEPT ![c].step = "sign", ![c].address = a]
          /\ Render(page, k)
      BY <1>3, <2>1, <2>3 DEF Connected
    <3>2. PICK old \in Call : old = calls[c]
      BY Types
    <3>3. PICK new : new = [old EXCEPT !.step = "sign", !.address = a]
      OBVIOUS
    <3>4. new \in Call /\ new.address = a
      BY <3>2, <3>3 DEF Call, Maybe
    <3>5. calls' = [calls EXCEPT ![c] = new]
      BY <3>1, <3>2, <3>3, Types
    <3>6. calls' \in [Slot -> Call] /\ CallsOK'
      BY <3>4, <3>5, Types DEF CallsOK
    <3> QED
      BY <3>1, <3>6, Types
  <2> QED
    BY <2>2, <2>3
<1> QED
  BY <1>1, <1>2, <1>3

LEMMA ConnectAnswerInv ==
    ASSUME IInv, NEW c \in Slot, ConnectAnswer(c)
    PROVE  IInv'
<1>1. PICK k \in Connector : k = Chosen(calls[c])
  BY DEF Chosen, Connector
<1>2. PICK granted \in (SUBSET Address) \ {{}} :
          /\ accounts' = [accounts EXCEPT ![k] = granted,
                !["walletconnect"] = IF k = "injected" /\ wcMade THEN {}
                                     ELSE @]
          /\ Connected(c, k, granted)
  BY <1>1 DEF ConnectAnswer
<1>3. accounts' \in [Connector -> SUBSET Address]
  BY <1>2, Types DEF Connector
<1>4. PICK p \in Page : Heard(p, session) /\ Render(p, k)
  BY <1>2, ConnectedTyped
<1>5. calls' \in [Slot -> Call] /\ CallsOK'
  BY <1>2, ConnectedTyped
<1>6. Quiet /\ UNCHANGED trouble /\ wcMade' = (k = "walletconnect")
  BY <1>1 DEF ConnectAnswer, Calm
<1>7. k \in Active /\ wcMade' \in BOOLEAN
  BY <1>6 DEF Active
<1> QED
  BY <1>3, <1>4, <1>5, <1>6, <1>7, Types, StoreKeptInv

LEMMA FailsInv ==
    ASSUME IInv, NEW c \in Slot, NEW act \in Active, Fails(c, act),
           accounts' \in [Connector -> SUBSET Address], wcMade' \in BOOLEAN
    PROVE  IInv'
<1>1. PICK b \in BOOLEAN :
          b = IF calls[c].kind = "reconnect" THEN FALSE ELSE page.restoring
  BY Types DEF Page
<1>2. PICK p : p = [page EXCEPT !.busy = FALSE, !.error = TRUE, !.restoring = b]
  OBVIOUS
<1>3. Redrawn(page, p)
  BY <1>2, Types DEF Page, Redrawn
<1>4. End(c) /\ Quiet /\ Trouble /\ Render(Own(c, p), act)
  BY <1>1, <1>2 DEF Fails
<1>5. PICK q \in Page : q = Own(c, p) /\ Heard(q, session)
  BY <1>3, Types, RedrawnHeard, OwnTyped
<1> QED
  BY <1>4, <1>5, Types, EndTyped, TroubleTyped, StoreKeptInv

LEMMA CallFailsInv ==
    ASSUME IInv, NEW c \in Slot, ConnectFails(c) \/ SignInFails(c)
    PROVE  IInv'
<1>1. PICK act \in Active : Fails(c, act)
  BY Types DEF ConnectFails, SignInFails, Chosen, Active, Connector
<1>2. /\ accounts' \in [Connector -> SUBSET Address]
      /\ wcMade' \in BOOLEAN
  BY Types DEF ConnectFails, SignInFails, Connector
<1> QED
  BY <1>1, <1>2, FailsInv

LEMMA SignInv ==
    ASSUME IInv, NEW c \in Slot, Sign(c)
    PROVE  IInv'
<1>1. /\ At(c, "sign") /\ Step(c, "verify") /\ Quiet /\ Render(page, active)
      /\ UNCHANGED <<trouble, accounts, wcMade>>
  BY DEF Sign, Calm
<1> QED
  BY <1>1, Types, StepTyped, StoreKeptInv

\* The cookie and the store get the wallet of the call.
LEMMA VerifiedInv ==
    ASSUME IInv, NEW c \in Slot, Verified(c)
    PROVE  IInv'
<1>1. PICK a \in Address : a = calls[c].address
  BY Types DEF Verified, At, CallsOK
<1>2. PICK ch \in SUBSET Address :
          ch = IF calls[c].kind = "select" THEN {} ELSE page.choices
  BY Types DEF Page
<1>3. PICK p : p = [page EXCEPT
                 !.busy = FALSE, !.pending = None, !.mismatch = FALSE,
                 !.ready = TRUE, !.restoring = FALSE, !.choices = ch]
  OBVIOUS
<1>4. Redrawn(page, p)
  BY <1>3, Types DEF Page, Redrawn, Maybe
<1>5. /\ End(c) /\ cookie' = a /\ saved' = a /\ Quiet
      /\ Commit(a, "authenticated", Own(c, p), active, FALSE)
      /\ UNCHANGED <<trouble, accounts, wcMade>>
  BY <1>1, <1>2, <1>3 DEF Verified, Write, Calm
<1>6. PICK q \in Page : q = Own(c, p) /\ Heard(q, session)
  BY <1>4, Types, RedrawnHeard, OwnTyped
<1>7. a \in Maybe /\ a # None /\ "authenticated" \in Status
  BY WalletAssumption DEF Maybe, Status
<1> QED
  BY <1>5, <1>6, <1>7, Types, EndTyped, QuietRenderInv

LEMMA LogoutAnswerInv ==
    ASSUME IInv, NEW c \in Slot, LogoutAnswer(c)
    PROVE  IInv'
<1>1. PICK p : p = [page EXCEPT !.error = TRUE]
  OBVIOUS
<1>2. Redrawn(page, p)
  BY <1>1, Types DEF Page, Redrawn
<1>3. PICK q \in Page : /\ Heard(q, session)
                        /\ Commit(session, status, q, None, FALSE)
  <2>1. Own(c, p) \in Page /\ Heard(Own(c, p), session)
    BY <1>2, Types, RedrawnHeard, OwnTyped
  <2> QED
    BY <1>1, <2>1, Types DEF LogoutAnswer
<1>4. /\ Step(c, "disconnect") /\ Quiet /\ UNCHANGED <<accounts, wcMade, saved>>
      /\ cookie' \in {cookie, None} /\ (Trouble \/ UNCHANGED trouble)
  BY DEF LogoutAnswer
<1>5. None \in Active /\ None \in Maybe
  BY DEF Active, Maybe
<1> QED
  BY <1>3, <1>4, <1>5, Types, StepTyped, TroubleTyped, QuietRenderInv

LEMMA DisconnectedInv ==
    ASSUME IInv, NEW c \in Slot, Disconnected(c)
    PROVE  IInv'
<1>1. PICK p : p = [page EXCEPT
           !.busy = FALSE, !.mismatch = FALSE, !.pending = None,
           !.ready = FALSE, !.restoring = FALSE]
  OBVIOUS
<1>2. Redrawn(page, p)
  BY <1>1, Types DEF Page, Redrawn, Maybe
<1>3. PICK q \in Page : q = Own(c, p) /\ Heard(q, session)
  BY <1>2, Types, RedrawnHeard, OwnTyped
<1>4. /\ End(c) /\ Quiet /\ UNCHANGED <<trouble, wcMade, cookie>>
      /\ Commit(None, "anonymous", q, active, FALSE) /\ saved' = None
  BY <1>1, <1>3 DEF Disconnected, Write, Calm
<1>5. accounts' \in [Connector -> SUBSET Address]
  BY Types DEF Disconnected, Connector
<1>6. None \in Maybe /\ "anonymous" \in Status
  BY DEF Maybe, Status
<1> QED
  BY <1>3, <1>4, <1>5, <1>6, Types, EndTyped, QuietRenderInv

LEMMA CallStepInv ==
    ASSUME IInv, NEW c \in Slot, CallStep(c)
    PROVE  IInv'
  BY ClearedInv, ConnectAnswerInv, CallFailsInv, SignInv, VerifiedInv,
     LogoutAnswerInv, DisconnectedInv DEF CallStep

-----------------------------------------------------------------------------
(* The user's wallet, other tabs, and the e-mail registration. *)

LEMMA SwitchAccountsInv ==
    ASSUME IInv, NEW k \in Connector, SwitchAccounts(k)
    PROVE  IInv'
<1>1. PICK b \in BOOLEAN : b = (page.timer \/ page.listening = k)
  OBVIOUS
<1>2. PICK p : p = [page EXCEPT !.timer = b]
  OBVIOUS
<1>3. /\ Render(p, active) /\ Trouble /\ Quiet /\ UNCHANGED <<wcMade, calls>>
      /\ accounts' \in [Connector -> SUBSET Address]
  BY <1>1, <1>2, Types DEF SwitchAccounts
<1>4. p \in Page /\ p.listening = page.listening /\ p.timer = b
  BY <1>2, Types DEF Page
<1>5. Heard(p, session)
  BY <1>1, <1>4, Types, WalletAssumption DEF Heard, Connector
<1> QED
  BY <1>3, <1>4, <1>5, Types, CallsKept, TroubleTyped, StoreKeptInv

LEMMA TimerInv ==
    ASSUME IInv, Timer
    PROVE  IInv'
<1>1. page.timer /\ page.listening \in Connector /\ session \in Address
  BY Types DEF Timer, Heard, Page, Maybe
<1>2. PICK q \in SUBSET (Address \X Connector) :
          q = page.asked \cup {<<session, page.listening>>}
  <2>1. <<session, page.listening>> \in Address \X Connector
    BY <1>1
  <2>2. page.asked \in SUBSET (Address \X Connector)
    BY Types DEF Page
  <2> QED
    BY <2>1, <2>2
<1>3. PICK p : p = [page EXCEPT !.timer = FALSE, !.asked = q]
  OBVIOUS
<1>4. p \in Page /\ p.listening = page.listening /\ ~p.timer
  BY <1>3, Types DEF Page
<1>5. Heard(p, session)
  BY <1>4, Types DEF Heard
<1>6. Render(p, active) /\ Quiet /\ UNCHANGED <<accounts, wcMade, calls, trouble>>
  BY <1>2, <1>3 DEF Timer, Calm
<1> QED
  BY <1>4, <1>5, <1>6, Types, CallsKept, StoreKeptInv

LEMMA AccountsAnswerInv ==
    ASSUME IInv, AccountsAnswer
    PROVE  IInv'
<1>1. PICK q \in page.asked :
          LET now == accounts[q[2]]
              wrong == now # {} /\ q[1] \notin now
          IN Render([page EXCEPT !.asked = @ \ {q}, !.mismatch = @ \/ wrong,
                                 !.error = @ \/ wrong], active)
  BY DEF AccountsAnswer
<1>2. PICK w \in BOOLEAN :
          w = (accounts[q[2]] # {} /\ q[1] \notin accounts[q[2]])
  OBVIOUS
<1>3. PICK rest \in SUBSET (Address \X Connector), m \in BOOLEAN,
           e \in BOOLEAN :
          /\ rest = page.asked \ {q} /\ m = (page.mismatch \/ w)
          /\ e = (page.error \/ w)
  BY Types DEF Page
<1>4. PICK p : p = [page EXCEPT !.asked = rest, !.mismatch = m, !.error = e]
  OBVIOUS
<1>5. Redrawn(page, p)
  BY <1>4, Types DEF Page, Redrawn
<1>6. Render(p, active)
  BY <1>1, <1>2, <1>3, <1>4
<1>7. p \in Page /\ Heard(p, session)
  BY <1>5, Types, RedrawnHeard
<1>8. Quiet /\ UNCHANGED <<accounts, wcMade, calls, trouble>>
  BY DEF AccountsAnswer, Calm
<1> QED
  BY <1>6, <1>7, <1>8, Types, CallsKept, StoreKeptInv

\* Nothing of the page changes.
LEMMA PageKept ==
    ASSUME IInv, UNCHANGED <<wallet, session, status, page, restore, restorer,
                             calls>>,
           cookie' \in Maybe, saved' \in Maybe, email' \in Email,
           recorded' \subseteq Address, statusAsked' \in {statusAsked, None},
           elsewhere' \in BOOLEAN, trouble' \in 0..MaxTrouble
    PROVE  TypeOK' /\ ListenOK' /\ CallsOK' /\ AskedIsShown'
<1>1. UNCHANGED <<device, accounts, active, wcMade, session, status, page,
                  restore, restorer, calls>>
  BY DEF wallet
<1>2. statusAsked' \in Maybe
  BY DEF IInv, TypeOK, Maybe
<1>3. TypeOK'
  BY <1>1, <1>2 DEF IInv, TypeOK
<1>4. ListenOK' /\ CallsOK' /\ AskedIsShown'
  BY <1>1 DEF IInv, ListenOK, Heard, CallsOK, AskedIsShown, Shown, Shows
<1> QED
  BY <1>3, <1>4

LEMMA OutsideInv ==
    ASSUME IInv, Elsewhere \/ Expire
    PROVE  IInv'
<1>1. /\ UNCHANGED <<wallet, session, status, page, restore, restorer, calls,
                     email, recorded, statusAsked>>
      /\ cookie' \in Maybe /\ saved' \in Maybe /\ elsewhere' \in BOOLEAN
      /\ cookie' = None \/ elsewhere'
      /\ elsewhere' \/ elsewhere' = elsewhere
      /\ trouble' \in {trouble + 1, MaxTrouble} /\ trouble < MaxTrouble
  BY Types DEF Elsewhere, Expire, Trouble, store, mail, Maybe, IInv, TypeOK
<1>2. trouble' \in 0..MaxTrouble
  BY <1>1, Types, WalletAssumption
<1>3. TypeOK' /\ ListenOK' /\ CallsOK' /\ AskedIsShown'
  BY <1>1, <1>2, Types, PageKept
<1>4. PostOfItsWallet' /\ EmailOfItsWallet' /\ ScreenMatchesCookie'
  BY <1>1 DEF IInv, PostOfItsWallet, EmailOfItsWallet, ScreenMatchesCookie
<1> QED
  BY <1>3, <1>4 DEF IInv

LEMMA MailInv ==
    ASSUME IInv, StatusAnswer \/ Post \/ PostAnswer \/ PostFails
    PROVE  IInv'
<1> USE WalletAssumption
<1>1. /\ UNCHANGED <<wallet, cookie, saved, session, status, page, restore,
                     restorer, calls, elsewhere>>
      /\ Trouble \/ UNCHANGED trouble
      /\ statusAsked' \in {statusAsked, None}
  BY DEF StatusAnswer, Post, PostAnswer, PostFails, MailQuiet, store
<1>2. ScreenMatchesCookie'
  BY <1>1 DEF IInv, ScreenMatchesCookie
<1>3. /\ email' \in Email /\ recorded' \subseteq Address
      /\ PostOfItsWallet' /\ EmailOfItsWallet'
  <2>1. CASE StatusAnswer
    <3>1. PICK v \in Maybe :
              /\ email' = [email EXCEPT !.verified = v]
              /\ v # None => v = statusAsked /\ cookie \in recorded
      BY <2>1 DEF StatusAnswer, IInv, TypeOK, Maybe
    <3>2. email' \in Email /\ email'.verified = v /\ email'.post = email.post
      BY <3>1, Types DEF Email
    <3>3. recorded' = recorded /\ statusAsked # None
      BY <2>1 DEF StatusAnswer
    <3>4. ~elsewhere /\ cookie \in recorded => statusAsked = cookie
      BY <3>3, Types DEF IInv, AskedIsShown, Shown, Shows
    <3> QED
      BY <1>1, <3>1, <3>2, <3>3, <3>4, Types DEF IInv, PostOfItsWallet,
         EmailOfItsWallet
  <2>2. CASE Post
    <3>1. PICK q : q = [address |-> Shown, wallet |-> cookie]
      OBVIOUS
    <3>2. /\ email' = [email EXCEPT !.post = q] /\ recorded' = recorded
          /\ Shown \in Address
      BY <2>2, <3>1 DEF Post
    <3>3. q \in [address: Maybe, wallet: Maybe]
      BY <3>1, <3>2, Types DEF Maybe
    <3>4. email' \in Email /\ email'.verified = email.verified
          /\ email'.post = q
      BY <3>2, <3>3, Types DEF Email
    <3>5. ~elsewhere /\ q.wallet # None => q.address = q.wallet
      BY <3>1, <3>2, Types DEF Shown, Shows
    <3> QED
      BY <1>1, <3>2, <3>4, <3>5, Types DEF IInv, PostOfItsWallet,
         EmailOfItsWallet
  <2>3. CASE PostAnswer
    <3>1. PICK q \in [address: Maybe, wallet: Maybe] :
              q = email.post /\ q.wallet \in Address /\ email.post # None
      BY <2>3, Types DEF PostAnswer, Email, Maybe
    <3>2. /\ email' = [verified |-> IF q.address # None THEN q.address
                                    ELSE email.verified, post |-> None]
          /\ recorded' = recorded \cup {q.wallet}
      BY <2>3, <3>1 DEF PostAnswer
    <3>3. email.verified \in Maybe
      BY Types DEF Email
    <3>4. email' \in Email /\ email'.post = None
      BY <3>1, <3>2, <3>3 DEF Email
    <3>5. ~elsewhere /\ q.address # None => q.address = q.wallet
      BY <3>1 DEF IInv, PostOfItsWallet
    <3> QED
      BY <1>1, <3>1, <3>2, <3>4, <3>5, Types DEF IInv, PostOfItsWallet,
         EmailOfItsWallet
  <2>4. CASE PostFails
    <3>1. email' = [email EXCEPT !.post = None] /\ recorded' = recorded
      BY <2>4 DEF PostFails
    <3>2. email' \in Email /\ email'.verified = email.verified
          /\ email'.post = None
      BY <3>1, Types DEF Email
    <3> QED
      BY <1>1, <3>1, <3>2, Types DEF IInv, PostOfItsWallet, EmailOfItsWallet
  <2> QED
    BY <2>1, <2>2, <2>3, <2>4
<1>4. TypeOK' /\ ListenOK' /\ CallsOK' /\ AskedIsShown'
  <2>1. trouble' \in 0..MaxTrouble
    BY <1>1, TroubleTyped
  <2>2. elsewhere' \in BOOLEAN /\ cookie' \in Maybe /\ saved' \in Maybe
    BY <1>1 DEF IInv, TypeOK
  <2> QED
    BY <1>1, <1>3, <2>1, <2>2, PageKept
<1> QED
  BY <1>2, <1>3, <1>4 DEF IInv

-----------------------------------------------------------------------------
(* The theorems. *)

LEMMA InitInv == Init => IInv
<1> SUFFICES ASSUME Init PROVE IInv
  OBVIOUS
<1> USE WalletAssumption
<1>1. page \in Page /\ ListenOK
  BY FreshTyped DEF Init, ListenOK
<1>2. calls \in [Slot -> Call] /\ CallsOK
  <2>1. NoCall \in Call /\ NoCall.step = "none"
    BY DEF NoCall, Call, Maybe
  <2> QED
    BY <2>1 DEF Init, CallsOK
<1>3. email \in Email /\ None \in Maybe
  BY DEF Init, NoEmail, Email, Maybe
<1>4. device \in [injected: BOOLEAN, mobile: BOOLEAN]
  <2>1. PICK i \in BOOLEAN, m \in BOOLEAN :
            device = [injected |-> i, mobile |-> m]
    BY DEF Init
  <2> QED
    BY <2>1
<1>5. /\ cookie \in Maybe /\ saved \in Maybe /\ session \in Maybe
      /\ statusAsked \in Maybe /\ recorded \subseteq Address
      /\ accounts \in [Connector -> SUBSET Address] /\ active = None
      /\ wcMade \in BOOLEAN /\ status = "restoring" /\ restore = "rehydrate"
      /\ restorer = "idle" /\ elsewhere \in BOOLEAN
  BY <1>3 DEF Init
<1>6. trouble \in 0..MaxTrouble
  BY DEF Init
<1>7. TypeOK
  BY <1>1, <1>2, <1>3, <1>4, <1>5, <1>6 DEF TypeOK
<1>8. /\ AskedIsShown /\ PostOfItsWallet /\ ScreenMatchesCookie
      /\ EmailOfItsWallet
  BY DEF Init, AskedIsShown, PostOfItsWallet, ScreenMatchesCookie,
     EmailOfItsWallet, NoEmail
<1> QED
  BY <1>1, <1>2, <1>7, <1>8 DEF IInv

LEMMA StutterInv ==
    ASSUME IInv, UNCHANGED vars
    PROVE  IInv'
<1>1. /\ UNCHANGED <<wallet, session, status, page, restore, restorer, calls,
                     cookie, saved, email, recorded, statusAsked, elsewhere,
                     trouble>>
  BY DEF vars, store, mail
<1>2. elsewhere \in BOOLEAN
  BY DEF IInv, TypeOK
<1>3. TypeOK' /\ ListenOK' /\ CallsOK' /\ AskedIsShown'
  BY <1>1, <1>2, Types, PageKept
<1>4. PostOfItsWallet' /\ EmailOfItsWallet' /\ ScreenMatchesCookie'
  BY <1>1 DEF IInv, PostOfItsWallet, EmailOfItsWallet, ScreenMatchesCookie
<1> QED
  BY <1>3, <1>4 DEF IInv

LEMMA StepInv == IInv /\ [Next]_vars => IInv'
<1> SUFFICES ASSUME IInv, [Next]_vars PROVE IInv'
  OBVIOUS
<1>1. CASE Navigate
  BY <1>1, NavigateInv
<1>2. CASE Reload
  BY <1>2, ReloadInv
<1>3. CASE Rehydrate \/ RestoreAnswer \/ RestoreFails
  BY <1>3, RestoreInv
<1>4. CASE RestoreProvider
  BY <1>4, RestoreProviderInv
<1>5. CASE CancelSelection
  BY <1>5, CancelInv
<1>6. CASE \E c \in Slot :
              \/ Connect(c) \/ Reconnect(c) \/ Continue(c) \/ Change(c)
              \/ Logout(c) \/ CallStep(c) \/ \E a \in Address : Select(c, a)
  BY <1>6, ConnectInv, ReconnectInv, ContinueInv, ChangeInv, LogoutInv,
     CallStepInv, SelectInv
<1>7. CASE \E k \in Connector : SwitchAccounts(k)
  BY <1>7, SwitchAccountsInv
<1>8. CASE Timer
  BY <1>8, TimerInv
<1>9. CASE AccountsAnswer
  BY <1>9, AccountsAnswerInv
<1>10. CASE Elsewhere \/ Expire
  BY <1>10, OutsideInv
<1>11. CASE StatusAnswer \/ Post \/ PostAnswer \/ PostFails
  BY <1>11, MailInv
<1>12. CASE UNCHANGED vars
  BY <1>12, StutterInv
<1> QED
  BY <1>1, <1>2, <1>3, <1>4, <1>5, <1>6, <1>7, <1>8, <1>9, <1>10, <1>11, <1>12
     DEF Next

\* The tab, its calls and the server always satisfy the inductive invariant.
\* (use-wallet-session.ts, use-email-registration.ts)
THEOREM SafetyInvariant == Spec => []IInv
  BY InitInv, StepInv, PTL DEF Spec

\* The store, the hooks and the calls in flight keep their types; whoever is
\* authenticated has an address.  (use-wallet-session.ts)
THEOREM TypeCorrect == Spec => []TypeOK
<1>1. IInv => TypeOK
  BY DEF IInv
<1> QED
  BY <1>1, SafetyInvariant, PTL

\* However many calls of this mount and of earlier ones overlap, and whatever
\* answers are lost: the wallet on the screen is the wallet the server acts
\* for, or the server knows none, until another tab logs in.
\* (authenticateAddress 285-291, clearAuthenticatedSession, restore)
THEOREM ScreenMatchesCookieAlways == Spec => []ScreenMatchesCookie
<1>1. IInv => ScreenMatchesCookie
  BY DEF IInv
<1> QED
  BY <1>1, SafetyInvariant, PTL

\* The e-mail shown as verified was verified for the wallet that is shown,
\* however the wallet is changed while the code is checked or the status is
\* asked.  (verifyCode 37-45, refresh)
THEOREM EmailOfItsWalletAlways == Spec => []EmailOfItsWallet
<1>1. IInv => EmailOfItsWallet
  BY DEF IInv
<1> QED
  BY <1>1, SafetyInvariant, PTL
=============================================================================
