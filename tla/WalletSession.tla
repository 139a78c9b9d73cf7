--------------------------- MODULE WalletSession ----------------------------
(***************************************************************************)
(* The wallet session of one browser tab: the hook useWalletSession, the   *)
(* module state of wallet-provider.ts, the store use-app-store.ts, the     *)
(* buttons of WalletPanel.tsx, and the e-mail registration that relies on  *)
(* the session.  The server knows the tab by its session cookie only; the  *)
(* screen shows the address of the store.                                  *)
(*                                                                         *)
(* A call is an asynchronous function started by a button; step names the  *)
(* answer it waits for.  Going from /send to /inbox mounts the hook anew:  *)
(* its own state is fresh, the store and the provider live on, and the     *)
(* calls of the old mount go on but reach only those.                      *)
(***************************************************************************)
EXTENDS Naturals, FiniteSets

CONSTANTS
    Address,       \* the user's accounts
    None,          \* an absent value
    Slots,         \* bound on the calls in flight
    MaxTrouble,    \* bound on page changes, failures, overlapping calls and
                   \* changes elsewhere
    Mailers        \* bound: the accounts that register an e-mail

ASSUME WalletAssumption ==
    /\ None \notin Address \cup {"injected", "walletconnect"}
    /\ Mailers \subseteq Address
    /\ {Slots, MaxTrouble} \subseteq Nat

VARIABLES
    device,      \* does the browser hold a wallet, is it a mobile browser
    accounts,    \* connector -> the accounts its wallet exposes
    active,      \* activeConnector (and activeProvider)
    wcMade,      \* activeWalletConnectProvider is set
    cookie,      \* the wallet the server reads off the session cookie
    saved,       \* walletSession in localStorage
    session, status,  \* the store: walletSession, authenticationStatus
    page,        \* state of the mounted hook
    restore,     \* the await of the effect that restores the session
    restorer,    \* the effect that restores the provider
    calls,       \* slot -> the call in it
    email,       \* state of the mounted useEmailRegistration
    statusAsked, \* the address whose e-mail status is being fetched
    recorded,    \* wallets with a verified e-mail on the server
    elsewhere,   \* another tab has logged in or out
    trouble      \* how much of MaxTrouble is spent

wallet == <<device, accounts, active, wcMade>>
store == <<saved, session, status>>
mail == <<email, recorded>>
vars == <<wallet, cookie, store, page, restore, restorer, calls, mail,
          statusAsked, elsewhere, trouble>>

Slot == 1..Slots
Connector == {"injected", "walletconnect"}
Maybe == Address \cup {None}

Call == [kind: {"idle", "login", "select", "reconnect", "logout"},
         step: {"none", "clear", "connect", "sign", "verify", "logout",
                "disconnect"},
         address: Maybe, replace: BOOLEAN,
         connector: Connector \cup {"auto"}, current: BOOLEAN]
NoCall == [kind |-> "idle", step |-> "none", address |-> None,
           replace |-> FALSE, connector |-> "auto", current |-> FALSE]

\* choices, pending and mismatch are availableAccounts, pendingSignature and
\* walletAccountMismatch; listening is the provider whose accountsChanged is
\* heard, timer its confirmationTimer, asked the eth_accounts in flight.
Page == [busy: BOOLEAN, error: BOOLEAN, choices: SUBSET Address,
         pending: Maybe, mismatch: BOOLEAN, ready: BOOLEAN,
         restoring: BOOLEAN, listening: Connector \cup {None},
         timer: BOOLEAN, asked: SUBSET (Address \X Connector)]

\* post is a verifyCode on its way: the address it was made for, none if that
\* mount is gone, and the wallet of the cookie it carries.
Email == [verified: Maybe,
          post: {None} \cup [address: Maybe, wallet: Maybe]]

TypeOK ==
    /\ device \in [injected: BOOLEAN, mobile: BOOLEAN]
    /\ accounts \in [Connector -> SUBSET Address]
    /\ active \in Connector \cup {None} /\ wcMade \in BOOLEAN
    /\ {cookie, saved, session, statusAsked} \subseteq Maybe
    /\ status \in {"restoring", "authenticated", "anonymous"}
    /\ status = "authenticated" => session # None
    /\ page \in Page
    /\ restore \in {"none", "rehydrate", "fetch"}
    /\ restorer \in {"idle", "live", "orphan"}
    /\ calls \in [Slot -> Call]
    /\ email \in Email /\ recorded \subseteq Address
    /\ elsewhere \in BOOLEAN /\ trouble \in 0..MaxTrouble

NoEmail == [verified |-> None, post |-> None]

\* The hook's state when it mounts.
Fresh(act) ==
    [busy |-> FALSE, error |-> FALSE, choices |-> {}, pending |-> None,
     mismatch |-> FALSE, ready |-> act # None, restoring |-> act = None,
     listening |-> None, timer |-> FALSE, asked |-> {}]

\* The tab is opened on a device with or without a wallet of its own.
Init ==
    /\ device \in {[injected |-> TRUE, mobile |-> FALSE],
                   [injected |-> FALSE, mobile |-> TRUE]}
    /\ accounts = [k \in Connector |-> {}]
    /\ active = None /\ wcMade = FALSE
    /\ cookie = None /\ saved = None /\ session = None
    /\ status = "restoring" /\ restore = "rehydrate" /\ restorer = "idle"
    /\ page = Fresh(None)
    /\ calls = [c \in Slot |-> NoCall]
    /\ email = NoEmail /\ statusAsked = None /\ recorded = {}
    /\ elsewhere = FALSE /\ trouble = 0

\* authenticatedAddress: what the page shows and the other hooks work for.
Shows(s, st, p) == IF st = "authenticated" /\ ~p.mismatch THEN s ELSE None
Shown == Shows(session, status, page)

-----------------------------------------------------------------------------
(* A render: new values of the store and of the hook, then its effects. *)

\* The provider effect runs when the session or its status changed: a provider
\* in memory is taken as it is, else the last one is restored.
ProviderEffect(s, st, p, act) ==
    IF st # "authenticated" \/ s = None
    THEN [page |-> [p EXCEPT !.ready = FALSE, !.restoring = st = "restoring"],
          active |-> act, restorer |-> "orphan"]
    ELSE IF act # None
    THEN [page |-> [p EXCEPT !.ready = TRUE, !.restoring = FALSE],
          active |-> act, restorer |-> "orphan"]
    ELSE [page |-> [p EXCEPT !.restoring = TRUE],
          active |-> IF device.injected THEN "injected" ELSE None,
          restorer |-> "live"]

\* The accountsChanged effect runs when the session or ready changed.
Listen(s, p, act, again) ==
    IF again \/ s # session \/ p.ready # page.ready
    THEN [p EXCEPT !.timer = FALSE,
                   !.listening = IF s # None /\ p.ready THEN act ELSE None]
    ELSE p

\* Status and session become st and s, the hook's state p and the provider
\* act; mounting says that the hook was mounted.
Commit(s, st, p, act, mounting) ==
    LET moved == mounting \/ s # session \/ st # status
        e == IF moved THEN ProviderEffect(s, st, p, act)
             ELSE [page |-> p, active |-> act, restorer |-> restorer]
    IN /\ session' = s /\ status' = st
       /\ page' = Listen(s, e.page, e.active, mounting)
       /\ active' = e.active
       /\ restorer' = IF e.restorer = "orphan" /\ restorer = "idle"
                      THEN "idle" ELSE e.restorer
       /\ statusAsked' = IF mounting \/ Shows(s, st, p) # Shown
                         THEN Shows(s, st, p) ELSE statusAsked

\* A step that leaves the store alone.
Render(p, act) ==
    Commit(session, status, p, act, FALSE) /\ UNCHANGED <<saved, cookie>>

\* A step that writes the store, and localStorage with it.
Write(s, st, p, act) == Commit(s, st, p, act, FALSE) /\ saved' = s

Quiet == UNCHANGED <<device, restore, mail, elsewhere>>
Calm == Quiet /\ UNCHANGED trouble
Trouble == trouble < MaxTrouble /\ trouble' = trouble + 1

-----------------------------------------------------------------------------
(* Opening, reloading and leaving the page; the session is restored. *)

\* Only the first mount after a reload has to restore the session.
ToRestore ==
    IF session # None /\ status = "authenticated" THEN "none" ELSE "rehydrate"

\* From /send to /inbox or back.
Navigate ==
    /\ Trouble
    /\ Commit(session, status, Fresh(active), active, TRUE)
    /\ restore' = ToRestore
    /\ calls' = [c \in Slot |-> [calls[c] EXCEPT !.current = FALSE]]
    /\ email' = [NoEmail EXCEPT !.post =
           IF email.post = None THEN None
           ELSE [email.post EXCEPT !.address = None]]
    /\ UNCHANGED <<device, accounts, wcMade, cookie, saved, recorded,
                   elsewhere>>

\* The memory is lost; an answer already on its way may still set or clear the
\* cookie.
Reload ==
    /\ Trouble
    /\ LET sent(step) == {c \in Slot : calls[c].step = step}
       IN cookie' \in {cookie} \cup {calls[c].address : c \in sent("verify")}
              \cup {None : c \in sent("clear") \cup sent("logout")}
    /\ session' = None /\ status' = "restoring" /\ page' = Fresh(None)
    /\ active' = None /\ wcMade' = FALSE
    /\ restore' = "rehydrate" /\ restorer' = "idle"
    /\ calls' = [c \in Slot |-> NoCall]
    /\ email' = NoEmail /\ statusAsked' = None
    /\ UNCHANGED <<device, accounts, saved, recorded, elsewhere>>

RestoreQuiet ==
    UNCHANGED <<device, accounts, wcMade, calls, mail, elsewhere>>

Rehydrate ==
    /\ restore = "rehydrate" /\ RestoreQuiet /\ UNCHANGED trouble
    /\ Write(saved, IF saved = None THEN "anonymous" ELSE "restoring",
             page, active)
    /\ restore' = IF saved = None THEN "none" ELSE "fetch"
    /\ UNCHANGED cookie

Forgotten(p) == Write(None, "anonymous", [p EXCEPT !.mismatch = FALSE], active)

\* Mutant: the answer is taken for a session without a look at its status.
RestoreAnswerUnchecked ==
    /\ restore = "fetch" /\ restore' = "none" /\ RestoreQuiet
    /\ Write(cookie, "authenticated", page, active)
    /\ UNCHANGED <<cookie, trouble>>

\* GET /auth/session: the server's wallet replaces the saved one.
RestoreAnswer ==
    /\ restore = "fetch" /\ restore' = "none" /\ RestoreQuiet
    /\ IF cookie = None THEN Forgotten(page)
       ELSE Write(cookie, "authenticated", page, active)
    /\ UNCHANGED <<cookie, trouble>>

\* Mutant: an error is shown and the session left as it is.
RestoreFailsSilently ==
    /\ restore = "fetch" /\ restore' = "none" /\ RestoreQuiet /\ Trouble
    /\ Render([page EXCEPT !.error = TRUE], active)

RestoreFails ==
    /\ restore = "fetch" /\ restore' = "none" /\ RestoreQuiet /\ Trouble
    /\ Forgotten([page EXCEPT !.error = TRUE]) /\ UNCHANGED cookie

\* restoreWalletProvider answers, or fails; when its effect has been cancelled
\* it still leaves its provider in memory.
RestoreProvider ==
    LET found == IF device.injected THEN "injected" ELSE "walletconnect"
        usable == device.injected \/ accounts[found] # {}
        matches == restorer = "live" /\ session \in accounts[found]
        after(ok) == IF restorer # "live" THEN page
                     ELSE [page EXCEPT !.ready = ok, !.restoring = FALSE]
    IN /\ restorer # "idle" /\ Calm /\ UNCHANGED calls
       /\ session' = session /\ status' = status /\ statusAsked' = statusAsked
       /\ restorer' = "idle" /\ UNCHANGED <<saved, cookie>>
       /\ wcMade' = (wcMade \/ ~device.injected)
       /\ \/ /\ active' = IF usable THEN found ELSE active
             /\ page' = Listen(session, after(usable /\ matches), active',
                               FALSE)
             /\ UNCHANGED accounts
          \* The restored session lacks the capabilities, or no answer.
          \/ /\ active' = active
             /\ page' = Listen(session, after(FALSE), active', FALSE)
             /\ accounts' \in {accounts} \cup
                  {[accounts EXCEPT !["walletconnect"] = {}] : k \in
                       {found} \ {"injected"}}

-----------------------------------------------------------------------------
(* The buttons of WalletPanel. *)

Busy(c) == calls[c] # NoCall

\* A call takes the first free slot; to overlap another one is counted.
Begin(c, call) ==
    /\ ~Busy(c) /\ \A d \in 1..(c - 1) : Busy(d)
    /\ calls' = [calls EXCEPT ![c] = [call EXCEPT !.current = TRUE]]
    /\ IF \E d \in Slot : Busy(d) THEN Trouble ELSE UNCHANGED trouble
Step(c, step) == calls' = [calls EXCEPT ![c].step = step]
End(c) == calls' = [calls EXCEPT ![c] = NoCall]
Enabled == ~page.busy /\ status # "restoring"

\* The button that repeats what failed.
Retry == page.error /\ Enabled /\ ~page.restoring

\* connectWalletProvider with replaceSession first ends the old session.
Replaces(call, k) == call.replace /\ k = "walletconnect" /\ wcMade
Chosen(call) == IF device.injected /\ call.connector # "walletconnect"
                THEN "injected" ELSE "walletconnect"
ConnectStart(call, p, s, st) ==
    LET cut == Replaces(call, Chosen(call))
    IN /\ Commit(s, st, p, IF cut THEN None ELSE active, FALSE)
       /\ accounts' = IF cut THEN [accounts EXCEPT !["walletconnect"] = {}]
                      ELSE accounts

\* authenticate: what it resets before it asks the wallet.
Asking(p) == [p EXCEPT !.busy = TRUE, !.error = FALSE, !.choices = {},
                       !.pending = None]

Connect(c) ==
    /\ Shown = None /\ page.pending = None
    /\ (Enabled /\ Cardinality(page.choices) <= 1) \/ Retry
    /\ LET call == [NoCall EXCEPT !.kind = "login", !.step = "connect"]
       IN Begin(c, call) /\ ConnectStart(call, Asking(page), session, status)
    /\ Quiet /\ UNCHANGED <<wcMade, saved, cookie>>

Reconnect(c) ==
    /\ Shown # None /\ Enabled /\ ~page.restoring /\ (page.ready => page.error)
    /\ Begin(c, [NoCall EXCEPT !.kind = "reconnect", !.step = "connect",
                               !.address = session])
    /\ Render([page EXCEPT !.busy = TRUE, !.error = FALSE], active)
    /\ Quiet /\ UNCHANGED <<accounts, wcMade>>

\* continueAuthentication: the signature a mobile wallet is yet to be asked.
Continue(c) ==
    /\ Shown = None /\ page.pending # None /\ Enabled
    /\ IF active = None
       THEN /\ Render([page EXCEPT !.error = TRUE, !.pending = None], active)
            /\ UNCHANGED <<calls, trouble>>
       ELSE /\ Begin(c, [NoCall EXCEPT !.kind = "login", !.step = "sign",
                                       !.address = page.pending])
            /\ Render([page EXCEPT !.busy = TRUE, !.error = FALSE], active)
    /\ Quiet /\ UNCHANGED <<accounts, wcMade>>

Select(c, a) ==
    /\ Cardinality(page.choices) > 1 /\ a \in page.choices /\ ~page.busy
    /\ IF active = None /\ ~device.injected
       THEN /\ Render([page EXCEPT !.error = TRUE], active)
            /\ UNCHANGED <<calls, trouble>>
       ELSE /\ Begin(c, [NoCall EXCEPT !.kind = "select", !.step = "sign",
                                       !.address = a])
            /\ Render([page EXCEPT !.busy = TRUE, !.error = FALSE,
                                   !.pending = None], active)
    /\ Quiet /\ UNCHANGED <<accounts, wcMade>>

CancelSelection ==
    /\ Cardinality(page.choices) > 1 /\ ~page.busy
    /\ Render([page EXCEPT !.choices = {}, !.pending = None, !.error = FALSE],
              active)
    /\ Calm /\ UNCHANGED <<accounts, wcMade, calls>>

\* changeAccount and changeWallet wait for the logout with the buttons free.
Change(c) ==
    /\ Shown # None /\ page.ready /\ Enabled
    /\ \E call \in
          {[NoCall EXCEPT !.replace = TRUE, !.connector =
                IF active # None THEN active
                ELSE IF device.injected THEN "injected" ELSE "auto"],
           LET next == IF active # "injected" /\ device.injected
                       THEN "injected" ELSE "walletconnect"
           IN [NoCall EXCEPT !.replace = next = "walletconnect",
                             !.connector = next]} :
          Begin(c, [call EXCEPT !.kind = "login", !.step = "clear"])
    /\ Render(page, active) /\ Quiet /\ UNCHANGED <<accounts, wcMade>>

Logout(c) ==
    /\ Shown # None /\ Enabled /\ (page.ready \/ ~page.restoring)
    /\ Begin(c, [NoCall EXCEPT !.kind = "logout", !.step = "logout"])
    /\ Render([page EXCEPT !.busy = TRUE, !.error = FALSE], active)
    /\ Quiet /\ UNCHANGED <<accounts, wcMade>>

-----------------------------------------------------------------------------
(* The answers a call waits for.  The hook of an old mount is not touched. *)

Own(c, p) == IF calls[c].current THEN p ELSE page
At(c, step) == calls[c].step = step

\* clearAuthenticatedSession; a failure of the request is swallowed.  Then
\* authenticate begins.
Cleared(c) ==
    /\ At(c, "clear") /\ Step(c, "connect")
    /\ \/ cookie' = None /\ UNCHANGED trouble
       \/ cookie' = cookie /\ Trouble
    /\ ConnectStart(calls[c], Own(c, [Asking(page) EXCEPT !.mismatch = FALSE]),
                    None, "anonymous")
    /\ saved' = None /\ Quiet /\ UNCHANGED wcMade

\* authenticate, once the wallet has connected: more accounts than one are
\* shown, a mobile wallet is asked to sign by a second press.
Connected(c, k, granted) ==
    IF calls[c].kind = "reconnect"
    THEN /\ End(c)
         /\ Render(Own(c, IF calls[c].address \in granted
              THEN [page EXCEPT !.busy = FALSE, !.restoring = FALSE,
                                !.ready = TRUE, !.mismatch = FALSE]
              ELSE [page EXCEPT !.busy = FALSE, !.restoring = FALSE,
                                !.ready = FALSE, !.error = TRUE]), k)
    ELSE IF Cardinality(granted) > 1
    THEN /\ End(c)
         /\ Render(Own(c, [page EXCEPT !.busy = FALSE, !.choices = granted]), k)
    ELSE LET a == CHOOSE x \in granted : TRUE
         IN IF k = "walletconnect" /\ device.mobile
            THEN /\ End(c)
                 /\ Render(Own(c, [page EXCEPT !.busy = FALSE,
                                               !.pending = a]), k)
            ELSE /\ calls' = [calls EXCEPT ![c].step = "sign", ![c].address = a]
                 /\ Render(page, k)

\* The wallet connects with the accounts its user grants; one that is connected
\* is not asked again unless its session is replaced.
ConnectAnswer(c) ==
    LET k == Chosen(calls[c])
    IN /\ At(c, "connect") /\ Calm
       /\ \E granted \in (SUBSET Address) \ {{}} :
             /\ accounts[k] # {} /\ ~calls[c].replace => granted = accounts[k]
             /\ accounts' = [accounts EXCEPT ![k] = granted,
                    !["walletconnect"] = IF k = "injected" /\ wcMade THEN {}
                                         ELSE @]
             /\ Connected(c, k, granted)
       /\ wcMade' = (k = "walletconnect")

\* The call ends with an error, and the provider in memory is act.
Fails(c, act) ==
    /\ End(c) /\ Quiet /\ Trouble
    /\ Render(Own(c, [page EXCEPT !.busy = FALSE, !.error = TRUE,
         !.restoring = IF calls[c].kind = "reconnect" THEN FALSE ELSE @]),
         act)

\* The wallet refuses; or it does so after a stale session was ended; or it
\* was already taken for the provider in memory and refuses its accounts.
ConnectFails(c) ==
    LET k == Chosen(calls[c])
    IN /\ At(c, "connect")
       /\ \/ Fails(c, active) /\ UNCHANGED <<accounts, wcMade>>
          \/ /\ k = "walletconnect" \/ wcMade
             /\ Fails(c, active) /\ wcMade' = (k = "walletconnect")
             /\ accounts' = [accounts EXCEPT !["walletconnect"] = {}]
          \/ /\ Fails(c, k) /\ wcMade' = (k = "walletconnect")
             /\ accounts' = [accounts EXCEPT !["walletconnect"] =
                                IF k = "injected" /\ wcMade THEN {} ELSE @]

\* authenticateAddress: network, challenge and personal_sign.
Sign(c) ==
    /\ At(c, "sign") /\ Step(c, "verify")
    /\ \E k \in Connector : calls[c].address \in accounts[k]
    /\ Calm /\ Render(page, active) /\ UNCHANGED <<accounts, wcMade>>

SignInFails(c) ==
    /\ calls[c].step \in {"sign", "verify"} /\ Fails(c, active)
    /\ UNCHANGED <<accounts, wcMade>>

\* Mutant: the screen goes on with the account the wallet shows now.
VerifiedOther(c) ==
    /\ At(c, "verify") /\ End(c) /\ cookie' = calls[c].address
    /\ \E a \in UNION {accounts[k] : k \in Connector} :
          Write(a, "authenticated",
                Own(c, [page EXCEPT !.busy = FALSE, !.pending = None]), active)
    /\ Calm /\ UNCHANGED <<accounts, wcMade>>

\* POST /auth/verify consumes the nonce, makes a session for its wallet and
\* sets the cookie; the store follows.
Verified(c) ==
    /\ At(c, "verify") /\ End(c) /\ cookie' = calls[c].address
    /\ Write(calls[c].address, "authenticated",
             Own(c, [page EXCEPT
                 !.busy = FALSE, !.pending = None, !.mismatch = FALSE,
                 !.ready = TRUE, !.restoring = FALSE, !.choices =
                     IF calls[c].kind = "select" THEN {} ELSE @]), active)
    /\ Calm /\ UNCHANGED <<accounts, wcMade>>

\* logout: whatever the server answers, the provider is let go.
LogoutAnswer(c) ==
    /\ At(c, "logout") /\ Step(c, "disconnect") /\ Quiet
    /\ \/ /\ cookie' = None /\ UNCHANGED trouble
          /\ Commit(session, status, page, None, FALSE)
       \/ /\ cookie' \in {cookie, None} /\ Trouble
          /\ Commit(session, status, Own(c, [page EXCEPT !.error = TRUE]),
                    None, FALSE)
    /\ UNCHANGED <<accounts, wcMade, saved>>

Disconnected(c) ==
    /\ At(c, "disconnect") /\ End(c) /\ Calm
    /\ accounts' = IF wcMade THEN [accounts EXCEPT !["walletconnect"] = {}]
                   ELSE accounts
    /\ Write(None, "anonymous", Own(c, [page EXCEPT
           !.busy = FALSE, !.mismatch = FALSE, !.pending = None,
           !.ready = FALSE, !.restoring = FALSE]), active)
    /\ UNCHANGED <<wcMade, cookie>>

CallStep(c) ==
    \/ Cleared(c) \/ ConnectAnswer(c) \/ ConnectFails(c)
    \/ Sign(c) \/ SignInFails(c) \/ Verified(c)
    \/ LogoutAnswer(c) \/ Disconnected(c)

-----------------------------------------------------------------------------
(* The user's wallet, other tabs, and the e-mail registration. *)

\* The user switches accounts in the wallet; a wallet that is listened to
\* starts the timer.
SwitchAccounts(k) ==
    /\ accounts[k] # {} /\ Trouble /\ Quiet
    /\ \E now \in {{a} : a \in Address} \cup {{}} :
          now # accounts[k] /\ accounts' = [accounts EXCEPT ![k] = now]
    /\ Render([page EXCEPT !.timer = @ \/ page.listening = k], active)
    /\ UNCHANGED <<wcMade, calls>>

Timer ==
    /\ page.timer /\ Calm
    /\ Render([page EXCEPT !.timer = FALSE,
                           !.asked = @ \cup {<<session, page.listening>>}],
              active)
    /\ UNCHANGED <<accounts, wcMade, calls>>

\* eth_accounts is answered: only a list without the address counts.
AccountsAnswer ==
    \E q \in page.asked :
        /\ LET now == accounts[q[2]]
           IN Render([page EXCEPT
                 !.asked = @ \ {q},
                 !.mismatch = @ \/ (now # {} /\ q[1] \notin now),
                 !.error = @ \/ (now # {} /\ q[1] \notin now)], active)
        /\ Calm /\ UNCHANGED <<accounts, wcMade, calls>>

\* Another tab logs in or out; it shares the cookie and localStorage.  Bound:
\* no trouble follows.
Elsewhere ==
    /\ trouble < MaxTrouble /\ trouble' = MaxTrouble /\ elsewhere' = TRUE
    /\ \E a \in Maybe : cookie' = a /\ saved' = a /\ a # cookie
    /\ UNCHANGED <<wallet, session, status, page, restore, restorer, calls,
                   mail, statusAsked>>

\* The session ends at the server.
Expire ==
    /\ cookie # None /\ Trouble /\ cookie' = None
    /\ UNCHANGED <<wallet, store, page, restore, restorer, calls, mail,
                   statusAsked, elsewhere>>

MailQuiet == UNCHANGED <<wallet, cookie, store, page, restore, restorer, calls,
                         elsewhere>>

\* GET /mailbox/email/status answers for the cookie's wallet; it was asked
\* because the address changed, and is dropped when it changes again.
StatusAnswer ==
    /\ statusAsked # None /\ statusAsked' = None /\ MailQuiet
    /\ \/ /\ email' = [email EXCEPT !.verified =
                 IF cookie \in recorded THEN statusAsked ELSE None]
          /\ UNCHANGED trouble
       \/ email' = [email EXCEPT !.verified = None] /\ Trouble
    /\ UNCHANGED recorded

\* verifyCode, for the address shown.  Bound: the code is entered while nothing
\* else is on its way.
Post ==
    /\ Shown \in Mailers /\ email.verified # Shown /\ email.post = None
    /\ statusAsked = None /\ restore = "none" /\ \A c \in Slot : ~Busy(c)
    /\ email' = [email EXCEPT !.post = [address |-> Shown, wallet |-> cookie]]
    /\ MailQuiet /\ UNCHANGED <<recorded, statusAsked, trouble>>

\* Mutant: the address shown by now is taken for the one that was verified.
PostAnswerNow ==
    /\ email.post # None /\ email.post.wallet # None
    /\ email' = [verified |-> Shown, post |-> None]
    /\ recorded' = recorded \cup {email.post.wallet}
    /\ MailQuiet /\ UNCHANGED <<statusAsked, trouble>>

\* The server acts for the wallet of the cookie, the page for its own address.
PostAnswer ==
    /\ email.post # None /\ email.post.wallet # None
    /\ email' = [verified |-> IF email.post.address # None
                              THEN email.post.address ELSE email.verified, post |-> None]
    /\ recorded' = recorded \cup {email.post.wallet}
    /\ MailQuiet /\ UNCHANGED <<statusAsked, trouble>>

PostFails ==
    /\ email.post # None /\ email' = [email EXCEPT !.post = None]
    /\ IF email.post.wallet = None THEN UNCHANGED trouble ELSE Trouble
    /\ MailQuiet /\ UNCHANGED <<recorded, statusAsked>>

Next ==
    \/ Navigate \/ Reload \/ Rehydrate \/ RestoreAnswer \/ RestoreFails
    \/ RestoreProvider \/ CancelSelection
    \/ \E c \in Slot :
          \/ Connect(c) \/ Reconnect(c) \/ Continue(c) \/ Change(c)
          \/ Logout(c) \/ CallStep(c)
          \/ \E a \in Address : Select(c, a)
    \/ \E k \in Connector : SwitchAccounts(k)
    \/ Timer \/ AccountsAnswer \/ Elsewhere \/ Expire \/ StatusAnswer
    \/ Post \/ PostAnswer \/ PostFails

Spec == Init /\ [][Next]_vars

\* Requests that restore something are answered or fail.
FairSpec ==
    /\ Spec
    /\ WF_vars(Rehydrate) /\ WF_vars(RestoreAnswer \/ RestoreFails)
    /\ WF_vars(RestoreProvider)

-----------------------------------------------------------------------------
(* Properties. *)

\* While this is the only tab that logs in, the wallet on the screen is the
\* wallet the server acts for, or the server knows none: whatever calls of this
\* mount and of earlier ones overlap, and whatever answers are lost.
\* (authenticateAddress 285-291, clearAuthenticatedSession, restore)
ScreenMatchesCookie ==
    ~elsewhere /\ status = "authenticated" => cookie \in {session, None}

\* The e-mail shown as verified for a wallet was verified for that wallet, even
\* when the wallet is changed while the code is checked.  (verifyCode 37-45)
EmailOfItsWallet ==
    ~elsewhere /\ email.verified # None => email.verified \in recorded

\* The screen does not stay between logged in and logged out, nor its buttons
\* disabled for a wallet that is being restored.  (restore, restoreProvider)
Unsettled == status = "restoring" \/ page.restoring
RestoringEnds == Unsettled ~> ~Unsettled
=============================================================================
