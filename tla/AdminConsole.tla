---------------------------- MODULE AdminConsole -----------------------------
(***************************************************************************)
(* The dashboard of sample/auth-db/src/admin: the screens of admin-app.tsx *)
(* and auth-screen.tsx and the dialogs of create-user-dialog.tsx,          *)
(* manage-user-dialog.tsx, api-key-manager.tsx and auth-event-list.tsx, as *)
(* one user drives them in one tab over SessionClient.                     *)
(*                                                                         *)
(* The dialogs are states of their own.  Their backdrop stops the mouse    *)
(* only: with the keyboard what is behind them goes on working, so that    *)
(* several are open at once, and "View" puts another user into the dialog  *)
(* of the first one, which React does not mount anew.                      *)
(*                                                                         *)
(* A handler of an answer, up to the last state it sets, is one step: no   *)
(* other task runs between the continuations of one answer.  The requests  *)
(* of a component's effects are made some time after the step that mounts  *)
(* or reloads it (`effects').  What the rows, forms and messages say is    *)
(* left out; which of them are there, and which buttons work, is not.  The *)
(* form of a new key and the question about a revocation can be had        *)
(* whenever their buttons work, and are left out as well.  What the parts  *)
(* of a component request together is one call: "load" stands for a user   *)
(* and the roles, "read" for the lists of keys and events, "change" for    *)
(* issue() and for revoke(), which differ in nothing but their request.    *)
(***************************************************************************)
EXTENDS SessionClient, FiniteSets

CONSTANTS
    Users,          \* the users in the list
    MaxOpen         \* bound: the dialogs open at once

ASSUME UsersAssumption == NoUser \notin Users /\ MaxOpen \in Nat

VARIABLE ui

consoleVars == <<clientVars, ui>>

(* ----------------------------- components ------------------------------ *)
Dialogs == {"create", "password", "manage"}

\* The effects and calls of a component.  "details" is what ManageUserDialog
\* shows of a user that is neither edited nor deleted: ApiKeyManager and
\* AuthEventList.
KindsOf(part) ==
    CASE part = "login" -> {"login", "admin", "reset"}
      [] part = "dashboard" -> {"list"}
      [] part = "create" -> {"roles", "create"}
      [] part = "password" -> {"password"}
      [] part = "manage" -> {"load", "save", "remove"}
      [] part = "details" -> {"read", "change"}

\* Those among them during which it is submitting.
Submits(part) ==
    CASE part = "login" -> {"login", "admin", "reset"}
      [] part = "create" -> {"create"}
      [] part = "password" -> {"password"}
      [] part = "manage" -> {"save", "remove"}
      [] part = "details" -> {"change"}

KindsOfAll(parts) == UNION {KindsOf(part) : part \in parts}
DashboardKinds == KindsOfAll(Dialogs \union {"dashboard", "details"})
PublicKinds == {"login", "reset"}
\* Kinds whose handler calls onUnauthorized on 401 and 403; an "orphan" is a
\* call of which nothing else is left.
GuardedKinds == (DashboardKinds \ {"password"}) \union {"orphan"}
\* Kinds whose handler calls the dashboard back.
ReportingKinds == {"create", "save", "remove", "password"}

\* Which screen is shown, which components are submitting or loading, which
\* dialogs are open, what CreateUserDialog (`rolesListed') and ManageUserDialog
\* (`chosen', `shown', `view') hold, and the effects to run.  `switched' is
\* history: another user has been chosen since the dialog was opened.
LoginUi == [screen |-> "login", busy |-> {}, loading |-> {}, open |-> {},
            rolesListed |-> FALSE, chosen |-> NoUser, shown |-> NoUser,
            view |-> "details", switched |-> FALSE, effects |-> {}]
RestoringUi == [LoginUi EXCEPT !.screen = "restoring"]
DashboardUi == [LoginUi EXCEPT !.screen = "dashboard", !.loading = {"list"},
                               !.effects = {"list"}]

\* The page with its user interface, as handlers rewrite it.
Now == [session |-> session, storage |-> storage, calls |-> calls, ui |-> ui]
Becomes(p) ==
    /\ session' = p.session
    /\ storage' = p.storage
    /\ calls' = p.calls
    /\ ui' = p.ui

Show(p, u) == [p EXCEPT !.ui = u]

\* Unmounting components leaves their calls without a state to set.  Those that
\* change a user report to the dashboard as long as it is there ("closed").
Orphan(c) == [c EXCEPT !.kind = "orphan", !.life = "here", !.about = NoUser]

Orphaned(c, kinds) ==
    [s \in Slots |->
        IF c[s].kind \in kinds /\ c[s].life = "here"
        THEN IF c[s].kind \in ReportingKinds THEN [c[s] EXCEPT !.life = "closed"]
             ELSE Orphan(c[s])
        ELSE c[s]]

Stripped(u, parts) ==
    [u EXCEPT !.busy = @ \ parts, !.open = @ \ parts,
              !.loading = @ \ KindsOfAll(parts), !.effects = @ \ KindsOfAll(parts)]

Unmounted(p, parts) ==
    [p EXCEPT !.calls = Orphaned(@, KindsOfAll(parts)), !.ui = Stripped(@, parts)]

CloseCreate(p) ==
    Show(Unmounted(p, {"create"}),
         [Stripped(p.ui, {"create"}) EXCEPT !.rolesListed = FALSE])

CloseManage(p) ==
    Show(Unmounted(p, {"manage", "details"}),
         [Stripped(p.ui, {"manage", "details"}) EXCEPT
             !.chosen = NoUser, !.shown = NoUser, !.view = "details", !.switched = FALSE])

Closed(p, dialog) ==
    CASE dialog = "create" -> CloseCreate(p)
      [] dialog = "password" -> Unmounted(p, {"password"})
      [] dialog = "manage" -> CloseManage(p)

\* Leaving the dashboard.  A change of the password still reports to Admin.
Deserted(c) ==
    [s \in Slots |->
        IF c[s].kind \notin DashboardKinds THEN c[s]
        ELSE IF c[s].kind = "password" THEN [c[s] EXCEPT !.life = "closed"]
        ELSE Orphan(c[s])]

SignedOut(p) ==
    IF p.ui.screen = "dashboard"
    THEN [p EXCEPT !.ui = LoginUi, !.calls = Deserted(@)]
    ELSE p

SessionEnded(p) == SignedOut(ClearSession(p))

ShowDashboard(p) == Show(p, DashboardUi)

Effects(p, es) == Show(p, [p.ui EXCEPT !.effects = @ \union es])
Reload(p) == Effects(p, {"list"})

Submitting(p, part) == Show(p, [p.ui EXCEPT !.busy = @ \union {part}])
NotBusy(p, part) == Show(p, [p.ui EXCEPT !.busy = @ \ {part}])
Loaded(p, kind) == Show(p, [p.ui EXCEPT !.loading = @ \ {kind}])

\* The details of user u are rendered, after something else or for another.
ShowDetails(p, u) ==
    Effects(Show(p, [p.ui EXCEPT !.view = "details", !.shown = u]), {"read"})

LeaveDetails(p, view) ==
    Show(Unmounted(p, {"details"}), [Stripped(p.ui, {"details"}) EXCEPT !.view = view])

(* ------------------------- handlers of answers ------------------------- *)
\* Login.submit goes on to ask for /admin with the tokens it was given.
OnAdmin(p, ok) ==
    IF ok THEN ShowDashboard(p) ELSE NotBusy(ClearSession(p), "login")

OnRestore(p, ok) ==
    IF ok THEN ShowDashboard(p) ELSE Show(ClearSession(p), LoginUi)

\* A failed logout forgets the tokens and leaves the dashboard where it is.
OnLogout(p, ok) == IF ok THEN SessionEnded(p) ELSE ClearSession(p)

OnRoles(p, ok) ==
    LET q == Loaded(p, "roles") IN
    IF ok THEN Show(q, [q.ui EXCEPT !.rolesListed = TRUE]) ELSE q

\* The answer of a dialog the user has closed still closes the one now open.
OnCreate(p, here, ok) ==
    LET q == IF here THEN NotBusy(p, "create") ELSE p IN
    IF ok THEN Reload(CloseCreate(q)) ELSE q

\* Whoever has been chosen since, the user that was asked for is shown.
OnLoad(p, u, ok) ==
    LET q == Loaded(p, "load") IN
    IF ~ok \/ q.ui.shown = u THEN q
    ELSE IF q.ui.view = "details" THEN ShowDetails(q, u)
    ELSE Show(q, [q.ui EXCEPT !.shown = u])

OnSave(p, u, here, ok) ==
    LET q == IF here THEN NotBusy(p, "manage") ELSE p IN
    IF ~ok THEN q ELSE Reload(IF here THEN ShowDetails(q, u) ELSE q)

\* A mutant of OnRemove: the flag is reset with the success only.
OnRemoveStuck(p, here, ok) ==
    IF ok THEN Reload(CloseManage(p))
    ELSE IF here THEN ShowDetails(p, p.ui.shown) ELSE p

OnRemove(p, here, ok) ==
    LET q == IF here THEN NotBusy(p, "manage") ELSE p IN
    IF ok THEN Reload(CloseManage(q))
    ELSE IF here THEN ShowDetails(q, q.ui.shown) ELSE q

OnChange(p, ok) ==
    LET q == NotBusy(p, "details") IN IF ok THEN Effects(q, {"read"}) ELSE q

\* Every session was signed out; the dialog does not call onUnauthorized.
OnPassword(p, here, ok) ==
    IF ok THEN SessionEnded(p) ELSE IF here THEN NotBusy(p, "password") ELSE p

Answered(p, c, ok) ==
    LET here == c.life = "here" IN
    CASE c.kind = "admin" -> OnAdmin(p, ok)
      [] c.kind = "restore" -> OnRestore(p, ok)
      [] c.kind = "logout" -> OnLogout(p, ok)
      [] c.kind \in PublicKinds -> NotBusy(p, "login")
      [] c.kind = "list" -> Loaded(p, "list")
      [] c.kind = "create" -> OnCreate(p, here, ok)
      [] c.kind = "save" -> OnSave(p, c.about, here, ok)
      [] c.kind = "remove" -> OnRemove(p, here, ok)
      [] c.kind = "password" -> OnPassword(p, here, ok)
      [] c.kind = "roles" -> OnRoles(p, ok)
      [] c.kind = "load" -> OnLoad(p, c.about, ok)
      [] c.kind = "change" -> OnChange(p, ok)
      [] OTHER -> p

\* The promise of the call in slot s settles.  onUnauthorized belongs to Admin
\* and is called for whatever dashboard made the call.
Settled(p0, s, reply) ==
    LET c == p0.calls[s]
        p == [p0 EXCEPT !.calls = [@ EXCEPT ![s] = Idle]]
    IN  IF c.kind \in GuardedKinds /\ reply \in {"401", "403"}
        THEN SessionEnded(p)
        ELSE Answered(p, c, reply = "ok")

\* A first 401 of a call with a session becomes AwaitRefresh; without one,
\* refreshSession() throws another.
Receive(s) ==
    /\ calls[s].at \in {"sent", "retried"}
    /\ calls[s].kind # "login"
    /\ \E reply \in Reply(s) :
        /\ reply = "401" => calls[s].at = "retried" \/ session = NoToken
        /\ Becomes(Settled(Now, s, reply))
        /\ tokens' = IF reply # "ok" THEN tokens
                     ELSE IF calls[s].kind = "logout"
                     THEN Without(tokens, {tokens[calls[s].token].chain})
                     ELSE IF calls[s].kind = "password"
                     THEN Without(tokens, Chains)
                     ELSE tokens
    /\ UNCHANGED <<refresh, presented>>

\* The first half of Login.submit: login() sets the session it is given.
LoginAnswered(s) ==
    /\ calls[s].kind = "login"
    /\ \/ /\ CanMint
          /\ tokens' = Append(tokens, Pair(Len(tokens) + 1))
          /\ Becomes([SetSession(Now, Len(tokens) + 1) EXCEPT
                !.calls = [@ EXCEPT ![s] = [Idle EXCEPT !.kind = "admin",
                    !.at = "sent", !.token = Len(tokens) + 1, !.good = TRUE]]])
       \/ /\ Becomes(NotBusy([ClearSession(Now) EXCEPT
                !.calls = [@ EXCEPT ![s] = Idle]], "login"))
          /\ UNCHANGED tokens
    /\ UNCHANGED <<refresh, presented>>

\* The calls that shared a refresh are rejected with it; `at' is why.
RefreshFails ==
    /\ refresh # NoToken
    /\ refresh.reply \in {"401", "fail"}
    /\ session' = NoToken
    /\ storage' = NoToken
    /\ refresh' = NoToken
    /\ calls' = [s \in Slots |-> IF s \in Waiting
                                 THEN [calls[s] EXCEPT !.at = refresh.reply]
                                 ELSE calls[s]]
    /\ UNCHANGED <<ui, tokens, presented>>

Rejected == {s \in Slots : calls[s].at \in {"401", "fail"}}

\* One of them, in some order, runs its handler.
Reject(s) ==
    /\ s \in Rejected
    /\ Becomes(Settled(Now, s, calls[s].at))
    /\ UNCHANGED <<refresh, tokens, presented>>

(* ------------------------------- gestures ------------------------------ *)
\* request(): without a session it is refused before anything is sent.
\* `busy' is the page p once the handler has set its flags.
Ask(p, busy, kind, about) ==
    IF p.session # NoToken THEN Send(busy, kind, about)
    ELSE IF kind \in GuardedKinds THEN SessionEnded(p) ELSE p

OnPage(p) ==
    /\ Free(Now) # {}
    /\ Becomes(p)
    /\ UNCHANGED <<refresh, tokens, presented>>

\* React runs the effects of a render before the next one, and so before what
\* a gesture changes is rendered; between the requests of both it is the same
\* which is made first.
Gesture(p) == ui.effects = {} /\ OnPage(p)

\* The handler of a form makes its request.
Submit(part, kind) ==
    /\ part \notin ui.busy
    /\ Gesture(Ask(Now, Submitting(Now, part), kind, ui.chosen))

SubmitLogin ==
    /\ ui.screen = "login" /\ "login" \notin ui.busy
    /\ \E kind \in PublicKinds : Gesture(SendPublic(Submitting(Now, "login"), kind))

LogOut ==
    /\ ui.screen = "dashboard"
    /\ Gesture(IF session = NoToken THEN SessionEnded(Now) ELSE Send(Now, "logout", NoUser))

\* The filters and Refresh; Previous and Next wait for the list.
Browse == ui.screen = "dashboard" /\ Gesture(Reload(Now))

Open(dialog, u) ==
    /\ ui.screen = "dashboard" /\ dialog \notin ui.open
    /\ Cardinality(ui.open) < MaxOpen
    /\ Gesture(Show(Now, [u EXCEPT !.open = @ \union {dialog}]))

OpenCreate ==
    /\ Open("create", [ui EXCEPT !.loading = @ \union {"roles"},
                                 !.effects = @ \union {"roles"}])

OpenPassword ==
    /\ Open("password", ui)

\* "View" of a row; rows are shown once the list is loaded.
OpenManage(u) ==
    /\ "list" \notin ui.loading
    /\ Open("manage", [ui EXCEPT !.chosen = u, !.loading = @ \union {"load"},
                                 !.effects = @ \union {"load"}])

\* The same with the dialog open: all but its user stays as it was.
Select(u) ==
    /\ ui.screen = "dashboard" /\ "list" \notin ui.loading
    /\ "manage" \in ui.open /\ ui.chosen # u
    /\ Gesture(Show(Now, [ui EXCEPT !.chosen = u, !.switched = TRUE,
                                    !.effects = @ \union {"load"}]))

\* A mutant of MayClose: every dialog closes at any time.
MayAlwaysClose(dialog) == dialog \in ui.open

\* Only ManageUserDialog stays open while it submits.
MayClose(dialog) ==
    dialog \in ui.open /\ (dialog = "manage" => "manage" \notin ui.busy)

CloseDialog(dialog) == MayClose(dialog) /\ Gesture(Closed(Now, dialog))

SubmitCreate ==
    /\ "create" \in ui.open /\ ui.rolesListed
    /\ Submit("create", "create")

SubmitPassword == "password" \in ui.open /\ Submit("password", "password")

Viewing(view) == ui.shown # NoUser /\ ui.view = view

Edit == Viewing("details") /\ Gesture(LeaveDetails(Now, "editing"))

Confirm == Viewing("details") /\ Gesture(LeaveDetails(Now, "confirming"))

Cancel ==
    /\ Viewing("editing") \/ Viewing("confirming")
    /\ "manage" \notin ui.busy
    /\ Gesture(ShowDetails(Now, ui.shown))

Save == Viewing("editing") /\ Submit("manage", "save")

Remove == Viewing("confirming") /\ Submit("manage", "remove")

ChangeKey == Viewing("details") /\ Submit("details", "change")

RefreshEvents == Viewing("details") /\ Gesture(Effects(Now, {"read"}))

\* An effect of the last commit makes its request.
RunEffect(e) ==
    /\ e \in ui.effects
    /\ LET p == Show(Now, [ui EXCEPT !.effects = @ \ {e},
                                     !.loading = @ \union ({e} \intersect {"list"})]) IN
       OnPage(Ask(p, p, e, IF e = "load" THEN ui.chosen ELSE NoUser))

\* F5: what is in memory is gone, what is in sessionStorage is refreshed.
ReloadPage ==
    /\ session' = storage
    /\ IF storage = NoToken
       THEN /\ ui' = LoginUi /\ refresh' = NoToken /\ presented' = {}
            /\ calls' = [s \in Slots |-> Idle]
       ELSE /\ ui' = RestoringUi
            /\ refresh' = NewRefresh(storage)
            /\ presented' = {storage}
            /\ \E s \in Slots :
                  calls' = [o \in Slots |->
                     IF o = s THEN [Idle EXCEPT !.kind = "restore", !.at = "restoring"]
                     ELSE Idle]
    /\ UNCHANGED <<storage, tokens>>

(* ----------------------------- the system ------------------------------ *)
ConsoleInit ==
    /\ session = NoToken /\ storage = NoToken /\ refresh = NoToken
    /\ calls = [s \in Slots |-> Idle]
    /\ tokens = <<>>
    /\ presented = {}
    /\ ui = LoginUi

Server ==
    /\ \/ \E t \in Token : Expire(t)
       \/ \E chain \in Chains : Revoke(chain)
       \/ ServeRefresh
       \/ LoseRefresh
    /\ UNCHANGED ui

CallAnswered(s) ==
    \/ Receive(s)
    \/ LoginAnswered(s)
    \/ AwaitRefresh(s) /\ UNCHANGED ui

RefreshSettles ==
    \/ RefreshSucceeds /\ UNCHANGED ui
    \/ RefreshFails

User ==
    \/ SubmitLogin \/ LogOut \/ Browse \/ OpenCreate \/ OpenPassword
    \/ \E u \in Users : OpenManage(u) \/ Select(u)
    \/ \E dialog \in Dialogs : CloseDialog(dialog)
    \/ SubmitCreate \/ SubmitPassword \/ Edit \/ Confirm \/ Cancel \/ Save \/ Remove
    \/ ChangeKey \/ RefreshEvents \/ ReloadPage

\* Rejections are continuations of one answer: what the page does besides
\* comes after them.
ConsoleNext ==
    \/ Server
    \/ \E s \in Rejected : Reject(s)
    \/ /\ Rejected = {}
       /\ \/ \E s \in Slots : CallAnswered(s)
          \/ RefreshSettles
          \/ User
          \/ \E e \in ui.effects : RunEffect(e)

ConsoleSpec == ConsoleInit /\ [][ConsoleNext]_consoleVars

(* ----------------------------- properties ------------------------------ *)
\* A page never sends one refresh token twice: concurrent calls that are told
\* 401 share one refresh, and what follows uses the tokens it brought.
PresentedOnce ==
    [][\A s \in Slots :
        /\ calls[s].at = "sent" /\ calls'[s].at = "waiting"
        /\ calls'[s].kind = calls[s].kind
        /\ refresh' # refresh
        => refresh'.token \notin presented]_consoleVars

Underway(kinds) ==
    \E s \in Slots : calls[s].kind \in kinds /\ calls[s].life = "here"

\* Nothing looks busy for ever: whatever is disabled, spinning or restoring has
\* a call under way, whose answer ends it, or an effect that will make it; and
\* no call waits for a refresh that nobody makes.  (A message is not meant:
\* "Loading API keys..." of ApiKeyManager may stay after a failure.)
BusyMeansWaiting ==
    /\ \A part \in ui.busy : Underway(Submits(part))
    /\ \A kind \in ui.loading : kind \in ui.effects \/ Underway({kind})
    /\ ui.screen = "restoring" => Underway({"restore"})
    /\ Waiting # {} => refresh # NoToken

\* The answer to a change or a deletion of a user finds the form it was sent
\* from, whatever else is opened, closed or answered meanwhile; and as long as
\* no other user has been chosen in it, a dialog shows, changes and deletes the
\* user it was opened for, whatever answers of earlier dialogs are still to come.
AnswersFindTheirForm ==
    /\ \A s \in Slots :
        calls[s].kind \in {"save", "remove"} =>
            /\ "manage" \in ui.open /\ ui.shown # NoUser
            /\ ui.view = IF calls[s].kind = "save" THEN "editing" ELSE "confirming"
    /\ ~ui.switched =>
        /\ ui.shown \in {NoUser, ui.chosen}
        /\ \A s \in Slots :
            calls[s].kind \in KindsOf("manage") /\ calls[s].life = "here" =>
                calls[s].about = ui.chosen
=============================================================================
