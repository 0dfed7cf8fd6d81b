---------------------------- MODULE SessionClient ----------------------------
(***************************************************************************)
(* The HTTP client of the browser dashboard, sample/auth-db/src/admin/     *)
(* api-client.ts: the tokens of one tab, kept in a variable and in         *)
(* sessionStorage, calls made with the access token, the one retry after a *)
(* 401, and the refresh that concurrent calls share.                       *)
(*                                                                         *)
(* The server is seen through its tokens.  A login opens a session; each   *)
(* refresh of it spends one refresh token and mints the next pair; access  *)
(* tokens of a session stay good until they expire or it is revoked.       *)
(*                                                                         *)
(* The request and the answer of a call are one step, Reply being what the *)
(* server may have said at some moment since the call was sent.  Access is *)
(* only ever lost, so a 401 was possible iff the token is bad now, and any *)
(* other answer iff it was good when the call was made (field `good').     *)
(* Only for a refresh are the two steps told apart, because its token is   *)
(* spent before the answer is known.                                       *)
(***************************************************************************)
EXTENDS Integers, Sequences

CONSTANTS
    NoToken,
    NoUser,         \* a call that is about no user in particular
    Slots,          \* room for the calls under way at once
    MaxTokens       \* pairs of tokens the server mints

Refreshes == [token : Nat, reply : {"none", "ok", "401", "fail"},
              new : Nat \union {NoToken}]

ASSUME TokensAssumption == MaxTokens \in Nat /\ NoToken \notin Nat \union Refreshes

VARIABLES
    session,        \* the pair of tokens in the page's memory
    storage,        \* the pair in sessionStorage
    refresh,        \* the shared refreshPromise
    calls,          \* the calls under way
    tokens,         \* server: the pairs it has minted
    presented       \* history: tokens this page has sent to /auth/refresh

clientVars == <<session, storage, refresh, calls, tokens, presented>>

Idle == [kind |-> "none", at |-> "idle", token |-> NoToken, good |-> FALSE,
         life |-> "here", about |-> NoUser]

Token == 1 .. Len(tokens)

(* ------------------------------ the server ----------------------------- *)
CanMint == Len(tokens) < MaxTokens

Pair(chain) == [chain |-> chain, access |-> TRUE, spendable |-> TRUE]

\* Tokens of a session that was revoked authenticate and refresh no more.
Without(ts, chains) ==
    [t \in 1 .. Len(ts) |->
        IF ts[t].chain \in chains
        THEN [ts[t] EXCEPT !.access = FALSE, !.spendable = FALSE]
        ELSE ts[t]]

Chains == {tokens[t].chain : t \in Token}

\* Fifteen minutes pass.
Expire(t) ==
    /\ tokens[t].access
    /\ tokens' = [tokens EXCEPT ![t].access = FALSE]
    /\ UNCHANGED <<session, storage, refresh, calls, presented>>

\* The session is revoked: its month is over, the user is disabled or deleted,
\* another tab or administrator ends it, or a logout or password change of
\* this tab is carried out before its answer arrives.
Revoke(chain) ==
    /\ tokens' = Without(tokens, {chain})
    /\ tokens' # tokens
    /\ UNCHANGED <<session, storage, refresh, calls, presented>>

\* What the server, or the network, may answer to the call in slot s.
Reply(s) ==
    LET c == calls[s] IN
    {"fail"} \union
    (IF c.good THEN {"ok", "403"} ELSE {}) \union
    (IF c.token # NoToken /\ ~tokens[c.token].access THEN {"401"} ELSE {})

(* ------------------------------ the client ----------------------------- *)
SetSession(p, t) == [p EXCEPT !.session = t, !.storage = t]
ClearSession(p) == [p EXCEPT !.session = NoToken, !.storage = NoToken]

Free(p) == {s \in Slots : p.calls[s] = Idle}
SomeFree(p) == CHOOSE s \in Free(p) : TRUE

\* send() with the access token of the session; public calls have no token.
Sent(kind, token, at, about) ==
    [kind |-> kind, at |-> at, token |-> token, life |-> "here", about |-> about,
     good |-> token = NoToken \/ tokens[token].access]

Send(p, kind, about) ==
    [p EXCEPT !.calls =
        [@ EXCEPT ![SomeFree(p)] = Sent(kind, p.session, "sent", about)]]
SendPublic(p, kind) ==
    [p EXCEPT !.calls =
        [@ EXCEPT ![SomeFree(p)] = Sent(kind, NoToken, "sent", NoUser)]]

NewRefresh(t) == [token |-> t, reply |-> "none", new |-> NoToken]

\* A mutant of AwaitRefresh: every call that is told 401 refreshes for itself.
RefreshAlone(s) ==
    /\ calls[s].at = "sent"
    /\ "401" \in Reply(s)
    /\ session # NoToken
    /\ calls' = [calls EXCEPT ![s].at = "waiting", ![s].token = NoToken,
                              ![s].good = FALSE]
    /\ refresh' = NewRefresh(session)
    /\ presented' = presented \union {session}
    /\ UNCHANGED <<session, storage, tokens>>

\* A call told 401 for the first time joins the refresh, or begins it.
AwaitRefresh(s) ==
    /\ calls[s].at = "sent"
    /\ "401" \in Reply(s)
    /\ session # NoToken
    /\ calls' = [calls EXCEPT ![s].at = "waiting", ![s].token = NoToken,
                              ![s].good = FALSE]
    /\ IF refresh = NoToken
       THEN /\ refresh' = NewRefresh(session)
            /\ presented' = presented \union {session}
       ELSE UNCHANGED <<refresh, presented>>
    /\ UNCHANGED <<session, storage, tokens>>

\* refresh() of the session service, and of the controller, which reads the
\* user after it has spent the token.
ServeRefresh ==
    /\ refresh # NoToken
    /\ refresh.reply = "none"
    /\ IF tokens[refresh.token].spendable /\ CanMint
       THEN /\ tokens' = Append([tokens EXCEPT ![refresh.token].spendable = FALSE],
                                Pair(tokens[refresh.token].chain))
            /\ \E reply \in {"ok", "401"} :
                  refresh' = [refresh EXCEPT !.reply = reply,
                                             !.new = Len(tokens) + 1]
       ELSE refresh' = [refresh EXCEPT !.reply = "401"] /\ UNCHANGED tokens
    /\ UNCHANGED <<session, storage, calls, presented>>

\* The request or its answer is lost, or the server fails.
LoseRefresh ==
    /\ refresh # NoToken
    /\ refresh.reply \in {"none", "ok"}
    /\ refresh' = [refresh EXCEPT !.reply = "fail", !.new = NoToken]
    /\ UNCHANGED <<session, storage, calls, tokens, presented>>

\* "restoring" is restoreSession(), which has not asked for anything yet.
Waiting == {s \in Slots : calls[s].at \in {"waiting", "restoring"}}

\* The calls that waited go on with the tokens that have just been set.
\* The first use of a restored session is no retry.
Resumed(c) ==
    [Sent(c.kind, refresh.new, IF c.at = "restoring" THEN "sent" ELSE "retried", c.about)
     EXCEPT !.life = c.life]

RefreshSucceeds ==
    /\ refresh # NoToken
    /\ refresh.reply = "ok"
    /\ session' = refresh.new
    /\ storage' = refresh.new
    /\ refresh' = NoToken
    /\ calls' = [s \in Slots |-> IF s \in Waiting THEN Resumed(calls[s]) ELSE calls[s]]
    /\ UNCHANGED <<tokens, presented>>
=============================================================================
