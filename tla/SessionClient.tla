--------------------------- MODULE SessionClient ---------------------------
(***************************************************************************)
(* The session of one browser: the tabs of the Next.js frontend, the       *)
(* localStorage they share, and the fetch wrapper of lib/api.ts, which     *)
(* answers a 401 by rotating the refresh token and replaying the call,     *)
(* over the server of TokenRotation.                                       *)
(*                                                                         *)
(* A tab runs one piece of JavaScript at a time, up to its next await: one *)
(* action is one such piece.  The tabs and the network interleave freely.  *)
(*                                                                         *)
(* Abstractions.  The calls of a page are alike: what matters is the       *)
(* access token a call was sent with.  Signing in is one step, from the    *)
(* form to setTokens.                                                      *)
(***************************************************************************)
EXTENDS TokenRotation

CONSTANTS
    Tabs,
    Calls,              \* calls a tab can have open at a time, logout among them
    MaxSignIns,         \* bound on signing in
    MaxAges,            \* bound on tokens that grow old
    MaxLost,            \* bound on answers lost or refused
    MaxLoads,           \* bound on pages loaded after the first
    MaxOpen,            \* bound on the calls open in all tabs at a time
    None

ASSUME ClientAssumption ==
    /\ Tabs # {} /\ IsFiniteSet(Tabs) /\ IsFiniteSet(Calls)
    /\ {MaxSignIns, MaxAges, MaxLost, MaxLoads, MaxOpen} \subseteq Nat
    /\ None \notin Slots

VARIABLES
    open,               \* tabs that have been opened
    store,              \* localStorage: the token of the stored pair
    stale,              \* tokens whose access JWT has expired
    call,               \* call[b][c]: where a call of tab b stands
    inFlight,           \* refreshInFlight of a tab: the slot that rotates, or None
    signedOut,          \* history: a logout has run to its end
    lost,               \* answers lost so far
    loads               \* pages loaded since the first

client == <<open, store, call, inFlight, signedOut>>
counters == <<lost, loads>>
vars == <<server, client, stale, counters>>

\* kind "me": GET /auth/me, by which a page that is loaded finds out who is signed in.
\* token: of the pair the call was sent with; slot: of a logout under way.
NoCall == [at |-> "idle", kind |-> "api", token |-> NoToken, slot |-> None]

\* Slots are alike: a request takes any that is free.  So are the calls of a page.
SomeFree(requests) == \E s \in Slots : requests[s].at = "free"
FreeSlot(requests) == CHOOSE s \in Slots : requests[s].at = "free"
FreeCall(b) == CHOOSE c \in Calls : call[b][c].at = "idle"

Release(s) == [request EXCEPT ![s] = Free]

\* The bound on open calls leaves room for one more besides those of the tabs in others.
Room(others) ==
    Cardinality({p \in others \X Calls : call[p[1]][p[2]].at # "idle"}) < MaxOpen

\* Until it knows its user a page shows "Loading", and offers nothing.
Loading(b) == \E c \in Calls : call[b][c].kind = "me"

\* What the effect of the auth context sends when a page is loaded.
Hydrate(b) ==
  /\ Room(Tabs \ {b})
  /\ \E c \in Calls :
      /\ c = CHOOSE d \in Calls : TRUE
      /\ call' = [call EXCEPT ![b] = [d \in Calls |->
        IF d = c /\ store # NoToken
        THEN [NoCall EXCEPT !.at = "sent", !.kind = "me", !.token = store] ELSE NoCall]]

-----------------------------------------------------------------------------
(* Time, and the user.                                                     *)

\* The access JWT expires first, the refresh token days later.
Age(t) ==
    /\ Cardinality(stale) + Cardinality(expired) < MaxAges
    /\ \/ t \notin stale /\ stale' = stale \cup {t} /\ UNCHANGED expired
       \/ t \in stale \ expired /\ expired' = expired \cup {t} /\ UNCHANGED stale
    /\ UNCHANGED <<rows, parent, request, client, counters>>

\* login or loginDemo of the auth context, for a browser that is signed out.
Login(b) ==
    /\ b \in open
    /\ store = NoToken
    /\ Cardinality({t \in DOMAIN parent : parent[t] = NoToken}) < MaxSignIns
    /\ SignIn
    /\ store' = NewToken
    /\ UNCHANGED <<expired, request, stale, open, call, inFlight, signedOut, counters>>

SendCall(b, c) ==
    /\ b \in open /\ ~Loading(b) /\ Room(Tabs)
    /\ call[b][c].at = "idle" /\ c = FreeCall(b)
    /\ store # NoToken
    /\ call' = [call EXCEPT ![b][c] = [NoCall EXCEPT !.at = "sent", !.token = store]]
    /\ UNCHANGED <<server, open, store, stale, inFlight, signedOut, counters>>

\* logout: read the refresh token, ask the server to revoke it.
SendLogout(b, c) ==
    /\ b \in open /\ ~Loading(b) /\ Room(Tabs)
    /\ call[b][c].at = "idle" /\ c = FreeCall(b)
    /\ store # NoToken
    /\ SomeFree(request)
    /\ Receive(FreeSlot(request), "revoke", store)
    /\ call' = [call EXCEPT
         ![b][c] = [at |-> "sent", kind |-> "logout", token |-> store, slot |-> FreeSlot(request)]]
    /\ UNCHANGED <<rows, expired, parent, open, store, stale, inFlight, signedOut, counters>>

\* The end of logout, after the call or its failure: the tokens are cleared.
ClearAfterLogout ==
    /\ store' = NoToken
    /\ signedOut' = TRUE

-----------------------------------------------------------------------------
(* The fetch wrapper.                                                      *)

Rotation == [at |-> "lookup", kind |-> "rotate", token |-> store, answer |-> NoToken]

\* Fault: the rotation that is under way is not looked at.
RotateAlways(b, c, freed) ==
    /\ store # NoToken /\ SomeFree(freed)
    /\ request' = [freed EXCEPT ![FreeSlot(freed)] = Rotation]
    /\ inFlight' = [inFlight EXCEPT ![b] = FreeSlot(freed)]
    /\ call' = [call EXCEPT ![b][c].at = "waiting", ![b][c].slot = None]
    /\ UNCHANGED <<store, signedOut>>

\* Fault: a call that finds a rotation under way gives up, and clears the tokens.
GiveUpInsteadOfJoining(b, c, freed) ==
    \/ /\ inFlight[b] # None \/ store = NoToken
       /\ call' = [call EXCEPT ![b][c] = NoCall]
       /\ request' = freed
       /\ store' = NoToken
       /\ signedOut' = (signedOut \/ call[b][c].kind = "logout")
       /\ UNCHANGED inFlight
    \/ inFlight[b] = None /\ RotateAlways(b, c, freed)

\* rotateRefreshToken, called for c: join the rotation under way, start one, or fail
\* because there is no refresh token (a logout then goes on to its end).  freed is the
\* table of requests once the answer of c is taken.
RotateOrJoin(b, c, freed) ==
    \/ /\ inFlight[b] # None
       /\ call' = [call EXCEPT ![b][c].at = "waiting", ![b][c].slot = None]
       /\ request' = freed
       /\ UNCHANGED <<store, inFlight, signedOut>>
    \/ /\ inFlight[b] = None /\ store = NoToken
       /\ call' = [call EXCEPT ![b][c] = NoCall]
       /\ request' = freed
       /\ IF call[b][c].kind = "logout" THEN ClearAfterLogout ELSE UNCHANGED <<store, signedOut>>
       /\ UNCHANGED inFlight
    \/ /\ inFlight[b] = None /\ store # NoToken /\ SomeFree(freed)
       /\ request' = [freed EXCEPT ![FreeSlot(freed)] = Rotation]
       /\ inFlight' = [inFlight EXCEPT ![b] = FreeSlot(freed)]
       /\ call' = [call EXCEPT ![b][c].at = "waiting", ![b][c].slot = None]
       /\ UNCHANGED <<store, signedOut>>

\* The answer to a call: a 401 if its access token has expired (a call without a token gets
\* a 403, an error like any other).  The first 401 leads to a rotation; that of the replay
\* ends the call, and the effect that asks who is signed in then clears the tokens.
CallAnswered(b, c) ==
    /\ call[b][c].kind \in {"api", "me"}
    /\ \/ /\ call[b][c].at \in {"sent", "resent"}
          /\ call[b][c].token \notin stale
          /\ call' = [call EXCEPT ![b][c] = NoCall]
          /\ UNCHANGED <<request, store, inFlight, signedOut>>
       \/ /\ call[b][c].at = "sent"
          /\ call[b][c].token \in stale
          /\ RotateOrJoin(b, c, request)
       \/ /\ call[b][c].at = "resent"
          /\ call[b][c].token \in stale
          /\ call' = [call EXCEPT ![b][c] = NoCall]
          /\ store' = IF call[b][c].kind = "me" THEN NoToken ELSE store
          /\ UNCHANGED <<request, inFlight, signedOut>>
    /\ UNCHANGED <<rows, expired, parent, stale, open, counters>>

\* The answer to a logout.  A 401 is treated like that of any call; all else, and
\* every answer to the replay, ends it.
LogoutAnswered(b, c) ==
    LET s == call[b][c].slot IN
    /\ call[b][c].kind = "logout" /\ call[b][c].at \in {"sent", "resent"}
    /\ request[s].at = "answered"
    /\ IF call[b][c].at = "sent" /\ request[s].answer = Unauthorized
       THEN RotateOrJoin(b, c, Release(s))
       ELSE /\ call' = [call EXCEPT ![b][c] = NoCall]
            /\ request' = Release(s)
            /\ ClearAfterLogout
            /\ UNCHANGED inFlight
    /\ UNCHANGED <<rows, expired, parent, stale, open, counters>>

\* Fault: only the call that started the rotation would go on.
RotationSucceedsSilently(b) ==
    LET s == inFlight[b] IN
    /\ s # None
    /\ request[s].at = "answered" /\ request[s].answer \in Tokens
    /\ store' = request[s].answer
    /\ request' = Release(s)
    /\ inFlight' = [inFlight EXCEPT ![b] = None]
    /\ UNCHANGED <<rows, expired, parent, stale, open, call, signedOut, counters>>

\* The rotation succeeded: both tokens are stored, the waiting calls go on.
RotationSucceeds(b) ==
    LET s == inFlight[b] IN
    /\ s # None
    /\ request[s].at = "answered" /\ request[s].answer \in Tokens
    /\ store' = request[s].answer
    /\ request' = Release(s)
    /\ inFlight' = [inFlight EXCEPT ![b] = None]
    /\ call' = [call EXCEPT ![b] = [c \in Calls |->
         IF @[c].at = "waiting" THEN [@[c] EXCEPT !.at = "replay"] ELSE @[c]]]
    /\ UNCHANGED <<rows, expired, parent, stale, open, signedOut, counters>>

\* The rotation failed, with a 401 or any other error: the tokens are cleared and the
\* waiting calls fail; for a logout that is its end.
RotationFails(b) ==
    LET s == inFlight[b]
        waiting == {c \in Calls : call[b][c].at = "waiting"} IN
    /\ s # None
    /\ request[s].at = "answered" /\ request[s].answer \notin Tokens
    /\ store' = NoToken
    /\ request' = Release(s)
    /\ inFlight' = [inFlight EXCEPT ![b] = None]
    /\ call' = [call EXCEPT ![b] = [c \in Calls |-> IF c \in waiting THEN NoCall ELSE @[c]]]
    /\ signedOut' = (signedOut \/ \E c \in waiting : call[b][c].kind = "logout")
    /\ UNCHANGED <<rows, expired, parent, stale, open, counters>>

\* The one replay: a call goes out with the access token that is stored by now, a logout
\* presents the refresh token it began with.
Replay(b, c) ==
    /\ call[b][c].at = "replay"
    /\ \/ /\ call[b][c].kind \in {"api", "me"}
          /\ call' = [call EXCEPT ![b][c].at = "resent", ![b][c].token = store]
          /\ UNCHANGED request
       \/ /\ call[b][c].kind = "logout"
          /\ SomeFree(request)
          /\ Receive(FreeSlot(request), "revoke", call[b][c].token)
          /\ call' = [call EXCEPT ![b][c].at = "resent", ![b][c].slot = FreeSlot(request)]
    /\ UNCHANGED <<rows, expired, parent, open, store, stale, inFlight, signedOut, counters>>

-----------------------------------------------------------------------------
(* What can go wrong.                                                      *)

\* The request is refused on its way, or its answer is lost on the way back.
LoseAnswer(s) ==
    /\ lost < MaxLost
    /\ lost' = lost + 1
    /\ \/ Refuse(s)
       \/ /\ request[s].at = "answered"
          /\ Answer(s, ServerError)
          /\ UNCHANGED <<rows, expired, parent>>
    /\ UNCHANGED <<client, stale, loads>>

\* The page is reloaded: its calls and its rotation are forgotten, the server goes on.
Reload(b) ==
    /\ b \in open
    /\ loads < MaxLoads
    /\ loads' = loads + 1
    /\ Hydrate(b)
    /\ inFlight' = [inFlight EXCEPT ![b] = None]
    /\ UNCHANGED <<server, open, store, stale, signedOut, lost>>

OpenTab(b) ==
    /\ b \notin open
    /\ open' = open \cup {b}
    /\ loads < MaxLoads
    /\ loads' = loads + 1
    /\ Hydrate(b)
    /\ UNCHANGED <<server, store, stale, inFlight, signedOut, lost>>

\* An answer nobody waits for any more.
Discard(s) ==
    /\ request[s].at = "answered"
    /\ \A b \in Tabs : inFlight[b] # s /\ \A c \in Calls : call[b][c].slot # s
    /\ request' = Release(s)
    /\ UNCHANGED <<rows, expired, parent, client, stale, counters>>

Init ==
    /\ ServerInit
    /\ open = {CHOOSE b \in Tabs : TRUE}
    /\ store = NoToken
    /\ stale = {}
    /\ call = [b \in Tabs |-> [c \in Calls |-> NoCall]]
    /\ inFlight = [b \in Tabs |-> None]
    /\ signedOut = FALSE
    /\ lost = 0
    /\ loads = 0

ServerNext(s) == ServerStep(s) /\ UNCHANGED <<client, stale, counters>>

ClientNext(b) ==
    \/ RotationSucceeds(b)
    \/ RotationFails(b)
    \/ \E c \in Calls : CallAnswered(b, c) \/ LogoutAnswered(b, c) \/ Replay(b, c)

Next ==
    \/ \E t \in DOMAIN parent : Age(t)
    \/ \E b \in Tabs : Login(b) \/ Reload(b) \/ OpenTab(b) \/ ClientNext(b)
    \/ \E b \in Tabs, c \in Calls : SendCall(b, c) \/ SendLogout(b, c)
    \/ \E s \in Slots : ServerNext(s) \/ LoseAnswer(s) \/ Discard(s)

Spec == Init /\ [][Next]_vars

\* Requests are served, answers arrive, and a page handles them.
Fairness ==
    /\ \A s \in Slots : WF_vars(ServerNext(s) \/ Discard(s))
    /\ \A b \in Tabs, c \in Calls :
         WF_vars(CallAnswered(b, c) \/ LogoutAnswered(b, c) \/ Replay(b, c))
    /\ \A b \in Tabs : WF_vars(RotationSucceeds(b) \/ RotationFails(b))

FairSpec == Spec /\ Fairness

-----------------------------------------------------------------------------
(* Properties.                                                             *)

Valid(t) == t \in rows \ expired

\* A page that is loading has rotated, and is refused again: the access token it then
\* found is old already.
RefusedInLoad(b) ==
    \E c \in Calls :
      call[b][c].kind = "me" /\ call[b][c].at = "resent" /\ call[b][c].token \in stale

\* A rotation of tab b is under way, and the stored pair is not the one it presented:
\* another page has stored it since.
Overtaken(b) ==
    loads > 0 /\ inFlight[b] # None /\ request[inFlight[b]].token # store

\* A pair the server would still take is forgotten, without a logout or a lost answer,
\* in two ways only: a page is refused twice while it loads, or the rotation of a tab
\* fails after another page has stored a pair.
KeepsWorkingTokens ==
    [][store # NoToken /\ store' = NoToken /\ ~signedOut' /\ lost = 0 /\ Valid(store) =>
         \E b \in Tabs : RefusedInLoad(b) \/ Overtaken(b)]_vars

\* Until a second page is loaded no token is presented twice: the handlers of the
\* server do not exclude it, refreshInFlight does.
OneRotationPerToken == loads = 0 => OneSuccessor

\* No session is left behind: until an answer is lost, a second page loaded or a user has
\* signed out, a token the server would take is the stored one, or on its way to its tab.
NoOrphans ==
    lost = 0 /\ loads = 0 /\ ~signedOut =>
      \A t \in rows \ expired : t = store \/ \E s \in Slots : request[s].answer = t

\* Each call comes to an end: nothing waits for ever for a rotation, and a call is
\* not replayed over and over.
CallsEnd ==
    \A b \in Tabs, c \in Calls : call[b][c].at # "idle" ~> call[b][c].at = "idle"

=============================================================================
