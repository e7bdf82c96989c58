------------------------- MODULE SessionClientProofs -------------------------
(***************************************************************************)
(* Theorems about SessionClient, for any number of tabs, calls and slots.  *)
(***************************************************************************)
EXTENDS SessionClient, TLAPS

Requests == [at : {"free", "lookup", "commit", "answered"}, kind : {"rotate", "revoke"},
             token : Nat, answer : Int]

CallStates == [at : {"idle", "sent", "waiting", "replay", "resent"},
               kind : {"api", "me", "logout"},
               token : Nat, slot : Slots \cup {None}]

\* Tokens are numbered without a gap, and no one names a token before it is issued.
TypeOK ==
    /\ parent \in Seq(Nat) /\ Len(parent) <= MaxTokens
    /\ rows \subseteq 1 .. Len(parent)
    /\ store \in 0 .. Len(parent)
    /\ open \subseteq Tabs
    /\ request \in [Slots -> Requests]
    /\ \A s \in Slots : request[s].token <= Len(parent) /\ request[s].answer <= Len(parent)
    /\ call \in [Tabs -> [Calls -> CallStates]]
    /\ \A b \in Tabs, c \in Calls : call[b][c].token <= Len(parent)
    /\ inFlight \in [Tabs -> Slots \cup {None}]
    /\ signedOut \in BOOLEAN /\ lost \in Nat /\ loads \in Nat

\* A token is older than the one it is rotated into.
ParentsAreOlder == \A t \in 1 .. Len(parent) : parent[t] < t

Unused(t) == \A u \in 1 .. Len(parent) : parent[u] # t

Rotating(s) == request[s].at # "free" /\ request[s].kind = "rotate"

\* What an answer tells: a rotation that got a token took away the one it presented, and
\* one that was answered otherwise, without a fault, presented a token of no use.
SlotsFit ==
    \A s \in Slots :
      /\ request[s].at # "answered" => request[s].answer = NoToken
      /\ request[s].kind = "revoke" => request[s].answer <= 0
      /\ Rotating(s) => request[s].token > 0
      /\ Rotating(s) /\ request[s].answer > 0 => request[s].token \notin rows
      /\ Rotating(s) /\ request[s].at = "answered" /\ request[s].answer <= 0 /\ lost = 0 =>
           ~Valid(request[s].token)

\* A logout under way has a request of its own.
CallsFit ==
    \A b \in Tabs, c \in Calls :
      /\ call[b][c].slot # None <=> call[b][c].kind = "logout" /\ call[b][c].at \in {"sent", "resent"}
      /\ call[b][c].slot # None =>
           /\ request[call[b][c].slot].at # "free" /\ request[call[b][c].slot].kind = "revoke"
           /\ \A d \in Tabs, e \in Calls : call[d][e].slot = call[b][c].slot => d = b /\ e = c

\* Nothing runs in a tab that is not open, and until a second page is loaded one tab is,
\* whose page was loaded before anybody had signed in.
PagesFit ==
    /\ \A b \in Tabs \ open : inFlight[b] = None /\ \A c \in Calls : call[b][c].at = "idle"
    /\ loads = 0 =>
         /\ \A b, d \in open : b = d
         /\ \A b \in Tabs, c \in Calls : call[b][c].kind # "me"

\* No two tabs share a rotation.
SlotsOwned ==
    \A b \in Tabs : inFlight[b] # None =>
      /\ Rotating(inFlight[b])
      /\ \A d \in Tabs : inFlight[d] = inFlight[b] => d = b

\* The rotation of the one tab presents the token that is stored, until a user signs out.
FlightFits ==
    loads = 0 /\ ~signedOut =>
      \A b \in Tabs : inFlight[b] # None => store = request[inFlight[b]].token

\* Until a second page is loaded each rotation is that of its tab, so there is one at a time,
\* and the token it presents, like the stored one and the one it brings, is unused.
OneFlight ==
    loads = 0 =>
      /\ \A s \in Slots : Rotating(s) => \E b \in Tabs : inFlight[b] = s
      /\ \A s \in Slots : Rotating(s) =>
           /\ request[s].at # "answered" => Unused(request[s].token)
           /\ request[s].answer > 0 => Unused(request[s].answer)
      /\ (\A b \in Tabs : inFlight[b] = None) /\ store # NoToken => Unused(store)
      /\ OneSuccessor

TokensFit == ParentsAreOlder /\ SlotsFit /\ SlotsOwned /\ FlightFits /\ OneFlight /\ NoOrphans

SessionInv == TypeOK /\ PagesFit /\ CallsFit /\ TokensFit

-----------------------------------------------------------------------------
(* Type correctness.                                                       *)

LEMMA FreeSlots ==
    ASSUME NEW q, SomeFree(q)
    PROVE  FreeSlot(q) \in Slots /\ q[FreeSlot(q)].at = "free"
  BY DEF SomeFree, FreeSlot

LEMMA Slot == None \notin Slots
  BY ClientAssumption

\* What issue_tokens does to the history of tokens.
LEMMA Issued ==
    ASSUME TypeOK, NEW old \in 0 .. Len(parent), Issue(old)
    PROVE  /\ parent' \in Seq(Nat) /\ Len(parent) \in Nat
           /\ NewToken = Len(parent) + 1 /\ Len(parent') = NewToken /\ NewToken <= MaxTokens
           /\ parent'[NewToken] = old
           /\ \A t \in 1 .. Len(parent) : parent'[t] = parent[t]
<1>1. parent \in Seq(Nat) /\ Len(parent) \in Nat
  BY DEF TypeOK
<1>2. parent' = Append(parent, old)
  BY <1>1 DEF Issue, NewToken
<1> QED
  BY <1>1, <1>2 DEF Issue, NewToken

RequestsOK(q) ==
    /\ q \in [Slots -> Requests]
    /\ \A s \in Slots : q[s].token <= Len(parent) /\ q[s].answer <= Len(parent)

CallsOK(k) ==
    /\ k \in [Tabs -> [Calls -> CallStates]]
    /\ \A b \in Tabs, c \in Calls : k[b][c].token <= Len(parent)

\* Taking an answer, entering a request and answering one keep the type of the table.
LEMMA RowKept ==
    ASSUME TypeOK, NEW q, RequestsOK(q), NEW s \in Slots \cup {None}, NEW r \in Requests,
           r.token <= Len(parent), r.answer <= Len(parent)
    PROVE  RequestsOK([q EXCEPT ![s] = r])
<1>1. q \in [Slots -> Requests]
  BY DEF RequestsOK
<1>2. [q EXCEPT ![s] = r] \in [Slots -> Requests]
  BY <1>1
<1>3. \A t \in Slots : [q EXCEPT ![s] = r][t] = r \/ [q EXCEPT ![s] = r][t] = q[t]
  BY <1>1
<1> QED
  BY <1>2, <1>3 DEF RequestsOK

LEMMA TableKept ==
    ASSUME TypeOK, NEW q, RequestsOK(q)
    PROVE  /\ \A s \in Slots \cup {None} : RequestsOK([q EXCEPT ![s] = Free])
           /\ \A s \in Slots, t \in 0 .. Len(parent), k \in {"rotate", "revoke"} :
                RequestsOK([q EXCEPT ![s] = [at |-> "lookup", kind |-> k, token |-> t, answer |-> NoToken]])
           /\ \A s \in Slots : RequestsOK([q EXCEPT ![s].at = "commit"])
           /\ \A s \in Slots, a \in Int :
                a <= Len(parent) => RequestsOK([q EXCEPT ![s].at = "answered", ![s].answer = a])
<1>1. Len(parent) \in Nat
  BY DEF TypeOK
<1>2. Free \in Requests /\ Free.token = 0 /\ Free.answer = 0
  BY DEF Free, Requests, NoToken
<1>3. ASSUME NEW s \in Slots \cup {None}
      PROVE  RequestsOK([q EXCEPT ![s] = Free])
  BY <1>1, <1>2, RowKept
<1>4. ASSUME NEW s \in Slots, NEW t \in 0 .. Len(parent), NEW k \in {"rotate", "revoke"}
      PROVE  RequestsOK([q EXCEPT ![s] = [at |-> "lookup", kind |-> k, token |-> t, answer |-> NoToken]])
  BY <1>1 DEF RequestsOK, Requests, NoToken
<1>5. ASSUME NEW s \in Slots
      PROVE  RequestsOK([q EXCEPT ![s].at = "commit"])
  BY <1>1 DEF RequestsOK, Requests
<1>6. ASSUME NEW s \in Slots, NEW a \in Int, a <= Len(parent)
      PROVE  RequestsOK([q EXCEPT ![s].at = "answered", ![s].answer = a])
  <2> DEFINE r == [q[s] EXCEPT !.at = "answered", !.answer = a]
  <2>1. q[s] \in Requests /\ q[s].token <= Len(parent) /\ q \in [Slots -> Requests]
    BY DEF RequestsOK
  <2>2. r \in Requests /\ r.token <= Len(parent) /\ r.answer <= Len(parent)
    BY <2>1, <1>6 DEF Requests
  <2>3. [q EXCEPT ![s].at = "answered", ![s].answer = a] = [q EXCEPT ![s] = r]
    BY <2>1
  <2> HIDE DEF r
  <2> QED
    BY <2>2, <2>3, RowKept
<1> QED
  BY <1>3, <1>4, <1>5, <1>6

\* What becomes of a call keeps the type too.
LEMMA CallKept ==
    ASSUME TypeOK, NEW b \in Tabs, NEW c \in Calls, NEW k \in CallStates, k.token <= Len(parent)
    PROVE  CallsOK([call EXCEPT ![b][c] = k])
<1>1. call \in [Tabs -> [Calls -> CallStates]]
  BY DEF TypeOK
<1>2. [call EXCEPT ![b][c] = k] \in [Tabs -> [Calls -> CallStates]]
  BY <1>1
<1>3. \A x \in Tabs, y \in Calls :
        [call EXCEPT ![b][c] = k][x][y] = k \/ [call EXCEPT ![b][c] = k][x][y] = call[x][y]
  BY <1>1
<1> QED
  BY <1>2, <1>3 DEF CallsOK, TypeOK

LEMMA CallsKept ==
    ASSUME TypeOK, NEW b \in Tabs, NEW c \in Calls
    PROVE  /\ CallsOK([call EXCEPT ![b][c] = NoCall])
           /\ CallsOK([call EXCEPT ![b][c] = [NoCall EXCEPT !.at = "sent", !.token = store]])
           /\ \A s \in Slots : CallsOK([call EXCEPT ![b][c] =
                [at |-> "sent", kind |-> "logout", token |-> store, slot |-> s]])
           /\ \A a \in {"waiting", "resent"}, s \in Slots \cup {None} :
                CallsOK([call EXCEPT ![b][c].at = a, ![b][c].slot = s])
           /\ CallsOK([call EXCEPT ![b][c].at = "resent", ![b][c].token = store])
<1>1. Len(parent) \in Nat /\ store \in 0 .. Len(parent)
  BY DEF TypeOK
<1>2. NoCall \in CallStates /\ NoCall.token = 0
  BY DEF NoCall, CallStates, NoToken
<1>3. CallsOK([call EXCEPT ![b][c] = NoCall])
  BY <1>1, <1>2, CallKept
<1>4. CallsOK([call EXCEPT ![b][c] = [NoCall EXCEPT !.at = "sent", !.token = store]])
  <2> DEFINE K(n, t) == [n EXCEPT !.at = "sent", !.token = t]
  <2>1. ASSUME NEW n \in CallStates, NEW t \in Nat
        PROVE  K(n, t) \in CallStates /\ K(n, t).token = t
    BY DEF CallStates
  <2> HIDE DEF K
  <2>2. store \in Nat /\ store <= Len(parent)
    BY <1>1
  <2>3. K(NoCall, store) \in CallStates /\ K(NoCall, store).token = store
    BY <1>2, <2>1, <2>2
  <2>4. CallsOK([call EXCEPT ![b][c] = K(NoCall, store)])
    BY <2>2, <2>3, CallKept
  <2> QED
    BY <2>4 DEF K
<1>5. ASSUME NEW s \in Slots
      PROVE  CallsOK([call EXCEPT ![b][c] =
               [at |-> "sent", kind |-> "logout", token |-> store, slot |-> s]])
  <2> DEFINE k == [at |-> "sent", kind |-> "logout", token |-> store, slot |-> s]
  <2>1. k \in CallStates /\ k.token <= Len(parent)
    BY <1>1 DEF CallStates
  <2> HIDE DEF k
  <2>2. CallsOK([call EXCEPT ![b][c] = k])
    BY <2>1, CallKept
  <2> QED
    BY <2>2 DEF k
<1>6. ASSUME NEW a \in {"waiting", "resent"}, NEW s \in Slots \cup {None}
      PROVE  CallsOK([call EXCEPT ![b][c].at = a, ![b][c].slot = s])
  <2> DEFINE k == [call[b][c] EXCEPT !.at = a, !.slot = s]
  <2>1. call[b][c] \in CallStates /\ call[b][c].token <= Len(parent)
        /\ call \in [Tabs -> [Calls -> CallStates]]
    BY DEF TypeOK
  <2>2. k \in CallStates /\ k.token <= Len(parent)
    BY <2>1 DEF CallStates
  <2>3. [call EXCEPT ![b][c].at = a, ![b][c].slot = s] = [call EXCEPT ![b][c] = k]
    BY <2>1
  <2> HIDE DEF k
  <2> QED
    BY <2>2, <2>3, CallKept
<1>7. CallsOK([call EXCEPT ![b][c].at = "resent", ![b][c].token = store])
  <2> DEFINE k == [call[b][c] EXCEPT !.at = "resent", !.token = store]
  <2>1. call[b][c] \in CallStates /\ call \in [Tabs -> [Calls -> CallStates]]
    BY DEF TypeOK
  <2>1a. store \in Nat /\ store <= Len(parent) /\ k.token = store
    BY <1>1, <2>1 DEF CallStates
  <2>2. k \in CallStates /\ k.token <= Len(parent)
    BY <2>1, <2>1a DEF CallStates
  <2>3. [call EXCEPT ![b][c].at = "resent", ![b][c].token = store] = [call EXCEPT ![b][c] = k]
    BY <2>1
  <2> HIDE DEF k
  <2> QED
    BY <2>2, <2>3, CallKept
<1> QED
  BY <1>3, <1>4, <1>5, <1>6, <1>7

\* A page that is loaded has at most its /auth/me under way.
LEMMA Hydrated ==
    ASSUME TypeOK, NEW b \in Tabs, Hydrate(b)
    PROVE  /\ CallsOK(call')
           /\ \A d \in Tabs \ {b} : call'[d] = call[d]
           /\ \A c \in Calls : call'[b][c].slot = None /\ call'[b][c].kind \in {"api", "me"}
<1>1. Len(parent) \in Nat /\ store \in 0 .. Len(parent) /\ call \in [Tabs -> [Calls -> CallStates]]
  BY DEF TypeOK
<1> DEFINE me(t) == [NoCall EXCEPT !.at = "sent", !.kind = "me", !.token = t]
           row(x) == [d \in Calls |-> IF d = x /\ store # NoToken THEN me(store) ELSE NoCall]
<1>2. PICK x \in Calls : call' = [call EXCEPT ![b] = row(x)]
  BY DEF Hydrate
<1>3. NoCall \in CallStates /\ NoCall.token = 0 /\ NoCall.slot = None /\ NoCall.kind = "api"
  BY DEF NoCall, CallStates, NoToken
<1>4. ASSUME NEW t \in Nat
      PROVE  /\ me(t) \in CallStates /\ me(t).token = t /\ me(t).slot = None
             /\ me(t).kind = "me"
  BY DEF NoCall, CallStates, NoToken
<1> HIDE DEF me
<1>5. \A d \in Calls : /\ row(x)[d] \in CallStates /\ row(x)[d].token <= Len(parent)
                       /\ row(x)[d].slot = None /\ row(x)[d].kind \in {"api", "me"}
  BY <1>1, <1>3, <1>4
<1>6. row(x) \in [Calls -> CallStates]
  BY <1>5
<1> HIDE DEF row
<1>7. call'[b] = row(x) /\ \A d \in Tabs \ {b} : call'[d] = call[d]
  BY <1>1, <1>2
<1>8. call' \in [Tabs -> [Calls -> CallStates]]
  BY <1>1, <1>2, <1>6
<1> QED
  BY <1>5, <1>7, <1>8 DEF CallsOK, TypeOK

\* A step that issues no token keeps the type, if what it writes has it.
LEMMA TypeKept ==
    ASSUME TypeOK, parent' = parent, rows' \subseteq rows, store' \in 0 .. Len(parent),
           open' \subseteq Tabs, RequestsOK(request'), CallsOK(call'),
           inFlight' \in [Tabs -> Slots \cup {None}],
           signedOut' \in BOOLEAN, lost' \in Nat, loads' \in Nat
    PROVE  TypeOK'
  BY DEF TypeOK, RequestsOK, CallsOK

LEMMA TypeNow ==
    ASSUME TypeOK
    PROVE  /\ Len(parent) \in Nat /\ rows \subseteq 1 .. Len(parent) /\ store \in 0 .. Len(parent)
           /\ open \subseteq Tabs /\ RequestsOK(request) /\ CallsOK(call)
           /\ inFlight \in [Tabs -> Slots \cup {None}]
           /\ signedOut \in BOOLEAN /\ lost \in Nat /\ loads \in Nat
  BY DEF TypeOK, RequestsOK, CallsOK

LEMMA TypeRotateOrJoin ==
    ASSUME TypeOK, NEW b \in Tabs, NEW c \in Calls, NEW freed, RequestsOK(freed),
           RotateOrJoin(b, c, freed)
    PROVE  /\ store' \in 0 .. Len(parent) /\ RequestsOK(request') /\ CallsOK(call')
           /\ inFlight' \in [Tabs -> Slots \cup {None}] /\ signedOut' \in BOOLEAN
<1> USE TypeNow
<1>1. CASE inFlight[b] # None /\ call' = [call EXCEPT ![b][c].at = "waiting", ![b][c].slot = None]
           /\ request' = freed /\ UNCHANGED <<store, inFlight, signedOut>>
  BY <1>1, CallsKept
<1>2. CASE /\ inFlight[b] = None /\ store = NoToken
           /\ call' = [call EXCEPT ![b][c] = NoCall]
           /\ request' = freed
           /\ IF call[b][c].kind = "logout" THEN ClearAfterLogout ELSE UNCHANGED <<store, signedOut>>
           /\ UNCHANGED inFlight
  BY <1>2, CallsKept DEF NoToken, ClearAfterLogout
<1>3. CASE /\ inFlight[b] = None /\ store # NoToken /\ SomeFree(freed)
           /\ request' = [freed EXCEPT ![FreeSlot(freed)] = Rotation]
           /\ inFlight' = [inFlight EXCEPT ![b] = FreeSlot(freed)]
           /\ call' = [call EXCEPT ![b][c].at = "waiting", ![b][c].slot = None]
           /\ UNCHANGED <<store, signedOut>>
  <2>1. FreeSlot(freed) \in Slots
    BY <1>3, FreeSlots
  <2>2. RequestsOK(request')
    BY <2>1, <1>3, TableKept DEF Rotation
  <2> QED
    BY <2>1, <2>2, <1>3, CallsKept
<1> QED
  BY <1>1, <1>2, <1>3 DEF RotateOrJoin

LEMMA TypeStep ==
    ASSUME TypeOK, [Next]_vars
    PROVE  TypeOK'
<1> USE TypeNow
<1>1. ASSUME NEW t \in DOMAIN parent, Age(t) PROVE TypeOK'
  BY <1>1, TypeKept DEF Age, client, counters
<1>2. ASSUME NEW b \in Tabs, Login(b) PROVE TypeOK'
  <2>1. Issue(0)
    BY <1>2 DEF Login, SignIn, NoToken
  <2>2. rows' \subseteq 1 .. Len(parent') /\ store' \in 0 .. Len(parent')
    BY <1>2, <2>1, Issued DEF Login, SignIn
  <2>3. UNCHANGED <<request, open, call, inFlight, signedOut, lost, loads>>
    BY <1>2 DEF Login, counters
  <2>4. /\ parent' \in Seq(Nat) /\ Len(parent') = Len(parent) + 1 /\ Len(parent') <= MaxTokens
        /\ Len(parent) \in Nat
    BY <2>1, Issued DEF TypeOK
  <2>5. /\ \A s \in Slots : /\ request[s].token <= Len(parent') /\ request[s].answer <= Len(parent')
        /\ \A b1 \in Tabs, c \in Calls : call[b1][c].token <= Len(parent')
    <3>1. \A s \in Slots : request[s].token \in Nat /\ request[s].answer \in Int
      BY DEF TypeOK, Requests
    <3>2. \A b1 \in Tabs, c \in Calls : call[b1][c].token \in Nat
      BY DEF TypeOK, CallStates
    <3> QED
      BY <2>4, <3>1, <3>2 DEF TypeOK
  <2> QED
    BY <2>2, <2>3, <2>4, <2>5 DEF TypeOK
<1>3. ASSUME NEW b \in Tabs, Reload(b) \/ OpenTab(b) PROVE TypeOK'
  <2>1. CallsOK(call')
    BY <1>3, Hydrated DEF Reload, OpenTab
  <2>2. /\ UNCHANGED <<server, store, signedOut, lost>> /\ loads' = loads + 1
        /\ open' \subseteq Tabs /\ inFlight' \in [Tabs -> Slots \cup {None}]
    BY <1>3 DEF Reload, OpenTab
  <2> QED
    BY <2>1, <2>2, TypeKept DEF server
<1>4. ASSUME NEW b \in Tabs, RotationSucceeds(b) PROVE TypeOK'
  <2>1. inFlight[b] \in Slots
    BY <1>4 DEF RotationSucceeds
  <2>2. RequestsOK(request')
    BY <1>4, TableKept DEF RotationSucceeds, Release
  <2>3. store' \in 0 .. Len(parent)
    BY <1>4, <2>1 DEF RotationSucceeds, RequestsOK, Tokens
  <2>4. CallsOK(call')
    <3>1. call \in [Tabs -> [Calls -> CallStates]]
      BY DEF TypeOK
    <3> DEFINE k == [c \in Calls |-> IF call[b][c].at = "waiting"
                                     THEN [call[b][c] EXCEPT !.at = "replay"] ELSE call[b][c]]
    <3>2. call' = [call EXCEPT ![b] = k]
      BY <1>4, <3>1 DEF RotationSucceeds
    <3>3. k \in [Calls -> CallStates] /\ \A c \in Calls : k[c].token = call[b][c].token
      <4>1. ASSUME NEW c \in Calls
            PROVE  k[c] \in CallStates /\ k[c].token = call[b][c].token
        <5>1. call[b][c] \in CallStates
          BY <3>1
        <5>2. [call[b][c] EXCEPT !.at = "replay"] \in CallStates
              /\ [call[b][c] EXCEPT !.at = "replay"].token = call[b][c].token
          BY <5>1 DEF CallStates
        <5> QED
          BY <5>1, <5>2
      <4> QED
        BY <4>1
    <3> HIDE DEF k
    <3> QED
      BY <3>1, <3>2, <3>3 DEF CallsOK
  <2> QED
    BY <1>4, <2>2, <2>3, <2>4, TypeKept DEF RotationSucceeds, counters
<1>5. ASSUME NEW b \in Tabs, RotationFails(b) PROVE TypeOK'
  <2>1. RequestsOK(request')
    BY <1>5, TableKept DEF RotationFails, Release
  <2>2. CallsOK(call')
    BY <1>5 DEF RotationFails, CallsOK, CallStates, NoCall, NoToken
  <2>3. store' \in 0 .. Len(parent) /\ signedOut' \in BOOLEAN
    BY <1>5 DEF RotationFails, NoToken
  <2> QED
    BY <1>5, <2>1, <2>2, <2>3, TypeKept DEF RotationFails, counters
<1>6. ASSUME NEW b \in Tabs, NEW c \in Calls, CallAnswered(b, c) PROVE TypeOK'
  <2>1. CASE RotateOrJoin(b, c, request)
    BY <1>6, <2>1, TypeRotateOrJoin, TypeKept DEF CallAnswered, counters
  <2>2. CASE ~RotateOrJoin(b, c, request)
    <3>1. /\ call' = [call EXCEPT ![b][c] = NoCall]
          /\ store' \in {store, NoToken}
          /\ UNCHANGED <<request, open, inFlight, signedOut>>
      BY <1>6, <2>2 DEF CallAnswered
    <3>2. CallsOK(call')
      BY <3>1, CallsKept
    <3> QED
      BY <1>6, <3>1, <3>2, TypeKept DEF CallAnswered, counters, NoToken
  <2> QED
    BY <2>1, <2>2
<1>7. ASSUME NEW b \in Tabs, NEW c \in Calls, LogoutAnswered(b, c) PROVE TypeOK'
  <2> DEFINE s == call[b][c].slot
  <2>1. RequestsOK(Release(s))
    <3>1. s \in Slots \cup {None}
      BY DEF CallsOK, CallStates
    <3> QED
      BY <3>1, TableKept DEF Release
  <2>2. CASE call[b][c].at = "sent" /\ request[s].answer = Unauthorized
    BY <1>7, <2>1, <2>2, TypeRotateOrJoin, TypeKept DEF LogoutAnswered, counters
  <2>3. CASE ~(call[b][c].at = "sent" /\ request[s].answer = Unauthorized)
    <3>1. CallsOK(call')
      BY <1>7, <2>3, CallsKept DEF LogoutAnswered
    <3>2. store' \in 0 .. Len(parent) /\ signedOut' \in BOOLEAN
      <4>1. ClearAfterLogout
        BY <1>7, <2>3 DEF LogoutAnswered
      <4> QED
        BY <4>1 DEF ClearAfterLogout, NoToken
    <3> QED
      BY <1>7, <2>1, <2>3, <3>1, <3>2, TypeKept DEF LogoutAnswered, counters
  <2> QED
    BY <2>2, <2>3
<1>8. ASSUME NEW b \in Tabs, NEW c \in Calls, Replay(b, c) PROVE TypeOK'
  <2>1. CASE call[b][c].kind \in {"api", "me"}
    <3>1. CallsOK(call') /\ request' = request
      BY <1>8, <2>1, CallsKept DEF Replay
    <3> QED
      BY <1>8, <3>1, TypeKept DEF Replay, counters
  <2>2. CASE call[b][c].kind = "logout"
    <3>1. FreeSlot(request) \in Slots
      BY <1>8, <2>2, FreeSlots DEF Replay
    <3>2. call[b][c].token \in 0 .. Len(parent)
      BY DEF CallsOK, CallStates
    <3>3. request' = [request EXCEPT ![FreeSlot(request)] =
            [at |-> "lookup", kind |-> "revoke", token |-> call[b][c].token, answer |-> NoToken]]
      BY <1>8, <2>2 DEF Replay, Receive
    <3>5. RequestsOK(request')
      BY <3>1, <3>2, <3>3, TableKept
    <3>4. CallsOK(call')
      <4>1. call' = [call EXCEPT ![b][c].at = "resent", ![b][c].slot = FreeSlot(request)]
        BY <1>8, <2>2 DEF Replay
      <4> QED
        BY <3>1, <4>1, CallsKept
    <3> QED
      BY <1>8, <2>2, <3>5, <3>4, TypeKept DEF Replay, counters
  <2> QED
    BY <1>8, <2>1, <2>2 DEF Replay
<1>9. ASSUME NEW b \in Tabs, NEW c \in Calls, SendCall(b, c) PROVE TypeOK'
  <2>1. CallsOK(call')
    BY <1>9, CallsKept DEF SendCall
  <2> QED
    BY <1>9, <2>1, TypeKept DEF SendCall, server, counters
<1>10. ASSUME NEW b \in Tabs, NEW c \in Calls, SendLogout(b, c) PROVE TypeOK'
  <2>1. FreeSlot(request) \in Slots
    BY <1>10, FreeSlots DEF SendLogout
  <2>2. RequestsOK(request')
    BY <1>10, <2>1, TableKept DEF SendLogout, Receive
  <2>3. CallsOK(call')
    BY <1>10, <2>1, CallsKept DEF SendLogout
  <2> QED
    BY <1>10, <2>2, <2>3, TypeKept DEF SendLogout, counters
<1>11. ASSUME NEW s \in Slots, ServerNext(s) PROVE TypeOK'
  <2>1. UNCHANGED <<open, store, call, inFlight, signedOut, lost, loads>>
    BY <1>11 DEF ServerNext, client, counters
  <2>2. CASE Lookup(s) \/ Revoke(s)
    <3>1. /\ request' = [request EXCEPT ![s].at = "commit"]
             \/ \E a \in {Unauthorized, Revoked} :
                  request' = [request EXCEPT ![s].at = "answered", ![s].answer = a]
          /\ parent' = parent /\ rows' \subseteq rows
      BY <2>2 DEF Lookup, Revoke, Answer
    <3>2. \A a \in {Unauthorized, Revoked} : a \in Int /\ a <= Len(parent)
      BY DEF Unauthorized, Revoked
    <3>3. RequestsOK(request')
      BY <3>1, <3>2, TableKept
    <3> QED
      BY <2>1, <3>1, <3>3, TypeKept
  <2>3. CASE Rotate(s)
    <3>1. Issue(request[s].token) /\ request[s].token \in 0 .. Len(parent)
      BY <2>3 DEF Rotate, RequestsOK, Requests
    <3>2. rows' \subseteq 1 .. Len(parent') /\ store' \in 0 .. Len(parent')
      BY <2>1, <2>3, <3>1, Issued DEF Rotate
    <3>3. /\ request' \in [Slots -> Requests]
          /\ \A r \in Slots : request'[r].token <= Len(parent') /\ request'[r].answer <= Len(parent')
      BY <2>3, <3>1, Issued DEF Rotate, Answer, RequestsOK, Requests
    <3> QED
      BY <2>1, <3>1, <3>2, <3>3, Issued DEF TypeOK, CallsOK, CallStates
  <2> QED
    BY <1>11, <2>2, <2>3 DEF ServerNext, ServerStep
<1>12. ASSUME NEW s \in Slots, LoseAnswer(s) PROVE TypeOK'
  <2>1. /\ request' = [request EXCEPT ![s].at = "answered", ![s].answer = ServerError]
        /\ parent' = parent /\ rows' = rows
    BY <1>12 DEF LoseAnswer, Refuse, Answer
  <2>2. ServerError \in Int /\ ServerError <= Len(parent)
    BY DEF ServerError
  <2>3. RequestsOK(request')
    BY <2>1, <2>2, TableKept
  <2> QED
    BY <1>12, <2>1, <2>3, TypeKept DEF LoseAnswer, client
<1>13. ASSUME NEW s \in Slots, Discard(s) PROVE TypeOK'
  <2>1. RequestsOK(request')
    BY <1>13, TableKept DEF Discard, Release
  <2> QED
    BY <1>13, <2>1, TypeKept DEF Discard, client, counters
<1>14. CASE UNCHANGED vars
  BY <1>14, TypeKept DEF vars, server, client, counters
<1> QED
  BY <1>1, <1>2, <1>3, <1>4, <1>5, <1>6, <1>7, <1>8, <1>9, <1>10, <1>11, <1>12, <1>13, <1>14
     DEF Next, ClientNext

LEMMA TypeInit == Init => TypeOK
<1>1. Free \in Requests /\ Free.token = 0 /\ Free.answer = 0
  BY DEF Free, Requests, NoToken
<1>2. NoCall \in CallStates /\ NoCall.token = 0
  BY DEF NoCall, CallStates, NoToken
<1>3. <<>> \in Seq(Nat) /\ Len(<<>>) = 0
  OBVIOUS
<1>4. MaxTokens \in Nat
  BY RotationAssumption
<1> SUFFICES ASSUME Init PROVE TypeOK
  OBVIOUS
<1>5. parent \in Seq(Nat) /\ Len(parent) = 0
  BY <1>3 DEF Init, ServerInit
<1>6. rows = {} /\ store = 0 /\ signedOut = FALSE /\ lost = 0 /\ loads = 0
  BY DEF Init, ServerInit, NoToken
<1>7. RequestsOK(request)
  BY <1>1, <1>5 DEF Init, ServerInit, RequestsOK
<1>8. CallsOK(call) /\ inFlight \in [Tabs -> Slots \cup {None}]
  BY <1>2, <1>5 DEF Init, CallsOK
<1>8a. open \subseteq Tabs
  BY ClientAssumption DEF Init
<1>9. Len(parent) <= MaxTokens /\ rows \subseteq 1 .. Len(parent) /\ store \in 0 .. Len(parent)
  BY <1>4, <1>5, <1>6
<1>10. signedOut \in BOOLEAN /\ lost \in Nat /\ loads \in Nat
  BY <1>6
<1> QED
  BY <1>5, <1>7, <1>8, <1>8a, <1>9, <1>10 DEF TypeOK, RequestsOK, CallsOK

\* Every variable of SessionClient keeps its shape, for any number of tabs.
THEOREM TypeCorrect == Spec => []TypeOK
<1>1. Init => TypeOK
  BY TypeInit
<1>2. TypeOK /\ [Next]_vars => TypeOK'
  BY TypeStep
<1> QED
  BY <1>1, <1>2, PTL DEF Spec

-----------------------------------------------------------------------------
(* What happens to a call, and to its request.                             *)

\* A call that changes place and slot.
Moved(b, c, a, s) == [call EXCEPT ![b][c].at = a, ![b][c].slot = s]

LEMMA CallMoved ==
    ASSUME TypeOK, NEW b \in Tabs, NEW c \in Calls,
           NEW a \in {"waiting", "resent"}, NEW s \in Slots \cup {None},
           call' = Moved(b, c, a, s)
    PROVE  \E k \in CallStates :
             /\ k.at = a /\ k.slot = s /\ k.kind = call[b][c].kind
             /\ call' = [call EXCEPT ![b][c] = k]
<1> DEFINE k == [call[b][c] EXCEPT !.at = a, !.slot = s]
<1>1. call[b][c] \in CallStates /\ call \in [Tabs -> [Calls -> CallStates]]
  BY DEF TypeOK
<1>2. k \in CallStates /\ k.at = a /\ k.slot = s /\ k.kind = call[b][c].kind
  BY <1>1 DEF CallStates
<1>3. call' = [call EXCEPT ![b][c] = k]
  BY <1>1 DEF Moved
<1> HIDE DEF k
<1> QED
  BY <1>2, <1>3

\* The requests of the calls other than c of tab b go on.
Others(b, c) ==
    \A d \in Tabs, e \in Calls : (d # b \/ e # c) /\ call[d][e].slot # None =>
      request'[call[d][e].slot].at # "free" /\ request'[call[d][e].slot].kind = "revoke"

\* One call changes: it has no request any more, or one that was free.
LEMMA CallsFitStep ==
    ASSUME TypeOK, CallsFit, NEW b \in Tabs, NEW c \in Calls, NEW k \in CallStates,
           call' = [call EXCEPT ![b][c] = k], Others(b, c),
           k.slot # None <=> k.kind = "logout" /\ k.at \in {"sent", "resent"},
           k.slot # None => /\ request[k.slot].at = "free"
                            /\ request'[k.slot].at # "free" /\ request'[k.slot].kind = "revoke"
    PROVE  CallsFit'
<1>1. call \in [Tabs -> [Calls -> CallStates]]
  BY DEF TypeOK
<1>2. /\ call'[b][c] = k
      /\ \A d \in Tabs, e \in Calls : d # b \/ e # c => call'[d][e] = call[d][e]
  BY <1>1
<1>3. ASSUME NEW d \in Tabs, NEW e \in Calls, d # b \/ e # c, k.slot # None
      PROVE  call[d][e].slot # k.slot
  BY <1>3 DEF CallsFit
<1>4. ASSUME NEW d \in Tabs, NEW e \in Calls, d # b \/ e # c
      PROVE  /\ call'[d][e].slot # None <=> call'[d][e].kind = "logout" /\ call'[d][e].at \in {"sent", "resent"}
             /\ call'[d][e].slot # None =>
                  /\ request'[call'[d][e].slot].at # "free"
                  /\ request'[call'[d][e].slot].kind = "revoke"
                  /\ \A x \in Tabs, y \in Calls : call'[x][y].slot = call'[d][e].slot => x = d /\ y = e
  <2>1. call'[d][e] = call[d][e]
    BY <1>2, <1>4
  <2>2. ASSUME call[d][e].slot # None, NEW x \in Tabs, NEW y \in Calls,
               call'[x][y].slot = call[d][e].slot
        PROVE  x = d /\ y = e
    <3>1. CASE x = b /\ y = c
      BY <1>2, <1>3, <1>4, <2>2, <3>1
    <3>2. CASE x # b \/ y # c
      BY <1>2, <2>2, <3>2 DEF CallsFit
    <3> QED
      BY <3>1, <3>2
  <2> QED
    BY <1>4, <2>1, <2>2 DEF CallsFit, Others
<1>5. k.slot # None =>
        \A x \in Tabs, y \in Calls : call'[x][y].slot = k.slot => x = b /\ y = c
  BY <1>2, <1>3
<1>6. ASSUME NEW d \in Tabs, NEW e \in Calls, d = b, e = c
      PROVE  /\ call'[d][e].slot # None <=> call'[d][e].kind = "logout" /\ call'[d][e].at \in {"sent", "resent"}
             /\ call'[d][e].slot # None =>
                  /\ request'[call'[d][e].slot].at # "free"
                  /\ request'[call'[d][e].slot].kind = "revoke"
                  /\ \A x \in Tabs, y \in Calls : call'[x][y].slot = call'[d][e].slot => x = d /\ y = e
  BY <1>2, <1>5, <1>6
<1> QED
  BY <1>4, <1>6 DEF CallsFit

\* No call changes, and no request of a call.
LEMMA CallsFitKept ==
    ASSUME TypeOK, CallsFit, call' = call,
           \A s \in Slots : request[s].at # "free" /\ request[s].kind = "revoke" =>
             \/ request'[s].at # "free" /\ request'[s].kind = "revoke"
             \/ \A b \in Tabs, c \in Calls : call[b][c].slot # s
    PROVE  CallsFit'
<1>1. \A b \in Tabs, c \in Calls : call[b][c].slot \in Slots \cup {None}
  BY DEF TypeOK, CallStates
<1> QED
  BY <1>1 DEF CallsFit

-----------------------------------------------------------------------------
(* What happens to the tokens.                                             *)

LEMMA SlotTypes ==
    ASSUME TypeOK, NEW s \in Slots
    PROVE  /\ request[s].at \in {"free", "lookup", "commit", "answered"}
           /\ request[s].kind \in {"rotate", "revoke"}
           /\ request[s].token \in 0 .. Len(parent)
           /\ request[s].answer \in Int /\ request[s].answer <= Len(parent)
  BY DEF TypeOK, Requests

\* Until a second page is loaded there is one rotation at most.
LEMMA OneAtATime ==
    ASSUME PagesFit, loads = 0, NEW b \in Tabs, NEW d \in Tabs,
           b \in open \/ inFlight[b] # None, inFlight[d] # None
    PROVE  b = d
  BY DEF PagesFit

\* Requests that are no tab's rotation come and go, a logout or a page that is loaded
\* clears the store: the history of tokens is as it was.
LEMMA TableStep ==
    ASSUME TypeOK, TypeOK', TokensFit,
           parent' = parent, rows' = rows, expired \subseteq expired', lost' = lost,
           loads' = loads, inFlight' = inFlight,
           signedOut' = signedOut \/ signedOut' = TRUE,
           store' # store => store' = NoToken /\ (signedOut' = TRUE \/ loads # 0),
           \A s \in Slots :
             \/ request'[s] = request[s]
             \/ /\ \A b \in Tabs : inFlight[b] # s
                /\ request'[s].at # "free" => request'[s].kind = "revoke"
                /\ request'[s].at # "answered" /\ request'[s].answer = NoToken
    PROVE  TokensFit'
<1> USE DEF TokensFit
<1>1. ParentsAreOlder'
  BY DEF ParentsAreOlder
<1>2. SlotsFit'
  BY SlotTypes DEF SlotsFit, Rotating, Valid, NoToken
<1>3. SlotsOwned' /\ FlightFits'
  <2>1. ASSUME NEW b \in Tabs, inFlight[b] # None
        PROVE  inFlight[b] \in Slots /\ request'[inFlight[b]] = request[inFlight[b]]
    BY <2>1 DEF TypeOK
  <2>2. SlotsOwned'
    BY <2>1 DEF SlotsOwned, Rotating
  <2>3. FlightFits'
    BY <2>1 DEF FlightFits, TypeOK
  <2> QED
    BY <2>2, <2>3
<1>4. OneFlight'
  <2> SUFFICES ASSUME loads = 0 PROVE OneFlight'
    BY DEF OneFlight
  <2>1. \A s \in Slots : Rotating(s)' => request'[s] = request[s] /\ Rotating(s)
    BY DEF Rotating
  <2>2. \A t : Unused(t) => Unused(t)'
    BY DEF Unused
  <2>3. OneSuccessor'
    BY DEF OneFlight, OneSuccessor
  <2>4. (\A b \in Tabs : inFlight'[b] = None) /\ store' # NoToken => Unused(store)'
    BY <2>2 DEF OneFlight
  <2> QED
    BY <2>1, <2>2, <2>3, <2>4 DEF OneFlight
<1>5. NoOrphans'
  <2> SUFFICES ASSUME lost = 0, loads = 0, ~signedOut', NEW t \in rows \ expired'
               PROVE  t = store' \/ \E s \in Slots : request'[s].answer = t
    BY DEF NoOrphans
  <2>1. store' = store /\ t \in rows \ expired /\ ~signedOut
    BY DEF TypeOK
  <2>2. CASE t = store
    BY <2>1, <2>2
  <2>3. ASSUME NEW s \in Slots, request[s].answer = t PROVE request'[s].answer = t
    <3>1. t > 0
      BY DEF TypeOK
    <3>2. Rotating(s)
      BY <2>3, <3>1, SlotTypes DEF SlotsFit, Rotating, NoToken
    <3>3. \E b \in Tabs : inFlight[b] = s
      BY <3>2 DEF OneFlight
    <3> QED
      BY <2>3, <3>3
  <2> QED
    BY <2>1, <2>2, <2>3 DEF NoOrphans
<1> QED
  BY <1>1, <1>2, <1>3, <1>4, <1>5

\* The server answers request s, or finds its row, and brings no token.
LEMMA AnswerStep ==
    ASSUME TypeOK, TypeOK', TokensFit, NEW s \in Slots,
           parent' = parent, rows' \subseteq rows, expired' = expired, lost <= lost',
           loads' = loads, inFlight' = inFlight, signedOut' = signedOut, store' = store,
           request[s].at # "free",
           \A r \in Slots \ {s} : request'[r] = request[r],
           request'[s].kind = request[s].kind, request'[s].token = request[s].token,
           request'[s].answer <= 0,
           \/ request'[s].at = "commit" /\ request'[s].answer = NoToken /\ request[s].at = "lookup"
           \/ request'[s].at = "answered",
           request'[s].at = "answered" /\ Rotating(s) =>
             lost' > 0 \/ request[s].token \notin rows \ expired,
           lost' = 0 => request[s].answer = NoToken
    PROVE  TokensFit'
<1> USE DEF TokensFit
<1>1. ParentsAreOlder'
  BY DEF ParentsAreOlder
<1>2. Rotating(s)' <=> Rotating(s)
  BY DEF Rotating
<1>3. lost \in Nat /\ lost' \in Nat
  BY DEF TypeOK
<1>4. SlotsFit'
  <2>1. ASSUME NEW r \in Slots \ {s}
        PROVE  /\ request'[r].at # "answered" => request'[r].answer = NoToken
               /\ request'[r].kind = "revoke" => request'[r].answer <= 0
               /\ Rotating(r)' => request'[r].token > 0
               /\ Rotating(r)' /\ request'[r].answer > 0 => request'[r].token \notin rows'
               /\ Rotating(r)' /\ request'[r].at = "answered" /\ request'[r].answer <= 0 /\ lost' = 0 =>
                    ~Valid(request[r].token)'
    BY <2>1, <1>3 DEF SlotsFit, Rotating, Valid
  <2>2. /\ request'[s].at # "answered" => request'[s].answer = NoToken
        /\ request'[s].kind = "revoke" => request'[s].answer <= 0
        /\ Rotating(s)' => request'[s].token > 0
        /\ Rotating(s)' /\ request'[s].answer > 0 => request'[s].token \notin rows'
        /\ Rotating(s)' /\ request'[s].at = "answered" /\ request'[s].answer <= 0 /\ lost' = 0 =>
             ~Valid(request[s].token)'
    BY <1>2, <1>3, SlotTypes DEF SlotsFit, Valid, TypeOK, Requests
  <2> QED
    BY <2>1, <2>2 DEF SlotsFit
<1>5. SlotsOwned' /\ FlightFits'
  BY <1>2 DEF SlotsOwned, FlightFits, Rotating, TypeOK
<1>6. OneFlight'
  <2> SUFFICES ASSUME loads = 0 PROVE OneFlight'
    BY DEF OneFlight
  <2>1. \A t : Unused(t) => Unused(t)'
    BY DEF Unused
  <2>2. OneSuccessor' /\ ((\A b \in Tabs : inFlight'[b] = None) /\ store' # NoToken => Unused(store)')
    BY <2>1 DEF OneFlight, OneSuccessor
  <2>3. \A r \in Slots : Rotating(r)' => Rotating(r)
    BY <1>2 DEF Rotating
  <2>4. \A r \in Slots : Rotating(r)' =>
          /\ request'[r].at # "answered" => Unused(request[r].token)'
          /\ request'[r].answer > 0 => Unused(request[r].answer)'
    <3> SUFFICES ASSUME NEW r \in Slots, Rotating(r)'
                 PROVE  /\ request'[r].at # "answered" => Unused(request[r].token)'
                        /\ request'[r].answer > 0 => Unused(request[r].answer)'
      OBVIOUS
    <3>1. /\ request[r].at # "answered" => Unused(request[r].token)
          /\ request[r].answer > 0 => Unused(request[r].answer)
      BY <2>3 DEF OneFlight
    <3>2. CASE r # s
      BY <3>1, <3>2 DEF Unused
    <3>3. CASE r = s
      <4>1. request'[s].at # "answered" => request[s].at # "answered"
        OBVIOUS
      <4>2. ~(request'[s].answer > 0)
        BY DEF TypeOK, Requests
      <4> QED
        BY <3>1, <3>3, <4>1, <4>2 DEF Unused
    <3> QED
      BY <3>2, <3>3
  <2> QED
    BY <2>2, <2>3, <2>4 DEF OneFlight
<1>7. NoOrphans'
  <2> SUFFICES ASSUME lost' = 0, loads = 0, ~signedOut, NEW t \in rows' \ expired
               PROVE  t = store \/ \E r \in Slots : request'[r].answer = t
    BY DEF NoOrphans
  <2>1. t \in rows \ expired /\ t > 0 /\ lost = 0
    BY <1>3 DEF TypeOK
  <2>2. ASSUME NEW r \in Slots, request[r].answer = t PROVE request'[r].answer = t
    BY <2>1, <2>2 DEF NoToken
  <2> QED
    BY <2>1, <2>2 DEF NoOrphans
<1> QED
  BY <1>1, <1>4, <1>5, <1>6, <1>7

\* The DELETE and the INSERT: the one rotation under way brings a token.
LEMMA RotateStep ==
    ASSUME TypeOK, TypeOK', PagesFit, TokensFit, NEW s \in Slots, Rotate(s),
           UNCHANGED <<store, inFlight, signedOut, lost, loads>>
    PROVE  TokensFit'
<1> USE DEF TokensFit
<1> DEFINE new == Len(parent) + 1
           old == request[s].token
<1>1. /\ request[s].at = "commit" /\ Rotating(s)
      /\ rows' = (rows \ {old}) \cup {new}
      /\ expired' = expired
      /\ old \in 1 .. Len(parent)
  BY SlotTypes DEF Rotate, Rotating, SlotsFit, NewToken
<1>2. /\ Len(parent) \in Nat /\ Len(parent') = new
      /\ parent'[new] = old /\ \A t \in 1 .. Len(parent) : parent'[t] = parent[t]
  BY <1>1, Issued DEF Rotate
<1>3. /\ request'[s].at = "answered" /\ request'[s].kind = "rotate"
      /\ request'[s].token = old /\ request'[s].answer = new
      /\ \A r \in Slots \ {s} : request'[r] = request[r]
  BY <1>1 DEF Rotate, Answer, TypeOK, Requests, NewToken
<1>4. store' = store /\ inFlight' = inFlight /\ signedOut' = signedOut /\ lost' = lost
      /\ loads' = loads
  OBVIOUS
<1>5. \A t \in 1 .. Len(parent) : t \in rows' => t \in rows
  BY <1>1, <1>2
<1>6. \A r \in Slots : Rotating(r)' <=> Rotating(r)
  BY <1>1, <1>3 DEF Rotating
<1> HIDE DEF new, old
<1>7. ParentsAreOlder'
  BY <1>1, <1>2 DEF ParentsAreOlder, new
<1>8. SlotsFit'
  <2>1. ASSUME NEW r \in Slots \ {s}
        PROVE  /\ request'[r].at # "answered" => request'[r].answer = NoToken
               /\ request'[r].kind = "revoke" => request'[r].answer <= 0
               /\ Rotating(r)' => request'[r].token > 0
               /\ Rotating(r)' /\ request'[r].answer > 0 => request'[r].token \notin rows'
               /\ Rotating(r)' /\ request'[r].at = "answered" /\ request'[r].answer <= 0 /\ lost' = 0 =>
                    ~Valid(request[r].token)'
    <3>1. Rotating(r) => request[r].token \in 1 .. Len(parent)
      BY SlotTypes DEF SlotsFit
    <3> QED
      BY <1>1, <1>3, <1>4, <1>5, <1>6, <3>1 DEF SlotsFit, Valid
  <2>2. /\ request'[s].token > 0 /\ request'[s].token \notin rows'
        /\ request'[s].answer > 0
    BY <1>1, <1>2, <1>3 DEF new
  <2> QED
    BY <1>2, <1>3, <2>1, <2>2 DEF SlotsFit, new
<1>9. SlotsOwned' /\ FlightFits'
  <2>1. \A r \in Slots : request'[r].token = request[r].token
    BY <1>3 DEF old
  <2>2. \A b \in Tabs : inFlight[b] # None => inFlight[b] \in Slots
    BY DEF TypeOK
  <2>3. SlotsOwned'
    BY <1>4, <1>6, <2>2 DEF SlotsOwned
  <2>4. FlightFits'
    BY <1>4, <2>1, <2>2 DEF FlightFits
  <2> QED
    BY <2>3, <2>4
<1>10. OneFlight'
  <2> SUFFICES ASSUME loads = 0 PROVE OneFlight'
    BY <1>4 DEF OneFlight
  <2>1. PICK b \in Tabs : inFlight[b] = s
    BY <1>1 DEF OneFlight
  <2>2. \A r \in Slots : Rotating(r)' => r = s
    BY <1>6, <2>1, Slot, OneAtATime DEF OneFlight
  <2>3. ~(\A d \in Tabs : inFlight'[d] = None)
    BY <1>4, <2>1, Slot
  <2>4. Unused(old)
    BY <1>1 DEF OneFlight, old
  <2>5. OneSuccessor'
    <3> SUFFICES ASSUME NEW t \in 1 .. new, NEW u \in 1 .. new,
                        parent'[t] = parent'[u], parent'[t] # NoToken
                 PROVE  t = u
      BY <1>2 DEF OneSuccessor, TypeOK
    <3>1. \A v \in 1 .. new : v = new \/ v \in 1 .. Len(parent)
      BY <1>2 DEF new
    <3>2. \A v \in 1 .. Len(parent) : parent[v] # old
      BY <2>4 DEF Unused
    <3>3. \A v, w \in 1 .. Len(parent) : parent[v] = parent[w] /\ parent[v] # NoToken => v = w
      BY DEF OneFlight, OneSuccessor, TypeOK
    <3> QED
      BY <1>2, <3>1, <3>2, <3>3
  <2>6. Unused(request[s].answer)'
    <3>1. \A v \in 1 .. Len(parent) : parent[v] < v /\ parent[v] \in Nat
      BY DEF ParentsAreOlder, TypeOK
    <3> QED
      BY <1>1, <1>2, <1>3, <3>1 DEF Unused, new
  <2>7. \A r \in Slots : Rotating(r)' => \E d \in Tabs : inFlight'[d] = r
    BY <1>4, <2>1, <2>2
  <2>8. \A r \in Slots : Rotating(r)' =>
          /\ request'[r].at # "answered" => Unused(request[r].token)'
          /\ request'[r].answer > 0 => Unused(request[r].answer)'
    BY <1>3, <2>2, <2>6
  <2> QED
    BY <2>3, <2>5, <2>7, <2>8 DEF OneFlight
<1>11. NoOrphans'
  <2> SUFFICES ASSUME lost = 0, loads = 0, ~signedOut, NEW t \in rows' \ expired
               PROVE  t = store \/ \E r \in Slots : request'[r].answer = t
    BY <1>1, <1>4 DEF NoOrphans
  <2>1. CASE t = new
    BY <1>3, <2>1
  <2>2. CASE t # new
    <3>1. t \in rows \ expired /\ t # old
      BY <1>1, <2>2
    <3>2. \E b \in Tabs : inFlight[b] = s
      BY <1>1 DEF OneFlight
    <3>3. store = old
      BY <3>2, Slot DEF FlightFits, old
    <3>4. PICK r \in Slots : request[r].answer = t
      BY <3>1, <3>3 DEF NoOrphans
    <3>5. r # s
      <4>1. request[s].answer = 0
        BY <1>1 DEF SlotsFit, NoToken
      <4>2. t > 0
        BY <1>2, <3>1 DEF TypeOK
      <4> QED
        BY <3>4, <4>1, <4>2
    <3> QED
      BY <1>3, <3>4, <3>5
  <2> QED
    BY <2>1, <2>2
<1> QED
  BY <1>7, <1>8, <1>9, <1>10, <1>11

\* A tab starts a rotation; before, the request of the call that asks for it is freed.
LEMMA RotationStarts ==
    ASSUME TypeOK, TypeOK', PagesFit, TokensFit, NEW b \in Tabs, NEW s \in Slots,
           b \in open, inFlight[b] = None, store # NoToken,
           parent' = parent, rows' = rows, expired' = expired, lost' = lost, loads' = loads,
           store' = store, signedOut' = signedOut,
           inFlight' = [inFlight EXCEPT ![b] = s],
           request'[s] = Rotation,
           request[s].at = "free" \/ request[s].kind = "revoke",
           \A r \in Slots \ {s} :
             \/ request'[r] = request[r]
             \/ request[r].kind = "revoke" /\ request'[r] = Free
    PROVE  TokensFit'
<1> USE DEF TokensFit
<1>1. /\ request'[s].at = "lookup" /\ request'[s].kind = "rotate"
      /\ request'[s].token = store /\ request'[s].answer = NoToken
  BY DEF Rotation
<1>2. Free.at = "free" /\ Free.answer = NoToken
  BY DEF Free
<1>3. Rotating(s)' /\ ~Rotating(s) /\ \A r \in Slots \ {s} : Rotating(r)' <=> Rotating(r)
  BY <1>1, <1>2 DEF Rotating
<1>4. \A r \in Slots \ {s} : Rotating(r)' => request'[r] = request[r]
  BY <1>2 DEF Rotating
<1>5. store \in 1 .. Len(parent) /\ Len(parent) \in Nat
  BY DEF TypeOK, NoToken
<1>6. /\ inFlight'[b] = s /\ \A d \in Tabs \ {b} : inFlight'[d] = inFlight[d]
      /\ loads = 0 => \A d \in Tabs : inFlight[d] = None
  BY OneAtATime DEF TypeOK
<1>7. ParentsAreOlder'
  BY DEF ParentsAreOlder
<1>8. SlotsFit'
  <2>1. ASSUME NEW r \in Slots \ {s}
        PROVE  /\ request'[r].at # "answered" => request'[r].answer = NoToken
               /\ request'[r].kind = "revoke" => request'[r].answer <= 0
               /\ Rotating(r)' => request'[r].token > 0
               /\ Rotating(r)' /\ request'[r].answer > 0 => request'[r].token \notin rows'
               /\ Rotating(r)' /\ request'[r].at = "answered" /\ request'[r].answer <= 0 /\ lost' = 0 =>
                    ~Valid(request[r].token)'
    BY <1>2, <1>3, <1>4 DEF SlotsFit, Valid, NoToken
  <2> QED
    BY <1>1, <1>5, <2>1 DEF SlotsFit, NoToken
<1>9. SlotsOwned' /\ FlightFits'
  <2>1. \A d \in Tabs : inFlight[d] # None => inFlight[d] \in Slots \ {s}
    BY <1>3 DEF SlotsOwned, TypeOK
  <2>2. SlotsOwned'
    BY <1>3, <1>6, <2>1, Slot DEF SlotsOwned
  <2>3. FlightFits'
    BY <1>1, <1>6 DEF FlightFits
  <2> QED
    BY <2>2, <2>3
<1>10. OneFlight'
  <2> SUFFICES ASSUME loads = 0 PROVE OneFlight'
    BY DEF OneFlight
  <2>1. \A r \in Slots : Rotating(r)' => r = s
    BY <1>3, <1>6, Slot DEF OneFlight
  <2>2. Unused(request[s].token)'
    BY <1>1, <1>6 DEF OneFlight, Unused
  <2>3. OneSuccessor'
    BY DEF OneFlight, OneSuccessor
  <2> QED
    BY <1>1, <1>6, <2>1, <2>2, <2>3, Slot DEF OneFlight, NoToken
<1>11. NoOrphans'
  <2> SUFFICES ASSUME lost = 0, loads = 0, ~signedOut, NEW t \in rows \ expired, t # store
               PROVE  \E r \in Slots : request'[r].answer = t
    BY DEF NoOrphans
  <2>1. PICK r \in Slots : request[r].answer = t
    BY DEF NoOrphans
  <2>2. t > 0
    BY <1>5 DEF TypeOK
  <2>3. Rotating(r)
    BY <2>1, <2>2, SlotTypes DEF SlotsFit, Rotating, NoToken
  <2> QED
    BY <1>3, <1>4, <2>1, <2>3
<1> QED
  BY <1>7, <1>8, <1>9, <1>10, <1>11

\* The answer of the rotation is taken: the tab stores the token it brings, or, after a
\* failure, none.
LEMMA RotationEnds ==
    ASSUME TypeOK, TypeOK', PagesFit, TokensFit, NEW b \in Tabs,
           RotationSucceeds(b) \/ RotationFails(b)
    PROVE  TokensFit'
<1> USE DEF TokensFit
<1> DEFINE s == inFlight[b]
<1>1. s \in Slots /\ request[s].at = "answered" /\ Rotating(s)
  BY DEF RotationSucceeds, RotationFails, TypeOK, SlotsOwned
<1>2. /\ parent' = parent /\ rows' = rows /\ expired' = expired /\ lost' = lost
      /\ loads' = loads /\ inFlight' = [inFlight EXCEPT ![b] = None]
      /\ request' = [request EXCEPT ![s] = Free]
  BY DEF RotationSucceeds, RotationFails, counters, Release
<1>2a. signedOut => signedOut'
  <2>1. CASE RotationSucceeds(b)
    BY <2>1 DEF RotationSucceeds
  <2>2. CASE RotationFails(b)
    BY <2>2 DEF RotationFails
  <2> QED
    BY <2>1, <2>2
<1>3. Len(parent) \in Nat /\ Len(parent) <= MaxTokens /\ MaxTokens \in Nat
  BY RotationAssumption DEF TypeOK
<1>4. \/ request[s].answer > 0 /\ store' = request[s].answer /\ signedOut' = signedOut
      \/ request[s].answer <= 0 /\ store' = NoToken
  <2>1. request[s].answer \in Tokens <=> request[s].answer > 0
    BY <1>1, <1>3, SlotTypes DEF Tokens
  <2> QED
    BY <1>1, <2>1, SlotTypes DEF RotationSucceeds, RotationFails
<1>5. /\ request'[s] = Free /\ \A r \in Slots \ {s} : request'[r] = request[r]
      /\ inFlight'[b] = None /\ \A d \in Tabs \ {b} : inFlight'[d] = inFlight[d]
  BY <1>1, <1>2 DEF TypeOK
<1>5a. ASSUME NEW d \in Tabs, d # b
       PROVE  /\ inFlight[d] # s
              /\ inFlight[d] # None => inFlight[d] \in Slots
              /\ loads = 0 => inFlight[d] = None
  <2>1. inFlight[b] # None
    BY <1>1, Slot
  <2>2. inFlight[d] # s
    BY <1>5a, <2>1 DEF SlotsOwned
  <2>3. loads = 0 => inFlight[d] = None
    BY <1>5a, <2>1, OneAtATime
  <2> QED
    BY <2>2, <2>3 DEF TypeOK
<1>6. Free.at = "free" /\ Free.answer = NoToken
  BY DEF Free
<1> HIDE DEF s
<1>7. \A r \in Slots : Rotating(r)' => Rotating(r) /\ r # s
  BY <1>5, <1>6 DEF Rotating
<1>8. ParentsAreOlder'
  BY <1>2 DEF ParentsAreOlder
<1>9. SlotsFit'
  BY <1>2, <1>5, <1>6, <1>7 DEF SlotsFit, Valid, NoToken
<1>10. SlotsOwned' /\ FlightFits'
  <2>0. ASSUME NEW d \in Tabs, inFlight'[d] # None
        PROVE  /\ d # b /\ inFlight'[d] = inFlight[d] /\ loads # 0
               /\ inFlight[d] \in Slots \ {s}
    <3>1. d # b
      BY <1>5, <2>0
    <3>2. inFlight'[d] = inFlight[d]
      BY <1>5, <3>1
    <3> QED
      BY <1>5a, <2>0, <3>1, <3>2
  <2>1. SlotsOwned'
    BY <1>5, <2>0 DEF SlotsOwned, Rotating
  <2>2. FlightFits'
    BY <1>2, <2>0 DEF FlightFits
  <2> QED
    BY <2>1, <2>2
<1>11. OneFlight'
  <2> SUFFICES ASSUME loads = 0 PROVE OneFlight'
    BY <1>2 DEF OneFlight
  <2>1. \A r \in Slots : ~Rotating(r)'
    <3> SUFFICES ASSUME NEW r \in Slots, Rotating(r)' PROVE FALSE
      OBVIOUS
    <3>1. Rotating(r) /\ r # s
      BY <1>7
    <3>2. PICK d \in Tabs : inFlight[d] = r
      BY <3>1 DEF OneFlight
    <3>3. d # b
      BY <3>1, <3>2 DEF s
    <3> QED
      BY <1>5a, <3>2, <3>3, Slot DEF TypeOK
  <2>2. store' # NoToken => Unused(store)'
    <3>1. request[s].answer > 0 => Unused(request[s].answer)
      BY <1>1 DEF OneFlight
    <3> QED
      BY <1>2, <1>4, <3>1 DEF Unused
  <2>3. OneSuccessor'
    BY <1>2 DEF OneFlight, OneSuccessor
  <2> QED
    BY <2>1, <2>2, <2>3 DEF OneFlight
<1>12. NoOrphans'
  <2> SUFFICES ASSUME lost = 0, loads = 0, ~signedOut', NEW t \in rows \ expired
               PROVE  t = store' \/ \E r \in Slots : request'[r].answer = t
    BY <1>2 DEF NoOrphans
  <2>1. ~signedOut /\ store = request[s].token
    BY <1>1, <1>2a, Slot DEF FlightFits, s, TypeOK
  <2>2. t # store
    BY <1>1, <1>4, <2>1 DEF SlotsFit, Valid
  <2>3. PICK r \in Slots : request[r].answer = t
    BY <2>1, <2>2 DEF NoOrphans
  <2>4. t > 0
    BY <1>3 DEF TypeOK
  <2>5. CASE r = s
    BY <1>1, <1>4, <2>3, <2>4, <2>5, SlotTypes
  <2>6. CASE r # s
    BY <1>5, <2>3, <2>6
  <2> QED
    BY <2>5, <2>6
<1> QED
  BY <1>8, <1>9, <1>10, <1>11, <1>12

\* A user signs in: the new pair is stored at once.
LEMMA LoginStep ==
    ASSUME TypeOK, TypeOK', TokensFit, NEW b \in Tabs, Login(b)
    PROVE  TokensFit'
<1> USE DEF TokensFit
<1> DEFINE new == Len(parent) + 1
<1>1. Issue(0) /\ 0 \in 0 .. Len(parent)
  BY DEF Login, SignIn, NoToken, TypeOK
<1>2. /\ Len(parent) \in Nat /\ Len(parent') = new
      /\ parent'[new] = 0 /\ \A t \in 1 .. Len(parent) : parent'[t] = parent[t]
  BY <1>1, Issued
<1>3. /\ store = 0 /\ store' = new /\ rows' = rows \cup {new}
      /\ expired' = expired /\ request' = request /\ inFlight' = inFlight
      /\ signedOut' = signedOut /\ lost' = lost /\ loads' = loads
  BY DEF Login, SignIn, NewToken, NoToken, counters
<1> HIDE DEF new
<1>4. ParentsAreOlder'
  BY <1>2 DEF ParentsAreOlder, new
<1>5. \A t \in 1 .. Len(parent) : t # new
  BY <1>2 DEF new
<1>6. SlotsFit'
  <2>1. \A s \in Slots : Rotating(s) => request[s].token \in 1 .. Len(parent)
    BY <1>2, SlotTypes DEF SlotsFit
  <2> QED
    BY <1>3, <1>5, <2>1 DEF SlotsFit, Rotating, Valid
<1>7. SlotsOwned' /\ FlightFits'
  <2>1. ASSUME NEW d \in Tabs, inFlight[d] # None, loads = 0 PROVE signedOut
    <3>1. inFlight[d] \in Slots /\ Rotating(inFlight[d])
      BY <2>1 DEF SlotsOwned, TypeOK
    <3> QED
      BY <1>3, <2>1, <3>1 DEF FlightFits, SlotsFit
  <2> QED
    BY <1>3, <2>1 DEF SlotsOwned, FlightFits, Rotating
<1>8. OneFlight'
  <2> SUFFICES ASSUME loads = 0 PROVE OneFlight'
    BY <1>3 DEF OneFlight
  <2>1. \A t \in 1 .. new : t = new \/ t \in 1 .. Len(parent)
    BY <1>2 DEF new
  <2>2. ASSUME NEW t, t # 0, Unused(t) PROVE \A u \in 1 .. new : parent'[u] # t
    BY <1>2, <2>1, <2>2 DEF Unused
  <2>3. \A u \in 1 .. new : parent'[u] # new
    <3>1. \A u \in 1 .. Len(parent) : parent[u] < u /\ parent[u] \in Nat
      BY DEF ParentsAreOlder, TypeOK
    <3> QED
      BY <1>2, <2>1, <3>1 DEF new
  <2>4. OneSuccessor'
    <3> SUFFICES ASSUME NEW t \in 1 .. new, NEW u \in 1 .. new,
                        parent'[t] = parent'[u], parent'[t] # 0
                 PROVE  t = u
      BY <1>2 DEF OneSuccessor, TypeOK, NoToken
    <3>1. t \in 1 .. Len(parent) /\ u \in 1 .. Len(parent)
      BY <1>2, <2>1
    <3>2. DOMAIN parent = 1 .. Len(parent)
      BY DEF TypeOK
    <3> QED
      BY <1>2, <3>1, <3>2 DEF OneFlight, OneSuccessor, NoToken
  <2>5. \A s \in Slots : Rotating(s) =>
          /\ request[s].at # "answered" => Unused(request[s].token)'
          /\ request[s].answer > 0 => Unused(request[s].answer)'
    <3> SUFFICES ASSUME NEW s \in Slots, Rotating(s)
                 PROVE  /\ request[s].at # "answered" => Unused(request[s].token)'
                        /\ request[s].answer > 0 => Unused(request[s].answer)'
      OBVIOUS
    <3>1. request[s].token # 0
      BY SlotTypes DEF SlotsFit
    <3>2. request[s].at # "answered" => \A u \in 1 .. new : parent'[u] # request[s].token
      BY <2>2, <3>1 DEF OneFlight
    <3>3. request[s].answer > 0 => \A u \in 1 .. new : parent'[u] # request[s].answer
      BY <2>2, SlotTypes DEF OneFlight
    <3> QED
      BY <1>2, <1>3, <3>2, <3>3 DEF Unused
  <2>6. Unused(store)'
    BY <1>2, <1>3, <2>3 DEF Unused
  <2> QED
    BY <1>3, <2>4, <2>5, <2>6 DEF OneFlight, Rotating
<1>9. NoOrphans'
  BY <1>3 DEF NoOrphans, TypeOK, NoToken
<1> QED
  BY <1>4, <1>6, <1>7, <1>8, <1>9

-----------------------------------------------------------------------------
(* Each step keeps the invariant.                                          *)

\* What a table of requests is once the answer of call c is taken.
Freed(b, c, q) ==
    q \in [Slots -> Requests] /\
    \A s \in Slots : q[s] = IF s = call[b][c].slot THEN Free ELSE request[s]

\* A slot of a call is not that of a rotation, nor of another call.
LEMMA SlotsApart ==
    ASSUME TypeOK, CallsFit, SlotsOwned, NEW b \in Tabs, NEW c \in Calls,
           call[b][c].slot # None
    PROVE  /\ call[b][c].slot \in Slots
           /\ request[call[b][c].slot].at # "free" /\ request[call[b][c].slot].kind = "revoke"
           /\ \A d \in Tabs : inFlight[d] # call[b][c].slot
           /\ \A d \in Tabs, e \in Calls : d # b \/ e # c => call[d][e].slot # call[b][c].slot
<1>1. call[b][c].slot \in Slots
  BY DEF TypeOK, CallStates
<1>2. request[call[b][c].slot].at # "free" /\ request[call[b][c].slot].kind = "revoke"
  BY DEF CallsFit
<1>3. ASSUME NEW d \in Tabs, inFlight[d] = call[b][c].slot PROVE FALSE
  <2>1. Rotating(call[b][c].slot)
    BY <1>1, <1>3, Slot DEF SlotsOwned
  <2> QED
    BY <1>2, <2>1 DEF Rotating
<1>4. ASSUME NEW d \in Tabs, NEW e \in Calls, d # b \/ e # c, call[d][e].slot = call[b][c].slot
      PROVE  FALSE
  BY <1>4 DEF CallsFit
<1> QED
  BY <1>1, <1>2, <1>3, <1>4

\* The requests of other calls are as they were, if only the slot of c, and one that is
\* free then, have changed.
LEMMA OthersGoOn ==
    ASSUME TypeOK, CallsFit, SlotsOwned, NEW b \in Tabs, NEW c \in Calls,
           \A s \in Slots : \/ request'[s] = request[s] \/ s = call[b][c].slot
                            \/ request[s].at = "free"
    PROVE  Others(b, c)
<1> SUFFICES ASSUME NEW d \in Tabs, NEW e \in Calls, d # b \/ e # c, call[d][e].slot # None
             PROVE  /\ request'[call[d][e].slot].at # "free"
                    /\ request'[call[d][e].slot].kind = "revoke"
  BY DEF Others
<1>1. /\ call[d][e].slot \in Slots /\ call[b][c].slot # call[d][e].slot
      /\ request[call[d][e].slot].at # "free" /\ request[call[d][e].slot].kind = "revoke"
  BY SlotsApart
<1> QED
  BY <1>1

LEMMA RotateOrJoinStep ==
    ASSUME SessionInv, TypeOK', PagesFit', NEW b \in Tabs, NEW c \in Calls, NEW freed,
           b \in open, Freed(b, c, freed), RotateOrJoin(b, c, freed),
           rows' = rows, expired' = expired, parent' = parent, lost' = lost, loads' = loads
    PROVE  SessionInv'
<1>1. TypeOK /\ PagesFit /\ CallsFit /\ TokensFit /\ SlotsOwned
  BY DEF SessionInv, TokensFit
<1> DEFINE mine == call[b][c].slot
<1>2. mine # None => /\ mine \in Slots /\ request[mine].kind = "revoke"
                     /\ \A d \in Tabs : inFlight[d] # mine
  BY <1>1, SlotsApart
<1>3. \A s \in Slots : freed[s] = request[s] \/ (s = mine /\ freed[s] = Free)
  BY DEF Freed
<1>4. Free.at = "free" /\ Free.answer = NoToken
  BY DEF Free
<1>5. NoCall \in CallStates /\ NoCall.slot = None /\ NoCall.kind = "api"
  BY DEF NoCall, CallStates, NoToken
<1>6. mine \in Slots => mine # None
  BY Slot
<1> HIDE DEF mine
<1>7. ASSUME request' = freed PROVE Others(b, c)
  BY <1>1, <1>3, <1>7, OthersGoOn DEF mine
<1>8. CASE /\ inFlight[b] # None
           /\ call' = [call EXCEPT ![b][c].at = "waiting", ![b][c].slot = None]
           /\ request' = freed
           /\ UNCHANGED <<store, inFlight, signedOut>>
  <2>1. PICK k \in CallStates : /\ k.at = "waiting" /\ k.slot = None
                                /\ call' = [call EXCEPT ![b][c] = k]
    <3>1. call' = Moved(b, c, "waiting", None)
      BY <1>8 DEF Moved
    <3> QED
      BY <1>1, <3>1, CallMoved
  <2>2. CallsFit'
    BY <1>1, <1>7, <1>8, <2>1, CallsFitStep
  <2>3. TokensFit'
    BY <1>1, <1>2, <1>3, <1>4, <1>6, <1>8, TableStep
  <2> QED
    BY <2>2, <2>3 DEF SessionInv
<1>9. CASE /\ inFlight[b] = None /\ store = NoToken
           /\ call' = [call EXCEPT ![b][c] = NoCall]
           /\ request' = freed
           /\ ClearAfterLogout \/ UNCHANGED <<store, signedOut>>
           /\ UNCHANGED inFlight
  <2>1. CallsFit'
    BY <1>1, <1>5, <1>7, <1>9, CallsFitStep
  <2>2. store' = store /\ (signedOut' = signedOut \/ signedOut' = TRUE)
    <3>1. CASE ClearAfterLogout
      BY <1>9, <3>1 DEF ClearAfterLogout
    <3>2. CASE UNCHANGED <<store, signedOut>>
      BY <3>2
    <3> QED
      BY <1>9, <3>1, <3>2
  <2>3. TokensFit'
    <3>1. request' = freed /\ inFlight' = inFlight
      BY <1>9
    <3>2. \A s \in Slots :
            \/ request'[s] = request[s]
            \/ /\ \A d \in Tabs : inFlight[d] # s
               /\ request'[s].at # "free" => request'[s].kind = "revoke"
               /\ request'[s].at # "answered" /\ request'[s].answer = NoToken
      BY <1>2, <1>3, <1>4, <1>6, <3>1
    <3> QED
      BY <1>1, <2>2, <3>1, <3>2, TableStep
  <2> QED
    BY <2>1, <2>3 DEF SessionInv
<1>10. CASE /\ inFlight[b] = None /\ store # NoToken /\ SomeFree(freed)
            /\ request' = [freed EXCEPT ![FreeSlot(freed)] = Rotation]
            /\ inFlight' = [inFlight EXCEPT ![b] = FreeSlot(freed)]
            /\ call' = [call EXCEPT ![b][c].at = "waiting", ![b][c].slot = None]
            /\ UNCHANGED <<store, signedOut>>
  <2> DEFINE s == FreeSlot(freed)
  <2>1. s \in Slots /\ freed[s].at = "free"
    BY <1>10, FreeSlots
  <2>2. request'[s] = Rotation /\ \A r \in Slots \ {s} : request'[r] = freed[r]
    BY <1>10, <2>1 DEF Freed
  <2>3. inFlight' = [inFlight EXCEPT ![b] = s] /\ store' = store /\ signedOut' = signedOut
    BY <1>10
  <2>4. PICK k \in CallStates : /\ k.at = "waiting" /\ k.slot = None
                                /\ call' = [call EXCEPT ![b][c] = k]
    <3>1. call' = Moved(b, c, "waiting", None)
      BY <1>10 DEF Moved
    <3> QED
      BY <1>1, <3>1, CallMoved
  <2> HIDE DEF s
  <2>5. Others(b, c)
    BY <1>1, <1>3, <2>1, <2>2, OthersGoOn DEF mine
  <2>6. CallsFit'
    BY <1>1, <2>4, <2>5, CallsFitStep
  <2>7. request[s].at = "free" \/ request[s].kind = "revoke"
    BY <1>2, <1>3, <1>6, <2>1
  <2>8. \A r \in Slots \ {s} : request'[r] = request[r] \/ (request[r].kind = "revoke" /\ request'[r] = Free)
    BY <1>2, <1>3, <1>6, <2>2
  <2>9. TokensFit'
    BY <1>1, <1>10, <2>1, <2>2, <2>3, <2>7, <2>8, RotationStarts
  <2> QED
    BY <2>6, <2>9 DEF SessionInv
<1> QED
  BY <1>8, <1>9, <1>10 DEF RotateOrJoin

LEMMA ServerStepKeeps ==
    ASSUME SessionInv, TypeOK', PagesFit', NEW s \in Slots, ServerNext(s) \/ LoseAnswer(s)
    PROVE  SessionInv'
<1>1. TypeOK /\ PagesFit /\ CallsFit /\ TokensFit /\ SlotsFit
  BY DEF SessionInv, TokensFit
<1>2. /\ store' = store /\ call' = call /\ inFlight' = inFlight /\ signedOut' = signedOut
      /\ loads' = loads
  BY DEF ServerNext, LoseAnswer, client, counters
<1>3. ServerNext(s) => lost' = lost
  BY DEF ServerNext, counters
<1>4. request \in [Slots -> Requests] /\ lost \in Nat /\ lost' \in Nat
  BY <1>1 DEF TypeOK
<1>5. request[s].at # "free" /\ request[s].kind \in {"rotate", "revoke"}
  BY SlotTypes, <1>1 DEF ServerNext, ServerStep, Lookup, Rotate, Revoke, LoseAnswer, Refuse
<1>6. CASE Rotate(s) /\ lost' = lost
  <2>1. /\ request'[s].at = "answered" /\ request'[s].kind = request[s].kind
        /\ \A r \in Slots \ {s} : request'[r] = request[r]
    BY <1>4, <1>6 DEF Rotate, Answer, Requests
  <2>2. CallsFit'
    BY <1>1, <1>2, <2>1, CallsFitKept
  <2> QED
    BY <1>1, <1>2, <1>6, <2>2, RotateStep DEF SessionInv
<1>7. ASSUME parent' = parent, rows' \subseteq rows, expired' = expired, lost <= lost',
             NEW a \in {Unauthorized, Revoked, ServerError}, Answer(s, a),
             request[s].kind = "rotate" =>
               lost' > 0 \/ request[s].token \notin rows \ expired,
             lost' = 0 => request[s].answer = NoToken
      PROVE  SessionInv'
  <2>1. /\ request'[s].at = "answered" /\ request'[s].kind = request[s].kind
        /\ request'[s].token = request[s].token /\ request'[s].answer = a
        /\ \A r \in Slots \ {s} : request'[r] = request[r]
    BY <1>4, <1>7 DEF Answer, Requests
  <2>2. a <= 0
    BY <1>7 DEF Unauthorized, Revoked, ServerError
  <2>3. CallsFit'
    BY <1>1, <1>2, <2>1, CallsFitKept
  <2>4. TokensFit'
    BY <1>1, <1>2, <1>5, <1>7, <2>1, <2>2, AnswerStep DEF Rotating
  <2> QED
    BY <2>3, <2>4 DEF SessionInv
<1>8. CASE Lookup(s) /\ lost' = lost
  <2>1. CASE Found(request[s].kind, request[s].token)
    <3>1. request' = [request EXCEPT ![s].at = "commit"]
      BY <1>8, <2>1 DEF Lookup
    <3>2. /\ request'[s].at = "commit" /\ request'[s].kind = request[s].kind
          /\ request'[s].token = request[s].token /\ request'[s].answer = request[s].answer
          /\ \A r \in Slots \ {s} : request'[r] = request[r]
      BY <1>4, <3>1 DEF Requests
    <3>3. request[s].at = "lookup" /\ request[s].answer = NoToken
      BY <1>1, <1>8 DEF Lookup, SlotsFit
    <3>4. CallsFit'
      BY <1>1, <1>2, <3>2, CallsFitKept
    <3>5. parent' = parent /\ rows' = rows /\ expired' = expired /\ lost' = lost /\ lost <= lost'
      BY <1>4, <1>8 DEF Lookup
    <3>6. TokensFit'
      BY <1>1, <1>2, <1>5, <3>2, <3>3, <3>5, AnswerStep DEF NoToken
    <3> QED
      BY <3>4, <3>6 DEF SessionInv
  <2>2. CASE ~Found(request[s].kind, request[s].token)
    <3>1. Answer(s, Unauthorized) /\ request[s].answer = NoToken
      BY <1>1, <1>8, <2>2 DEF Lookup, SlotsFit
    <3>2. request[s].kind = "rotate" => request[s].token \notin rows \ expired
      BY <2>2 DEF Found
    <3> QED
      BY <1>4, <1>7, <1>8, <3>1, <3>2 DEF Lookup
  <2> QED
    BY <2>1, <2>2
<1>9. CASE Revoke(s) /\ lost' = lost
  <2>1. Answer(s, Revoked) /\ request[s].kind = "revoke" /\ request[s].answer = NoToken
    BY <1>1, <1>9 DEF Revoke, SlotsFit
  <2> QED
    BY <1>4, <1>7, <1>9, <2>1 DEF Revoke
<1>10. CASE LoseAnswer(s)
  <2>1. lost' > 0 /\ lost <= lost'
    BY <1>4, <1>10 DEF LoseAnswer
  <2>2. Answer(s, ServerError) /\ parent' = parent /\ rows' = rows /\ expired' = expired
    BY <1>10 DEF LoseAnswer, Refuse
  <2> QED
    BY <1>4, <1>7, <2>1, <2>2
<1> QED
  BY <1>3, <1>6, <1>8, <1>9, <1>10 DEF ServerNext, ServerStep

LEMMA RotationEndKeeps ==
    ASSUME SessionInv, TypeOK', PagesFit', NEW b \in Tabs, RotationSucceeds(b) \/ RotationFails(b)
    PROVE  SessionInv'
<1>1. TypeOK /\ PagesFit /\ CallsFit /\ TokensFit /\ SlotsOwned
  BY DEF SessionInv, TokensFit
<1>2. TokensFit'
  BY <1>1, RotationEnds
<1> DEFINE s == inFlight[b]
<1>3. s \in Slots
  BY <1>1 DEF RotationSucceeds, RotationFails, TypeOK
<1>4. request \in [Slots -> Requests] /\ call \in [Tabs -> [Calls -> CallStates]]
  BY <1>1 DEF TypeOK
<1>5. \A r \in Slots \ {s} : request'[r] = request[r]
  BY <1>3, <1>4 DEF RotationSucceeds, RotationFails, Release
<1>6. ASSUME NEW c \in Calls
      PROVE  \/ call'[b][c] = call[b][c]
             \/ /\ call[b][c].slot = None /\ call'[b][c].slot = None
                /\ call'[b][c].at \notin {"sent", "resent"}
  <2>1. call[b][c].at = "waiting" => call[b][c].slot = None
    BY <1>1 DEF CallsFit
  <2>2. CASE call[b][c].at # "waiting"
    BY <1>4, <2>2 DEF RotationSucceeds, RotationFails
  <2>3. CASE call[b][c].at = "waiting"
    <3>1. call'[b][c] = [call[b][c] EXCEPT !.at = "replay"] \/ call'[b][c] = NoCall
      <4>1. CASE RotationSucceeds(b)
        BY <1>4, <2>3, <4>1 DEF RotationSucceeds
      <4>2. CASE RotationFails(b)
        BY <1>4, <2>3, <4>2 DEF RotationFails
      <4> QED
        BY <4>1, <4>2
    <3>2. [call[b][c] EXCEPT !.at = "replay"].at = "replay"
          /\ [call[b][c] EXCEPT !.at = "replay"].slot = call[b][c].slot
      BY <1>4 DEF CallStates
    <3>3. NoCall.at = "idle" /\ NoCall.slot = None
      BY DEF NoCall
    <3> QED
      BY <2>1, <2>3, <3>1, <3>2, <3>3
  <2> QED
    BY <2>2, <2>3
<1>7. ASSUME NEW d \in Tabs, NEW c \in Calls, call[d][c].slot # None
      PROVE  call[d][c].slot \in Slots /\ call[d][c].slot # s
  BY <1>1, <1>7, SlotsApart
<1> HIDE DEF s
<1>8. \A d \in Tabs \ {b} : call'[d] = call[d]
  BY <1>4 DEF RotationSucceeds, RotationFails
<1>9. ASSUME NEW d \in Tabs, NEW c \in Calls
      PROVE  /\ call'[d][c].slot = call[d][c].slot
             /\ \/ call'[d][c] = call[d][c]
                \/ call[d][c].slot = None /\ call'[d][c].at \notin {"sent", "resent"}
  <2>1. CASE d = b
    BY <1>6, <2>1
  <2>2. CASE d # b
    BY <1>8, <2>2
  <2> QED
    BY <2>1, <2>2
<1>10. CallsFit'
  <2>1. ASSUME NEW d \in Tabs, NEW c \in Calls
        PROVE  /\ call'[d][c].slot # None <=> call'[d][c].kind = "logout" /\ call'[d][c].at \in {"sent", "resent"}
               /\ call'[d][c].slot # None =>
                    /\ request'[call'[d][c].slot].at # "free"
                    /\ request'[call'[d][c].slot].kind = "revoke"
                    /\ \A x \in Tabs, y \in Calls : call'[x][y].slot = call'[d][c].slot => x = d /\ y = c
    <3>1. CASE call'[d][c] = call[d][c]
      BY <1>1, <1>5, <1>7, <1>9, <3>1 DEF CallsFit
    <3>2. CASE call[d][c].slot = None /\ call'[d][c].at \notin {"sent", "resent"}
      BY <1>9, <3>2
    <3> QED
      BY <1>9, <3>1, <3>2
  <2> QED
    BY <2>1 DEF CallsFit
<1> QED
  BY <1>1, <1>2, <1>10 DEF SessionInv

LEMMA CallStep ==
    ASSUME SessionInv, TypeOK', PagesFit', NEW b \in Tabs, NEW c \in Calls,
           \/ CallAnswered(b, c) \/ LogoutAnswered(b, c) \/ Replay(b, c)
           \/ SendCall(b, c) \/ SendLogout(b, c)
    PROVE  SessionInv'
<1>1. TypeOK /\ PagesFit /\ CallsFit /\ TokensFit /\ SlotsOwned
  BY DEF SessionInv, TokensFit
<1>2. request \in [Slots -> Requests] /\ call[b][c] \in CallStates
  BY <1>1 DEF TypeOK
<1>3. NoCall \in CallStates /\ NoCall.slot = None /\ NoCall.kind = "api"
  BY DEF NoCall, CallStates, NoToken
<1>4. Free \in Requests /\ Free.at = "free" /\ Free.answer = NoToken
  BY DEF Free, Requests, NoToken
<1>5. /\ parent' = parent /\ rows' = rows /\ expired' = expired
      /\ lost' = lost /\ loads' = loads
  BY DEF CallAnswered, LogoutAnswered, Replay, SendCall, server, SendLogout, counters
<1>6. ASSUME NEW k \in CallStates, call' = [call EXCEPT ![b][c] = k],
             k.slot = None, ~(k.kind = "logout" /\ k.at \in {"sent", "resent"}),
             store' = store \/ (store' = NoToken /\ loads # 0),
             UNCHANGED <<request, inFlight, signedOut>>
      PROVE  SessionInv'
  <2>1. Others(b, c)
    BY <1>1, <1>6, OthersGoOn
  <2>2. CallsFit'
    BY <1>1, <1>6, <2>1, CallsFitStep
  <2>3. TokensFit'
    BY <1>1, <1>5, <1>6, TableStep
  <2> QED
    BY <2>2, <2>3 DEF SessionInv
\* A logout sends its request, in a slot that was free.
<1>7. ASSUME NEW k \in CallStates, NEW s \in Slots, call' = [call EXCEPT ![b][c] = k],
             k.slot = s, k.kind = "logout", k.at \in {"sent", "resent"},
             request[s].at = "free", NEW t, Receive(s, "revoke", t),
             UNCHANGED <<store, inFlight, signedOut>>
      PROVE  SessionInv'
  <2>1. /\ request'[s] = [at |-> "lookup", kind |-> "revoke", token |-> t, answer |-> NoToken]
        /\ \A r \in Slots \ {s} : request'[r] = request[r]
    BY <1>2, <1>7 DEF Receive
  <2>2. request'[s].at = "lookup" /\ request'[s].kind = "revoke" /\ request'[s].answer = NoToken
    BY <2>1
  <2>3. Others(b, c)
    BY <1>1, <1>7, <2>1, OthersGoOn
  <2>4. CallsFit'
    BY <1>1, <1>7, <2>2, <2>3, Slot, CallsFitStep
  <2>5. \A d \in Tabs : inFlight[d] # s
    BY <1>1, <1>7, Slot DEF SlotsOwned, Rotating
  <2>6. TokensFit'
    BY <1>1, <1>5, <1>7, <2>1, <2>2, <2>5, TableStep
  <2> QED
    BY <2>4, <2>6 DEF SessionInv
<1>8. CASE CallAnswered(b, c)
  <2>1. call[b][c].slot = None
    BY <1>1, <1>8 DEF CallAnswered, CallsFit
  <2>2. b \in open
    BY <1>1, <1>8 DEF CallAnswered, PagesFit
  <2>3. CASE call' = [call EXCEPT ![b][c] = NoCall] /\ UNCHANGED <<request, store, inFlight, signedOut>>
    BY <1>3, <1>6, <2>3
  <2>4. CASE /\ call' = [call EXCEPT ![b][c] = NoCall]
             /\ store' = (IF call[b][c].kind = "me" THEN NoToken ELSE store)
             /\ UNCHANGED <<request, inFlight, signedOut>>
    <3>1. store' = store \/ (store' = NoToken /\ loads # 0)
      BY <1>1, <2>4 DEF PagesFit
    <3> QED
      BY <1>3, <1>6, <2>4, <3>1
  <2>5. CASE RotateOrJoin(b, c, request)
    <3>1. Freed(b, c, request)
      BY <1>1, <2>1, Slot DEF Freed, TypeOK
    <3> QED
      BY <1>5, <2>2, <2>5, <3>1, RotateOrJoinStep
  <2> QED
    BY <1>8, <2>3, <2>4, <2>5 DEF CallAnswered
<1>9. CASE LogoutAnswered(b, c)
  <2> DEFINE s == call[b][c].slot
  <2>1. s # None
    BY <1>1, <1>9 DEF LogoutAnswered, CallsFit
  <2>2. /\ s \in Slots /\ request[s].kind = "revoke"
        /\ \A d \in Tabs : inFlight[d] # s
    BY <1>1, <2>1, SlotsApart
  <2>2a. b \in open
    BY <1>1, <1>9 DEF LogoutAnswered, PagesFit
  <2>3. Freed(b, c, Release(s))
    BY <1>2, <1>4, <2>2 DEF Freed, Release
  <2>4. CASE call[b][c].at = "sent" /\ request[s].answer = Unauthorized
    <3>1. RotateOrJoin(b, c, Release(s))
      BY <1>9, <2>4 DEF LogoutAnswered
    <3> QED
      BY <1>5, <2>2a, <2>3, <3>1, RotateOrJoinStep
  <2>5. CASE ~(call[b][c].at = "sent" /\ request[s].answer = Unauthorized)
    <3>1. /\ call' = [call EXCEPT ![b][c] = NoCall]
          /\ request' = Release(s)
          /\ ClearAfterLogout
          /\ inFlight' = inFlight
      BY <1>9, <2>5 DEF LogoutAnswered
    <3>2. request'[s] = Free /\ \A r \in Slots \ {s} : request'[r] = request[r]
      BY <2>2, <2>3, <3>1 DEF Freed
    <3>3. store' = NoToken /\ signedOut' = TRUE
      BY <3>1 DEF ClearAfterLogout
    <3>4. Others(b, c)
      BY <1>1, <3>2, OthersGoOn
    <3>5. CallsFit'
      BY <1>1, <1>3, <3>1, <3>4, CallsFitStep
    <3> HIDE DEF s
    <3>6. TokensFit'
      BY <1>1, <1>4, <1>5, <2>2, <3>1, <3>2, <3>3, TableStep
    <3> QED
      BY <3>5, <3>6 DEF SessionInv
  <2> QED
    BY <2>4, <2>5
<1>10. CASE Replay(b, c)
  <2>1. CASE call[b][c].kind \in {"api", "me"}
    <3> DEFINE k == [call[b][c] EXCEPT !.at = "resent", !.token = store]
    <3>1. store \in Nat /\ call \in [Tabs -> [Calls -> CallStates]] /\ call[b][c].slot = None
      BY <1>1, <2>1 DEF CallsFit, TypeOK
    <3>2. k \in CallStates /\ k.slot = None /\ k.kind = call[b][c].kind
      BY <1>2, <3>1 DEF CallStates
    <3>3. call' = [call EXCEPT ![b][c] = k] /\ UNCHANGED <<request, store, inFlight, signedOut>>
      BY <1>10, <2>1, <3>1 DEF Replay
    <3> HIDE DEF k
    <3> QED
      BY <1>6, <2>1, <3>2, <3>3
  <2>2. CASE call[b][c].kind = "logout"
    <3> DEFINE s == FreeSlot(request)
    <3>1. s \in Slots /\ request[s].at = "free"
      BY <1>10, <2>2, FreeSlots DEF Replay
    <3>2. call' = Moved(b, c, "resent", s) /\ Receive(s, "revoke", call[b][c].token)
          /\ UNCHANGED <<store, inFlight, signedOut>>
      BY <1>10, <2>2 DEF Replay, Moved
    <3> HIDE DEF s
    <3>3. PICK k \in CallStates : /\ k.at = "resent" /\ k.slot = s /\ k.kind = "logout"
                                  /\ call' = [call EXCEPT ![b][c] = k]
      BY <1>1, <2>2, <3>1, <3>2, CallMoved
    <3> QED
      BY <1>7, <3>1, <3>2, <3>3
  <2> QED
    BY <1>10, <2>1, <2>2 DEF Replay
<1>11. CASE SendCall(b, c)
  <2> DEFINE K(n, t) == [n EXCEPT !.at = "sent", !.token = t]
  <2>1. ASSUME NEW n \in CallStates, NEW t \in Nat
        PROVE  /\ K(n, t) \in CallStates /\ K(n, t).slot = n.slot /\ K(n, t).kind = n.kind
    BY DEF CallStates
  <2>2. call' = [call EXCEPT ![b][c] = K(NoCall, store)]
        /\ UNCHANGED <<request, store, inFlight, signedOut>>
    BY <1>11 DEF SendCall, server
  <2> HIDE DEF K
  <2>3. store \in Nat
    BY <1>1 DEF TypeOK
  <2>4. /\ K(NoCall, store) \in CallStates /\ K(NoCall, store).slot = None
        /\ K(NoCall, store).kind = "api"
    BY <1>3, <2>1, <2>3
  <2> QED
    BY <1>6, <2>2, <2>4
<1>12. CASE SendLogout(b, c)
  <2> DEFINE s == FreeSlot(request)
             k == [at |-> "sent", kind |-> "logout", token |-> store, slot |-> s]
  <2>1. s \in Slots /\ request[s].at = "free"
    BY <1>12, FreeSlots DEF SendLogout
  <2>2. call' = [call EXCEPT ![b][c] = k] /\ Receive(s, "revoke", store)
        /\ UNCHANGED <<store, inFlight, signedOut>>
    BY <1>12 DEF SendLogout
  <2> HIDE DEF s
  <2>3. k \in CallStates /\ k.at = "sent" /\ k.slot = s /\ k.kind = "logout"
    BY <1>1, <2>1 DEF CallStates, TypeOK
  <2> HIDE DEF k
  <2> QED
    BY <1>7, <2>1, <2>2, <2>3
<1> QED
  BY <1>8, <1>9, <1>10, <1>11, <1>12

\* What is done in a tab is done in one that is open.
LEMMA PagesStep ==
    ASSUME TypeOK, PagesFit, [Next]_vars
    PROVE  PagesFit'
<1>1. /\ call \in [Tabs -> [Calls -> CallStates]] /\ inFlight \in [Tabs -> Slots \cup {None}]
      /\ loads \in Nat
  BY DEF TypeOK
<1>2. NoCall.at = "idle" /\ NoCall.kind = "api"
  BY DEF NoCall
\* A step in a tab that is open, which loads no page.
<1>3. ASSUME NEW b \in open, UNCHANGED <<open, loads>>,
             \A d \in Tabs \ {b} : inFlight'[d] = inFlight[d] /\ call'[d] = call[d],
             \A c \in Calls : call'[b][c].kind = "me" => call[b][c].kind = "me"
      PROVE  PagesFit'
  BY <1>3 DEF PagesFit
\* So do the steps of a call.
<1>4. ASSUME NEW b \in open, b \in Tabs, NEW c \in Calls, NEW k,
             call' = [call EXCEPT ![b][c] = k], k.kind = "me" => call[b][c].kind = "me",
             \A d \in Tabs \ {b} : inFlight'[d] = inFlight[d], UNCHANGED <<open, loads>>
      PROVE  PagesFit'
  BY <1>1, <1>3, <1>4
<1>5. ASSUME NEW b \in open, b \in Tabs, NEW c \in Calls, NEW freed, RotateOrJoin(b, c, freed),
             UNCHANGED <<open, loads>>
      PROVE  PagesFit'
  <2>1. \A d \in Tabs \ {b} : inFlight'[d] = inFlight[d] /\ call'[d] = call[d]
    BY <1>1, <1>5 DEF RotateOrJoin
  <2>2. ASSUME call' = [call EXCEPT ![b][c].at = "waiting", ![b][c].slot = None]
        PROVE  \A e \in Calls : call'[b][e].kind = call[b][e].kind
    <3>0. call' = Moved(b, c, "waiting", None)
      BY <2>2 DEF Moved
    <3>1. PICK k \in CallStates : k.kind = call[b][c].kind /\ call' = [call EXCEPT ![b][c] = k]
      BY <1>5, <3>0, CallMoved
    <3> QED
      BY <1>1, <3>1
  <2>3. \A e \in Calls : call'[b][e].kind = "me" => call[b][e].kind = "me"
    BY <1>1, <1>2, <1>5, <2>2 DEF RotateOrJoin
  <2> QED
    BY <1>3, <1>5, <2>1, <2>3
<1>6. ASSUME NEW b \in Tabs, NEW c \in Calls, CallAnswered(b, c) PROVE PagesFit'
  <2>1. b \in open /\ UNCHANGED <<open, loads>>
    BY <1>6 DEF CallAnswered, PagesFit, counters
  <2>2. CASE call' = [call EXCEPT ![b][c] = NoCall] /\ inFlight' = inFlight
    BY <1>2, <1>4, <2>1, <2>2
  <2>3. CASE RotateOrJoin(b, c, request)
    BY <1>5, <2>1, <2>3
  <2> QED
    BY <1>6, <2>2, <2>3 DEF CallAnswered
<1>7. ASSUME NEW b \in Tabs, NEW c \in Calls, LogoutAnswered(b, c) PROVE PagesFit'
  <2>1. b \in open /\ UNCHANGED <<open, loads>>
    BY <1>7 DEF LogoutAnswered, PagesFit, counters
  <2>2. CASE call' = [call EXCEPT ![b][c] = NoCall] /\ inFlight' = inFlight
    BY <1>2, <1>4, <2>1, <2>2
  <2>3. CASE RotateOrJoin(b, c, Release(call[b][c].slot))
    BY <1>5, <2>1, <2>3
  <2> QED
    BY <1>7, <2>2, <2>3 DEF LogoutAnswered
<1>8. ASSUME NEW b \in Tabs, NEW c \in Calls, Replay(b, c) PROVE PagesFit'
  <2>1. b \in open /\ UNCHANGED <<open, loads, inFlight>>
    BY <1>8 DEF Replay, PagesFit, counters
  <2>2. \E k : call' = [call EXCEPT ![b][c] = k] /\ k.kind = call[b][c].kind
    <3> DEFINE K(n) == [n EXCEPT !.at = "resent", !.token = store]
    <3>1. \A n \in CallStates : K(n).kind = n.kind
      BY DEF CallStates
    <3>2. CASE call' = [call EXCEPT ![b][c] = K(call[b][c])]
      <4>1. call[b][c] \in CallStates
        BY <1>1, <1>8
      <4> HIDE DEF K
      <4> QED
        BY <3>1, <3>2, <4>1
    <3>3. CASE call' = Moved(b, c, "resent", FreeSlot(request)) /\ SomeFree(request)
      BY <3>3, FreeSlots, CallMoved
    <3>4. [call EXCEPT ![b][c].at = "resent", ![b][c].token = store]
          = [call EXCEPT ![b][c] = K(call[b][c])]
      BY <1>1
    <3> HIDE DEF K
    <3> QED
      BY <1>8, <3>2, <3>3, <3>4 DEF Replay, Moved
  <2> QED
    BY <1>4, <2>1, <2>2
<1>9. ASSUME NEW b \in Tabs, NEW c \in Calls, SendCall(b, c) \/ SendLogout(b, c) PROVE PagesFit'
  <2>1. b \in open /\ UNCHANGED <<open, loads, inFlight>>
    BY <1>9 DEF SendCall, SendLogout, counters
  <2>2. \E k : call' = [call EXCEPT ![b][c] = k] /\ k.kind # "me"
    <3>1. [NoCall EXCEPT !.at = "sent", !.token = store].kind = "api"
      BY DEF NoCall
    <3>2. CASE SendCall(b, c)
      BY <3>1, <3>2 DEF SendCall
    <3>3. CASE SendLogout(b, c)
      <4> DEFINE k == [at |-> "sent", kind |-> "logout", token |-> store, slot |-> FreeSlot(request)]
      <4>1. k.kind = "logout" /\ call' = [call EXCEPT ![b][c] = k]
        BY <3>3 DEF SendLogout
      <4> HIDE DEF k
      <4> QED
        BY <4>1
    <3> QED
      BY <1>9, <3>2, <3>3
  <2> QED
    BY <1>4, <2>1, <2>2
<1>10. ASSUME NEW b \in Tabs, RotationSucceeds(b) \/ RotationFails(b) PROVE PagesFit'
  <2>1. b \in open /\ UNCHANGED <<open, loads>>
    BY <1>10 DEF RotationSucceeds, RotationFails, PagesFit, counters
  <2>2. \A d \in Tabs \ {b} : inFlight'[d] = inFlight[d] /\ call'[d] = call[d]
    BY <1>1, <1>10 DEF RotationSucceeds, RotationFails
  <2>3. ASSUME NEW c \in Calls PROVE call'[b][c].kind = "me" => call[b][c].kind = "me"
    <3>1. \/ call'[b][c] = call[b][c]
          \/ call'[b][c] = [call[b][c] EXCEPT !.at = "replay"]
          \/ call'[b][c] = NoCall
      BY <1>1, <1>10 DEF RotationSucceeds, RotationFails
    <3>2. [call[b][c] EXCEPT !.at = "replay"].kind = call[b][c].kind
      BY <1>1 DEF CallStates
    <3> QED
      BY <1>2, <3>1, <3>2
  <2> QED
    BY <1>3, <2>1, <2>2, <2>3
<1>11. ASSUME NEW b \in Tabs, Reload(b) \/ OpenTab(b) PROVE PagesFit'
  <2>1. /\ Hydrate(b) /\ open' = open \cup {b} /\ loads' # 0
        /\ \A d \in Tabs \ {b} : inFlight'[d] = inFlight[d]
    BY <1>1, <1>11 DEF Reload, OpenTab
  <2>2. \A d \in Tabs \ {b} : call'[d] = call[d]
    BY <2>1, Hydrated
  <2> QED
    BY <2>1, <2>2 DEF PagesFit
<1>12. CASE UNCHANGED <<open, loads, inFlight, call>>
  BY <1>12 DEF PagesFit
<1>13. ASSUME NEW b \in Tabs, Login(b) PROVE UNCHANGED <<open, loads, inFlight, call>>
  BY <1>13 DEF Login, counters
<1>14. ASSUME NEW s \in Slots, ServerNext(s) \/ LoseAnswer(s) \/ Discard(s)
       PROVE  UNCHANGED <<open, loads, inFlight, call>>
  BY <1>14 DEF ServerNext, LoseAnswer, Discard, client, counters
<1>15. ASSUME NEW t \in DOMAIN parent, Age(t) PROVE UNCHANGED <<open, loads, inFlight, call>>
  BY <1>15 DEF Age, client, counters
<1>16. UNCHANGED vars => UNCHANGED <<open, loads, inFlight, call>>
  BY DEF vars, client, counters
<1> QED
  BY <1>6, <1>7, <1>8, <1>9, <1>10, <1>11, <1>12, <1>13, <1>14, <1>15, <1>16 DEF Next, ClientNext

LEMMA SessionStep ==
    ASSUME SessionInv, [Next]_vars
    PROVE  SessionInv'
<1>1. TypeOK /\ CallsFit /\ TokensFit /\ PagesFit /\ TypeOK' /\ PagesFit'
  BY TypeStep, PagesStep DEF SessionInv
<1>2. ASSUME NEW t \in DOMAIN parent, Age(t) PROVE SessionInv'
  <2>1. /\ parent' = parent /\ rows' = rows /\ request' = request /\ store' = store
        /\ call' = call /\ inFlight' = inFlight /\ signedOut' = signedOut
        /\ lost' = lost /\ loads' = loads /\ expired \subseteq expired'
    BY <1>2 DEF Age, client, counters
  <2>2. CallsFit'
    BY <1>1, <2>1, CallsFitKept
  <2>3. TokensFit'
    BY <1>1, <2>1, TableStep
  <2> QED
    BY <1>1, <2>2, <2>3 DEF SessionInv
<1>3. ASSUME NEW b \in Tabs, Login(b) PROVE SessionInv'
  <2>1. CallsFit'
    BY <1>1, <1>3, CallsFitKept DEF Login
  <2> QED
    BY <1>1, <1>3, <2>1, LoginStep DEF SessionInv
<1>4. ASSUME NEW b \in Tabs, Reload(b) \/ OpenTab(b) PROVE SessionInv'
  <2>1. /\ parent' = parent /\ rows' = rows /\ expired' = expired /\ request' = request
        /\ lost' = lost /\ loads' = loads + 1 /\ Hydrate(b)
    BY <1>4 DEF Reload, OpenTab, server
  <2>2. \A d \in Tabs : inFlight'[d] = inFlight[d] \/ inFlight'[d] = None
    BY <1>1, <1>4 DEF Reload, OpenTab, TypeOK
  <2>3. loads' # 0
    BY <1>1, <2>1 DEF TypeOK
  <2>4. \A d \in Tabs, c \in Calls :
          call'[d][c] = call[d][c] \/ (call'[d][c].slot = None /\ call'[d][c].kind # "logout")
    <3>1. /\ \A d \in Tabs \ {b} : call'[d] = call[d]
          /\ \A c \in Calls : call'[b][c].slot = None /\ call'[b][c].kind \in {"api", "me"}
      BY <1>1, <2>1, Hydrated
    <3> QED
      BY <3>1
  <2>5. CallsFit'
    BY <1>1, <2>1, <2>4 DEF CallsFit
  <2>6. SlotsOwned'
    BY <1>1, <2>1, <2>2 DEF TokensFit, SlotsOwned, Rotating
  <2>7. ParentsAreOlder' /\ SlotsFit' /\ FlightFits' /\ OneFlight' /\ NoOrphans'
    BY <1>1, <2>1, <2>3
       DEF TokensFit, ParentsAreOlder, SlotsFit, Rotating, Valid, FlightFits, OneFlight, NoOrphans
  <2> QED
    BY <1>1, <2>5, <2>6, <2>7 DEF SessionInv, TokensFit
<1>5. ASSUME NEW b \in Tabs, RotationSucceeds(b) \/ RotationFails(b) PROVE SessionInv'
  BY <1>1, <1>5, RotationEndKeeps
<1>6. ASSUME NEW b \in Tabs, NEW c \in Calls,
             \/ CallAnswered(b, c) \/ LogoutAnswered(b, c) \/ Replay(b, c)
             \/ SendCall(b, c) \/ SendLogout(b, c)
      PROVE  SessionInv'
  BY <1>1, <1>6, CallStep
<1>7. ASSUME NEW s \in Slots, ServerNext(s) \/ LoseAnswer(s) PROVE SessionInv'
  BY <1>1, <1>7, ServerStepKeeps
<1>8. ASSUME NEW s \in Slots, Discard(s) PROVE SessionInv'
  <2>1. /\ parent' = parent /\ rows' = rows /\ expired' = expired /\ store' = store
        /\ call' = call /\ inFlight' = inFlight /\ signedOut' = signedOut
        /\ lost' = lost /\ loads' = loads
    BY <1>8 DEF Discard, client, counters
  <2>2. request'[s] = Free /\ \A r \in Slots \ {s} : request'[r] = request[r]
    BY <1>1, <1>8 DEF Discard, Release, TypeOK
  <2>3. \A b \in Tabs : inFlight[b] # s /\ \A c \in Calls : call[b][c].slot # s
    BY <1>8 DEF Discard
  <2>4. CallsFit'
    BY <1>1, <2>1, <2>2, <2>3, CallsFitKept
  <2>5. Free.at = "free" /\ Free.answer = NoToken
    BY DEF Free
  <2>6. TokensFit'
    BY <1>1, <2>1, <2>2, <2>3, <2>5, TableStep
  <2> QED
    BY <1>1, <2>4, <2>6 DEF SessionInv
<1>9. CASE UNCHANGED vars
  <2>1. /\ parent' = parent /\ rows' = rows /\ expired' = expired /\ store' = store
        /\ request' = request /\ call' = call /\ inFlight' = inFlight
        /\ signedOut' = signedOut /\ lost' = lost /\ loads' = loads
    BY <1>9 DEF vars, server, client, counters
  <2>2. CallsFit'
    BY <1>1, <2>1, CallsFitKept
  <2>3. TokensFit'
    BY <1>1, <2>1, TableStep
  <2> QED
    BY <1>1, <2>2, <2>3 DEF SessionInv
<1> QED
  BY <1>2, <1>3, <1>4, <1>5, <1>6, <1>7, <1>8, <1>9 DEF Next, ClientNext

LEMMA SessionStart ==
    ASSUME Init PROVE TypeOK => SessionInv
<1>1. /\ rows = {} /\ store = NoToken /\ parent = <<>>
      /\ \A b \in Tabs : inFlight[b] = None /\ \A c \in Calls : call[b][c] = NoCall
      /\ \A s \in Slots : request[s] = Free
  BY DEF Init, ServerInit
<1>2. Len(parent) = 0 /\ DOMAIN parent = {}
  BY <1>1
<1>3. CallsFit
  BY <1>1 DEF CallsFit, NoCall
<1>4. \A s \in Slots : request[s].at = "free" /\ request[s].kind = "rotate" /\ request[s].answer = 0
  BY <1>1 DEF Free, NoToken
<1>5. ParentsAreOlder
  BY <1>2 DEF ParentsAreOlder
<1>6. SlotsFit
  BY <1>4 DEF SlotsFit, Rotating, NoToken
<1>6a. PagesFit
  BY <1>1, ClientAssumption DEF Init, PagesFit, NoCall
<1>7. SlotsOwned /\ FlightFits /\ OneFlight /\ NoOrphans
  BY <1>1, <1>2, <1>4 DEF SlotsOwned, FlightFits, OneFlight, Rotating, OneSuccessor, NoOrphans
<1> QED
  BY <1>3, <1>5, <1>6, <1>6a, <1>7 DEF SessionInv, TokensFit

LEMMA SessionInvHolds == Spec => []SessionInv
<1>1. Init => SessionInv
  BY TypeInit, SessionStart
<1>2. SessionInv /\ [Next]_vars => SessionInv'
  BY SessionStep
<1> QED
  BY <1>1, <1>2, PTL DEF Spec

\* Until a second page is loaded no token is presented twice, with any number of calls
\* open at a time: those that are refused share the rotation under way (the
\* refreshInFlight of lib/api.ts).
THEOREM OneRotationPerTokenAlways == Spec => []OneRotationPerToken
<1>1. SessionInv => OneRotationPerToken
  BY DEF SessionInv, TokensFit, OneFlight, OneRotationPerToken
<1> QED
  BY <1>1, SessionInvHolds, PTL

\* While no answer is lost, no second page loaded and no user signed out, the server knows
\* no token that the browser does not hold or is about to get.
THEOREM NoOrphansAlways == Spec => []NoOrphans
<1>1. SessionInv => NoOrphans
  BY DEF SessionInv, TokensFit
<1> QED
  BY <1>1, SessionInvHolds, PTL

LEMMA KeepsStep ==
    ASSUME SessionInv, [Next]_vars, store # NoToken, store' = NoToken,
           ~signedOut', lost = 0, Valid(store)
    PROVE  \E b \in Tabs : RefusedInLoad(b) \/ Overtaken(b)
<1>1. TypeOK /\ CallsFit /\ PagesFit /\ SlotsFit /\ SlotsOwned /\ FlightFits
  BY DEF SessionInv, TokensFit
<1>2. ASSUME NEW b \in Tabs, Login(b) PROVE FALSE
  BY <1>2 DEF Login
<1>3. ASSUME NEW b \in Tabs, RotationSucceeds(b) PROVE FALSE
  BY <1>3 DEF RotationSucceeds, Tokens, NoToken
<1>4. ASSUME NEW b \in Tabs, RotationFails(b) PROVE Overtaken(b)
  <2> DEFINE s == inFlight[b]
  <2>1. s \in Slots /\ s # None /\ request[s].at = "answered" /\ request[s].answer \notin Tokens
    BY <1>1, <1>4 DEF RotationFails, TypeOK
  <2>2. ~signedOut /\ Rotating(s) /\ loads \in Nat
    BY <1>1, <1>4, <2>1 DEF RotationFails, SlotsOwned, TypeOK
  <2>3. request[s].answer <= 0
    <3>1. Len(parent) <= MaxTokens /\ Len(parent) \in Nat /\ MaxTokens \in Nat
      BY <1>1, RotationAssumption DEF TypeOK
    <3> QED
      BY <1>1, <2>1, <3>1, SlotTypes DEF Tokens
  <2>4. store # request[s].token
    BY <1>1, <2>1, <2>2, <2>3 DEF SlotsFit
  <2> QED
    BY <1>1, <2>1, <2>2, <2>4 DEF FlightFits, Overtaken
<1>5. ASSUME NEW b \in Tabs, NEW c \in Calls, NEW freed, RotateOrJoin(b, c, freed) PROVE FALSE
  BY <1>5 DEF RotateOrJoin
<1>6. ASSUME NEW b \in Tabs, NEW c \in Calls, CallAnswered(b, c) PROVE RefusedInLoad(b)
  BY <1>5, <1>6 DEF CallAnswered, RefusedInLoad
<1>7. ASSUME NEW b \in Tabs, NEW c \in Calls, LogoutAnswered(b, c) PROVE FALSE
  <2>1. ~ClearAfterLogout
    BY DEF ClearAfterLogout
  <2> QED
    BY <1>5, <1>7, <2>1 DEF LogoutAnswered
<1>8. ASSUME NEW b \in Tabs, NEW c \in Calls, Replay(b, c) \/ SendCall(b, c) \/ SendLogout(b, c)
      PROVE  FALSE
  BY <1>8 DEF Replay, SendCall, SendLogout
<1>9. ASSUME NEW b \in Tabs, Reload(b) \/ OpenTab(b) PROVE FALSE
  BY <1>9 DEF Reload, OpenTab
<1>10. ASSUME NEW s \in Slots, ServerNext(s) \/ LoseAnswer(s) \/ Discard(s) PROVE FALSE
  BY <1>10 DEF ServerNext, LoseAnswer, Discard, client
<1>11. ASSUME NEW t \in DOMAIN parent, Age(t) PROVE FALSE
  BY <1>11 DEF Age, client
<1>12. CASE UNCHANGED vars
  BY <1>12 DEF vars, client
<1> QED
  BY <1>2, <1>3, <1>4, <1>6, <1>7, <1>8, <1>9, <1>10, <1>11, <1>12 DEF Next, ClientNext

\* With any number of tabs, a pair the server would still take is forgotten without a
\* logout or a lost answer only by a page that is refused twice while it loads (the catch
\* of auth-context.tsx), or by a rotation another page has overtaken (that of api.ts).
THEOREM KeepsWorkingTokensAlways == Spec => KeepsWorkingTokens
<1>1. SessionInv /\ [Next]_vars =>
        [store # NoToken /\ store' = NoToken /\ ~signedOut' /\ lost = 0 /\ Valid(store) =>
           \E b \in Tabs : RefusedInLoad(b) \/ Overtaken(b)]_vars
  BY KeepsStep
<1> QED
  BY <1>1, SessionInvHolds, PTL DEF Spec, KeepsWorkingTokens
=============================================================================
