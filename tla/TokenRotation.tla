--------------------------- MODULE TokenRotation ---------------------------
(***************************************************************************)
(* Refresh tokens at the server: POST /auth/login, /auth/refresh and       *)
(* /auth/logout over the refresh_tokens table.                             *)
(*                                                                         *)
(* The handlers run in a thread pool, one request in one slot.  A request  *)
(* reads the row of the presented token and commits later; a DELETE that   *)
(* finds the row gone by then deletes nothing and raises nothing, so the   *)
(* transaction goes through.                                               *)
(*                                                                         *)
(* Abstractions.  A token is the number of its issue; it stands for the    *)
(* refresh JWT, its hash and the access JWT issued with it.                *)
(***************************************************************************)
EXTENDS Integers, Sequences, FiniteSets

CONSTANTS
    Slots,              \* request threads
    MaxTokens           \* bound on the tokens ever issued

ASSUME RotationAssumption ==
    /\ IsFiniteSet(Slots)
    /\ MaxTokens \in Nat

VARIABLES
    rows,               \* tokens with a row in refresh_tokens
    expired,            \* tokens past their expires_at
    parent,             \* history: parent[t] was rotated into t, 0 for a login
    request             \* what a slot works on

server == <<rows, expired, parent, request>>

Tokens == 1 .. MaxTokens
NoToken == 0

\* What a slot answers: the new token, or one of these.
Revoked == -1           \* 204 No Content
Unauthorized == -2      \* 401
ServerError == -3       \* 429 or 5xx

Free == [at |-> "free", kind |-> "rotate", token |-> NoToken, answer |-> NoToken]

NewToken == Len(parent) + 1

\* A rotation looks for an unexpired row, a revocation for any.
Found(kind, t) == t \in rows /\ (kind = "rotate" => t \notin expired)

Receive(s, kind, t) ==
    /\ request[s].at = "free"
    /\ request' = [request EXCEPT
         ![s] = [at |-> "lookup", kind |-> kind, token |-> t, answer |-> NoToken]]

Answer(s, answer) ==
    request' = [request EXCEPT ![s].at = "answered", ![s].answer = answer]

Lookup(s) ==
    /\ request[s].at = "lookup"
    /\ IF Found(request[s].kind, request[s].token)
       THEN request' = [request EXCEPT ![s].at = "commit"]
       ELSE Answer(s, Unauthorized)
    /\ UNCHANGED <<rows, expired, parent>>

\* issue_tokens.
Issue(old) ==
    /\ NewToken <= MaxTokens
    /\ parent' = Append(parent, old)

\* Fault: the presented token keeps its row.
RotateAndKeep(s) ==
    /\ request[s].at = "commit" /\ request[s].kind = "rotate"
    /\ Issue(request[s].token)
    /\ rows' = rows \cup {NewToken}
    /\ Answer(s, NewToken)
    /\ UNCHANGED expired

\* rotate_refresh_token: the DELETE and the INSERT in one commit.
Rotate(s) ==
    /\ request[s].at = "commit" /\ request[s].kind = "rotate"
    /\ Issue(request[s].token)
    /\ rows' = (rows \ {request[s].token}) \cup {NewToken}
    /\ Answer(s, NewToken)
    /\ UNCHANGED expired

\* revoke_refresh_token.
Revoke(s) ==
    /\ request[s].at = "commit" /\ request[s].kind = "revoke"
    /\ rows' = rows \ {request[s].token}
    /\ Answer(s, Revoked)
    /\ UNCHANGED <<expired, parent>>

\* login and demo_login, for a user who may.
SignIn ==
    /\ Issue(NoToken)
    /\ rows' = rows \cup {NewToken}

\* Refused by the rate limit, or the database cannot be reached.
Refuse(s) ==
    /\ request[s].at \in {"lookup", "commit"}
    /\ Answer(s, ServerError)
    /\ UNCHANGED <<rows, expired, parent>>

ServerStep(s) == Lookup(s) \/ Rotate(s) \/ Revoke(s)

ServerInit ==
    /\ rows = {}
    /\ expired = {}
    /\ parent = <<>>
    /\ request = [s \in Slots |-> Free]

-----------------------------------------------------------------------------
\* "Every /auth/refresh revokes the old token and issues a new pair": a token buys
\* one pair, whoever presents it how often.
OneSuccessor ==
    \A t, u \in DOMAIN parent :
      parent[t] = parent[u] /\ parent[t] # NoToken => t = u
=============================================================================
