----------------------------- MODULE Workspaces -----------------------------
(***************************************************************************)
(* The active workspace of a browser: the auth context of each tab, the    *)
(* localStorage they share, the figures React Query keeps for a page, and  *)
(* get_current_membership, which answers for the organization the header   *)
(* names.                                                                  *)
(*                                                                         *)
(* A request takes its token and its organization from localStorage, the   *)
(* page its heading from the tab's own state, and the query its key from   *)
(* neither: figures stay in the cache of the tab when they change.         *)
(*                                                                         *)
(* Abstractions.  The pages are one page, its queries one query; figures   *)
(* are the organization they are of.  A token is its user: SessionClient   *)
(* has what becomes of it.                                                 *)
(***************************************************************************)
EXTENDS FiniteSets

CONSTANTS
    Tabs,
    Users,
    OrgsOf,             \* the organizations of a user
    FirstOf,            \* the first of them in the answer of /auth/me
    Null

Orgs == UNION {OrgsOf[u] : u \in Users}

ASSUME WorkspacesAssumption ==
    /\ \A u \in Users : FirstOf[u] \in OrgsOf[u]
    /\ Null \notin Users \cup Orgs

VARIABLES
    store,              \* localStorage: [user, org]
    tab,                \* the state of a tab
    touched             \* history: tabs whose storage another tab wrote since they signed in

workspacesVars == <<store, tab, touched>>

\* at: no user, waiting for /auth/me on a page load or after a sign-in, or signed in;
\* user, org: of the auth context; open: the page is mounted; data: the cached figures,
\* if any, fresh for 30 s; sent: the request under way, if any.  outdated (history): the
\* workspace of the tab changed since the request was sent.
Blank == [at |-> "out", user |-> Null, org |-> Null, open |-> FALSE,
          data |-> {}, fresh |-> FALSE, sent |-> {}]

\* Tab b writes to localStorage.
Put(b, user, org) ==
    /\ store' = [user |-> user, org |-> org]
    /\ touched' = touched \cup (Tabs \ {b})

\* Figures and requests of before a change of the workspace.
Outdated(r) ==
    [r EXCEPT !.data = {[d EXCEPT !.outdated = TRUE] : d \in @},
              !.sent = {[q EXCEPT !.outdated = TRUE] : q \in @}]

-----------------------------------------------------------------------------
(* The auth context.                                                       *)

\* The page is loaded: nothing is left of the tab but what localStorage holds.
Load(b) ==
    /\ tab' = [tab EXCEPT ![b] = IF store.user = Null THEN Blank
                                 ELSE [Blank EXCEPT !.at = "loading", !.user = store.user]]
    /\ touched' = touched \ {b}
    /\ UNCHANGED store

\* Fault: a stored organization is taken as it is.
AnyStored(u) == IF store.org # Null THEN store.org ELSE FirstOf[u]

\* The stored organization if it is one of the user's, else the first.
Chosen(u) == IF store.org \in OrgsOf[u] THEN store.org ELSE FirstOf[u]

\* /auth/me is answered after a page load.
Hydrated(b) ==
    LET u == tab[b].user IN
    /\ tab[b].at = "loading"
    /\ tab' = [tab EXCEPT ![b] = [Blank EXCEPT !.at = "in", !.user = u, !.org = Chosen(u)]]
    /\ Put(b, store.user, Chosen(u))

\* The catch of the page load: a token that was refused is cleared with the organization,
\* one whose rotation failed otherwise alone, and neither when no rotation was tried.
NotHydrated(b) ==
    /\ tab[b].at = "loading"
    /\ tab' = [tab EXCEPT ![b] = Blank]
    /\ \/ Put(b, Null, Null)
       \/ Put(b, Null, store.org)
       \/ UNCHANGED <<store, touched>>

\* login, loginDemo or register, up to setTokens of completeLogin.
SignIn(b, u) ==
    /\ tab[b].at = "out"
    /\ tab' = [tab EXCEPT ![b] = [Outdated(@) EXCEPT !.at = "signing", !.user = u]]
    /\ store' = [store EXCEPT !.user = u]
    /\ touched' = (touched \cup Tabs) \ {b}

\* Fault: the organization stays in the tab's own state.
SignedInHere(b) ==
    /\ tab[b].at = "signing"
    /\ tab' = [tab EXCEPT ![b].at = "in", ![b].org = FirstOf[tab[b].user]]
    /\ UNCHANGED <<store, touched>>

\* The rest of completeLogin: /auth/me is answered.
SignedIn(b) ==
    LET u == tab[b].user IN
    /\ tab[b].at = "signing"
    /\ tab' = [tab EXCEPT ![b].at = "in", ![b].org = FirstOf[u]]
    /\ Put(b, store.user, FirstOf[u])

\* completeLogin throws: nobody is signed in, whether the tokens are still stored or not.
NotSignedIn(b) ==
    /\ tab[b].at = "signing"
    /\ tab' = [tab EXCEPT ![b].at = "out", ![b].user = Null]
    /\ Put(b, Null, store.org) \/ UNCHANGED <<store, touched>>

\* logout: the context and the storage are cleared, the query cache is not.
LogOut(b) ==
    /\ tab[b].at = "in"
    /\ tab' = [tab EXCEPT ![b] = [Outdated(@) EXCEPT
                 !.at = "out", !.user = Null, !.org = Null, !.open = FALSE]]
    /\ Put(b, Null, Null)

\* A rotation fails: the tokens are cleared, the organization stays.
SessionLost(b) ==
    /\ tab[b].at = "in" /\ store.user # Null
    /\ Put(b, Null, store.org)
    /\ UNCHANGED tab

\* setActiveOrgId, from the menu of the sidebar.
Switch(b, o) ==
    /\ tab[b].at = "in" /\ o \in OrgsOf[tab[b].user]
    /\ tab' = [tab EXCEPT ![b] = [Outdated(@) EXCEPT !.org = o]]
    /\ Put(b, store.user, o)

-----------------------------------------------------------------------------
(* The page and its query.                                                 *)

Request(b) == [user |-> store.user, org |-> store.org, outdated |-> FALSE]

\* A query runs unless its figures are fresh or it runs already.
Asks(b) == ~tab[b].fresh /\ tab[b].sent = {}

Open(b) ==
    /\ tab[b].at = "in" /\ ~tab[b].open
    /\ tab' = [tab EXCEPT ![b].open = TRUE, ![b].sent = IF Asks(b) THEN {Request(b)} ELSE @]
    /\ UNCHANGED <<store, touched>>

Leave(b) ==
    /\ tab[b].open
    /\ tab' = [tab EXCEPT ![b].open = FALSE]
    /\ UNCHANGED <<store, touched>>

\* get_current_membership: the user of the token is a member of the organization named.
Admitted(r) == r.user # Null /\ r.org \in OrgsOf[r.user]

\* The answer: the figures of the organization, or an error that leaves the old ones.
Answered(b) ==
    \E q \in tab[b].sent :
      /\ tab' = [tab EXCEPT ![b] =
           IF Admitted(q)
           THEN [@ EXCEPT !.sent = {}, !.fresh = TRUE,
                          !.data = {[org |-> q.org, outdated |-> q.outdated]}]
           ELSE [@ EXCEPT !.sent = {}]]
      /\ UNCHANGED <<store, touched>>

\* 30 s pass; or, with the page away, 5 minutes, and the figures are dropped.
Age(b) ==
    /\ \/ tab[b].fresh /\ tab' = [tab EXCEPT ![b].fresh = FALSE]
       \/ /\ tab[b].data # {} /\ ~tab[b].open
          /\ tab' = [tab EXCEPT ![b].fresh = FALSE, ![b].data = {}]
    /\ UNCHANGED <<store, touched>>

WorkspacesInit ==
    /\ store = [user |-> Null, org |-> Null]
    /\ tab = [b \in Tabs |-> Blank]
    /\ touched = {}

WorkspacesNext ==
    \E b \in Tabs :
      \/ Load(b) \/ Hydrated(b) \/ NotHydrated(b)
      \/ SignedIn(b) \/ NotSignedIn(b) \/ LogOut(b) \/ SessionLost(b)
      \/ \E u \in Users : SignIn(b, u)
      \/ \E o \in Orgs : Switch(b, o)
      \/ Open(b) \/ Leave(b) \/ Answered(b) \/ Age(b)

WorkspacesSpec == WorkspacesInit /\ [][WorkspacesNext]_workspacesVars

-----------------------------------------------------------------------------
(* Properties.                                                             *)

\* A tab that is the only one to write the storage is never refused: whoever signs in
\* after whom, and whatever organization an earlier session left behind.
RequestsAreAdmitted ==
    \A b \in Tabs \ touched : \A q \in tab[b].sent :
      q.user # Null /\ ~q.outdated => Admitted(q)

\* Figures under the name of another workspace were asked for before the switch, or in
\* a storage another tab had written: a page that asks anew shows its own workspace.
MismatchIsExplained ==
    \A b \in Tabs \ touched : \A d \in tab[b].data :
      tab[b].at = "in" /\ ~d.outdated => d.org = tab[b].org
=============================================================================
