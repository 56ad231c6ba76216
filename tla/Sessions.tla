------------------------------ MODULE Sessions ------------------------------
(***************************************************************************)
(* Sign-in sessions: the server's families of rotating refresh tokens      *)
(* (auth.py), and the tabs of one browser that share a storage, refresh    *)
(* under a lock of their own and follow each other's logins and logouts    *)
(* (api-client, web boot.ts).  Requests are served late, twice or never    *)
(* heard of again; a tab can be closed at any moment.                      *)
(*                                                                         *)
(* A token is a number; the access token of a pair carries the number of   *)
(* the refresh token it came with.  Left out: the lease that stands in for *)
(* Web Locks, passwords, the end of a token's 30 days.                     *)
(***************************************************************************)
EXTENDS Naturals, Sequences, FiniteSets

CONSTANTS
    Tabs,
    Families,    \* logins, numbered in their order
    UserOf,      \* who logs in
    NoUser,
    MaxTokens,   \* bound: tokens issued
    MaxFaults    \* bound: lost answers, closed tabs, server restarts

ASSUME SessionConstants ==
    /\ Families \subseteq Nat
    /\ NoUser \notin {UserOf[f] : f \in Families}
    /\ MaxTokens \in Nat /\ MaxFaults \in Nat

VARIABLES
    tok,      \* refresh_tokens, in order of issue
    cache,    \* successors still handed out to whoever repeats the predecessor
    calls,    \* requests on the network and at the server
    store,    \* the browser's storage: access and refresh token, owner
    tab,
    over,     \* families the server has revoked as a whole
    mishaps,  \* faults so far
    burned, excused, left   \* history, see below

(***************************************************************************)
(* History: burned are the families revoked because of a replay, excused   *)
(* those that met something the client's one retry is not made for, left   *)
(* those the user logged out of.                                           *)
(***************************************************************************)

serverSide == <<tok, cache, over>>
history == <<burned, excused, left>>
sessionVars == <<serverSide, calls, store, tab, mishaps, history>>

None == 0
Issued == DOMAIN tok
Subject(n) == IF n = None THEN NoUser ELSE UserOf[tok[n].fam]
Family(f) == {n \in Issued : tok[n].fam = f}

\* try: 1 or 2 for a refresh; seen: what the server read before it has the
\* family's lock; answer: None until there is one.
Call(kind, t, n, try) ==
    [kind |-> kind, tab |-> t, tok |-> n, try |-> try, seen |-> "unread", answer |-> None]
Refusal == MaxTokens + 1
Fault == mishaps < MaxFaults /\ mishaps' = mishaps + 1

EmptyStore == [access |-> None, refresh |-> None, owner |-> NoUser]
Closed == [on |-> "closed", access |-> None, refresh |-> None, phase |-> "none",
           ended |-> FALSE, try |-> 1, asked |-> None]

-----------------------------------------------------------------------------
(* The server *)

Revoke(S, f) == [n \in DOMAIN S |-> IF S[n].fam = f THEN [S[n] EXCEPT !.revoked = TRUE] ELSE S[n]]
Token(f, from) == [fam |-> f, revoked |-> FALSE, from |-> from]

\* The successor the reuse window answers with.
Again(n) == {s \in cache : tok[s].from = n /\ ~tok[s].revoked}

\* What the row is judged by: the state under the family's lock.  Mutant: the
\* row read before it.
RevokedBefore(c) == c.seen = "revoked"
IsRevoked(c) == tok[c.tok].revoked

\* _find_refresh_token, before the family's lock.
Read(c) ==
    /\ c \in calls /\ c.kind = "refresh" /\ c.seen = "unread"
    /\ calls' = (calls \ {c})
                \cup {[c EXCEPT !.seen = IF tok[c.tok].revoked THEN "revoked" ELSE "live"]}
    /\ UNCHANGED <<serverSide, store, tab, mishaps, history>>

Served(c) == c \in calls /\ c.kind = "refresh" /\ c.seen # "unread" /\ c.answer = None

\* An answer nobody waits for any more is dropped.
Awaits(t, c) == c.kind = "refresh" /\ c.tab = t /\ tab[t].phase = "asked"
                /\ c.tok = tab[t].asked /\ c.try = tab[t].try
Answer(c, n) ==
    calls' = (calls \ {c}) \cup (IF Awaits(c.tab, c) THEN {[c EXCEPT !.answer = n]} ELSE {})

Rotate(c) ==
    /\ Served(c) /\ ~IsRevoked(c) /\ Len(tok) < MaxTokens
    /\ tok' = Append([tok EXCEPT ![c.tok].revoked = TRUE], Token(tok[c.tok].fam, c.tok))
    /\ cache' = cache \cup {Len(tok) + 1}
    /\ Answer(c, Len(tok) + 1)
    /\ UNCHANGED <<over, store, tab, mishaps, history>>

Repeat(c) ==
    /\ Served(c) /\ IsRevoked(c)
    /\ \E s \in Again(c.tok) : Answer(c, s)
    /\ UNCHANGED <<serverSide, store, tab, mishaps, history>>

\* A replay, or a family logged out of: every token of it is revoked.
BurnPresented(n) == [tok EXCEPT ![n].revoked = TRUE]   \* mutant
Burnt(n) == Revoke(tok, tok[n].fam)
Burn(c) ==
    /\ Served(c) /\ IsRevoked(c) /\ Again(c.tok) = {}
    /\ tok' = Burnt(c.tok)
    /\ over' = over \cup {tok[c.tok].fam}
    /\ burned' = burned \cup ({tok[c.tok].fam} \ over)
    /\ Answer(c, Refusal)
    /\ UNCHANGED <<cache, store, tab, mishaps, excused, left>>

\* The whole family, not the presented token only.
ServeLogout(c) ==
    /\ c \in calls /\ c.kind = "logout"
    /\ tok' = Burnt(c.tok)
    /\ over' = over \cup {tok[c.tok].fam}
    /\ calls' = calls \ {c}
    /\ UNCHANGED <<cache, store, tab, mishaps, history>>

\* The 60 s of a rotation are over.  Not while a tab still asks with the
\* predecessor (it stops after 50 s); a request given up by then may arrive late.
Waiting(t, n) == tab[t].phase = "asked" /\ tab[t].asked = n
Unserved(c, n) == c.kind = "refresh" /\ c.tok = n /\ c.answer = None

\* Requests still on their way with the predecessor.
Strays(n) == {d \in calls : Unserved(d, tok[n].from)}
GraceEnds(s) ==
    /\ s \in cache /\ \A t \in Tabs : ~Waiting(t, tok[s].from)
    /\ cache' = cache \ {s}
    /\ excused' = excused \cup {tok[s].fam : c \in Strays(s)}
    /\ UNCHANGED <<tok, over, calls, store, tab, mishaps, burned, left>>

\* The successors are kept in the process only.
Restart ==
    /\ Fault
    /\ cache' = {} /\ excused' = excused \cup {tok[s].fam : s \in cache}
    /\ UNCHANGED <<tok, over, calls, store, tab, burned, left>>

-----------------------------------------------------------------------------
(* A tab *)

Put(t, rec) == tab' = [tab EXCEPT ![t] = rec]
Unheard(t) == {c \in calls : c.answer = None \/ ~Awaits(t, c)}

\* The refresh is over.
Landed(r) == [r EXCEPT !.phase = "none", !.ended = FALSE, !.try = 1, !.asked = None]

SignedOut(r) == [r EXCEPT !.on = "out", !.access = None, !.refresh = None]

\* sessionGen moves on: a refresh under way must not write its tokens.
EndGeneration(r) == [r EXCEPT !.ended = r.phase # "none"]

\* No login in the storage any more.  With the owner still there it expired, and
\* the data is kept; without, the user logged out, and everything is purged.
LoginGone(t) ==
    IF store.owner # NoUser
    THEN /\ Put(t, EndGeneration(SignedOut(tab[t])))
         /\ store' = [store EXCEPT !.access = None, !.refresh = None]
    ELSE Put(t, SignedOut(tab[t])) /\ store' = EmptyStore

\* reconcileSession: drop everything, follow the storage.
Reconcile(t) ==
    IF store.access = None THEN LoginGone(t)
    ELSE /\ Put(t, [tab[t] EXCEPT !.on = "boot", !.access = store.access,
                                  !.refresh = store.refresh])
         /\ UNCHANGED store

Login(t, f) ==
    /\ tab[t].on = "out" /\ tab[t].phase = "none"
    /\ Family(f) = {} /\ \A e \in Families : e < f => Family(e) # {}
    /\ Len(tok) < MaxTokens
    /\ tok' = Append(tok, Token(f, None))
    /\ LET n == Len(tok) + 1 IN
       /\ Put(t, [tab[t] EXCEPT !.on = "boot", !.access = n, !.refresh = n])
       /\ store' = [store EXCEPT !.access = n, !.refresh = n]
    /\ UNCHANGED <<cache, over, calls, mishaps, history>>

Open(t) ==
    /\ tab[t].on = "closed"
    /\ Put(t, [Closed EXCEPT !.on = IF store.access = None THEN "out" ELSE "boot",
                             !.access = store.access, !.refresh = store.refresh])
    /\ UNCHANGED <<serverSide, calls, store, mishaps, history>>

\* A tab closed in the middle of a refresh may take the new tokens with it.
Close(t) ==
    /\ tab[t].on # "closed" /\ Fault
    /\ Put(t, Closed)
    /\ excused' = IF tab[t].phase = "asked"
                  THEN excused \cup {tok[tab[t].asked].fam} ELSE excused
    /\ calls' = Unheard(t)
    /\ UNCHANGED <<serverSide, store, burned, left>>

\* /me answered: is it still about the login in the storage?
Boot(t) ==
    /\ tab[t].on = "boot" /\ tab[t].access # None /\ tab[t].phase = "none"
    /\ \/ store.refresh = None /\ LoginGone(t)
       \/ /\ store.refresh # None /\ Subject(store.access) # Subject(tab[t].access)
          /\ Put(t, [tab[t] EXCEPT !.access = store.access, !.refresh = store.refresh])
          /\ UNCHANGED store
       \/ /\ store.refresh # None /\ Subject(store.access) = Subject(tab[t].access)
          /\ Put(t, [tab[t] EXCEPT !.on = "in"])
          /\ store' = [store EXCEPT !.owner = Subject(tab[t].access)]
    /\ UNCHANGED <<serverSide, calls, mishaps, history>>

\* A storage event: the login is gone, or somebody else's.
Deaf(t) == FALSE   \* mutant
Elsewhere(t) ==
    \/ store.refresh = None
    \/ Subject(store.access) \notin {NoUser, Subject(tab[t].access)}
    \/ store.owner \notin {NoUser, Subject(tab[t].access)}
StorageEvent(t) ==
    /\ tab[t].on = "in" /\ Elsewhere(t)
    /\ Reconcile(t)
    /\ UNCHANGED <<serverSide, calls, mishaps, history>>

\* Storage and memory are cleared before the request goes out.
Logout(t) ==
    /\ tab[t].on = "in" /\ tab[t].refresh # None
    /\ store' = EmptyStore
    /\ Put(t, EndGeneration(SignedOut(tab[t])))
    /\ calls' = calls \cup {Call("logout", t, tab[t].refresh, 1)}
    /\ left' = left \cup {tok[tab[t].refresh].fam}
    /\ UNCHANGED <<serverSide, burned, mishaps, excused>>

-----------------------------------------------------------------------------
(* A refresh *)

\* A request was answered 401: the access token's 15 minutes are over, and with
\* them the grace of the rotation that issued it.
StartRefresh(t) ==
    /\ tab[t].access \notin cache
    /\ tab[t].on \in {"boot", "in"} /\ tab[t].refresh # None /\ tab[t].phase = "none"
    /\ Len(tok) < MaxTokens
    /\ Put(t, [tab[t] EXCEPT !.phase = "queued", !.ended = FALSE])
    /\ UNCHANGED <<serverSide, calls, store, mishaps, history>>

Together(t) == TRUE   \* mutant
Exclusive(t) == \A u \in Tabs \ {t} : tab[u].phase # "asked"

\* Another tab may have rotated meanwhile: the stored token is compared, and
\* used if it is this user's.
Ignored(t) == tab[t].refresh   \* mutant
Mine(t) == store.refresh
Entered(t) == tab[t].phase = "queued" /\ Exclusive(t)
Adoptable(t) ==
    /\ store.refresh # None /\ store.access # None
    /\ tab[t].access = None \/ Subject(store.access) = Subject(tab[t].access)
NothingToDo(t) ==
    IF tab[t].ended THEN ~Adoptable(t) ELSE tab[t].refresh = None /\ store.refresh = None

DoNotAsk(t) ==
    /\ Entered(t) /\ NothingToDo(t)
    /\ Put(t, Landed(tab[t]))
    /\ UNCHANGED <<serverSide, calls, store, mishaps, history>>

\* A tab that changed accounts while it waited may ask with a successor that is
\* seconds old, and a request given up on the predecessor still come after it.
AskServer(t) ==
    /\ Entered(t) /\ ~NothingToDo(t) /\ tab[t].refresh # None /\ Mine(t) = tab[t].refresh
    /\ Put(t, [tab[t] EXCEPT !.phase = "asked", !.try = 1, !.asked = tab[t].refresh])
    /\ calls' = calls \cup {Call("refresh", t, tab[t].refresh, 1)}
    /\ excused' = excused \cup {tok[c.tok].fam : c \in Strays(tab[t].refresh)}
    /\ UNCHANGED <<serverSide, store, mishaps, burned, left>>

Adopt(t) ==
    /\ Entered(t) /\ ~NothingToDo(t) /\ Mine(t) # tab[t].refresh /\ Adoptable(t)
    /\ Put(t, [Landed(tab[t]) EXCEPT !.access = store.access, !.refresh = store.refresh])
    /\ UNCHANGED <<serverSide, calls, store, mishaps, history>>

SessionEndedElsewhere(t) ==
    /\ Entered(t) /\ ~NothingToDo(t) /\ Mine(t) # tab[t].refresh /\ ~Adoptable(t)
    /\ Put(t, [Landed(tab[t]) EXCEPT !.on = IF store.access = None THEN "out" ELSE "boot",
                                     !.access = store.access, !.refresh = store.refresh])
    /\ store' = IF store.access # None THEN store
                ELSE IF store.owner # NoUser THEN [store EXCEPT !.refresh = None] ELSE EmptyStore
    /\ UNCHANGED <<serverSide, calls, mishaps, history>>

EnterLock(t) == DoNotAsk(t) \/ AskServer(t) \/ Adopt(t) \/ SessionEndedElsewhere(t)

\* The answer is lost, or does not come in time: asked once more.
GiveUpAnswer(t) ==
    /\ tab[t].phase = "asked" /\ Fault
    /\ IF tab[t].try = 1 /\ ~tab[t].ended
          /\ tab[t].refresh # None
       THEN /\ Put(t, [tab[t] EXCEPT !.try = 2, !.asked = tab[t].refresh])
            /\ calls' = Unheard(t) \cup {Call("refresh", t, tab[t].refresh, 2)}
            /\ UNCHANGED excused
       ELSE /\ Put(t, Landed(tab[t]))
            /\ excused' = excused \cup {tok[tab[t].asked].fam}
            /\ calls' = Unheard(t)
    /\ UNCHANGED <<serverSide, store, burned, left>>

\* setTokens: two writes, in one turn of the tab's event loop.
TakeAnswer(t) ==
    /\ \E c \in calls :
         /\ Awaits(t, c) /\ c.answer \in Issued
         /\ IF tab[t].ended
            THEN Put(t, Landed(tab[t])) /\ UNCHANGED store
            ELSE /\ Put(t, [Landed(tab[t]) EXCEPT !.access = c.answer, !.refresh = c.answer])
                 /\ store' = [store EXCEPT !.access = c.answer, !.refresh = c.answer]
    /\ calls' = Unheard(t)
    /\ UNCHANGED <<serverSide, mishaps, history>>

\* 401: the session is over.
TakeRefusal(t) ==
    /\ \E c \in calls : Awaits(t, c) /\ c.answer = Refusal
    /\ calls' = Unheard(t)
    /\ IF tab[t].ended
       THEN Put(t, Landed(tab[t])) /\ UNCHANGED store
       ELSE /\ Put(t, Landed(SignedOut(tab[t])))
            /\ store' = [store EXCEPT !.access = None, !.refresh = None]
    /\ UNCHANGED <<serverSide, mishaps, history>>

-----------------------------------------------------------------------------
SessionsInit ==
    /\ tok = <<>> /\ cache = {} /\ over = {} /\ calls = {} /\ store = EmptyStore
    /\ tab = [t \in Tabs |-> Closed]
    /\ mishaps = 0 /\ burned = {} /\ excused = {} /\ left = {}

Serving == \E c \in calls : Read(c) \/ Rotate(c) \/ Repeat(c) \/ Burn(c) \/ ServeLogout(c)

Following(t) ==
    \/ Boot(t) \/ StorageEvent(t) \/ EnterLock(t)
    \/ TakeAnswer(t) \/ TakeRefusal(t)

SessionsNext ==
    \/ Serving \/ Restart
    \/ \E s \in cache : GraceEnds(s)
    \/ \E t \in Tabs :
         \/ Following(t) \/ Open(t) \/ Close(t) \/ Logout(t) \/ StartRefresh(t) \/ GiveUpAnswer(t)
         \/ \E f \in Families : Login(t, f)

SessionsSpec == SessionsInit /\ [][SessionsNext]_sessionVars

\* Requests are served, events delivered, started refreshes and boots go on, in
\* any order; people, faults and the grace window are not waited for.
SessionsFairness == WF_sessionVars(Serving \/ \E t \in Tabs : Following(t))

-----------------------------------------------------------------------------
(* Properties *)

Numbers == Issued \cup {None}
TokenRow == [fam : Families, revoked : BOOLEAN, from : Nat]
CallRow == [kind : {"refresh", "logout"}, tab : Tabs, tok : Issued, try : {1, 2},
            seen : {"unread", "live", "revoked"}, answer : Numbers \cup {Refusal}]
TabRow == [on : {"closed", "out", "boot", "in"}, access : Numbers, refresh : Numbers,
           phase : {"none", "queued", "asked"}, ended : BOOLEAN, try : {1, 2}, asked : Numbers]
StoreRow == [access : Numbers, refresh : Numbers,
             owner : {NoUser} \cup {UserOf[f] : f \in Families}]

\* Types; the lock is held by one tab at a time.
SessionsTypeOK ==
    /\ tok \in Seq(TokenRow) /\ cache \subseteq Issued /\ over \subseteq Families
    /\ calls \subseteq CallRow /\ store \in StoreRow
    /\ tab \in [Tabs -> TabRow]
    /\ \A t \in Tabs : \A u \in Tabs \ {t} : ~(tab[t].phase = "asked" /\ tab[u].phase = "asked")

\* However many requests present one token at once, a session never has two
\* live refresh tokens: with two, a stolen one could be used beside the real one.
OneLiveToken ==
    \A m, n \in Issued : m # n /\ tok[m].fam = tok[n].fam => tok[m].revoked \/ tok[n].revoked

\* Once logged out at the server, or burned by a replay, a session has no live
\* token left and never gets one, whatever rotation was under way.
OverIsOver == \A n \in Issued : tok[n].fam \in over => tok[n].revoked

\* Tabs refreshing side by side, an answer lost once, requests that come twice:
\* none of it makes the server take an honest browser for a thief.  What is
\* left are the risks api-client lists, a tab closed or a server restarted at
\* the wrong moment, and a refresh that waited for the lock while its tab was
\* handed another login (see AskServer).
HonestStaysIn == burned \subseteq excused \cup left

\* A session the user logged out of never comes back into the storage.
LogoutIsFinal == store.refresh # None => tok[store.refresh].fam \notin left

\* When nothing more happens, every tab that shows the app shows the account
\* whose login is stored.
Agreed ==
    \A t \in Tabs : tab[t].on = "in" =>
        store.refresh # None /\ Subject(tab[t].access) = Subject(store.access)
TabsAgree == <>[](Agreed \/ ~LogoutIsFinal)
=============================================================================
