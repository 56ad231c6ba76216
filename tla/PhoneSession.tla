---------------------------- MODULE PhoneSession ----------------------------
(***************************************************************************)
(* Who is signed in on a phone and which workspace it shows: the start,    *)
(* login, switch, delete, loss of a workspace, expiry and logout of        *)
(* apps/mobile/src/lib/boot.ts with the clients of clients.ts.  All of     *)
(* them await /me, storage or each other, and overlap.                     *)
(*                                                                         *)
(* A flow is one of these functions between two awaits.  The session epoch *)
(* it captured is the flag fresh, taken from every flow when the epoch     *)
(* moves on.  A sync client is what it may still do: run, finish the job   *)
(* it was stopped in, or nothing.  At most one client per workspace is not *)
(* closed, since initSync closes the earlier one.                          *)
(*                                                                         *)
(* Storage applies statements in the order they were issued.  The reads    *)
(* between the answer of /me and the new session are one step, the data    *)
(* discardLostWorkspaces deletes goes with the session that starts it, and *)
(* flows in the same state are one.  Left out: alerts, navigation,         *)
(* language, reminders, the steps of a purge (see SyncClient), a second    *)
(* tap on a logout that is running.                                        *)
(***************************************************************************)
EXTENDS Naturals, FiniteSets

CONSTANTS
    People, Spaces, NoOne, Nowhere,
    SeedLists,   \* /me at the start: who is in which workspace
    MaxChanges,  \* bound: memberships won and lost
    MaxTroubles, \* bound: unreachable server, refused login, killed app
    MaxTaps      \* bound: logins, switches, deletions, logouts

ASSUME PhoneConstants ==
    /\ NoOne \notin People /\ Nowhere \notin Spaces
    /\ SeedLists \in [People -> SUBSET Spaces]
    /\ MaxChanges \in Nat /\ MaxTroubles \in Nat /\ MaxTaps \in Nat

VARIABLES
    lists,     \* the server: what /me answers
    refused,   \* the accounts whose login on this phone the server refuses
    app,       \* the store
    tokens,    \* whose tokens the api client holds
    client,    \* sync clients by workspace, the closed ones "off"
    current,   \* the workspace of the client in use
    flows,
    disk,
    changes, troubles, taps,
    left,      \* history: logged out, and nobody signed in since
    astray     \* history: what let the tokens part from the session

memory == <<app, tokens, client, current, flows>>
bounds == <<changes, troubles, taps>>
history == <<left, astray>>
phoneVars == <<lists, refused, memory, disk, bounds, history>>

Account == People \cup {NoOne}
Place == Spaces \cup {Nowhere}

Off == [on |-> "off", user |-> NoOne]
NoClient == [w \in Spaces |-> Off]
NoCache == [user |-> NoOne, ws |-> Nowhere]
Loading == [boot |-> "loading", user |-> NoOne, ws |-> Nowhere, known |-> {}]
SignedOut == [Loading EXCEPT !.boot = "onboarding"]
Empty == [auth |-> NoOne, cache |-> NoCache, data |-> [w \in Spaces |-> NoOne]]

\* ws: the workspace switched to, deleted or lost; by, me: whose tokens /me was asked with, the answer.
Flow(kind, pc, ws, by) == [kind |-> kind, pc |-> pc, ws |-> ws, by |-> by,
                           me |-> {}, tries |-> 0, fresh |-> TRUE]
Under(kinds) == {f \in flows : f.kind \in kinds}

Trouble == troubles < MaxTroubles /\ troubles' = troubles + 1 /\ UNCHANGED <<changes, taps>>
Change == changes < MaxChanges /\ changes' = changes + 1 /\ UNCHANGED <<troubles, taps>>
Tap == taps < MaxTaps /\ taps' = taps + 1 /\ UNCHANGED <<changes, troubles>>

-----------------------------------------------------------------------------
(* Clients *)

\* stop(): a job under way still writes its result.
Retired == [w \in Spaces |->
    CASE client[w].on = "running" -> [client[w] EXCEPT !.on = "stopped"]
      [] client[w].on = "lost"    -> Off
      [] client[w].on \in {"off", "stopped"} -> client[w]]

\* close(): the current one and those still winding down.  Mutant: the current one.
CurrentClosed == IF current = Nowhere THEN client ELSE [client EXCEPT ![current] = Off]
AllClosed == NoClient

\* initSync starts a new client.  Mutant: one that is winding down is used again.
Reuse(w, u) ==
    /\ client' = IF client[w].on = "stopped" THEN Retired
                 ELSE [Retired EXCEPT ![w] = [on |-> "running", user |-> u]]
    /\ current' = w
Serve(w, u) ==
    /\ client' = [Retired EXCEPT ![w] = [on |-> "running", user |-> u]]
    /\ current' = w

Teardown == client' = Retired /\ current' = Nowhere

-----------------------------------------------------------------------------
(* Session epoch, notices *)

Outdated(F) == {[f EXCEPT !.fresh = FALSE] : f \in F}
Ending == \E f \in flows : f.kind = "logout"

\* Nothing a flow learned counts any more once its session is over, or the
\* screen it was for has gone.
Wanted(f) ==
    /\ ~Ending /\ f.fresh
    /\ f.kind = "delete" => app.ws = f.ws /\ tokens # NoOne
    /\ f.kind = "land"   => app.ws = f.ws
    /\ f.kind = "hold"   => app.boot = "noWorkspace"

Notice(state) == app' = [app EXCEPT !.boot = state] /\ Teardown

\* setSession and initSync, in one turn, over the flows F that remain; the data
\* of the workspaces in keep stays.
Open(F, u, w, known, keep) ==
    /\ app' = [boot |-> "ready", user |-> u, ws |-> w, known |-> known]
    /\ disk' = [disk EXCEPT !.cache = [user |-> u, ws |-> w],
                            !.data = [x \in Spaces |-> IF x \in keep THEN @[x] ELSE NoOne]]
    /\ Serve(w, u)
    /\ flows' = Outdated(F)

\* holdForWorkspace: one loop per session while its notice is up.
Superseded(F) == Outdated({f \in F : f.kind = "hold"}) \cup {f \in F : f.kind # "hold"}
Hold(F) ==
    IF Ending \/ (app.boot = "noWorkspace" /\ \E f \in F : f.kind = "hold" /\ f.fresh)
    THEN flows' = F /\ UNCHANGED <<app, client, current>>
    ELSE /\ flows' = Superseded(F) \cup {Flow("hold", "wait", Nowhere, tokens)}
         /\ Notice("noWorkspace")

\* expireSession up to its await: the tokens go before the request does.
Expire(F) ==
    /\ flows' = Outdated(F) \cup {Flow("expire", "post", Nowhere, NoOne)}
    /\ Teardown
    /\ tokens' = NoOne /\ disk' = [disk EXCEPT !.auth = NoOne]

Purged(w) == [disk EXCEPT !.data[w] = NoOne]

-----------------------------------------------------------------------------
(* What each caller does with the answer *)

Asked(f) == [f EXCEPT !.pc = "me", !.by = tokens]
Ask(f) == flows' = (flows \ {f}) \cup {Asked(f)}
SignedIn == tokens # NoOne
Survivors(f) == app.known \ {f.ws}
shown == <<app, client, current>>
still == <<lists, refused, app, tokens, client, current, disk, history>>
quiet == <<still, bounds>>

\* The flow ends; one that left a workspace still has its data to purge.
Over(f) == [Flow(f.kind, "over", f.ws, NoOne) EXCEPT !.fresh = f.fresh]
Rest(f) == (flows \ {f}) \cup (IF f.kind \in {"land", "delete"} THEN {Over(f)} ELSE {})

Leaves(f) == flows' = Rest(f) /\ UNCHANGED <<shown, tokens, disk>>
Holds(f) == Hold(Rest(f)) /\ UNCHANGED <<tokens, disk>>
Expires(f) == Expire(Rest(f)) /\ UNCHANGED app
ToLogin(f) ==
    /\ flows' = Rest(f) /\ app' = [app EXCEPT !.boot = "onboarding"]
    /\ UNCHANGED <<client, current, tokens, disk>>
Elsewhere(f) ==
    /\ \E w \in Survivors(f) : Open(Rest(f), app.user, w, Survivors(f), Spaces)
    /\ UNCHANGED tokens
Retries(f) ==
    /\ flows' = (flows \ {f}) \cup {[Asked(f) EXCEPT !.tries = 1]}
    /\ UNCHANGED <<shown, tokens, disk>>

\* bootApp: the cached session opens when /me cannot be had.
Cached == disk.cache.user # NoOne
AfterBoot(f, res) ==
    \/ ~f.fresh /\ Leaves(f)
    \/ f.fresh /\ res = "empty" /\ Holds(f)
    \/ f.fresh /\ res = "401" /\ (IF SignedIn THEN Expires(f) ELSE Leaves(f))
    \/ /\ f.fresh /\ res = "offline" /\ Cached
       /\ Open(Rest(f), disk.cache.user, disk.cache.ws, {}, Spaces) /\ UNCHANGED tokens
    \/ f.fresh /\ res = "offline" /\ ~Cached /\ ToLogin(f)
    \/ f.fresh /\ res \in {"dropped", "signed_out"} /\ ToLogin(f)

\* The login step; switchWorkspace
AfterLogin(f, res) == IF res = "empty" THEN Holds(f) ELSE Leaves(f)
AfterSwitch(f) == Leaves(f)

\* landAfterDelete with fallBackToKnownWorkspace
AfterDelete(f, res) ==
    \/ res = "empty" /\ (IF Wanted(f) THEN Holds(f) ELSE Leaves(f))
    \/ /\ res \in {"401", "signed_out"}
       /\ IF res = "401" /\ ~Ending /\ f.fresh /\ SignedIn THEN Expires(f) ELSE Leaves(f)
    \/ /\ res \in {"offline", "dropped"}
       /\ \/ ~Wanted(f) /\ Leaves(f)
          \/ Wanted(f) /\ f.tries = 0 /\ Retries(f)
          \/ Wanted(f) /\ f.tries = 1 /\ app.boot = "ready" /\ Elsewhere(f)
          \/ /\ Wanted(f) /\ f.tries = 1 /\ (app.boot # "ready" \/ Survivors(f) = {})
             /\ Leaves(f)

\* landOutside
AfterLand(f, res) ==
    \/ res = "empty" /\ (IF Wanted(f) THEN Holds(f) ELSE Leaves(f))
    \/ /\ res \in {"401", "signed_out"}
       /\ IF res = "401" /\ Wanted(f) /\ SignedIn THEN Expires(f) ELSE Leaves(f)
    \/ /\ res \in {"offline", "dropped"}
       /\ \/ ~Wanted(f) /\ Leaves(f)
          \/ Wanted(f) /\ f.tries = 0 /\ Retries(f)
          \/ Wanted(f) /\ f.tries > 0 /\ Elsewhere(f)
          \/ /\ Wanted(f) /\ f.tries > 0 /\ Survivors(f) = {}
             /\ flows' = (flows \ {f}) \cup {[f EXCEPT !.pc = "wait", !.tries = 2]}
             /\ IF f.tries = 1 THEN Notice("reconnecting") ELSE UNCHANGED shown
             /\ UNCHANGED <<tokens, disk>>

\* holdForWorkspace
AfterHold(f, res) ==
    \/ res = "signed_out" /\ Leaves(f)
    \/ res = "401" /\ (IF Wanted(f) THEN Expires(f) ELSE Leaves(f))
    \/ res = "dropped" /\ (IF Wanted(f) THEN ToLogin(f) ELSE Leaves(f))
    \/ /\ res \in {"empty", "offline"}
       /\ flows' = (flows \ {f}) \cup {[f EXCEPT !.pc = "wait"]}
       /\ UNCHANGED <<shown, tokens, disk>>

After(f, res) ==
    \/ f.kind = "boot"   /\ AfterBoot(f, res)
    \/ f.kind = "login"  /\ AfterLogin(f, res)
    \/ f.kind = "switch" /\ AfterSwitch(f)
    \/ f.kind = "delete" /\ AfterDelete(f, res)
    \/ f.kind = "land"   /\ AfterLand(f, res)
    \/ f.kind = "hold"   /\ AfterHold(f, res)

\* The backoff is over, or was cut short.
Wake(f) ==
    /\ f.pc = "wait"
    /\ IF Wanted(f) THEN Ask(f) ELSE flows' = Rest(f)
    /\ UNCHANGED quiet

\* purgeWorkspaceStorage of the workspace that was left
PurgeLeft(f) ==
    /\ f.pc = "over"
    /\ flows' = flows \ {f} /\ disk' = Purged(f.ws)
    /\ UNCHANGED <<lists, refused, shown, tokens, bounds, history>>

-----------------------------------------------------------------------------
(* establishSession *)

To(f, pc) == flows' = (flows \ {f}) \cup {[f EXCEPT !.pc = pc]}
Drop(f) == After(f, "dropped")
asked == <<lists, refused, bounds, history>>

ServeMe(f) ==
    /\ f.pc = "me" /\ f.by \in People \ refused
    /\ flows' = (flows \ {f}) \cup {[f EXCEPT !.pc = "answered", !.me = lists[f.by]]}
    /\ UNCHANGED quiet

Unreachable(f) ==
    /\ f.pc = "me" /\ Trouble /\ After(f, "offline")
    /\ astray' = IF f.kind = "boot" /\ f.fresh /\ disk.cache.user \notin {NoOne, tokens}
                 THEN astray \cup {"cached"} ELSE astray
    /\ UNCHANGED <<lists, refused, left>>

\* 401: the tokens are gone, the second try after a refresh is refused all the
\* same, the refresh itself is, or it goes out with the tokens of a newer login.
Refused401(f) ==
    /\ f.pc = "me" /\ f.by \in refused \cup {NoOne}
    /\ \/ tokens \in refused \cup {NoOne} /\ After(f, "401")
       \/ tokens = NoOne /\ After(f, "signed_out")
       \/ tokens \in refused /\ Expires(f)
       \/ tokens \in People \ refused /\ Ask(f) /\ UNCHANGED <<shown, tokens, disk>>
    /\ UNCHANGED asked

\* Another account's data: everything that could write is closed before it is wiped.
Trusting(f) == FALSE   \* mutant
Foreign(f) == disk.cache.user \notin {NoOne, f.by}
HandleMe(f) ==
    /\ f.pc = "answered"
    /\ \/ ~Wanted(f) /\ Drop(f)
       \/ /\ Wanted(f) /\ Foreign(f) /\ To(f, "settle")
          /\ client' = AllClosed /\ current' = Nowhere /\ UNCHANGED <<app, tokens, disk>>
       \/ Wanted(f) /\ ~Foreign(f) /\ To(f, "commit") /\ UNCHANGED <<shown, tokens, disk>>
    /\ UNCHANGED asked

PurgeForeign(f) ==
    /\ f.pc = "settle"
    /\ \/ ~Wanted(f) /\ Drop(f)
       \/ /\ Wanted(f) /\ To(f, "commit") /\ disk' = [Empty EXCEPT !.auth = disk.auth]
          /\ UNCHANGED <<shown, tokens>>
    /\ UNCHANGED asked

\* pickMembership: the requested one, the last used, the first.
Candidates(f) ==
    CASE f.kind = "switch" -> f.me \cap {f.ws}
      [] f.kind # "switch" /\ disk.cache.ws \in f.me -> {disk.cache.ws}
      [] f.kind # "switch" /\ disk.cache.ws \notin f.me -> f.me

\* setSession and initSync, then discardLostWorkspaces.
Commit(f) ==
    /\ f.pc = "commit"
    /\ \/ (~Wanted(f) \/ (f.kind = "switch" /\ Candidates(f) = {})) /\ Drop(f)
       \/ Wanted(f) /\ f.kind # "switch" /\ Candidates(f) = {} /\ After(f, "empty")
       \/ /\ Wanted(f) /\ UNCHANGED tokens
          /\ \E w \in Candidates(f) : Open(Rest(f), f.by, w, f.me, f.me)
    /\ UNCHANGED asked

Establish(f) ==
    \/ ServeMe(f) \/ Unreachable(f) \/ Refused401(f)
    \/ HandleMe(f) \/ PurgeForeign(f) \/ Commit(f)

-----------------------------------------------------------------------------
(* What the user does *)

StartApp ==
    /\ app.boot = "loading" /\ flows = {}
    /\ tokens' = disk.auth
    /\ IF disk.auth = NoOne
       THEN app' = SignedOut /\ UNCHANGED flows
       ELSE flows' = {Flow("boot", "me", Nowhere, disk.auth)} /\ UNCHANGED app
    /\ UNCHANGED <<lists, refused, client, current, disk, bounds, history>>

Login(p) ==
    /\ app.boot = "onboarding" /\ Under({"login"}) = {} /\ Tap
    /\ tokens' = p /\ disk' = [disk EXCEPT !.auth = p]
    /\ refused' = refused \ {p} /\ left' = FALSE
    /\ flows' = flows \cup {Flow("login", "me", Nowhere, p)}
    /\ UNCHANGED <<lists, shown, astray>>

Unhurried ==
    /\ app.boot = "ready" /\ Under({"switch", "delete", "logout"}) = {}
Switch(w) ==
    /\ Unhurried /\ w \in app.known \ {app.ws} /\ Tap
    /\ flows' = flows \cup {Flow("switch", "me", w, tokens)}
    /\ astray' = astray \cup {"switch" : f \in Under({"expire"})}
    /\ UNCHANGED <<lists, refused, shown, tokens, disk, left>>

Delete ==
    /\ Unhurried /\ Tap
    /\ flows' = flows \cup {Flow("delete", "deleting", app.ws, tokens)}
    /\ UNCHANGED still

\* The server deletes it for everyone; the landing starts in today's session.
DeleteServed(f) ==
    /\ f.kind = "delete" /\ f.pc = "deleting" /\ f.by \in People \ refused /\ f.ws \in lists[f.by]
    /\ lists' = [p \in People |-> lists[p] \ {f.ws}]
    /\ LET now == [f EXCEPT !.fresh = TRUE]
       IN  flows' = (flows \ {f}) \cup {IF Wanted(now) THEN Asked(now) ELSE Over(now)}
    /\ UNCHANGED <<refused, shown, tokens, disk, bounds, history>>

DeleteFails(f) ==
    /\ f.pc = "deleting"
    /\ f.by \in People \ refused => f.ws \notin lists[f.by]
    /\ flows' = flows \ {f}
    /\ UNCHANGED quiet

Logout ==
    /\ app.boot \in {"ready", "noWorkspace", "reconnecting"} /\ ~Ending /\ Tap
    /\ flows' = Outdated(flows) \cup {Flow("logout", "closing", Nowhere, NoOne)}
    /\ client' = AllClosed /\ current' = Nowhere
    /\ UNCHANGED <<lists, refused, app, tokens, disk, history>>

\* The writes under way have settled: api.logout() drops the tokens, those of a
\* login under way too, and all data goes.
Arriving == {f \in Under({"login"}) : f.fresh}
PurgeAll(f) ==
    /\ f.kind = "logout" /\ f.pc = "closing"
    /\ flows' = (flows \ {f}) \cup {[f EXCEPT !.pc = "purged"]}
    /\ tokens' = NoOne /\ disk' = Empty
    /\ left' = (Arriving = {}) /\ astray' = {"login" : g \in Arriving}
    /\ UNCHANGED <<lists, refused, shown, bounds>>

\* The store is reset, whoever it shows by then.
Reset(f) ==
    /\ (f.kind = "logout" /\ f.pc = "purged") \/ f.kind = "expire"
    /\ flows' = flows \ {f} /\ app' = SignedOut
    /\ UNCHANGED <<lists, refused, tokens, client, current, disk, bounds, history>>

-----------------------------------------------------------------------------
(* Sync clients at work *)

Works(w) == client[w].on \in {"running", "stopped"}

Writes(w) ==
    /\ Works(w) /\ disk.data[w] # client[w].user
    /\ disk' = [disk EXCEPT !.data[w] = client[w].user]
    /\ UNCHANGED <<lists, refused, shown, tokens, flows, bounds, history>>

Idle(w) ==
    /\ client[w].on = "stopped" /\ client' = [client EXCEPT ![w] = Off]
    /\ UNCHANGED <<lists, refused, app, tokens, current, flows, disk, bounds, history>>

\* 403 or 404: the data goes; the screen leaves the workspace if it is the open
\* one, in one move per session.
Moving(w) == \E f \in flows : f.kind = "land" /\ f.ws = w /\ f.fresh
SyncLost(w) ==
    /\ Works(w)
    /\ \E p \in {tokens, client[w].user} \ {NoOne} : p \notin refused /\ w \notin lists[p]
    /\ disk' = Purged(w)
    /\ client' = [client EXCEPT ![w] =
                    IF @.on = "running" THEN [@ EXCEPT !.on = "lost"] ELSE Off]
    /\ flows' = IF app.ws = w /\ ~Moving(w)
                THEN flows \cup {Flow("land", IF Ending THEN "over" ELSE "me", w, tokens)}
                ELSE flows
    /\ UNCHANGED <<lists, refused, app, tokens, current, bounds, history>>

SyncRefused(w) ==
    /\ Works(w) /\ tokens \in refused /\ Expire(flows)
    /\ UNCHANGED <<lists, refused, app, bounds, history>>

-----------------------------------------------------------------------------
(* What happens to it *)

Kill ==
    /\ app.boot # "loading" \/ flows # {}
    /\ Trouble
    /\ app' = Loading /\ tokens' = NoOne /\ client' = NoClient /\ current' = Nowhere
    /\ flows' = {} /\ astray' = {}
    /\ UNCHANGED <<lists, refused, disk, left>>

Gain(p, w) ==
    /\ w \notin lists[p] /\ Change
    /\ lists' = [lists EXCEPT ![p] = @ \cup {w}]
    /\ UNCHANGED <<refused, memory, disk, history>>

Lose(p, w) ==
    /\ w \in lists[p] /\ Change
    /\ lists' = [lists EXCEPT ![p] = @ \ {w}]
    /\ UNCHANGED <<refused, memory, disk, history>>

Refuse(p) ==
    /\ p \notin refused /\ Trouble /\ refused' = refused \cup {p}
    /\ UNCHANGED <<lists, memory, disk, history>>

-----------------------------------------------------------------------------
PhoneInit ==
    /\ lists = SeedLists /\ refused = {}
    /\ app = Loading /\ tokens = NoOne /\ client = NoClient /\ current = Nowhere
    /\ flows = {} /\ disk = Empty
    /\ changes = 0 /\ troubles = 0 /\ taps = 0 /\ left = FALSE /\ astray = {}

PhoneNext ==
    \/ \E f \in flows : Establish(f)
    \/ \E f \in flows : Wake(f) \/ PurgeLeft(f)
    \/ \E f \in flows : DeleteServed(f) \/ DeleteFails(f)
    \/ \E f \in flows : PurgeAll(f) \/ Reset(f)
    \/ \E w \in Spaces :
        \/ Switch(w) \/ Writes(w) \/ Idle(w) \/ SyncLost(w) \/ SyncRefused(w)
        \/ \E p \in People : Gain(p, w) \/ Lose(p, w)
    \/ \E p \in People : Login(p) \/ Refuse(p)
    \/ StartApp \/ Delete \/ Logout \/ Kill

PhoneSpec == PhoneInit /\ [][PhoneNext]_phoneVars

-----------------------------------------------------------------------------
(* Properties *)

FlowOf(kinds, pcs) == [kind : kinds, pc : pcs, ws : Place, by : Account,
                       me : SUBSET Spaces, tries : 0..2, fresh : BOOLEAN]
Asking == {"me", "answered", "settle", "commit", "wait"}
Working == FlowOf({"boot", "login", "switch", "delete", "land", "hold", "expire"},
                  Asking \cup {"deleting", "over", "post"})
Leaving == FlowOf({"logout"}, {"closing", "purged"})
Doors == {"cached", "switch", "login"}

\* Types of the server's, the app's and the disk's state.
PhoneTypeOK ==
    /\ lists \in [People -> SUBSET Spaces] /\ refused \subseteq People
    /\ app \in [boot : {"loading", "onboarding", "ready", "noWorkspace", "reconnecting"},
                user : Account, ws : Place, known : SUBSET Spaces]
    /\ tokens \in Account /\ current \in Place
    /\ client \in [Spaces -> [on : {"off", "running", "stopped", "lost"}, user : Account]]
    /\ flows \subseteq Working \cup Leaving
    /\ disk \in [auth : Account, cache : [user : Account, ws : Place], data : [Spaces -> Account]]
    /\ changes \in Nat /\ troubles \in Nat /\ taps \in Nat /\ left \in BOOLEAN
    /\ astray \subseteq Doors

\* One loop of a session waits for a workspace.
OneHold == \A f, g \in Under({"hold"}) : f.fresh /\ g.fresh => f = g

\* After a logout nothing of the account is left on the phone, and nothing that
\* could still write there, until somebody signs in: whatever was under way.
LogoutIsClean ==
    left => /\ disk = Empty
            /\ \A w \in Spaces : client[w].on = "off"

\* The workspace on the screen is the one the client in use serves, for the user
\* on the screen; a lost one is being left.
ScreenIsServed ==
    app.boot = "ready" /\ Under({"logout", "expire"}) = {} =>
        /\ current = app.ws /\ client[current].user = app.user
        /\ \/ client[current].on = "running"
           \/ \E f \in Under({"land", "delete"}) : f.ws = current /\ f.fresh

\* No data and no client of another account is left beside the account on the screen.
NothingForeign ==
    app.boot = "ready" =>
        \A w \in Spaces : {client[w].user, disk.data[w]} \subseteq {NoOne, app.user}

\* A session on the screen is the one its requests go out for, and nothing of
\* another account is beside it.
OneAccount ==
    /\ NothingForeign
    /\ app.boot = "ready" => tokens \in {NoOne, app.user}

\* Three steps let the tokens part from the session on the screen: a start
\* without the network opens a cached session of another account, a switch is
\* tapped while the session expires, a logout drops the tokens of a login under
\* way.  Until the app is killed or logged out, nothing is promised after one.
Unstrayed == astray = {}

\* But for these three, a session on the screen is the one its requests go out
\* for; nothing of another account is beside it even then.
OneAccountUnlessAstray == NothingForeign /\ (Unstrayed => OneAccount)

\* But for these three, the workspace on the screen is served.
ScreenIsServedUnlessAstray == Unstrayed => ScreenIsServed
=============================================================================
