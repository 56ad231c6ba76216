----------------------------- MODULE PhoneProofs -----------------------------
(***************************************************************************)
(* Proofs about PhoneSession, for any accounts, workspaces and bounds: a   *)
(* logout leaves nothing behind; no account's data or client is beside     *)
(* another's session; and, until one of three steps lets the tokens part   *)
(* from the session, requests go out as the account on the screen and its  *)
(* client serves the workspace on it.                                      *)
(* Each invariant is explained where its part begins; of the first: once a *)
(* logout has begun, no client works and only a login still asks in a      *)
(* session; once it has left nothing, not even that.                       *)
(***************************************************************************)
EXTENDS PhoneSession, TLAPS

Memory ==
    /\ app \in [boot : {"loading", "onboarding", "ready", "noWorkspace", "reconnecting"},
                user : Account, ws : Place, known : SUBSET Spaces]
    /\ tokens \in Account /\ current \in Place
    /\ client \in [Spaces -> [on : {"off", "running", "stopped", "lost"}, user : Account]]
    /\ flows \subseteq Working \cup Leaving
    /\ disk \in [auth : Account, cache : [user : Account, ws : Place], data : [Spaces -> Account]]

Quiet(F) == \A f \in F : f.fresh => f.pc \notin Asking
Silent(F) == \A f \in F : f.fresh /\ f.pc \in Asking => f.kind = "login"

\* A logout that has begun, until somebody signs in or the app is killed.
Begun == left \/ Ending

PhoneInv ==
    /\ PhoneTypeOK
    /\ Begun => client = NoClient /\ Silent(flows)
    /\ left => disk = Empty /\ tokens = NoOne /\ Quiet(flows)
    /\ left /\ ~Ending => app.boot \in {"onboarding", "loading"}

-----------------------------------------------------------------------------
(* What the parts of a step do to the flows *)

LEMMA EndingIs ==
    ASSUME flows \subseteq Working \cup Leaving
    PROVE  /\ Ending <=> \E f \in flows : f \in Leaving
           /\ ~Ending <=> flows \subseteq Working
  BY DEF Ending, Working, Leaving, FlowOf

LEMMA OutdatedOK ==
    ASSUME NEW F
    PROVE  /\ F \subseteq Working \cup Leaving => Outdated(F) \subseteq Working \cup Leaving
           /\ F \subseteq Working => Outdated(F) \subseteq Working
           /\ F \subseteq Working \cup Leaving => Quiet(Outdated(F))
  BY DEF Outdated, Working, Leaving, FlowOf, Quiet

LEMMA FlowIn ==
    ASSUME NEW k, NEW pc, NEW w \in Place, NEW u \in Account
    PROVE  /\ Flow(k, pc, w, u).kind = k /\ Flow(k, pc, w, u).pc = pc
           /\ /\ k \in {"boot", "login", "switch", "delete", "land", "hold", "expire"}
              /\ pc \in Asking \cup {"deleting", "over", "post"}
              => Flow(k, pc, w, u) \in Working
           /\ k = "logout" /\ pc \in {"closing", "purged"} => Flow(k, pc, w, u) \in Leaving
  BY DEF Flow, Working, Leaving, FlowOf

LEMMA RestOK ==
    ASSUME Memory, NEW f \in flows, f \in Working
    PROVE  /\ Over(f) \in Working /\ Over(f).pc = "over"
           /\ Rest(f) \subseteq Working \cup Leaving
           /\ flows \subseteq Working => Rest(f) \subseteq Working
           /\ (Quiet(flows) => Quiet(Rest(f))) /\ (Silent(flows) => Silent(Rest(f)))
           /\ \A g \in flows : g \in Leaving => g \in Rest(f)
  <1>. DEFINE o == Flow(f.kind, "over", f.ws, NoOne)
  <1>1. o \in Working /\ o.pc = "over"
    <2>1. f.ws \in Place /\ NoOne \in Account
      BY DEF Working, FlowOf, Account
    <2>2. f.kind \in {"boot", "login", "switch", "delete", "land", "hold", "expire"}
      BY DEF Working, FlowOf
    <2>. QED
      BY <2>1, <2>2, FlowIn
  <1>2. Over(f) \in Working /\ Over(f).pc = "over"
    BY <1>1 DEF Over, Working, FlowOf
  <1>3. \A g \in Leaving : g # f
    BY DEF Working, Leaving, FlowOf
  <1>. QED
    BY <1>2, <1>3 DEF Rest, Quiet, Silent, Memory, Asking

LEMMA RetiredOK ==
    ASSUME Memory
    PROVE  /\ Retired \in [Spaces -> [on : {"off", "running", "stopped", "lost"}, user : Account]]
           /\ client = NoClient => Retired = NoClient
  BY DEF Memory, Retired, NoClient, Off, Account

LEMMA OpenOK ==
    ASSUME Memory, NEW F, F \subseteq Working \cup Leaving, NEW u \in Account, NEW w \in Place,
           NEW known \in SUBSET Spaces, NEW keep, Open(F, u, w, known, keep), tokens' = tokens
    PROVE  Memory' /\ (F \subseteq Working => flows' \subseteq Working)
  <1>1. client' \in [Spaces -> [on : {"off", "running", "stopped", "lost"}, user : Account]]
    BY RetiredOK DEF Open, Serve
  <1>2. flows' \subseteq Working \cup Leaving /\ (F \subseteq Working => flows' \subseteq Working)
    BY OutdatedOK DEF Open
  <1>3. disk' \in [auth : Account, cache : [user : Account, ws : Place], data : [Spaces -> Account]]
    BY DEF Open, Memory, Account
  <1>. QED
    BY <1>1, <1>2, <1>3 DEF Memory, Open, Serve, Place

LEMMA HoldOK ==
    ASSUME Memory, NEW F, F \subseteq Working \cup Leaving, Hold(F), UNCHANGED <<tokens, disk>>
    PROVE  Memory' /\ (F \subseteq Working => flows' \subseteq Working)
  <1>. DEFINE loop == Flow("hold", "wait", Nowhere, tokens)
  <1>1. loop \in Working
    BY FlowIn DEF Asking, Place, Memory
  <1>2. Superseded(F) \subseteq Working \cup Leaving
        /\ (F \subseteq Working => Superseded(F) \subseteq Working)
    BY OutdatedOK DEF Superseded
  <1>3. flows' \subseteq Working \cup Leaving /\ (F \subseteq Working => flows' \subseteq Working)
    BY <1>1, <1>2 DEF Hold
  <1>. QED
    BY <1>3, RetiredOK DEF Memory, Hold, Notice, Teardown, Place

LEMMA ExpireOK ==
    ASSUME Memory, NEW F, F \subseteq Working \cup Leaving, Expire(F), UNCHANGED app
    PROVE  /\ Memory' /\ (F \subseteq Working => flows' \subseteq Working)
           /\ Quiet(flows') /\ (client = NoClient => client' = NoClient)
           /\ \A g \in F : g \in Leaving => \E h \in flows' : h \in Leaving
  <1>. DEFINE post == Flow("expire", "post", Nowhere, NoOne)
  <1>1. post \in Working /\ post.pc = "post"
    BY FlowIn DEF Place, Account
  <1>2. flows' = Outdated(F) \cup {post}
    BY DEF Expire
  <1>3. \A g \in F : g \in Leaving => [g EXCEPT !.fresh = FALSE] \in Outdated(F) \cap Leaving
    BY DEF Outdated, Leaving, FlowOf
  <1>4. Quiet(flows')
    BY <1>1, <1>2, OutdatedOK DEF Quiet, Asking
  <1>5. flows' \subseteq Working \cup Leaving /\ (F \subseteq Working => flows' \subseteq Working)
    BY <1>1, <1>2, OutdatedOK
  <1>6. disk' \in [auth : Account, cache : [user : Account, ws : Place], data : [Spaces -> Account]]
    BY DEF Expire, Memory, Account
  <1>. QED
    BY <1>2, <1>3, <1>4, <1>5, <1>6, RetiredOK DEF Memory, Expire, Teardown, Place, Account

LEMMA NextFlowsOK ==
    ASSUME Memory, NEW f \in flows, f \in Working, NEW g \in Working,
           flows' = (flows \ {f}) \cup {g}
    PROVE  /\ flows' \subseteq Working \cup Leaving
           /\ flows \subseteq Working => flows' \subseteq Working
           /\ \A h \in flows : h \in Leaving => h \in flows'
  BY DEF Memory, Working, Leaving, FlowOf

LEMMA AskedOK ==
    ASSUME Memory, NEW f \in Working
    PROVE  /\ Asked(f) \in Working /\ [Asked(f) EXCEPT !.tries = 1] \in Working
           /\ \A pc \in Asking \cup {"over"} : [f EXCEPT !.pc = pc] \in Working
           /\ [f EXCEPT !.pc = "wait", !.tries = 2] \in Working
           /\ \A me \in SUBSET Spaces : [f EXCEPT !.pc = "answered", !.me = me] \in Working
           /\ Over(f) \in Working
  <1>. DEFINE o == Flow(f.kind, "over", f.ws, NoOne)
  <1>1. o \in Working
    <2>1. f.ws \in Place /\ NoOne \in Account
      BY DEF Working, FlowOf, Account
    <2>2. f.kind \in {"boot", "login", "switch", "delete", "land", "hold", "expire"}
      BY DEF Working, FlowOf
    <2>. QED
      BY <2>1, <2>2, FlowIn
  <1>2. Over(f) \in Working
    BY <1>1 DEF Over, Working, FlowOf
  <1>3. Asked(f) \in Working
    <2>1. tokens \in Account /\ "me" \in Asking \cup {"deleting", "over", "post"}
      BY DEF Memory, Asking
    <2>. DEFINE g == [f EXCEPT !.pc = "me"]
    <2>2. g \in Working
      BY <2>1 DEF Working, FlowOf
    <2>3. [g EXCEPT !.by = tokens] \in Working
      BY <2>1, <2>2 DEF Working, FlowOf
    <2>. QED
      BY <2>3 DEF Asked
  <1>4. [Asked(f) EXCEPT !.tries = 1] \in Working
    BY <1>3 DEF Working, FlowOf
  <1>5. \A pc \in Asking \cup {"over"} : [f EXCEPT !.pc = pc] \in Working
    BY DEF Working, FlowOf
  <1>6. [f EXCEPT !.pc = "wait", !.tries = 2] \in Working
    <2>1. [f EXCEPT !.pc = "wait"] \in Working
      BY <1>5 DEF Asking
    <2>2. \A g \in Working : [g EXCEPT !.tries = 2] \in Working
      BY DEF Working, FlowOf
    <2>3. [[f EXCEPT !.pc = "wait"] EXCEPT !.tries = 2] = [f EXCEPT !.pc = "wait", !.tries = 2]
      BY DEF Working, FlowOf
    <2>. QED
      BY <2>1, <2>2, <2>3
  <1>7. \A me \in SUBSET Spaces : [f EXCEPT !.pc = "answered", !.me = me] \in Working
    <2>. DEFINE g == [f EXCEPT !.pc = "answered"]
    <2>1. g \in Working
      BY <1>5 DEF Asking
    <2>2. \A me \in SUBSET Spaces : [g EXCEPT !.me = me] \in Working
      BY <2>1 DEF Working, FlowOf
    <2>3. \A me : [g EXCEPT !.me = me] = [f EXCEPT !.pc = "answered", !.me = me]
      BY DEF Working, FlowOf
    <2>. QED
      BY <2>2, <2>3
  <1>. QED
    BY <1>2, <1>3, <1>4, <1>5, <1>6, <1>7

-----------------------------------------------------------------------------
(* What each caller does with an answer *)

\* The ways a flow can take its answer.
LEMMA AfterCases ==
    ASSUME NEW f, NEW res, After(f, res)
    PROVE  \/ Leaves(f) \/ Holds(f) \/ Expires(f) \/ ToLogin(f) \/ Elsewhere(f) \/ Retries(f)
           \/ /\ Open(Rest(f), disk.cache.user, disk.cache.ws, {}, Spaces)
              /\ UNCHANGED tokens
           \/ /\ flows' = (flows \ {f}) \cup {[f EXCEPT !.pc = "wait", !.tries = 2]}
              /\ Notice("reconnecting") \/ UNCHANGED shown
              /\ UNCHANGED <<tokens, disk>>
           \/ /\ flows' = (flows \ {f}) \cup {[f EXCEPT !.pc = "wait"]}
              /\ UNCHANGED <<shown, tokens, disk>>
  <1>1. CASE AfterBoot(f, res)
    BY <1>1 DEF AfterBoot
  <1>2. CASE AfterLogin(f, res)
    BY <1>2 DEF AfterLogin
  <1>3. CASE AfterSwitch(f)
    BY <1>3 DEF AfterSwitch
  <1>4. CASE AfterDelete(f, res)
    BY <1>4 DEF AfterDelete
  <1>5. CASE AfterLand(f, res)
    BY <1>5 DEF AfterLand
  <1>6. CASE AfterHold(f, res)
    BY <1>6 DEF AfterHold
  <1>. QED
    BY <1>1, <1>2, <1>3, <1>4, <1>5, <1>6 DEF After

LEMMA AfterOK ==
    ASSUME Memory, NEW f \in flows, f \in Working, NEW res, After(f, res)
    PROVE  Memory' /\ (flows \subseteq Working => flows' \subseteq Working)
  <1>. DEFINE Good == Memory' /\ (flows \subseteq Working => flows' \subseteq Working)
  <1>1. CASE Leaves(f)
    BY <1>1, RestOK DEF Leaves, Memory, shown
  <1>2. CASE Holds(f)
    BY <1>2, RestOK, HoldOK DEF Holds
  <1>3. CASE Expires(f)
    BY <1>3, RestOK, ExpireOK DEF Expires
  <1>4. CASE ToLogin(f)
    BY <1>4, RestOK DEF ToLogin, Memory
  <1>5. CASE Elsewhere(f)
    <2>1. app.user \in Account /\ Survivors(f) \in SUBSET Spaces /\ Spaces \subseteq Place
      BY DEF Memory, Survivors, Place
    <2>2. PICK w \in Survivors(f) : Open(Rest(f), app.user, w, Survivors(f), Spaces)
      BY <1>5 DEF Elsewhere
    <2>. QED
      BY <1>5, <2>1, <2>2, RestOK, OpenOK DEF Elsewhere
  <1>6. CASE Retries(f)
    BY <1>6, AskedOK, NextFlowsOK DEF Retries, Memory, shown
  <1>7. CASE Open(Rest(f), disk.cache.user, disk.cache.ws, {}, Spaces) /\ UNCHANGED tokens
    <2>1. disk.cache.user \in Account /\ disk.cache.ws \in Place /\ {} \in SUBSET Spaces
      BY DEF Memory
    <2>. QED
      BY <1>7, <2>1, RestOK, OpenOK
  <1>8. CASE /\ flows' = (flows \ {f}) \cup {[f EXCEPT !.pc = "wait", !.tries = 2]}
             /\ Notice("reconnecting") \/ UNCHANGED shown
             /\ UNCHANGED <<tokens, disk>>
    <2>1. /\ flows' \subseteq Working \cup Leaving
          /\ flows \subseteq Working => flows' \subseteq Working
      BY <1>8, AskedOK, NextFlowsOK
    <2>. QED
      BY <1>8, <2>1, RetiredOK DEF Memory, Notice, Teardown, shown, Place
  <1>9. CASE /\ flows' = (flows \ {f}) \cup {[f EXCEPT !.pc = "wait"]}
             /\ UNCHANGED <<shown, tokens, disk>>
    <2>1. /\ flows' \subseteq Working \cup Leaving
          /\ flows \subseteq Working => flows' \subseteq Working
      BY <1>9, AskedOK, NextFlowsOK DEF Asking
    <2>. QED
      BY <1>9, <2>1 DEF Memory, shown
  <1>. QED
    BY <1>1, <1>2, <1>3, <1>4, <1>5, <1>6, <1>7, <1>8, <1>9, AfterCases

\* A flow of an earlier session changes nothing but itself, and neither does a
\* login whose answer came too late.
LEMMA StaleAfter ==
    ASSUME Memory, NEW f \in flows, f \in Working, f.fresh => f.kind = "login",
           NEW res, res # "empty", After(f, res)
    PROVE  /\ UNCHANGED <<shown, tokens, disk>>
           /\ (Quiet(flows) => Quiet(flows')) /\ (Silent(flows) => Silent(flows'))
           /\ \A g \in flows : g \in Leaving => g \in flows'
  <1>. DEFINE waits == [f EXCEPT !.pc = "wait"]
  <1>1. ~f.fresh => ~Wanted(f)
    BY DEF Wanted
  <1>2. \/ Leaves(f)
        \/ /\ flows' = (flows \ {f}) \cup {waits} /\ UNCHANGED <<shown, tokens, disk>>
           /\ ~f.fresh
    <2>1. CASE f.kind = "boot" /\ AfterBoot(f, res)
      BY <2>1 DEF AfterBoot
    <2>2. CASE AfterLogin(f, res)
      BY <2>2 DEF AfterLogin
    <2>3. CASE AfterSwitch(f)
      BY <2>3 DEF AfterSwitch
    <2>4. CASE f.kind = "delete" /\ AfterDelete(f, res)
      BY <1>1, <2>4 DEF AfterDelete
    <2>5. CASE f.kind = "land" /\ AfterLand(f, res)
      BY <1>1, <2>5 DEF AfterLand
    <2>6. CASE f.kind = "hold" /\ AfterHold(f, res)
      BY <1>1, <2>6 DEF AfterHold
    <2>. QED
      BY <2>1, <2>2, <2>3, <2>4, <2>5, <2>6 DEF After
  <1>3. CASE Leaves(f)
    BY <1>3, RestOK DEF Leaves
  <1>4. CASE /\ flows' = (flows \ {f}) \cup {waits} /\ UNCHANGED <<shown, tokens, disk>>
             /\ ~f.fresh
    <2>1. waits \in Working /\ ~waits.fresh
      BY <1>4, AskedOK DEF Asking, Working, FlowOf
    <2>. QED
      BY <1>4, <2>1, NextFlowsOK DEF Quiet, Silent
  <1>. QED
    BY <1>2, <1>3, <1>4

-----------------------------------------------------------------------------
(* Steps *)

LEMMA MemoryIs ==
    ASSUME PhoneTypeOK
    PROVE  Memory
  BY DEF PhoneTypeOK, Memory

\* A step that leaves the screen, the clients and the data of an ended session
\* alone keeps the invariant.
LEMMA Harmless ==
    ASSUME PhoneInv, PhoneTypeOK', left' = left,
           flows \subseteq Working => flows' \subseteq Working,
           Begun => /\ client' = NoClient /\ Silent(flows') /\ app' = app
                    /\ Ending => \E g \in flows' : g \in Leaving
                    /\ left => disk' = Empty /\ tokens' = NoOne /\ Quiet(flows')
    PROVE  PhoneInv'
  <1>1. Ending => Ending'
    BY DEF Begun, Ending, Leaving, FlowOf
  <1>2. ~Ending => ~Ending'
    <2>1. SUFFICES ASSUME ~Ending PROVE flows' \subseteq Working
      BY DEF Ending, Working, FlowOf
    <2>. QED
      BY <2>1, EndingIs DEF PhoneInv, PhoneTypeOK
  <1>3. Begun' => Begun
    BY <1>2 DEF Begun
  <1>4. left' => Begun
    BY DEF Begun
  <1>5. (left /\ ~Ending => app.boot \in {"onboarding", "loading"})'
    BY <1>1, <1>4 DEF PhoneInv
  <1>6. (Begun => client = NoClient /\ Silent(flows))'
    BY <1>3 DEF Silent
  <1>7. (left => disk = Empty /\ tokens = NoOne /\ Quiet(flows))'
    BY <1>4 DEF Quiet
  <1>. QED
    BY <1>5, <1>6, <1>7 DEF PhoneInv

\* A flow that still asks, and its answer of an ended session.
LEMMA Stale ==
    ASSUME PhoneInv, NEW f \in flows, f.pc \in Asking
    PROVE  /\ Memory /\ f \in Working
           /\ Begun => (f.fresh => f.kind = "login") /\ ~Wanted(f)
           /\ left => ~f.fresh
  BY MemoryIs DEF PhoneInv, PhoneTypeOK, Working, Leaving, FlowOf, Asking, Quiet, Silent,
                  Wanted, Begun

LEMMA AnswerKeeps ==
    ASSUME PhoneInv, NEW f \in flows, f.pc \in Asking, NEW res, Begun => res # "empty",
           After(f, res), UNCHANGED <<lists, refused, left>>, astray' \subseteq Doors,
           changes' \in Nat, troubles' \in Nat, taps' \in Nat
    PROVE  PhoneInv'
  <1>1. Memory /\ f \in Working /\ (Begun => (f.fresh => f.kind = "login"))
    BY Stale
  <1>2. Memory' /\ (flows \subseteq Working => flows' \subseteq Working)
    BY <1>1, AfterOK
  <1>3. PhoneTypeOK'
    BY <1>2 DEF PhoneInv, PhoneTypeOK, Memory
  <1>4. Begun => /\ UNCHANGED <<shown, tokens, disk>>
                 /\ (Quiet(flows) => Quiet(flows')) /\ (Silent(flows) => Silent(flows'))
                 /\ \A g \in flows : g \in Leaving => g \in flows'
    BY <1>1, StaleAfter
  <1>5. Ending => \E g \in flows : g \in Leaving
    BY EndingIs DEF PhoneInv, PhoneTypeOK
  <1>. QED
    BY <1>2, <1>3, <1>4, <1>5, Harmless DEF PhoneInv, Begun, shown

\* A flow that goes on, and nothing else.
LEMMA GoesOn ==
    ASSUME PhoneInv, NEW f \in flows, f \in Working, NEW g \in Working,
           flows' = (flows \ {f}) \cup {g}, UNCHANGED <<app, tokens, left>>,
           PhoneTypeOK', Begun => Silent({g}) /\ client' = NoClient,
           left => disk' = Empty /\ Quiet({g})
    PROVE  PhoneInv'
  <1>1. /\ flows \subseteq Working => flows' \subseteq Working
        /\ \A h \in flows : h \in Leaving => h \in flows'
    BY MemoryIs, NextFlowsOK DEF PhoneInv
  <1>2. Ending => \E h \in flows : h \in Leaving
    BY EndingIs DEF PhoneInv, PhoneTypeOK
  <1>3. (Begun => Silent(flows')) /\ (left => Quiet(flows'))
    BY DEF PhoneInv, Silent, Quiet
  <1>. QED
    BY <1>1, <1>2, <1>3, Harmless DEF PhoneInv

LEMMA ExpiryKeeps ==
    ASSUME PhoneInv, NEW F, F \subseteq Working \cup Leaving, Expire(F), UNCHANGED app,
           flows \subseteq Working => F \subseteq Working,
           \A g \in flows : g \in Leaving => g \in F,
           UNCHANGED <<lists, refused, bounds, left, astray>>
    PROVE  PhoneInv'
  <1>1. /\ Memory' /\ (F \subseteq Working => flows' \subseteq Working)
        /\ Quiet(flows') /\ (client = NoClient => client' = NoClient)
        /\ \A g \in F : g \in Leaving => \E h \in flows' : h \in Leaving
    BY MemoryIs, ExpireOK DEF PhoneInv
  <1>2. PhoneTypeOK'
    BY <1>1 DEF PhoneInv, PhoneTypeOK, Memory, bounds
  <1>3. Ending => \E g \in flows : g \in Leaving
    BY EndingIs DEF PhoneInv, PhoneTypeOK
  <1>4. left => disk' = Empty /\ tokens' = NoOne
    BY DEF PhoneInv, Expire, Empty
  <1>5. Silent(flows')
    BY <1>1 DEF Quiet, Silent
  <1>. QED
    BY <1>1, <1>2, <1>3, <1>4, <1>5, Harmless DEF PhoneInv, Begun

LEMMA Expired ==
    ASSUME PhoneInv, NEW f \in flows, f.pc \in Asking, Expires(f),
           UNCHANGED <<lists, refused, bounds, left, astray>>
    PROVE  PhoneInv'
  <1>1. Memory /\ f \in Working
    BY Stale
  <1>2. /\ Rest(f) \subseteq Working \cup Leaving
        /\ flows \subseteq Working => Rest(f) \subseteq Working
        /\ \A g \in flows : g \in Leaving => g \in Rest(f)
    BY <1>1, RestOK
  <1>. QED
    BY <1>2, ExpiryKeeps DEF Expires

\* Trouble counts one up and leaves the other bounds alone.
LEMMA TroubleOK ==
    ASSUME PhoneTypeOK, Trouble
    PROVE  changes' \in Nat /\ troubles' \in Nat /\ taps' \in Nat
  BY DEF PhoneTypeOK, Trouble

\* A flow that goes on asking asks as the kind, and in the session, it was.
LEMMA SameVoice ==
    ASSUME PhoneInv, NEW f \in flows, f.pc \in Asking, NEW g, g.fresh = f.fresh, g.kind = f.kind
    PROVE  (Begun => Silent({g})) /\ (left => Quiet({g}))
  BY Stale DEF Silent, Quiet

LEMMA ServeMeKeeps ==
    ASSUME PhoneInv, NEW f \in flows, ServeMe(f)
    PROVE  PhoneInv'
  <1>. DEFINE g == [f EXCEPT !.pc = "answered", !.me = lists[f.by]]
  <1>1. f.pc \in Asking
    BY DEF ServeMe, Asking
  <1>2. Memory /\ f \in Working
    BY <1>1, Stale
  <1>3. g \in Working /\ (Begun => Silent({g})) /\ (left => Quiet({g}))
    <2>1. lists[f.by] \in SUBSET Spaces
      BY DEF ServeMe, PhoneInv, PhoneTypeOK
    <2>2. g.fresh = f.fresh /\ g.kind = f.kind
      BY <1>2 DEF Working, FlowOf
    <2>. QED
      BY <1>1, <1>2, <2>1, <2>2, AskedOK, SameVoice
  <1>4. flows' = (flows \ {f}) \cup {g} /\ UNCHANGED quiet
    BY DEF ServeMe
  <1>5. PhoneTypeOK'
    BY <1>2, <1>3, <1>4, NextFlowsOK DEF PhoneInv, PhoneTypeOK, quiet, still, bounds, history
  <1>. QED
    BY <1>2, <1>3, <1>4, <1>5, GoesOn DEF PhoneInv, quiet, still, bounds, history

LEMMA RefusedKeeps ==
    ASSUME PhoneInv, NEW f \in flows, Refused401(f)
    PROVE  PhoneInv'
  <1>1. f.pc \in Asking /\ UNCHANGED <<lists, refused, bounds, left, astray>>
    BY DEF Refused401, Asking, asked, history
  <1>2. changes' \in Nat /\ troubles' \in Nat /\ taps' \in Nat /\ astray' \subseteq Doors
    BY <1>1 DEF PhoneInv, PhoneTypeOK, bounds
  <1>3. CASE After(f, "401")
    BY <1>1, <1>2, <1>3, AnswerKeeps
  <1>4. CASE After(f, "signed_out")
    BY <1>1, <1>2, <1>4, AnswerKeeps
  <1>5. CASE Expires(f)
    BY <1>1, <1>5, Expired
  <1>6. CASE Ask(f) /\ UNCHANGED <<shown, tokens, disk>>
    <2>1. Memory /\ f \in Working
      BY <1>1, Stale
    <2>2. Asked(f) \in Working /\ (Begun => Silent({Asked(f)})) /\ (left => Quiet({Asked(f)}))
      <3>1. Asked(f).fresh = f.fresh /\ Asked(f).kind = f.kind
        BY <2>1 DEF Asked, Working, FlowOf
      <3>. QED
        BY <1>1, <2>1, <3>1, AskedOK, SameVoice
    <2>3. PhoneTypeOK'
      BY <1>1, <1>6, <2>1, <2>2, NextFlowsOK DEF PhoneInv, PhoneTypeOK, shown, bounds, Ask
    <2>. QED
      BY <1>1, <1>6, <2>1, <2>2, <2>3, GoesOn DEF PhoneInv, shown, Ask
  <1>. QED
    BY <1>3, <1>4, <1>5, <1>6 DEF Refused401

\* To(f, pc): the flow goes on in its own session, or in one that has ended.
LEMMA ToOK ==
    ASSUME PhoneInv, NEW f \in flows, f.pc \in Asking, NEW pc \in Asking, To(f, pc),
           UNCHANGED <<app, tokens, lists, refused, bounds, left, astray>>,
           current' \in Place, client' = client \/ client' = NoClient,
           disk' \in [auth : Account, cache : [user : Account, ws : Place],
                     data : [Spaces -> Account]],
           left => disk' = Empty
    PROVE  PhoneInv'
  <1>. DEFINE g == [f EXCEPT !.pc = pc]
  <1>1. Memory /\ f \in Working
    BY Stale
  <1>2. g \in Working /\ (Begun => Silent({g})) /\ (left => Quiet({g}))
    <2>1. g.fresh = f.fresh /\ g.kind = f.kind
      BY <1>1 DEF Working, FlowOf
    <2>. QED
      BY <1>1, <2>1, AskedOK, SameVoice
  <1>3. NoClient \in [Spaces -> [on : {"off", "running", "stopped", "lost"}, user : Account]]
    BY DEF NoClient, Off, Account
  <1>4. PhoneTypeOK'
    BY <1>1, <1>2, <1>3, NextFlowsOK DEF To, PhoneInv, PhoneTypeOK, bounds
  <1>. QED
    BY <1>1, <1>2, <1>4, GoesOn DEF To, PhoneInv

LEMMA HandleMeKeeps ==
    ASSUME PhoneInv, NEW f \in flows, HandleMe(f)
    PROVE  PhoneInv'
  <1>1. f.pc \in Asking /\ UNCHANGED <<lists, refused, bounds, left, astray>>
    BY DEF HandleMe, Asking, asked, history
  <1>2. /\ changes' \in Nat /\ troubles' \in Nat /\ taps' \in Nat /\ astray' \subseteq Doors
        /\ disk \in [auth : Account, cache : [user : Account, ws : Place],
                    data : [Spaces -> Account]]
        /\ current \in Place /\ (left => disk = Empty)
    BY <1>1 DEF PhoneInv, PhoneTypeOK, bounds
  <1>3. CASE Drop(f)
    BY <1>1, <1>2, <1>3, AnswerKeeps DEF Drop
  <1>4. CASE /\ To(f, "settle") /\ client' = AllClosed /\ current' = Nowhere
             /\ UNCHANGED <<app, tokens, disk>>
    BY <1>1, <1>2, <1>4, ToOK DEF AllClosed, Place, Asking
  <1>5. CASE To(f, "commit") /\ UNCHANGED <<shown, tokens, disk>>
    BY <1>1, <1>2, <1>5, ToOK DEF shown, Asking
  <1>. QED
    BY <1>3, <1>4, <1>5 DEF HandleMe

LEMMA PurgeForeignKeeps ==
    ASSUME PhoneInv, NEW f \in flows, PurgeForeign(f)
    PROVE  PhoneInv'
  <1>1. f.pc \in Asking /\ UNCHANGED <<lists, refused, bounds, left, astray>>
    BY DEF PurgeForeign, Asking, asked, history
  <1>2. /\ changes' \in Nat /\ troubles' \in Nat /\ taps' \in Nat /\ astray' \subseteq Doors
        /\ disk \in [auth : Account, cache : [user : Account, ws : Place],
                    data : [Spaces -> Account]]
        /\ current \in Place /\ (left => disk = Empty)
    BY <1>1 DEF PhoneInv, PhoneTypeOK, bounds
  <1>3. CASE Drop(f)
    BY <1>1, <1>2, <1>3, AnswerKeeps DEF Drop
  <1>4. CASE /\ To(f, "commit") /\ disk' = [Empty EXCEPT !.auth = disk.auth]
             /\ UNCHANGED <<shown, tokens>>
    <2>1. disk' \in [auth : Account, cache : [user : Account, ws : Place],
                    data : [Spaces -> Account]]
      BY <1>2, <1>4 DEF Empty, NoCache, Account, Place
    <2>2. left => disk' = Empty
      BY <1>2, <1>4 DEF Empty
    <2>. QED
      BY <1>1, <1>2, <1>4, <2>1, <2>2, ToOK DEF shown, Asking
  <1>. QED
    BY <1>3, <1>4 DEF PurgeForeign

LEMMA CommitKeeps ==
    ASSUME PhoneInv, NEW f \in flows, Commit(f)
    PROVE  PhoneInv'
  <1>1. f.pc \in Asking /\ UNCHANGED <<lists, refused, bounds, left, astray>>
    BY DEF Commit, Asking, asked, history
  <1>2. changes' \in Nat /\ troubles' \in Nat /\ taps' \in Nat /\ astray' \subseteq Doors
    BY <1>1 DEF PhoneInv, PhoneTypeOK, bounds
  <1>3. CASE Drop(f)
    BY <1>1, <1>2, <1>3, AnswerKeeps DEF Drop
  <1>4. Memory /\ f \in Working /\ (Wanted(f) => ~Begun)
    BY <1>1, Stale
  <1>5. CASE Wanted(f) /\ After(f, "empty")
    BY <1>1, <1>2, <1>4, <1>5, AnswerKeeps
  <1>6. ASSUME Wanted(f), NEW w \in Candidates(f), Open(Rest(f), f.by, w, f.me, f.me),
               UNCHANGED tokens
        PROVE  PhoneInv'
    <2>1. f.by \in Account /\ f.me \in SUBSET Spaces /\ w \in Place
      BY <1>4 DEF Candidates, Working, FlowOf, Memory, Place
    <2>2. /\ Rest(f) \subseteq Working \cup Leaving
          /\ flows \subseteq Working => Rest(f) \subseteq Working
      BY <1>4, RestOK
    <2>3. Memory' /\ (flows \subseteq Working => flows' \subseteq Working)
      BY <1>4, <1>6, <2>1, <2>2, OpenOK
    <2>4. PhoneTypeOK'
      BY <1>1, <1>2, <2>3 DEF PhoneInv, PhoneTypeOK, Memory
    <2>. QED
      BY <1>1, <1>4, <1>6, <2>3, <2>4, Harmless
  <1>. QED
    BY <1>3, <1>5, <1>6 DEF Commit

LEMMA EstablishKeeps ==
    ASSUME PhoneInv, NEW f \in flows, Establish(f)
    PROVE  PhoneInv'
  <1>1. CASE Unreachable(f)
    <2>1. astray' \subseteq Doors
      BY <1>1 DEF Unreachable, Doors, PhoneInv, PhoneTypeOK
    <2>. QED
      BY <1>1, <2>1, TroubleOK, AnswerKeeps DEF Unreachable, Asking, PhoneInv
  <1>. QED
    BY <1>1, ServeMeKeeps, RefusedKeeps, HandleMeKeeps, PurgeForeignKeeps, CommitKeeps
    DEF Establish

LEMMA WakeKeeps ==
    ASSUME PhoneInv, NEW f \in flows, Wake(f)
    PROVE  PhoneInv'
  <1>1. f.pc \in Asking /\ UNCHANGED quiet
    BY DEF Wake, Asking
  <1>2. Memory /\ f \in Working /\ (Begun => ~Wanted(f))
    BY <1>1, Stale
  <1>3. /\ flows' \subseteq Working \cup Leaving
        /\ flows \subseteq Working => flows' \subseteq Working
        /\ \A g \in flows : g \in Leaving => g \in flows'
        /\ Begun => (Quiet(flows) => Quiet(flows')) /\ (Silent(flows) => Silent(flows'))
    <2>1. CASE Wanted(f) /\ Ask(f)
      BY <1>2, <2>1, AskedOK, NextFlowsOK DEF Ask
    <2>2. CASE flows' = Rest(f)
      BY <1>2, <2>2, RestOK
    <2>. QED
      BY <2>1, <2>2 DEF Wake
  <1>4. Ending => \E g \in flows : g \in Leaving
    BY EndingIs DEF PhoneInv, PhoneTypeOK
  <1>5. PhoneTypeOK'
    BY <1>1, <1>3 DEF PhoneInv, PhoneTypeOK, quiet, still, bounds, history
  <1>. QED
    BY <1>1, <1>3, <1>4, <1>5, Harmless DEF PhoneInv, Begun, quiet, still, history

LEMMA PurgeLeftKeeps ==
    ASSUME PhoneInv, NEW f \in flows, PurgeLeft(f)
    PROVE  PhoneInv'
  <1>1. /\ flows' = flows \ {f} /\ f.pc = "over"
        /\ UNCHANGED <<lists, refused, app, client, current, tokens, bounds, left, astray>>
    BY DEF PurgeLeft, shown, history
  <1>2. f \notin Leaving
    BY <1>1 DEF Leaving, FlowOf
  <1>3. disk' \in [auth : Account, cache : [user : Account, ws : Place], data : [Spaces -> Account]]
    BY DEF PurgeLeft, Purged, PhoneInv, PhoneTypeOK, Account
  <1>4. left => disk' = Empty
    BY DEF PurgeLeft, Purged, PhoneInv, Empty
  <1>5. PhoneTypeOK'
    BY <1>1, <1>3 DEF PhoneInv, PhoneTypeOK, bounds
  <1>6. Ending => \E g \in flows' : g \in Leaving
    BY <1>1, <1>2, EndingIs DEF PhoneInv, PhoneTypeOK
  <1>. QED
    BY <1>1, <1>4, <1>5, <1>6, Harmless DEF PhoneInv, Quiet, Silent, Begun

LEMMA DeletionKeeps ==
    ASSUME PhoneInv, NEW f \in flows, DeleteServed(f) \/ DeleteFails(f)
    PROVE  PhoneInv'
  <1>1. f \in Working
    BY DEF DeleteServed, DeleteFails, PhoneInv, PhoneTypeOK, Leaving, FlowOf
  <1>2. CASE DeleteServed(f)
    <2>. DEFINE now == [f EXCEPT !.fresh = TRUE]
                g == IF Wanted(now) THEN Asked(now) ELSE Over(now)
    <2>1. now \in Working
      BY <1>1 DEF Working, FlowOf
    <2>2. g \in Working
      BY <2>1, MemoryIs, AskedOK DEF PhoneInv
    <2>3. Begun => ~Wanted(now) /\ g.pc = "over"
      <3>1. Over(now).pc = "over"
        BY DEF Over, Flow
      <3>2. f.kind = "delete"
        BY <1>2 DEF DeleteServed
      <3>3. now.kind = "delete"
        BY <1>1, <3>2 DEF Working, FlowOf
      <3>4. Begun => ~Wanted(now)
        BY <3>3 DEF Wanted, Begun, PhoneInv
      <3>. QED
        BY <3>1, <3>4
    <2>4. flows' = (flows \ {f}) \cup {g}
          /\ UNCHANGED <<app, client, current, tokens, disk, left, astray>>
      BY <1>2 DEF DeleteServed, shown, history
    <2>5. PhoneTypeOK'
      <3>1. flows' \subseteq Working \cup Leaving
        BY <1>1, <2>2, <2>4, MemoryIs, NextFlowsOK DEF PhoneInv
      <3>2. lists' \in [People -> SUBSET Spaces]
        BY <1>2 DEF DeleteServed, PhoneInv, PhoneTypeOK
      <3>. QED
        BY <1>2, <2>4, <3>1, <3>2 DEF DeleteServed, PhoneInv, PhoneTypeOK, bounds
    <2>6. Begun => Silent({g}) /\ Quiet({g})
      BY <2>3 DEF Quiet, Silent, Asking
    <2>. QED
      BY <1>1, <2>2, <2>4, <2>5, <2>6, GoesOn DEF PhoneInv, Begun
  <1>3. CASE DeleteFails(f)
    <2>1. flows' = flows \ {f} /\ UNCHANGED quiet
      BY <1>3 DEF DeleteFails
    <2>2. PhoneTypeOK'
      BY <2>1 DEF PhoneInv, PhoneTypeOK, quiet, still, bounds, history
    <2>3. Ending => \E g \in flows' : g \in Leaving
      BY <1>1, <2>1, EndingIs DEF PhoneInv, PhoneTypeOK, Working, Leaving, FlowOf
    <2>. QED
      BY <2>1, <2>2, <2>3, Harmless DEF PhoneInv, Quiet, Silent, Begun, quiet, still, history
  <1>. QED
    BY <1>2, <1>3

LEMMA PurgeAllKeeps ==
    ASSUME PhoneInv, NEW f \in flows, PurgeAll(f)
    PROVE  PhoneInv'
  <1>. DEFINE g == [f EXCEPT !.pc = "purged"]
  <1>1. f \in Leaving /\ Ending
    BY DEF PurgeAll, PhoneInv, PhoneTypeOK, Working, FlowOf, Ending
  <1>2. g \in Leaving /\ g.kind = "logout" /\ g.pc \notin Asking
    BY <1>1 DEF Leaving, FlowOf, Asking
  <1>3. /\ flows' = (flows \ {f}) \cup {g} /\ tokens' = NoOne /\ disk' = Empty
        /\ left' = (Arriving = {}) /\ astray' \subseteq {"login"}
        /\ UNCHANGED <<lists, refused, app, client, current, bounds>>
    BY DEF PurgeAll, shown
  <1>4. Empty \in [auth : Account, cache : [user : Account, ws : Place], data : [Spaces -> Account]]
    BY DEF Empty, NoCache, Account, Place
  <1>5. PhoneTypeOK'
    BY <1>2, <1>3, <1>4 DEF PhoneInv, PhoneTypeOK, bounds, Account, Doors
  <1>6. Ending'
    BY <1>2, <1>3 DEF Ending
  <1>7. client' = NoClient /\ Silent(flows')
    BY <1>1, <1>2, <1>3 DEF PhoneInv, Begun, Silent
  <1>8. left' => Quiet(flows')
    BY <1>1, <1>2, <1>3 DEF PhoneInv, Begun, Silent, Quiet, Arriving, Under
  <1>. QED
    BY <1>3, <1>5, <1>6, <1>7, <1>8 DEF PhoneInv

LEMMA ResetKeeps ==
    ASSUME PhoneInv, NEW f \in flows, Reset(f)
    PROVE  PhoneInv'
  <1>1. /\ flows' = flows \ {f} /\ app' = SignedOut
        /\ UNCHANGED <<lists, refused, tokens, client, current, disk, changes, troubles, taps,
                       left, astray>>
    BY DEF Reset, bounds, history
  <1>2. PhoneTypeOK'
    BY <1>1 DEF PhoneInv, PhoneTypeOK, SignedOut, Loading, Account, Place
  <1>3. app'.boot = "onboarding"
    BY <1>1 DEF SignedOut, Loading
  <1>4. Begun' => Begun
    BY <1>1 DEF Begun, Ending
  <1>5. (Begun => client = NoClient /\ Silent(flows))' /\ (left => Quiet(flows))'
    BY <1>1, <1>4 DEF PhoneInv, Silent, Quiet
  <1>. QED
    BY <1>1, <1>2, <1>3, <1>5 DEF PhoneInv

-----------------------------------------------------------------------------
(* The user, the clients, the server *)

\* A step that starts a flow of the session on the screen, or none.
LEMMA Untouched ==
    ASSUME PhoneInv, PhoneTypeOK', flows' = flows, UNCHANGED <<app, tokens, client, left>>,
           left => disk' = Empty
    PROVE  PhoneInv'
  <1>1. Ending => \E g \in flows : g \in Leaving
    BY EndingIs DEF PhoneInv, PhoneTypeOK
  <1>. QED
    BY <1>1, Harmless DEF PhoneInv

LEMMA StartAppKeeps ==
    ASSUME PhoneInv, StartApp
    PROVE  PhoneInv'
  <1>. DEFINE boot == Flow("boot", "me", Nowhere, disk.auth)
  <1>1. /\ flows = {} /\ tokens' = disk.auth /\ ~Ending
        /\ UNCHANGED <<lists, refused, client, current, disk, changes, troubles, taps, left,
                       astray>>
    BY DEF StartApp, bounds, history, Ending
  <1>2. disk.auth \in Account
    BY DEF PhoneInv, PhoneTypeOK
  <1>3. CASE disk.auth = NoOne
    <2>1. app' = SignedOut /\ flows' = {}
      BY <1>1, <1>3 DEF StartApp
    <2>2. PhoneTypeOK'
      BY <1>1, <1>2, <2>1 DEF PhoneInv, PhoneTypeOK, SignedOut, Loading, Account, Place
    <2>3. app'.boot = "onboarding" /\ Quiet(flows') /\ Silent(flows')
      BY <2>1 DEF SignedOut, Loading, Quiet, Silent
    <2>4. Begun' => Begun
      BY <1>1, <2>1 DEF Begun, Ending
    <2>. QED
      BY <1>1, <1>3, <2>2, <2>3, <2>4 DEF PhoneInv
  <1>4. CASE disk.auth # NoOne
    <2>1. flows' = {boot} /\ app' = app
      BY <1>1, <1>4 DEF StartApp
    <2>2. boot \in Working /\ boot.kind = "boot"
      BY <1>2, FlowIn DEF Asking, Place
    <2>3. PhoneTypeOK'
      BY <1>1, <1>2, <2>1, <2>2 DEF PhoneInv, PhoneTypeOK
    <2>4. ~left
      BY <1>4 DEF PhoneInv, Empty
    <2>5. ~Begun'
      BY <1>1, <2>1, <2>2, <2>4 DEF Begun, Ending
    <2>. QED
      BY <1>1, <2>3, <2>4, <2>5 DEF PhoneInv
  <1>. QED
    BY <1>3, <1>4

\* A tap counts one up and leaves the other bounds alone.
LEMMA TapOK ==
    ASSUME PhoneTypeOK, Tap
    PROVE  changes' \in Nat /\ troubles' \in Nat /\ taps' \in Nat
  BY DEF PhoneTypeOK, Tap

LEMMA LoginKeeps ==
    ASSUME PhoneInv, NEW p \in People, Login(p)
    PROVE  PhoneInv'
  <1>. DEFINE f == Flow("login", "me", Nowhere, p)
  <1>1. f \in Working /\ f.kind = "login"
    BY FlowIn DEF Asking, Place, Account
  <1>2. flows' = flows \cup {f} /\ ~left' /\ UNCHANGED <<app, client, current, lists, astray>>
    BY DEF Login, shown
  <1>3. disk' \in [auth : Account, cache : [user : Account, ws : Place], data : [Spaces -> Account]]
    BY DEF Login, PhoneInv, PhoneTypeOK, Account
  <1>4. changes' \in Nat /\ troubles' \in Nat /\ taps' \in Nat
    BY TapOK DEF Login, PhoneInv
  <1>5. PhoneTypeOK'
    BY <1>1, <1>2, <1>3, <1>4 DEF Login, PhoneInv, PhoneTypeOK, Account
  <1>6. Begun' => Ending
    BY <1>1, <1>2 DEF Begun, Ending
  <1>7. Ending => client' = NoClient /\ Silent(flows')
    BY <1>1, <1>2 DEF PhoneInv, Begun, Silent
  <1>. QED
    BY <1>2, <1>5, <1>6, <1>7 DEF PhoneInv

LEMMA TapKeeps ==
    ASSUME PhoneInv, Delete \/ \E w \in Spaces : Switch(w)
    PROVE  PhoneInv'
  <1>1. /\ Unhurried /\ Tap
        /\ UNCHANGED <<lists, refused, app, tokens, client, current, disk, left>>
    BY DEF Delete, Switch, still, shown, history
  <1>2. ~Begun
    BY <1>1 DEF Unhurried, Under, Begun, Ending, PhoneInv
  <1>3. \E f \in Working : flows' = flows \cup {f}
    <2>1. tokens \in Account /\ app.ws \in Place /\ Spaces \subseteq Place
      BY DEF PhoneInv, PhoneTypeOK, Place
    <2>2. CASE Delete
      <3>1. Flow("delete", "deleting", app.ws, tokens) \in Working
        BY <2>1, FlowIn
      <3>. QED
        BY <2>2, <3>1 DEF Delete
    <2>3. ASSUME NEW w \in Spaces, Switch(w)
          PROVE  \E f \in Working : flows' = flows \cup {f}
      <3>1. Flow("switch", "me", w, tokens) \in Working
        BY <2>1, FlowIn DEF Asking
      <3>. QED
        BY <2>3, <3>1 DEF Switch
    <2>. QED
      BY <2>2, <2>3
  <1>4. PhoneTypeOK'
    <2>1. CASE UNCHANGED astray
      BY <1>1, <1>3, <2>1, TapOK DEF PhoneInv, PhoneTypeOK
    <2>2. CASE astray' = astray \cup {"switch" : f \in Under({"expire"})}
      <3>1. astray' \subseteq Doors
        BY <2>2 DEF Doors, PhoneInv, PhoneTypeOK
      <3>. QED
        BY <1>1, <1>3, <3>1, TapOK DEF PhoneInv, PhoneTypeOK
    <2>. QED
      BY <2>1, <2>2 DEF Delete, Switch, still, history
  <1>. QED
    BY <1>1, <1>2, <1>3, <1>4, Harmless

LEMMA LogoutKeeps ==
    ASSUME PhoneInv, Logout
    PROVE  PhoneInv'
  <1>. DEFINE f == Flow("logout", "closing", Nowhere, NoOne)
  <1>1. f \in Leaving /\ f.kind = "logout" /\ f.pc \notin Asking
    BY FlowIn DEF Place, Account, Asking
  <1>2. /\ flows' = Outdated(flows) \cup {f} /\ client' = NoClient /\ current' = Nowhere
        /\ UNCHANGED <<lists, refused, app, tokens, disk, left, astray>>
    BY DEF Logout, AllClosed, history
  <1>3. flows' \subseteq Working \cup Leaving /\ Quiet(flows') /\ Silent(flows') /\ Ending'
    <2>1. flows \subseteq Working \cup Leaving
      BY DEF PhoneInv, PhoneTypeOK
    <2>2. Outdated(flows) \subseteq Working \cup Leaving /\ Quiet(Outdated(flows))
      BY <2>1, OutdatedOK
    <2>. QED
      BY <1>1, <1>2, <2>2 DEF Quiet, Silent, Ending
  <1>4. NoClient \in [Spaces -> [on : {"off", "running", "stopped", "lost"}, user : Account]]
    BY DEF NoClient, Off, Account
  <1>5. changes' \in Nat /\ troubles' \in Nat /\ taps' \in Nat
    BY TapOK DEF Logout, PhoneInv
  <1>6. PhoneTypeOK'
    BY <1>2, <1>3, <1>4, <1>5 DEF PhoneInv, PhoneTypeOK, Place
  <1>. QED
    BY <1>2, <1>3, <1>6 DEF PhoneInv

LEMMA KillKeeps ==
    ASSUME PhoneInv, Kill
    PROVE  PhoneInv'
  <1>1. /\ app' = Loading /\ tokens' = NoOne /\ client' = NoClient /\ current' = Nowhere
        /\ flows' = {} /\ astray' = {} /\ UNCHANGED <<lists, refused, disk, left>>
    BY DEF Kill
  <1>2. changes' \in Nat /\ troubles' \in Nat /\ taps' \in Nat
    BY TroubleOK DEF Kill, PhoneInv
  <1>3. NoClient \in [Spaces -> [on : {"off", "running", "stopped", "lost"}, user : Account]]
    BY DEF NoClient, Off, Account
  <1>4. PhoneTypeOK'
    BY <1>1, <1>2, <1>3 DEF PhoneInv, PhoneTypeOK, Loading, Account, Place
  <1>5. app'.boot = "loading" /\ Quiet(flows') /\ Silent(flows')
    BY <1>1 DEF Loading, Quiet, Silent
  <1>. QED
    BY <1>1, <1>4, <1>5 DEF PhoneInv

LEMMA ClientsKeep ==
    ASSUME PhoneInv, NEW w \in Spaces, Writes(w) \/ Idle(w) \/ SyncLost(w) \/ SyncRefused(w)
    PROVE  PhoneInv'
  <1>1. CASE SyncRefused(w)
    BY <1>1, ExpiryKeeps DEF SyncRefused, history, PhoneInv, PhoneTypeOK
  <1>. SUFFICES ASSUME Writes(w) \/ Idle(w) \/ SyncLost(w) PROVE PhoneInv'
    BY <1>1
  <1>2. client[w].on # "off" /\ client # NoClient
    BY DEF Writes, Idle, SyncLost, Works, NoClient, Off
  <1>3. ~Begun /\ ~left /\ ~Ending
    BY <1>2 DEF PhoneInv, Begun
  <1>4. client[w].user \in Account
    BY DEF PhoneInv, PhoneTypeOK
  <1>5. CASE Writes(w)
    <2>1. PhoneTypeOK'
      BY <1>4, <1>5 DEF Writes, history, PhoneInv, PhoneTypeOK, shown, bounds
    <2>. QED
      BY <1>3, <1>5, <2>1, Harmless DEF Writes, history
  <1>6. CASE Idle(w)
    <2>1. PhoneTypeOK'
      BY <1>6 DEF Idle, history, PhoneInv, PhoneTypeOK, bounds, Off, Account
    <2>. QED
      BY <1>3, <1>6, <2>1, Harmless DEF Idle, history
  <1>7. CASE SyncLost(w)
    <2>. DEFINE f == Flow("land", "me", w, tokens)
    <2>1. f \in Working
      BY FlowIn DEF Asking, Place, PhoneInv, PhoneTypeOK
    <2>2. flows' \in {flows, flows \cup {f}}
      BY <1>3, <1>7 DEF SyncLost
    <2>3. disk' \in [auth : Account, cache : [user : Account, ws : Place],
                    data : [Spaces -> Account]]
      BY <1>7 DEF SyncLost, Purged, PhoneInv, PhoneTypeOK, Account
    <2>4. client' \in [Spaces -> [on : {"off", "running", "stopped", "lost"}, user : Account]]
      BY <1>7 DEF SyncLost, Off, PhoneInv, PhoneTypeOK, Account
    <2>5. PhoneTypeOK'
      BY <1>7, <2>1, <2>2, <2>3, <2>4 DEF SyncLost, history, PhoneInv, PhoneTypeOK, bounds
    <2>. QED
      BY <1>3, <1>7, <2>1, <2>2, <2>5, Harmless DEF SyncLost, history
  <1>. QED
    BY <1>5, <1>6, <1>7

\* What happens on the server.
LEMMA WorldKeeps ==
    ASSUME PhoneInv, NEW p \in People,
           Refuse(p) \/ \E w \in Spaces : Gain(p, w) \/ Lose(p, w)
    PROVE  PhoneInv'
  <1>1. UNCHANGED <<app, tokens, client, current, flows, disk, left, astray>>
    BY DEF Refuse, Gain, Lose, memory, history
  <1>2. changes' \in Nat /\ troubles' \in Nat /\ taps' \in Nat
    BY DEF Refuse, Gain, Lose, Trouble, Change, PhoneInv, PhoneTypeOK
  <1>3. lists' \in [People -> SUBSET Spaces] /\ refused' \subseteq People
    BY DEF Refuse, Gain, Lose, PhoneInv, PhoneTypeOK
  <1>4. PhoneTypeOK'
    BY <1>1, <1>2, <1>3 DEF PhoneInv, PhoneTypeOK
  <1>. QED
    BY <1>1, <1>4, Untouched DEF PhoneInv

-----------------------------------------------------------------------------
(* Theorems *)

LEMMA PhoneStart ==
    PhoneInit => PhoneInv
  <1>. SUFFICES ASSUME PhoneInit PROVE PhoneInv
    OBVIOUS
  <1>1. PhoneTypeOK
    BY PhoneConstants DEF PhoneInit, PhoneTypeOK, Loading, NoClient, Off, Empty, NoCache,
                          Account, Place
  <1>. QED
    BY <1>1 DEF PhoneInit, PhoneInv, Begun, Ending, Quiet, Silent

LEMMA PhoneStep ==
    PhoneInv /\ [PhoneNext]_phoneVars => PhoneInv'
  <1>. SUFFICES ASSUME PhoneInv, [PhoneNext]_phoneVars PROVE PhoneInv'
    OBVIOUS
  <1>1. CASE UNCHANGED phoneVars
    <2>1. PhoneTypeOK'
      BY <1>1 DEF PhoneInv, PhoneTypeOK, phoneVars, memory, bounds, history
    <2>. QED
      BY <1>1, <2>1, Untouched DEF PhoneInv, phoneVars, memory, history
  <1>2. ASSUME NEW f \in flows,
               \/ Establish(f) \/ Wake(f) \/ PurgeLeft(f) \/ DeleteServed(f) \/ DeleteFails(f)
               \/ PurgeAll(f) \/ Reset(f)
        PROVE  PhoneInv'
    BY <1>2, EstablishKeeps, WakeKeeps, PurgeLeftKeeps, DeletionKeeps, PurgeAllKeeps, ResetKeeps
  <1>3. ASSUME NEW w \in Spaces,
               Switch(w) \/ Writes(w) \/ Idle(w) \/ SyncLost(w) \/ SyncRefused(w)
        PROVE  PhoneInv'
    BY <1>3, TapKeeps, ClientsKeep
  <1>4. ASSUME NEW w \in Spaces, NEW p \in People, Gain(p, w) \/ Lose(p, w)
        PROVE  PhoneInv'
    BY <1>4, WorldKeeps
  <1>5. ASSUME NEW p \in People, Login(p) \/ Refuse(p)
        PROVE  PhoneInv'
    BY <1>5, LoginKeeps, WorldKeeps
  <1>6. CASE StartApp \/ Delete \/ Logout \/ Kill
    BY <1>6, StartAppKeeps, TapKeeps, LogoutKeeps, KillKeeps
  <1>. QED
    BY <1>1, <1>2, <1>3, <1>4, <1>5, <1>6 DEF PhoneNext

\* Types of the phone's state (the modelled part of boot.ts, clients.ts and the store).
THEOREM PhoneTypeCorrect == PhoneSpec => []PhoneTypeOK
  <1>1. PhoneInv => PhoneTypeOK
    BY DEF PhoneInv
  <1>. QED
    BY <1>1, PhoneStart, PhoneStep, PTL DEF PhoneSpec

\* A logout leaves nothing of the account on the phone and nothing that could
\* still write there: boot.ts logout, whatever start, login, switch, deletion,
\* landing or expiry was under way.
THEOREM LogoutLeavesNothing == PhoneSpec => []LogoutIsClean
  <1>1. PhoneInv => LogoutIsClean
    BY DEF PhoneInv, LogoutIsClean, Begun, NoClient, Off
  <1>. QED
    BY <1>1, PhoneStart, PhoneStep, PTL DEF PhoneSpec

-----------------------------------------------------------------------------
(* No other account's data or client beside the session *)

\* The cached session's account: setSession writes it, a purge or a logout empties it.
Owner == disk.cache.user
Known == {"answered", "settle", "commit"}

\* What a flow has to be like.  A step that leaves the cache alone moves no flow
\* into the last two stages.
Sound(f) ==
    /\ f.pc \in Known => f.by # NoOne
    /\ f.kind = "land" => f.ws # Nowhere
Late(f) == f.fresh /\ f.pc \in {"settle", "commit"}

\* Data on the disk and clients belong to the cached account.  An establishSession
\* that has purged another account's data has closed every client, and one about to
\* call setSession finds the cache empty or its own.
Kin ==
    /\ \A w \in Spaces : {client[w].user, disk.data[w]} \subseteq {NoOne, Owner}
    /\ app.user # NoOne => Owner \in {NoOne, app.user}
    /\ app.boot = "ready" \/ app.ws # Nowhere => app.user # NoOne
    /\ \A f \in flows : Sound(f)
    /\ \A f \in flows : f.fresh /\ f.pc = "settle" => client = NoClient
    /\ \A f \in flows : f.fresh /\ f.pc = "commit" => Owner \in {NoOne, f.by}

Sober(F) == \A g \in F : Sound(g) /\ (Late(g) => g \in flows)

ClientsFade ==
    /\ \A w \in Spaces : client'[w].user \in {client[w].user, NoOne}
    /\ client = NoClient => client' = NoClient

Faded == app' \in {SignedOut, Loading}
Stays ==
    /\ app'.user = app.user /\ app'.ws = app.ws
    /\ app'.boot = "ready" => app.boot = "ready"

DataOwned ==
    /\ disk'.cache = disk.cache
    /\ \A w \in Spaces : disk'.data[w] \in {disk.data[w], client[w].user, NoOne}

Tame == Sober(flows') /\ ClientsFade /\ (Stays \/ Faded) /\ DataOwned

LEMMA TameKin ==
    ASSUME Kin, Tame
    PROVE  Kin'
  <1>1. \A w \in Spaces : {client'[w].user, disk'.data[w]} \subseteq {NoOne, Owner'}
    BY DEF Kin, Tame, DataOwned, ClientsFade, Owner
  <1>2. app'.user # NoOne => Owner' \in {NoOne, app'.user}
    BY DEF Kin, Tame, Stays, Faded, SignedOut, Loading, DataOwned, Owner
  <1>3. app'.boot = "ready" \/ app'.ws # Nowhere => app'.user # NoOne
    BY DEF Kin, Tame, Stays, Faded, SignedOut, Loading
  <1>4. \A f \in flows' : Sound(f)
    BY DEF Tame, Sober
  <1>5. \A f \in flows' : f.fresh /\ f.pc = "settle" => client' = NoClient
    BY DEF Kin, Tame, Sober, Late, ClientsFade
  <1>6. \A f \in flows' : f.fresh /\ f.pc = "commit" => Owner' \in {NoOne, f.by}
    BY DEF Kin, Tame, Sober, Late, DataOwned, Owner
  <1>. QED
    BY <1>1, <1>2, <1>3, <1>4, <1>5, <1>6 DEF Kin, Sound

\* The parts of a step.
LEMMA SoberParts ==
    ASSUME Memory, Kin
    PROVE  /\ Sober(flows)
           /\ \A F : Sober(F) /\ F \subseteq Working \cup Leaving =>
                Sober(Outdated(F)) /\ Sober(Superseded(F))
           /\ \A f \in flows : f \in Working => Sober(Rest(f)) /\ Sober(flows \ {f})
  <1>1. Sober(flows)
    BY DEF Kin, Sober
  <1>2. ASSUME NEW F, Sober(F), F \subseteq Working \cup Leaving
        PROVE  Sober(Outdated(F))
    <2>1. ASSUME NEW g \in F
          PROVE  Sound([g EXCEPT !.fresh = FALSE]) /\ ~Late([g EXCEPT !.fresh = FALSE])
      BY <1>2 DEF Sober, Sound, Late, Working, Leaving, FlowOf
    <2>. QED
      BY <2>1 DEF Sober, Outdated
  <1>3. ASSUME NEW F, Sober(F), F \subseteq Working \cup Leaving
        PROVE  Sober(Superseded(F))
    <2>. DEFINE H == {f \in F : f.kind = "hold"}
    <2>1. Sober(H) /\ H \subseteq Working \cup Leaving
      BY <1>3 DEF Sober
    <2>2. Sober(Outdated(H))
      BY <1>2, <2>1
    <2>. QED
      BY <1>3, <2>2 DEF Sober, Superseded
  <1>4. ASSUME NEW f \in flows, f \in Working
        PROVE  Sober(Rest(f)) /\ Sober(flows \ {f})
    <2>1. Over(f).pc = "over" /\ Over(f).kind = f.kind /\ Over(f).ws = f.ws
      BY DEF Over, Flow
    <2>2. Sound(Over(f)) /\ ~Late(Over(f))
      BY <2>1 DEF Sound, Late, Known, Kin
    <2>. QED
      BY <1>1, <2>2 DEF Sober, Rest
  <1>. QED
    BY <1>1, <1>2, <1>3, <1>4

LEMMA FadeParts ==
    ASSUME Memory
    PROVE  /\ UNCHANGED client => ClientsFade
           /\ client' = Retired => ClientsFade
           /\ client' = NoClient => ClientsFade
           /\ UNCHANGED disk => DataOwned
           /\ UNCHANGED app => Stays
           /\ \A b \in {"onboarding", "noWorkspace", "reconnecting"} :
                app' = [app EXCEPT !.boot = b] => Stays
  <1>1. client' = Retired => ClientsFade
    BY RetiredOK DEF ClientsFade, Retired, Off, Memory
  <1>2. client' = NoClient => ClientsFade
    BY DEF ClientsFade, NoClient, Off
  <1>3. \A b \in {"onboarding", "noWorkspace", "reconnecting"} :
          app' = [app EXCEPT !.boot = b] => Stays
    BY DEF Stays, Memory
  <1>. QED
    BY <1>1, <1>2, <1>3 DEF ClientsFade, DataOwned, Stays

LEMMA OpenKin ==
    ASSUME Memory, Kin, NEW F, F \subseteq Working \cup Leaving, Sober(F),
           NEW u \in People, NEW w \in Place, NEW known, NEW keep,
           Open(F, u, w, known, keep), Owner \in {NoOne, u}
    PROVE  Kin'
  <1>1. flows' = Outdated(F) /\ Sober(Outdated(F))
    BY SoberParts DEF Open
  <1>2. \A f \in flows' : ~f.fresh /\ Sound(f)
    <2>1. \A g \in F : ~[g EXCEPT !.fresh = FALSE].fresh
      BY DEF Working, Leaving, FlowOf
    <2>. QED
      BY <1>1, <2>1 DEF Sober, Outdated
  <1>3. Owner' = u /\ app'.user = u /\ u # NoOne
    BY PhoneConstants DEF Open, Owner, Memory
  <1>4. \A x \in Spaces : client'[x].user \in {client[x].user, u, NoOne}
    <2>1. client' = [Retired EXCEPT ![w] = [on |-> "running", user |-> u]]
      BY DEF Open, Serve
    <2>2. \A x \in Spaces : Retired[x].user \in {client[x].user, NoOne}
      BY DEF Retired, Off, Memory
    <2>. QED
      BY <2>1, <2>2, RetiredOK DEF Retired
  <1>5. \A x \in Spaces : disk'.data[x] \in {disk.data[x], NoOne}
    BY DEF Open, Memory
  <1>6. \A x \in Spaces : {client'[x].user, disk'.data[x]} \subseteq {NoOne, Owner'}
    BY <1>3, <1>4, <1>5 DEF Kin
  <1>. QED
    BY <1>2, <1>3, <1>6 DEF Kin, Sound

\* The ways a flow takes its answer, and when.
LEMMA AfterWays ==
    ASSUME NEW f, NEW res, After(f, res)
    PROVE  \/ Leaves(f) \/ Holds(f) \/ Expires(f) \/ Retries(f)
           \/ /\ ToLogin(f)
              /\ \/ f.kind = "boot" /\ f.fresh
                 \/ f.kind = "hold" /\ res = "dropped" /\ Wanted(f)
           \/ /\ Elsewhere(f)
              /\ app.boot = "ready" \/ (f.kind = "land" /\ app.ws = f.ws)
           \/ /\ f.kind = "boot" /\ f.fresh /\ res = "offline"
              /\ Cached /\ UNCHANGED tokens
              /\ Open(Rest(f), disk.cache.user, disk.cache.ws, {}, Spaces)
           \/ /\ flows' = (flows \ {f}) \cup {[f EXCEPT !.pc = "wait", !.tries = 2]}
              /\ (Notice("reconnecting") /\ f.kind = "land") \/ UNCHANGED shown
              /\ UNCHANGED <<tokens, disk>>
           \/ /\ flows' = (flows \ {f}) \cup {[f EXCEPT !.pc = "wait"]}
              /\ UNCHANGED <<shown, tokens, disk>>
  <1>1. CASE f.kind = "boot" /\ AfterBoot(f, res)
    BY <1>1 DEF AfterBoot
  <1>2. CASE AfterLogin(f, res)
    BY <1>2 DEF AfterLogin
  <1>3. CASE AfterSwitch(f)
    BY <1>3 DEF AfterSwitch
  <1>4. CASE AfterDelete(f, res)
    BY <1>4 DEF AfterDelete
  <1>5. CASE f.kind = "land" /\ AfterLand(f, res)
    BY <1>5 DEF AfterLand, Wanted
  <1>6. CASE f.kind = "hold" /\ AfterHold(f, res)
    BY <1>6 DEF AfterHold
  <1>. QED
    BY <1>1, <1>2, <1>3, <1>4, <1>5, <1>6 DEF After

\* A flow that goes on asks again or waits.
LEMMA NextKin ==
    ASSUME Memory, Kin, NEW f \in flows, f \in Working, NEW g, Sound(g), ~Late(g),
           flows' = (flows \ {f}) \cup {g}
    PROVE  Sober(flows')
  BY DEF Kin, Sober

LEMMA AgainSound ==
    ASSUME Memory, Kin, NEW f \in flows, f \in Working
    PROVE  /\ \A g \in {Asked(f), [Asked(f) EXCEPT !.tries = 1], [f EXCEPT !.pc = "wait"],
                        [f EXCEPT !.pc = "wait", !.tries = 2]} : Sound(g) /\ ~Late(g)
  <1>. DEFINE again == {Asked(f), [Asked(f) EXCEPT !.tries = 1], [f EXCEPT !.pc = "wait"],
                        [f EXCEPT !.pc = "wait", !.tries = 2]}
  <1>1. \A g \in again : g.pc \in {"me", "wait"} /\ g.kind = f.kind /\ g.ws = f.ws
    BY DEF Asked, Working, FlowOf
  <1>. QED
    BY <1>1 DEF Sound, Late, Known, Kin

LEMMA ExpireKin ==
    ASSUME Memory, Kin, NEW F, F \subseteq Working \cup Leaving, Sober(F), Expire(F), UNCHANGED app
    PROVE  Kin'
  <1>. DEFINE post == Flow("expire", "post", Nowhere, NoOne)
  <1>1. Sound(post) /\ ~Late(post)
    BY DEF Flow, Sound, Late, Known
  <1>2. Sober(flows')
    BY <1>1, SoberParts DEF Expire, Sober
  <1>3. ClientsFade /\ Stays
    BY FadeParts DEF Expire, Teardown
  <1>4. DataOwned
    BY DEF Expire, DataOwned, Memory
  <1>. QED
    BY <1>2, <1>3, <1>4, TameKin DEF Tame

LEMMA HoldKin ==
    ASSUME Memory, Kin, NEW F, F \subseteq Working \cup Leaving, Sober(F), Hold(F),
           UNCHANGED <<tokens, disk>>
    PROVE  Kin'
  <1>. DEFINE loop == Flow("hold", "wait", Nowhere, tokens)
  <1>1. Sound(loop) /\ ~Late(loop)
    BY DEF Flow, Sound, Late, Known
  <1>2. CASE flows' = F /\ UNCHANGED <<app, client, current>>
    BY <1>2, FadeParts, TameKin DEF Tame
  <1>3. CASE flows' = Superseded(F) \cup {loop} /\ Notice("noWorkspace")
    <2>1. Sober(flows')
      BY <1>1, <1>3, SoberParts DEF Sober
    <2>. QED
      BY <1>3, <2>1, FadeParts, TameKin DEF Tame, Notice, Teardown
  <1>. QED
    BY <1>2, <1>3 DEF Hold

LEMMA AfterKin ==
    ASSUME Memory, Kin, NEW f \in flows, f \in Working, NEW res, After(f, res)
    PROVE  Kin'
  <1>0. Sober(Rest(f)) /\ Rest(f) \subseteq Working \cup Leaving
    BY SoberParts, RestOK
  <1>1. CASE Leaves(f)
    BY <1>0, <1>1, FadeParts, TameKin DEF Leaves, Tame, shown
  <1>2. CASE Holds(f)
    BY <1>0, <1>2, HoldKin DEF Holds
  <1>3. CASE Expires(f)
    BY <1>0, <1>3, ExpireKin DEF Expires
  <1>4. CASE ToLogin(f)
    BY <1>0, <1>4, FadeParts, TameKin DEF ToLogin, Tame
  <1>5. CASE /\ Elsewhere(f)
             /\ app.boot = "ready" \/ (f.kind = "land" /\ app.ws = f.ws)
    <2>1. app.user \in People /\ Owner \in {NoOne, app.user}
      BY <1>5 DEF Kin, Sound, Memory, Account
    <2>2. Survivors(f) \subseteq Spaces
      BY DEF Survivors, Memory
    <2>3. PICK w \in Survivors(f) : Open(Rest(f), app.user, w, Survivors(f), Spaces)
      BY <1>5 DEF Elsewhere
    <2>. QED
      BY <1>0, <2>1, <2>2, <2>3, OpenKin DEF Place
  <1>6. CASE Retries(f)
    <2>1. Sober(flows')
      BY <1>6, AgainSound, NextKin DEF Retries
    <2>. QED
      BY <1>6, <2>1, FadeParts, TameKin DEF Retries, Tame, shown
  <1>7. CASE Cached /\ Open(Rest(f), disk.cache.user, disk.cache.ws, {}, Spaces)
    <2>1. disk.cache.user \in People /\ disk.cache.ws \in Place
      BY <1>7 DEF Cached, Memory, Account
    <2>. QED
      BY <1>0, <1>7, <2>1, OpenKin DEF Owner
  <1>8. CASE /\ flows' = (flows \ {f}) \cup {[f EXCEPT !.pc = "wait", !.tries = 2]}
             /\ Notice("reconnecting") \/ UNCHANGED shown
             /\ UNCHANGED <<tokens, disk>>
    <2>1. Sober(flows')
      BY <1>8, AgainSound, NextKin
    <2>. QED
      BY <1>8, <2>1, FadeParts, TameKin DEF Tame, Notice, Teardown, shown
  <1>9. CASE /\ flows' = (flows \ {f}) \cup {[f EXCEPT !.pc = "wait"]}
             /\ UNCHANGED <<shown, tokens, disk>>
    <2>1. Sober(flows')
      BY <1>9, AgainSound, NextKin
    <2>. QED
      BY <1>9, <2>1, FadeParts, TameKin DEF Tame, shown
  <1>. QED
    BY <1>1, <1>2, <1>3, <1>4, <1>5, <1>6, <1>7, <1>8, <1>9, AfterWays

LEMMA ServeMeKin ==
    ASSUME PhoneInv, Kin, NEW f \in flows, ServeMe(f)
    PROVE  Kin'
  <1>. DEFINE g == [f EXCEPT !.pc = "answered", !.me = lists[f.by]]
  <1>1. Memory /\ f \in Working
    BY Stale DEF ServeMe, Asking
  <1>2. g.pc = "answered" /\ g.by = f.by /\ g.kind = f.kind /\ g.ws = f.ws
    BY <1>1 DEF Working, FlowOf
  <1>3. Sound(g) /\ ~Late(g)
    BY <1>2, PhoneConstants DEF ServeMe, Sound, Late, Kin
  <1>4. Sober(flows')
    BY <1>1, <1>3, NextKin DEF ServeMe
  <1>. QED
    BY <1>1, <1>4, FadeParts, TameKin DEF ServeMe, Tame, quiet, still

LEMMA RefusedKin ==
    ASSUME PhoneInv, Kin, NEW f \in flows, Refused401(f)
    PROVE  Kin'
  <1>1. Memory /\ f \in Working
    BY Stale DEF Refused401, Asking
  <1>2. CASE After(f, "401") \/ After(f, "signed_out")
    BY <1>1, <1>2, AfterKin
  <1>3. CASE Expires(f)
    BY <1>1, <1>3, RestOK, SoberParts, ExpireKin DEF Expires
  <1>4. CASE Ask(f) /\ UNCHANGED <<shown, tokens, disk>>
    <2>1. Sober(flows')
      BY <1>1, <1>4, AgainSound, NextKin DEF Ask
    <2>. QED
      BY <1>1, <1>4, <2>1, FadeParts, TameKin DEF Tame, shown
  <1>. QED
    BY <1>2, <1>3, <1>4 DEF Refused401

\* Data of another account: the clients go before the flow that found it settles.
LEMMA HandleMeKin ==
    ASSUME PhoneInv, Kin, NEW f \in flows, HandleMe(f)
    PROVE  Kin'
  <1>1. Memory /\ f \in Working /\ f.pc = "answered"
    BY Stale DEF HandleMe, Asking
  <1>2. CASE Drop(f)
    BY <1>1, <1>2, AfterKin DEF Drop
  <1>3. ASSUME NEW pc \in {"settle", "commit"}, To(f, pc)
        PROVE  \A g \in flows' : g \in flows \/ (Sound(g) /\ g.pc = pc /\ g.by = f.by)
    <2>. DEFINE g == [f EXCEPT !.pc = pc]
    <2>1. g.pc = pc /\ g.by = f.by /\ g.kind = f.kind /\ g.ws = f.ws
      BY <1>1 DEF Working, FlowOf
    <2>2. Sound(g)
      BY <1>1, <2>1 DEF Sound, Known, Kin
    <2>. QED
      BY <1>3, <2>1, <2>2 DEF To
  <1>4. CASE /\ To(f, "settle") /\ client' = AllClosed /\ UNCHANGED <<app, tokens, disk>>
    <2>1. client' = NoClient /\ \A w \in Spaces : client'[w].user = NoOne
      BY <1>4 DEF AllClosed, NoClient, Off
    <2>2. \A g \in flows' : Sound(g) /\ (g.pc = "commit" => g \in flows)
      BY <1>3, <1>4 DEF Kin
    <2>. QED
      BY <1>4, <2>1, <2>2 DEF Kin, Owner, Sound
  <1>5. CASE /\ ~Foreign(f) /\ To(f, "commit") /\ UNCHANGED <<shown, tokens, disk>>
    <2>1. Owner \in {NoOne, f.by}
      BY <1>5 DEF Foreign, Owner
    <2>2. \A g \in flows' : Sound(g) /\ (g.pc = "settle" => g \in flows)
                            /\ (g.pc = "commit" => g \in flows \/ g.by = f.by)
      BY <1>3, <1>5 DEF Kin
    <2>. QED
      BY <1>5, <2>1, <2>2 DEF Kin, Owner, Sound, shown
  <1>. QED
    BY <1>2, <1>4, <1>5 DEF HandleMe

LEMMA PurgeForeignKin ==
    ASSUME PhoneInv, Kin, NEW f \in flows, PurgeForeign(f)
    PROVE  Kin'
  <1>1. Memory /\ f \in Working /\ f.pc = "settle"
    BY Stale DEF PurgeForeign, Asking
  <1>2. CASE Drop(f)
    BY <1>1, <1>2, AfterKin DEF Drop
  <1>3. CASE /\ Wanted(f) /\ To(f, "commit") /\ disk' = [Empty EXCEPT !.auth = disk.auth]
             /\ UNCHANGED <<shown, tokens>>
    <2>. DEFINE g == [f EXCEPT !.pc = "commit"]
    <2>1. g.pc = "commit" /\ g.by = f.by /\ g.kind = f.kind /\ g.ws = f.ws
      BY <1>1 DEF Working, FlowOf
    <2>2. Sound(g)
      BY <1>1, <2>1 DEF Sound, Known, Kin
    <2>3. client = NoClient
      BY <1>1, <1>3 DEF Kin, Wanted
    <2>4. Owner' = NoOne /\ \A w \in Spaces : disk'.data[w] = NoOne
      BY <1>3 DEF Empty, NoCache, Owner
    <2>5. \A w \in Spaces : client'[w].user = NoOne
      BY <1>3, <2>3 DEF NoClient, Off, shown
    <2>6. flows' \subseteq flows \cup {g} /\ UNCHANGED <<app, client>>
      BY <1>3 DEF To, shown
    <2>. QED
      BY <2>1, <2>2, <2>3, <2>4, <2>5, <2>6 DEF Kin, Sound
  <1>. QED
    BY <1>2, <1>3 DEF PurgeForeign

LEMMA CommitKin ==
    ASSUME PhoneInv, Kin, NEW f \in flows, Commit(f)
    PROVE  Kin'
  <1>1. Memory /\ f \in Working /\ f.pc = "commit"
    BY Stale DEF Commit, Asking
  <1>2. CASE Drop(f) \/ After(f, "empty")
    BY <1>1, <1>2, AfterKin DEF Drop
  <1>3. ASSUME Wanted(f), NEW w \in Candidates(f), Open(Rest(f), f.by, w, f.me, f.me)
        PROVE  Kin'
    <2>1. f.by \in People /\ Owner \in {NoOne, f.by}
      BY <1>1, <1>3 DEF Kin, Sound, Known, Wanted, Working, FlowOf, Account
    <2>2. w \in Place
      BY <1>1 DEF Candidates, Working, FlowOf, Memory, Place
    <2>. QED
      BY <1>1, <1>3, <2>1, <2>2, RestOK, SoberParts, OpenKin
  <1>. QED
    BY <1>2, <1>3 DEF Commit

LEMMA EstablishKin ==
    ASSUME PhoneInv, Kin, NEW f \in flows, Establish(f)
    PROVE  Kin'
  <1>1. CASE Unreachable(f)
    BY <1>1, Stale, AfterKin DEF Unreachable, Asking
  <1>. QED
    BY <1>1, ServeMeKin, RefusedKin, HandleMeKin, PurgeForeignKin, CommitKin DEF Establish

\* The steps of a flow that ends or goes on by itself.
LEMMA FlowKin ==
    ASSUME PhoneInv, Kin, NEW f \in flows,
           Wake(f) \/ PurgeLeft(f) \/ DeleteServed(f) \/ DeleteFails(f)
    PROVE  Kin'
  <1>1. Memory
    BY MemoryIs DEF PhoneInv
  <1>2. f \in Working
    BY DEF Wake, PurgeLeft, DeleteServed, DeleteFails, PhoneInv, PhoneTypeOK, Leaving, FlowOf
  <1>3. CASE Wake(f)
    <2>1. Sober(flows')
      BY <1>1, <1>2, <1>3, AgainSound, NextKin, SoberParts DEF Wake, Ask
    <2>. QED
      BY <1>1, <1>3, <2>1, FadeParts, TameKin DEF Wake, Tame, quiet, still
  <1>4. CASE PurgeLeft(f)
    <2>1. Sober(flows')
      BY <1>1, <1>2, <1>4, SoberParts DEF PurgeLeft
    <2>2. DataOwned
      BY <1>1, <1>4 DEF PurgeLeft, Purged, DataOwned, Memory
    <2>. QED
      BY <1>1, <1>4, <2>1, <2>2, FadeParts, TameKin DEF PurgeLeft, Tame, shown
  <1>5. CASE DeleteServed(f)
    <2>. DEFINE now == [f EXCEPT !.fresh = TRUE]
                g == IF Wanted(now) THEN Asked(now) ELSE Over(now)
    <2>1. g.pc \in {"me", "over"} /\ g.kind = "delete"
      <3>1. now.kind = "delete" /\ now \in Working
        BY <1>2, <1>5 DEF DeleteServed, Working, FlowOf
      <3>2. Asked(now).pc = "me" /\ Asked(now).kind = now.kind
        BY <3>1 DEF Asked, Working, FlowOf
      <3>3. Over(now).pc = "over" /\ Over(now).kind = now.kind
        BY DEF Over, Flow
      <3>. QED
        BY <3>1, <3>2, <3>3
    <2>2. Sound(g) /\ ~Late(g)
      BY <2>1 DEF Sound, Late, Known
    <2>3. Sober(flows')
      BY <1>1, <1>2, <1>5, <2>2, NextKin DEF DeleteServed
    <2>. QED
      BY <1>1, <1>5, <2>3, FadeParts, TameKin DEF DeleteServed, Tame, shown
  <1>6. CASE DeleteFails(f)
    <2>1. Sober(flows')
      BY <1>1, <1>2, <1>6, SoberParts DEF DeleteFails
    <2>. QED
      BY <1>1, <1>6, <2>1, FadeParts, TameKin DEF DeleteFails, Tame, quiet, still
  <1>. QED
    BY <1>3, <1>4, <1>5, <1>6

LEMMA EndKin ==
    ASSUME PhoneInv, Kin, NEW f \in flows, PurgeAll(f) \/ Reset(f)
    PROVE  Kin'
  <1>1. Memory
    BY MemoryIs DEF PhoneInv
  <1>2. CASE PurgeAll(f)
    <2>. DEFINE g == [f EXCEPT !.pc = "purged"]
    <2>1. f \in Leaving /\ Ending
      BY <1>2 DEF PurgeAll, PhoneInv, PhoneTypeOK, Working, FlowOf, Ending
    <2>2. g.pc = "purged" /\ g.kind = "logout"
      BY <1>2, <2>1 DEF PurgeAll, Leaving, FlowOf
    <2>3. client = NoClient /\ UNCHANGED <<app, client>> /\ disk' = Empty
      BY <1>2, <2>1 DEF PhoneInv, Begun, PurgeAll, shown
    <2>4. Owner' = NoOne /\ \A w \in Spaces : client'[w].user = NoOne /\ disk'.data[w] = NoOne
      BY <2>3 DEF Empty, NoCache, NoClient, Off, Owner
    <2>5. flows' \subseteq flows \cup {g}
      BY <1>2 DEF PurgeAll
    <2>. QED
      BY <2>2, <2>3, <2>4, <2>5 DEF Kin, Sound, Known
  <1>3. CASE Reset(f)
    <2>1. Sober(flows')
      BY <1>3 DEF Reset, Kin, Sober
    <2>. QED
      BY <1>1, <1>3, <2>1, FadeParts, TameKin DEF Reset, Tame, Faded
  <1>. QED
    BY <1>2, <1>3

\* The user: a start, a login, a tap.
LEMMA UserKin ==
    ASSUME PhoneInv, Kin,
           StartApp \/ Delete \/ Logout \/ Kill \/ (\E w \in Spaces : Switch(w))
           \/ (\E p \in People : Login(p))
    PROVE  Kin'
  <1>1. Memory
    BY MemoryIs DEF PhoneInv
  <1>2. ASSUME NEW k \in {"boot", "login", "switch", "delete", "logout"},
               NEW pc \in {"me", "deleting", "closing"}, NEW w, NEW u
        PROVE  Sound(Flow(k, pc, w, u)) /\ ~Late(Flow(k, pc, w, u))
    BY DEF Flow, Sound, Late, Known
  <1>3. CASE StartApp
    <2>1. Sober(flows')
      BY <1>2, <1>3 DEF StartApp, Sober
    <2>2. Stays \/ Faded
      BY <1>1, <1>3, FadeParts DEF StartApp, Faded
    <2>. QED
      BY <1>1, <1>3, <2>1, <2>2, FadeParts, TameKin DEF StartApp, Tame
  <1>4. CASE Delete \/ \E w \in Spaces : Switch(w)
    <2>1. Sober(flows')
      BY <1>1, <1>2, <1>4, SoberParts DEF Delete, Switch, Sober
    <2>2. UNCHANGED <<app, client, disk>>
      BY <1>4 DEF Delete, Switch, still, shown
    <2>. QED
      BY <1>1, <2>1, <2>2, FadeParts, TameKin DEF Tame
  <1>5. CASE Logout
    <2>1. Sober(flows')
      BY <1>1, <1>2, <1>5, SoberParts DEF Logout, Sober, Memory
    <2>. QED
      BY <1>1, <1>5, <2>1, FadeParts, TameKin DEF Logout, Tame, AllClosed
  <1>6. CASE Kill
    <2>1. Sober(flows')
      BY <1>6 DEF Kill, Sober
    <2>. QED
      BY <1>1, <1>6, <2>1, FadeParts, TameKin DEF Kill, Tame, Faded
  <1>7. ASSUME NEW p \in People, Login(p)
        PROVE  Kin'
    <2>1. Sober(flows')
      BY <1>1, <1>2, <1>7, SoberParts DEF Login, Sober
    <2>2. DataOwned
      BY <1>1, <1>7 DEF Login, DataOwned, Memory
    <2>. QED
      BY <1>1, <1>7, <2>1, <2>2, FadeParts, TameKin DEF Login, Tame, shown
  <1>. QED
    BY <1>3, <1>4, <1>5, <1>6, <1>7

\* The clients and the server.
LEMMA ClientsKin ==
    ASSUME PhoneInv, Kin, NEW w \in Spaces, Writes(w) \/ Idle(w) \/ SyncLost(w) \/ SyncRefused(w)
    PROVE  Kin'
  <1>1. Memory /\ Sober(flows)
    BY MemoryIs, SoberParts DEF PhoneInv
  <1>2. CASE Writes(w)
    <2>1. DataOwned
      BY <1>1, <1>2 DEF Writes, DataOwned, Memory
    <2>. QED
      BY <1>1, <1>2, <2>1, FadeParts, TameKin DEF Writes, Tame, shown
  <1>3. CASE Idle(w)
    <2>1. ClientsFade
      BY <1>1, <1>3 DEF Idle, ClientsFade, NoClient, Off, Memory
    <2>. QED
      BY <1>1, <1>3, <2>1, FadeParts, TameKin DEF Idle, Tame
  <1>4. CASE SyncLost(w)
    <2>. DEFINE f == Flow("land", IF Ending THEN "over" ELSE "me", w, tokens)
    <2>1. Sound(f) /\ ~Late(f)
      BY PhoneConstants DEF Flow, Sound, Late, Known
    <2>2. Sober(flows')
      BY <1>1, <1>4, <2>1 DEF SyncLost, Sober
    <2>3. ClientsFade
      <3>1. client # NoClient
        BY <1>4 DEF SyncLost, Works, NoClient, Off
      <3>2. \A x \in Spaces : client'[x].user \in {client[x].user, NoOne}
        BY <1>1, <1>4 DEF SyncLost, Off, Memory
      <3>. QED
        BY <3>1, <3>2 DEF ClientsFade
    <2>4. DataOwned
      BY <1>1, <1>4 DEF SyncLost, Purged, DataOwned, Memory
    <2>. QED
      BY <1>1, <1>4, <2>2, <2>3, <2>4, FadeParts, TameKin DEF SyncLost, Tame
  <1>5. CASE SyncRefused(w)
    BY <1>1, <1>5, ExpireKin DEF SyncRefused, Memory
  <1>. QED
    BY <1>2, <1>3, <1>4, <1>5

LEMMA RestingKin ==
    ASSUME PhoneInv, Kin, UNCHANGED <<app, client, flows, disk>>
    PROVE  Kin'
  BY DEF Kin, Owner, Sound

LEMMA KinStep ==
    PhoneInv /\ Kin /\ [PhoneNext]_phoneVars => Kin'
  <1>. SUFFICES ASSUME PhoneInv, Kin, [PhoneNext]_phoneVars PROVE Kin'
    OBVIOUS
  <1>1. CASE UNCHANGED phoneVars
    BY <1>1, RestingKin DEF phoneVars, memory
  <1>2. ASSUME NEW f \in flows,
               \/ Establish(f) \/ Wake(f) \/ PurgeLeft(f) \/ DeleteServed(f) \/ DeleteFails(f)
               \/ PurgeAll(f) \/ Reset(f)
        PROVE  Kin'
    BY <1>2, EstablishKin, FlowKin, EndKin
  <1>3. ASSUME NEW w \in Spaces,
               Switch(w) \/ Writes(w) \/ Idle(w) \/ SyncLost(w) \/ SyncRefused(w)
        PROVE  Kin'
    BY <1>3, UserKin, ClientsKin
  <1>4. ASSUME NEW p \in People, Refuse(p) \/ \E w \in Spaces : Gain(p, w) \/ Lose(p, w)
        PROVE  Kin'
    BY <1>4, RestingKin DEF Refuse, Gain, Lose, memory
  <1>5. CASE StartApp \/ Delete \/ Logout \/ Kill \/ \E p \in People : Login(p)
    BY <1>5, UserKin
  <1>. QED
    BY <1>1, <1>2, <1>3, <1>4, <1>5 DEF PhoneNext

LEMMA KinStart ==
    PhoneInit => Kin
  BY DEF PhoneInit, Kin, Loading, NoClient, Off, Empty, NoCache, Owner

\* Whatever logins, starts, switches, expiries and kills interleave, once a session
\* is up no data and no sync client of another account is on the phone: the purge
\* in establishSession (boot.ts) always comes before setSession and initSync, and no
\* client still writing outlives it.
THEOREM NothingOfOthers == PhoneSpec => []NothingForeign
  <1>1. PhoneInv /\ Kin => NothingForeign
    BY DEF Kin, NothingForeign
  <1>. QED
    BY <1>1, PhoneStart, PhoneStep, KinStart, KinStep, PTL DEF PhoneSpec

-----------------------------------------------------------------------------
(* Requests go out with the tokens of the session on the screen *)

\* A flow that asks in a session, with somebody's tokens, and could open the
\* account it asks for.
Alive(f, a) ==
    /\ f.fresh /\ f.pc \in {"me", "answered", "settle", "commit"} /\ f.by # NoOne
    /\ f.kind \in {"land", "delete"} => f.ws = a.ws
    /\ f.kind = "hold" => a.boot = "noWorkspace"

\* What holds of flows F under the store a and the tokens t, where s is what has
\* strayed (astray before or after a step): without a switch tapped while the session
\* expired, none is under way beside an expiry.
Fitting(F, a, t, s) ==
    \A f \in F :
        /\ f.kind \in {"land", "delete"} => f.ws # Nowhere
        /\ s = {} /\ Alive(f, a) => t = f.by
        /\ s = {} /\ f.kind = "switch" /\ f.fresh /\ f.pc \in Asking =>
             /\ a.boot \notin {"onboarding", "loading"}
             /\ \A g \in F : g.kind # "expire"
        /\ f.kind = "boot" /\ f.fresh => a.boot = "loading" /\ F = {f}

Settled(a, t, s) ==
    /\ a.boot = "ready" => a.ws # Nowhere
    /\ a.boot \in {"onboarding", "loading"} => a.user = NoOne /\ a.ws = Nowhere
    /\ s = {} /\ a.user # NoOne => t \in {NoOne, a.user}

\* While nothing has strayed the session's account is the one whose tokens the api
\* client holds, and so is the account of every flow that could still open a session.
Tok(s) ==
    /\ Settled(app, tokens, s)
    /\ disk.cache.user # NoOne => disk.cache.ws # Nowhere
    /\ Fitting(flows, app, tokens, s)

\* An expiry waits for one answer.
Posts(F) == \A f \in F : f.kind = "expire" => f.pc = "post"

\* What holds until more has strayed.
LEMMA TokLess ==
    ASSUME NEW r, NEW s, (s = {} => r = {}), Tok(r)
    PROVE  Tok(s)
  BY DEF Tok, Settled, Fitting

\* Flows that ended or whose session did.
LEMMA FittingLess ==
    ASSUME NEW F, NEW G, G \subseteq F, NEW a, NEW t, NEW s, Fitting(F, a, t, s)
    PROVE  Fitting(G, a, t, s)
  BY DEF Fitting

LEMMA FittingOutdated ==
    ASSUME NEW F, F \subseteq Working \cup Leaving, NEW a, NEW t, NEW s,
           \A f \in F : f.kind \in {"land", "delete"} => f.ws # Nowhere
    PROVE  Fitting(Outdated(F), a, t, s)
  <1>1. ASSUME NEW f \in F
        PROVE  LET g == [f EXCEPT !.fresh = FALSE] IN ~g.fresh /\ g.kind = f.kind /\ g.ws = f.ws
    BY DEF Working, Leaving, FlowOf
  <1>. QED
    BY <1>1 DEF Fitting, Outdated, Alive

\* A flow more, or one that goes on.
Joins(g, a, t, s) ==
    /\ g.kind \in {"land", "delete"} => g.ws # Nowhere
    /\ s = {} /\ Alive(g, a) => t = g.by
    /\ s = {} /\ g.kind = "switch" /\ g.fresh /\ g.pc \in Asking =>
         a.boot \notin {"onboarding", "loading"}
    /\ ~(g.kind = "boot" /\ g.fresh)

LEMMA FittingMore ==
    ASSUME NEW F, NEW a, NEW t, NEW s, Fitting(F, a, t, s), NEW g, Joins(g, a, t, s),
           \A f \in F : ~(f.kind = "boot" /\ f.fresh),
           g.kind = "expire" => \A f \in F : ~f.fresh,
           s = {} /\ g.kind = "switch" => \A f \in F : f.kind # "expire"
    PROVE  Fitting(F \cup {g}, a, t, s)
  BY DEF Fitting, Joins

\* f goes on as g: asking with today's tokens, or as it was.
GoesOnAs(f, g) ==
    /\ g.kind = f.kind /\ g.ws = f.ws
    /\ g.fresh => f.fresh
    /\ g.pc \in Asking => f.pc \in Asking
    /\ \/ g.by = tokens
       \/ g.pc \notin {"me", "answered", "settle", "commit"}
       \/ g.by = f.by /\ f.pc \in {"me", "answered", "settle", "commit"}

LEMMA FittingNext ==
    ASSUME NEW f \in flows, NEW g, GoesOnAs(f, g), NEW s, Fitting(flows, app, tokens, s)
    PROVE  Fitting((flows \ {f}) \cup {g}, app, tokens, s)
  <1>. DEFINE F == (flows \ {f}) \cup {g}
  <1>1. ASSUME NEW h \in F
        PROVE  /\ h.kind \in {"land", "delete"} => h.ws # Nowhere
               /\ s = {} /\ Alive(h, app) => tokens = h.by
               /\ s = {} /\ h.kind = "switch" /\ h.fresh /\ h.pc \in Asking =>
                    /\ app.boot \notin {"onboarding", "loading"}
                    /\ \A e \in flows : e.kind # "expire"
    <2>1. CASE h = g
      BY <2>1 DEF Fitting, GoesOnAs, Alive
    <2>2. CASE h \in flows
      BY <2>2 DEF Fitting
    <2>. QED
      BY <2>1, <2>2
  <1>2. ASSUME NEW h \in F, h.kind = "boot" /\ h.fresh
        PROVE  app.boot = "loading" /\ F = {h}
    <2>1. CASE h = g
      <3>1. f.kind = "boot" /\ f.fresh
        BY <1>2, <2>1 DEF GoesOnAs
      <3>2. app.boot = "loading" /\ flows = {f}
        BY <3>1 DEF Fitting
      <3>. QED
        BY <2>1, <3>2
    <2>2. CASE h \in flows /\ h # f
      BY <1>2, <2>2 DEF Fitting
    <2>. QED
      BY <2>1, <2>2
  <1>3. \A h \in F : \E e \in flows : h.kind = e.kind
    BY DEF GoesOnAs
  <1>. QED
    BY <1>1, <1>2, <1>3 DEF Fitting

\* Once f has ended no start is under way.
LEMMA NoStart ==
    ASSUME NEW f \in flows, NEW s, Fitting(flows, app, tokens, s)
    PROVE  /\ \A g \in Rest(f) : ~(g.kind = "boot" /\ g.fresh)
           /\ \A g \in flows \ {f} : ~(g.kind = "boot" /\ g.fresh)
           /\ f.kind \in {"logout", "expire"} => \A g \in flows : ~(g.kind = "boot" /\ g.fresh)
  <1>1. \A g \in flows : g.kind = "boot" /\ g.fresh => g = f
    BY DEF Fitting
  <1>2. Over(f).kind = f.kind
    BY DEF Over, Flow
  <1>. QED
    BY <1>1, <1>2 DEF Rest

LEMMA FittingRest ==
    ASSUME NEW f \in flows, NEW s, Fitting(flows, app, tokens, s)
    PROVE  Fitting(Rest(f), app, tokens, s) /\ Fitting(flows \ {f}, app, tokens, s)
  <1>1. Fitting(flows \ {f}, app, tokens, s)
    BY FittingLess
  <1>2. CASE f.kind \in {"land", "delete"}
    <2>1. Over(f).kind = f.kind /\ Over(f).ws = f.ws /\ Over(f).pc = "over"
      BY DEF Over, Flow
    <2>2. Joins(Over(f), app, tokens, s)
      BY <1>2, <2>1 DEF Joins, Alive, Fitting
    <2>3. Over(f).kind # "expire" /\ Over(f).kind # "switch"
      BY <1>2, <2>1
    <2>4. Fitting((flows \ {f}) \cup {Over(f)}, app, tokens, s)
      BY <1>1, <2>2, <2>3, NoStart, FittingMore
    <2>. QED
      BY <1>1, <1>2, <2>4 DEF Rest
  <1>3. CASE f.kind \notin {"land", "delete"}
    BY <1>1, <1>3 DEF Rest
  <1>. QED
    BY <1>1, <1>2, <1>3

\* A notice goes up: a start that is under way would not be there any more.
LEMMA FittingNotice ==
    ASSUME NEW F, NEW a, NEW t, NEW s, NEW b \in {"reconnecting", "noWorkspace"}, a.boot = b,
           Fitting(F, app, t, s), a.ws = app.ws,
           \A f \in F : ~(f.kind = "boot" /\ f.fresh),
           b = "noWorkspace" => \A f \in F : f.kind = "hold" => ~f.fresh
    PROVE  Fitting(F, a, t, s)
  BY DEF Fitting, Alive

LEMMA OpenTok ==
    ASSUME Memory, NEW s, Tok(s), NEW F, F \subseteq Working \cup Leaving,
           Fitting(F, app, tokens, s),
           NEW u \in People, NEW w, w # Nowhere, NEW known, NEW keep,
           Open(F, u, w, known, keep), UNCHANGED tokens, s = {} => tokens \in {NoOne, u}
    PROVE  Tok(s)'
  <1>1. app'.boot = "ready" /\ app'.user = u /\ app'.ws = w
    BY DEF Open
  <1>2. disk'.cache.ws = w
    BY DEF Open, Memory
  <1>3. Fitting(flows', app', tokens', s)
    <2>1. \A f \in F : f.kind \in {"land", "delete"} => f.ws # Nowhere
      BY DEF Fitting
    <2>2. Fitting(Outdated(F), app', tokens', s)
      BY <2>1, FittingOutdated
    <2>. QED
      BY <2>2 DEF Open
  <1>. QED
    BY <1>1, <1>2, <1>3 DEF Tok, Settled

LEMMA ExpireTok ==
    ASSUME Memory, NEW s, Tok(s), NEW F, F \subseteq Working \cup Leaving,
           Fitting(F, app, tokens, s),
           Expire(F), UNCHANGED app
    PROVE  Tok(s)'
  <1>. DEFINE post == Flow("expire", "post", Nowhere, NoOne)
  <1>1. post.kind = "expire" /\ post.by = NoOne
    BY DEF Flow
  <1>2. Fitting(Outdated(F), app, NoOne, s)
    <2>1. \A f \in F : f.kind \in {"land", "delete"} => f.ws # Nowhere
      BY DEF Fitting
    <2>. QED
      BY <2>1, FittingOutdated
  <1>3. \A g \in Outdated(F) : ~g.fresh
    BY DEF Outdated, Working, Leaving, FlowOf
  <1>4. Fitting(flows', app, NoOne, s)
    <2>. HIDE DEF post
    <2>1. Joins(post, app, NoOne, s) /\ flows' = Outdated(F) \cup {post}
      BY <1>1 DEF Joins, Alive, Expire, post
    <2>. QED
      BY <1>1, <1>2, <1>3, <2>1, FittingMore
  <1>5. disk'.cache = disk.cache /\ tokens' = NoOne
    BY DEF Expire, Memory
  <1>. QED
    BY <1>4, <1>5 DEF Tok, Settled

LEMMA HoldTok ==
    ASSUME Memory, NEW s, Tok(s), NEW F, F \subseteq Working \cup Leaving,
           Fitting(F, app, tokens, s),
           \A g \in F : ~(g.kind = "boot" /\ g.fresh),
           Hold(F), UNCHANGED <<tokens, disk>>
    PROVE  Tok(s)'
  <1>. DEFINE loop == Flow("hold", "wait", Nowhere, tokens)
  <1>1. CASE flows' = F /\ UNCHANGED <<app, client, current>>
    BY <1>1 DEF Tok
  <1>2. CASE flows' = Superseded(F) \cup {loop} /\ Notice("noWorkspace")
    <2>. DEFINE H == {f \in F : f.kind = "hold"}
                O == {f \in F : f.kind # "hold"}
    <2>1. /\ app'.boot = "noWorkspace" /\ app'.user = app.user /\ app'.ws = app.ws
      BY <1>2 DEF Notice, Memory
    <2>2. Fitting(O, app, tokens, s)
      BY FittingLess
    <2>3. Fitting(O, app', tokens, s)
      BY <2>1, <2>2, FittingNotice
    <2>4. \A g \in Outdated(H) : ~g.fresh /\ g.kind = "hold"
      BY DEF Outdated, Working, Leaving, FlowOf
    <2>5. loop.kind = "hold" /\ loop.pc = "wait"
      BY DEF Flow
    <2>6. flows' = Outdated(H) \cup O \cup {loop}
      BY <1>2 DEF Superseded
    <2>7. \A g \in O : ~(g.kind = "boot" /\ g.fresh)
      OBVIOUS
    <2>. HIDE DEF O, H, loop
    <2>8. Fitting(flows', app', tokens, s)
      BY <2>3, <2>4, <2>5, <2>6, <2>7 DEF Fitting, Alive
    <2>. QED
      BY <1>2, <2>1, <2>8 DEF Tok, Settled
  <1>. QED
    BY <1>1, <1>2 DEF Hold

LEMMA AgainGoesOn ==
    ASSUME Memory, NEW f \in flows, f \in Working, f.pc \in Asking
    PROVE  \A g \in {Asked(f), [Asked(f) EXCEPT !.tries = 1], [f EXCEPT !.pc = "wait"],
                     [f EXCEPT !.pc = "wait", !.tries = 2]} :
             GoesOnAs(f, g) /\ g.fresh = f.fresh /\ g.kind = f.kind
  <1>1. \A g \in {Asked(f), [Asked(f) EXCEPT !.tries = 1]} :
          g.kind = f.kind /\ g.ws = f.ws /\ g.fresh = f.fresh /\ g.by = tokens
    BY DEF Asked, Working, FlowOf
  <1>2. \A g \in {[f EXCEPT !.pc = "wait"], [f EXCEPT !.pc = "wait", !.tries = 2]} :
          g.kind = f.kind /\ g.ws = f.ws /\ g.fresh = f.fresh /\ g.pc = "wait"
    BY DEF Working, FlowOf
  <1>. QED
    BY <1>1, <1>2 DEF GoesOnAs

LEMMA AgainTok ==
    ASSUME Memory, NEW s, Tok(s), NEW f \in flows, NEW g, GoesOnAs(f, g),
           flows' = (flows \ {f}) \cup {g}, UNCHANGED <<app, tokens>>,
           disk'.cache = disk.cache \/ disk'.cache = NoCache
    PROVE  Tok(s)'
  <1>1. Fitting(flows', app', tokens', s)
    BY FittingNext DEF Tok
  <1>. QED
    BY <1>1 DEF Tok, NoCache

LEMMA AfterTok ==
    ASSUME Memory, Kin, NEW s, Tok(s), NEW f \in flows, f \in Working, f.pc \in Asking,
           NEW res, res = "dropped" => ~Wanted(f) \/ f.kind # "hold", After(f, res),
           s = {} /\ res = "offline" /\ f.kind = "boot" /\ f.fresh =>
             disk.cache.user \in {NoOne, tokens}
    PROVE  Tok(s)'
  <1>0. /\ Rest(f) \subseteq Working \cup Leaving /\ Fitting(Rest(f), app, tokens, s)
        /\ \A g \in Rest(f) : ~(g.kind = "boot" /\ g.fresh)
    BY RestOK, FittingRest, NoStart DEF Tok
  <1>1. CASE Leaves(f)
    BY <1>0, <1>1 DEF Leaves, Tok, shown
  <1>2. CASE Holds(f)
    BY <1>0, <1>2, HoldTok DEF Holds
  <1>3. CASE Expires(f)
    BY <1>0, <1>3, ExpireTok DEF Expires
  <1>4. CASE ToLogin(f) /\ f.kind = "boot" /\ f.fresh
    <2>1. flows = {f} /\ app.boot = "loading"
      BY <1>4 DEF Tok, Fitting
    <2>2. flows' = {}
      BY <1>4, <2>1 DEF ToLogin, Rest
    <2>3. app'.user = NoOne /\ app'.ws = Nowhere /\ app'.boot = "onboarding"
      BY <1>4, <2>1 DEF ToLogin, Tok, Settled, Memory
    <2>. QED
      BY <1>4, <2>2, <2>3 DEF ToLogin, Tok, Settled, Fitting
  <1>5. CASE /\ Elsewhere(f)
             /\ app.boot = "ready" \/ (f.kind = "land" /\ app.ws = f.ws)
    <2>1. app.user \in People /\ (s = {} => tokens \in {NoOne, app.user})
      BY <1>5 DEF Kin, Sound, Memory, Account, Tok, Settled
    <2>2. PICK w \in Survivors(f) : Open(Rest(f), app.user, w, Survivors(f), Spaces)
      BY <1>5 DEF Elsewhere
    <2>3. w # Nowhere
      BY PhoneConstants DEF Survivors, Memory
    <2>. QED
      BY <1>0, <1>5, <2>1, <2>2, <2>3, OpenTok DEF Elsewhere
  <1>6. CASE Retries(f)
    BY <1>6, AgainGoesOn, AgainTok DEF Retries, shown
  <1>7. CASE /\ f.kind = "boot" /\ f.fresh /\ res = "offline"
             /\ Cached /\ UNCHANGED tokens
             /\ Open(Rest(f), disk.cache.user, disk.cache.ws, {}, Spaces)
    <2>1. /\ disk.cache.user \in People /\ disk.cache.ws # Nowhere
          /\ s = {} => tokens = disk.cache.user
      BY <1>7 DEF Cached, Memory, Account, Tok
    <2>. QED
      BY <1>0, <1>7, <2>1, OpenTok
  <1>8. CASE /\ flows' = (flows \ {f}) \cup {[f EXCEPT !.pc = "wait", !.tries = 2]}
             /\ Notice("reconnecting") /\ f.kind = "land"
             /\ UNCHANGED <<tokens, disk>>
    <2>. DEFINE g == [f EXCEPT !.pc = "wait", !.tries = 2]
    <2>1. Fitting(flows', app, tokens, s) /\ g.kind = "land"
      BY <1>8, AgainGoesOn, FittingNext DEF Tok
    <2>2. \A h \in flows' : ~(h.kind = "boot" /\ h.fresh)
      BY <1>8, <2>1, NoStart DEF Tok
    <2>3. app'.boot = "reconnecting" /\ app'.ws = app.ws /\ app'.user = app.user
      BY <1>8 DEF Notice, Memory
    <2>4. Fitting(flows', app', tokens, s)
      BY <2>1, <2>2, <2>3, FittingNotice
    <2>. QED
      BY <1>8, <2>3, <2>4 DEF Tok, Settled
  <1>9. CASE /\ flows' = (flows \ {f}) \cup {[f EXCEPT !.pc = "wait", !.tries = 2]}
             /\ UNCHANGED shown /\ UNCHANGED <<tokens, disk>>
    BY <1>9, AgainGoesOn, AgainTok DEF shown
  <1>10. CASE /\ flows' = (flows \ {f}) \cup {[f EXCEPT !.pc = "wait"]}
              /\ UNCHANGED <<shown, tokens, disk>>
    BY <1>10, AgainGoesOn, AgainTok DEF shown
  <1>. QED
    BY <1>1, <1>2, <1>3, <1>4, <1>5, <1>6, <1>7, <1>8, <1>9, <1>10, AfterWays

LEMMA EstablishTok ==
    ASSUME PhoneInv, Kin, NEW s, Tok(s), NEW f \in flows, Establish(f),
           s = {} /\ Unreachable(f) /\ f.kind = "boot" /\ f.fresh =>
             disk.cache.user \in {NoOne, tokens}
    PROVE  Tok(s)'
  <1>1. Memory /\ f \in Working /\ f.pc \in Asking
    <2>1. f.pc \in Asking
      BY DEF Establish, ServeMe, Unreachable, Refused401, HandleMe, PurgeForeign, Commit, Asking
    <2>. QED
      BY <2>1, Stale
  <1>2. ASSUME NEW pc \in {"settle", "commit"}, To(f, pc), f.pc \in {"answered", "settle"},
               UNCHANGED <<app, tokens>>, disk'.cache = disk.cache \/ disk'.cache = NoCache
        PROVE  Tok(s)'
    <2>. DEFINE g == [f EXCEPT !.pc = pc]
    <2>1. g.kind = f.kind /\ g.ws = f.ws /\ g.fresh = f.fresh /\ g.by = f.by
      BY <1>1 DEF Working, FlowOf
    <2>2. GoesOnAs(f, g)
      BY <1>1, <1>2, <2>1 DEF GoesOnAs
    <2>3. flows' = (flows \ {f}) \cup {g}
      BY <1>2 DEF To
    <2>. QED
      BY <1>1, <1>2, <2>2, <2>3, AgainTok
  <1>3. CASE ServeMe(f)
    <2>. DEFINE g == [f EXCEPT !.pc = "answered", !.me = lists[f.by]]
    <2>1. g.kind = f.kind /\ g.ws = f.ws /\ g.fresh = f.fresh /\ g.by = f.by
      BY <1>1 DEF Working, FlowOf
    <2>2. GoesOnAs(f, g)
      BY <1>1, <1>3, <2>1 DEF GoesOnAs, ServeMe
    <2>3. flows' = (flows \ {f}) \cup {g} /\ UNCHANGED <<app, tokens, disk>>
      BY <1>3 DEF ServeMe, quiet, still
    <2>. QED
      BY <1>1, <2>2, <2>3, AgainTok
  <1>4. CASE Unreachable(f)
    BY <1>1, <1>4, AfterTok DEF Unreachable
  <1>5. CASE Refused401(f)
    <2>1. CASE After(f, "401") \/ After(f, "signed_out")
      BY <1>1, <2>1, AfterTok
    <2>2. CASE Expires(f)
      BY <1>1, <2>2, RestOK, FittingRest, ExpireTok DEF Expires, Tok
    <2>3. CASE Ask(f) /\ UNCHANGED <<shown, tokens, disk>>
      BY <1>1, <2>3, AgainGoesOn, AgainTok DEF Ask, shown
    <2>. QED
      BY <1>5, <2>1, <2>2, <2>3 DEF Refused401
  <1>6. CASE HandleMe(f)
    <2>1. CASE ~Wanted(f) /\ Drop(f)
      BY <1>1, <2>1, AfterTok DEF Drop
    <2>2. CASE (To(f, "settle") \/ To(f, "commit")) /\ UNCHANGED <<app, tokens, disk>>
      BY <1>2, <1>6, <2>2 DEF HandleMe
    <2>. QED
      BY <1>6, <2>1, <2>2 DEF HandleMe, shown
  <1>7. CASE PurgeForeign(f)
    <2>1. CASE ~Wanted(f) /\ Drop(f)
      BY <1>1, <2>1, AfterTok DEF Drop
    <2>2. CASE /\ To(f, "commit") /\ disk' = [Empty EXCEPT !.auth = disk.auth]
               /\ UNCHANGED <<shown, tokens>>
      <3>1. disk'.cache = NoCache
        BY <2>2 DEF Empty
      <3>. QED
        BY <1>2, <1>7, <2>2, <3>1 DEF PurgeForeign, shown
    <2>. QED
      BY <1>7, <2>1, <2>2 DEF PurgeForeign
  <1>8. CASE Commit(f)
    <2>1. CASE (~Wanted(f) \/ f.kind = "switch") /\ Drop(f)
      BY <1>1, <2>1, AfterTok DEF Drop
    <2>2. CASE After(f, "empty")
      BY <1>1, <2>2, AfterTok
    <2>3. ASSUME Wanted(f), NEW w \in Candidates(f), Open(Rest(f), f.by, w, f.me, f.me),
                 UNCHANGED tokens
          PROVE  Tok(s)'
      <3>1. f.by \in People /\ f.by # NoOne
        BY <1>1, <1>8 DEF Commit, Kin, Sound, Known, Working, FlowOf, Account
      <3>2. w # Nowhere
        BY <1>1, PhoneConstants DEF Candidates, Working, FlowOf
      <3>3. s = {} => tokens = f.by
        <4>1. Alive(f, app)
          BY <1>8, <2>3, <3>1 DEF Alive, Commit, Wanted
        <4>. QED
          BY <4>1 DEF Tok, Fitting
      <3>4. Rest(f) \subseteq Working \cup Leaving /\ Fitting(Rest(f), app, tokens, s)
        BY <1>1, RestOK, FittingRest DEF Tok
      <3>. QED
        BY <1>1, <2>3, <3>1, <3>2, <3>3, <3>4, OpenTok
    <2>. QED
      BY <1>8, <2>1, <2>2, <2>3 DEF Commit
  <1>. QED
    BY <1>3, <1>4, <1>5, <1>6, <1>7, <1>8 DEF Establish

LEMMA FlowTok ==
    ASSUME PhoneInv, Kin, NEW s, Tok(s), NEW f \in flows,
           Wake(f) \/ PurgeLeft(f) \/ DeleteServed(f) \/ DeleteFails(f)
    PROVE  Tok(s)'
  <1>1. Memory
    BY MemoryIs DEF PhoneInv
  <1>2. f \in Working
    BY DEF Wake, PurgeLeft, DeleteServed, DeleteFails, PhoneInv, PhoneTypeOK, Leaving, FlowOf
  <1>3. CASE Wake(f)
    <2>1. CASE Ask(f)
      BY <1>1, <1>2, <1>3, <2>1, AgainGoesOn, AgainTok DEF Wake, Ask, quiet, still, Asking
    <2>2. CASE flows' = Rest(f)
      BY <1>3, <2>2, FittingRest DEF Wake, Tok, quiet, still
    <2>. QED
      BY <1>3, <2>1, <2>2 DEF Wake
  <1>4. CASE PurgeLeft(f)
    <2>1. disk'.cache = disk.cache
      BY <1>1, <1>4 DEF PurgeLeft, Purged, Memory
    <2>. QED
      BY <1>4, <2>1, FittingRest DEF PurgeLeft, Tok, shown
  <1>5. CASE DeleteServed(f)
    <2>. DEFINE now == [f EXCEPT !.fresh = TRUE]
                g == IF Wanted(now) THEN Asked(now) ELSE Over(now)
    <2>1. f.kind = "delete" /\ f.ws # Nowhere
      BY <1>5 DEF DeleteServed, Tok, Fitting
    <2>2. now.kind = "delete" /\ now.ws = f.ws /\ now \in Working
      BY <1>2, <2>1 DEF Working, FlowOf
    <2>3. Joins(g, app, tokens, s)
      <3>1. /\ Asked(now).kind = now.kind /\ Asked(now).ws = now.ws /\ Asked(now).by = tokens
        BY <2>2 DEF Asked, Working, FlowOf
      <3>2. Over(now).kind = now.kind /\ Over(now).ws = now.ws /\ Over(now).pc = "over"
        BY DEF Over, Flow
      <3>. QED
        BY <2>1, <2>2, <3>1, <3>2 DEF Joins, Alive
    <2>4. \A h \in flows \ {f} : ~(h.kind = "boot" /\ h.fresh)
      BY NoStart DEF Tok
    <2>5. Fitting((flows \ {f}) \cup {g}, app, tokens, s)
      <3>1. g.kind = "delete"
        <4>1. Asked(now).kind = now.kind /\ Over(now).kind = now.kind
          BY <2>2 DEF Asked, Over, Flow, Working, FlowOf
        <4>. QED
          BY <2>2, <4>1
      <3>. HIDE DEF g
      <3>. QED
        BY <2>3, <2>4, <3>1, FittingRest, FittingMore DEF Tok
    <2>. QED
      BY <1>5, <2>5 DEF DeleteServed, Tok, shown
  <1>6. CASE DeleteFails(f)
    BY <1>6, FittingRest DEF DeleteFails, Tok, quiet, still
  <1>. QED
    BY <1>3, <1>4, <1>5, <1>6

\* A logout wipes everything: if no login was under way, nothing strays from here.
LEMMA PurgeAllTok ==
    ASSUME PhoneInv, NEW r, Tok(r), NEW f \in flows, PurgeAll(f), NEW s, s = {} => Arriving = {}
    PROVE  Tok(s)'
  <1>. DEFINE g == [f EXCEPT !.pc = "purged"]
              F == flows \ {f}
  <1>1. f \in Leaving /\ f.kind = "logout"
    BY DEF PurgeAll, PhoneInv, PhoneTypeOK, Working, FlowOf
  <1>2. g.kind = "logout" /\ g.pc = "purged"
    BY <1>1 DEF PurgeAll, Leaving, FlowOf
  <1>3. s = {} => Quiet(flows)
    BY <1>1 DEF PhoneInv, Begun, Ending, Silent, Quiet, Arriving, Under
  <1>4. Fitting(F, app, NoOne, s)
    <2>1. s = {} => \A h \in F : ~Alive(h, app) /\ ~(h.fresh /\ h.pc \in Asking)
      BY <1>3 DEF Quiet, Alive, Asking
    <2>2. Fitting(F, app, tokens, r)
      BY FittingLess DEF Tok
    <2>. HIDE DEF F
    <2>. QED
      BY <2>1, <2>2 DEF Fitting
  <1>5. \A h \in F : ~(h.kind = "boot" /\ h.fresh)
    BY NoStart DEF Tok
  <1>6. Fitting(F \cup {g}, app, NoOne, s)
    <2>. HIDE DEF F, g
    <2>1. Joins(g, app, NoOne, s)
      BY <1>2 DEF Joins, Alive
    <2>. QED
      BY <1>2, <1>4, <1>5, <2>1, FittingMore
  <1>7. tokens' = NoOne /\ disk' = Empty /\ UNCHANGED app /\ flows' = F \cup {g}
    BY DEF PurgeAll, shown
  <1>. QED
    BY <1>6, <1>7 DEF Tok, Settled, Empty, NoCache

\* The end of a session: what is left of it fits the login step.
LEMMA ResetTok ==
    ASSUME PhoneInv, NEW s, Tok(s), NEW f \in flows, Reset(f)
    PROVE  Tok(s)'
  <1>1. app' = SignedOut /\ flows' = flows \ {f} /\ UNCHANGED <<tokens, disk>>
    BY DEF Reset
  <1>2. app'.boot = "onboarding" /\ app'.ws = Nowhere /\ app'.user = NoOne
    BY <1>1 DEF SignedOut, Loading
  <1>3. s = {} => \A g \in flows : ~(g.kind = "switch" /\ g.fresh /\ g.pc \in Asking)
    <2>1. CASE f.kind = "expire"
      BY <2>1 DEF Tok, Fitting
    <2>2. CASE f.kind = "logout"
      BY <2>2 DEF PhoneInv, Begun, Ending, Silent
    <2>. QED
      BY <2>1, <2>2 DEF Reset
  <1>4. \A g \in flows : ~(g.kind = "boot" /\ g.fresh)
    BY NoStart DEF Reset, Tok
  <1>5. \A g \in flows' : Alive(g, app') => Alive(g, app)
    BY <1>1, <1>2 DEF Alive, Tok, Fitting
  <1>6. Fitting(flows', app', tokens', s)
    BY <1>1, <1>3, <1>4, <1>5 DEF Fitting, Tok
  <1>. QED
    BY <1>1, <1>2, <1>6 DEF Tok, Settled

\* A killed app starts from the disk alone.
LEMMA KillTok ==
    ASSUME NEW r, Tok(r), Kill, NEW s
    PROVE  Tok(s)'
  BY DEF Kill, Tok, Settled, Fitting, Loading

LEMMA UserTok ==
    ASSUME PhoneInv, Kin, NEW s, Tok(s), Posts(flows),
           StartApp \/ Delete \/ Logout \/ (\E w \in Spaces : Switch(w))
           \/ (\E p \in People : Login(p)),
           s = {} /\ (\E w \in Spaces : Switch(w)) => Under({"expire"}) = {}
    PROVE  Tok(s)'
  <1>1. Memory
    BY MemoryIs DEF PhoneInv
  <1>2. ASSUME NEW k, NEW pc, NEW w, NEW u
        PROVE  /\ Flow(k, pc, w, u).kind = k /\ Flow(k, pc, w, u).pc = pc
               /\ Flow(k, pc, w, u).ws = w /\ Flow(k, pc, w, u).by = u
    BY DEF Flow
  <1>3. CASE StartApp
    <2>. DEFINE boot == Flow("boot", "me", Nowhere, disk.auth)
    <2>1. app.boot = "loading" /\ app.user = NoOne /\ app.ws = Nowhere
      BY <1>3 DEF StartApp, Tok, Settled
    <2>2. app' = SignedOut \/ app' = app
      BY <1>3 DEF StartApp
    <2>3. Settled(app', tokens', s)
      BY <2>1, <2>2 DEF Settled, SignedOut, Loading
    <2>4. flows' = {} \/ (flows' = {boot} /\ app' = app /\ tokens' = disk.auth)
      BY <1>3 DEF StartApp
    <2>5. Fitting({boot}, app, disk.auth, s)
      BY <1>2, <2>1 DEF Fitting, Alive
    <2>6. Fitting(flows', app', tokens', s)
      BY <2>4, <2>5 DEF Fitting
    <2>. QED
      BY <1>3, <2>3, <2>6 DEF Tok, StartApp
  <1>4. CASE Delete \/ \E w \in Spaces : Switch(w)
    <2>1. app.boot = "ready" /\ UNCHANGED <<app, tokens, disk>>
      BY <1>4 DEF Delete, Switch, Unhurried, still, shown
    <2>2. PICK g : /\ flows' = flows \cup {g} /\ g.kind \in {"delete", "switch"} /\ g.by = tokens
                   /\ g.kind = "delete" => g.ws = app.ws
                   /\ s = {} /\ g.kind = "switch" => Under({"expire"}) = {}
      BY <1>2, <1>4 DEF Delete, Switch
    <2>3. Joins(g, app, tokens, s)
      BY <2>1, <2>2 DEF Joins, Alive, Tok, Settled
    <2>4. \A f \in flows : ~(f.kind = "boot" /\ f.fresh)
      BY <2>1 DEF Tok, Fitting
    <2>5. Fitting(flows', app, tokens, s)
      BY <2>2, <2>3, <2>4, FittingMore DEF Tok, Under
    <2>. QED
      BY <2>1, <2>5 DEF Tok
  <1>5. CASE Logout
    <2>. DEFINE g == Flow("logout", "closing", Nowhere, NoOne)
    <2>1. Fitting(Outdated(flows), app, tokens, s) /\ \A f \in Outdated(flows) : ~f.fresh
      <3>1. flows \subseteq Working \cup Leaving
        BY <1>1 DEF Memory
      <3>2. \A f \in flows : f.kind \in {"land", "delete"} => f.ws # Nowhere
        BY DEF Tok, Fitting
      <3>3. \A f \in Outdated(flows) : ~f.fresh
        BY <3>1 DEF Outdated, Working, Leaving, FlowOf
      <3>. QED
        BY <3>1, <3>2, <3>3, FittingOutdated
    <2>2. Joins(g, app, tokens, s)
      BY <1>2 DEF Joins, Alive
    <2>3. Fitting(Outdated(flows) \cup {g}, app, tokens, s)
      <3>1. g.kind = "logout"
        BY <1>2
      <3>. HIDE DEF g
      <3>. QED
        BY <2>1, <2>2, <3>1, FittingMore
    <2>. QED
      BY <1>5, <2>3 DEF Logout, Tok
  <1>6. ASSUME NEW p \in People, Login(p)
        PROVE  Tok(s)'
    <2>. DEFINE g == Flow("login", "me", Nowhere, p)
    <2>1. app.boot = "onboarding" /\ app.user = NoOne /\ app.ws = Nowhere
      BY <1>6 DEF Login, Tok, Settled
    <2>2. s = {} => \A f \in flows : ~Alive(f, app)
      <3>1. ASSUME s = {}, NEW f \in flows, Alive(f, app)
            PROVE  f.kind \notin {"boot", "switch", "land", "delete", "hold"}
        BY <2>1, <3>1 DEF Alive, Tok, Fitting, Asking
      <3>2. \A f \in flows : f.kind # "login"
        BY <1>6 DEF Login, Under
      <3>4. \A f \in flows : f.kind \in {"logout", "expire"} => ~Alive(f, app)
        BY <1>1 DEF Alive, Posts, Memory, Working, Leaving, FlowOf
      <3>3. \A f \in flows : f.kind \in {"boot", "login", "switch", "delete", "land", "hold",
                                         "expire", "logout"}
        BY <1>1 DEF Memory, Working, Leaving, FlowOf
      <3>. QED
        BY <3>1, <3>2, <3>3, <3>4
    <2>3. Fitting(flows, app, p, s)
      BY <2>2 DEF Tok, Fitting
    <2>4. \A f \in flows : ~(f.kind = "boot" /\ f.fresh)
      BY <2>1 DEF Tok, Fitting
    <2>5. Joins(g, app, p, s)
      BY <1>2 DEF Joins
    <2>6. Fitting(flows \cup {g}, app, p, s)
      <3>1. g.kind = "login"
        BY <1>2
      <3>. HIDE DEF g
      <3>. QED
        BY <2>3, <2>4, <2>5, <3>1, FittingMore
    <2>7. disk'.cache = disk.cache /\ tokens' = p /\ UNCHANGED app /\ flows' = flows \cup {g}
      BY <1>1, <1>6 DEF Login, Memory, shown
    <2>. QED
      BY <2>1, <2>6, <2>7 DEF Tok, Settled
  <1>. QED
    BY <1>3, <1>4, <1>5, <1>6

LEMMA ClientsTok ==
    ASSUME PhoneInv, Kin, NEW s, Tok(s), NEW w \in Spaces,
           Writes(w) \/ Idle(w) \/ SyncLost(w) \/ SyncRefused(w)
    PROVE  Tok(s)'
  <1>1. Memory
    BY MemoryIs DEF PhoneInv
  <1>2. CASE Writes(w) \/ Idle(w)
    <2>1. disk'.cache = disk.cache /\ UNCHANGED <<app, tokens, flows>>
      BY <1>1, <1>2 DEF Writes, Idle, shown, Memory
    <2>. QED
      BY <2>1 DEF Tok
  <1>3. CASE SyncLost(w)
    <2>. DEFINE g == Flow("land", IF Ending THEN "over" ELSE "me", w, tokens)
    <2>1. disk'.cache = disk.cache /\ UNCHANGED <<app, tokens>>
      BY <1>1, <1>3 DEF SyncLost, Purged, Memory
    <2>2. CASE flows' = flows
      BY <2>1, <2>2 DEF Tok
    <2>3. CASE app.ws = w /\ flows' = flows \cup {g}
      <3>1. app.ws # Nowhere
        BY <2>3, PhoneConstants
      <3>2. \A f \in flows : ~(f.kind = "boot" /\ f.fresh)
        BY <3>1 DEF Tok, Fitting, Settled
      <3>3. g.kind = "land" /\ g.ws = w /\ g.by = tokens
        BY DEF Flow
      <3>4. Joins(g, app, tokens, s)
        BY <2>3, <3>1, <3>3 DEF Joins
      <3>5. Fitting(flows', app, tokens, s)
        BY <2>3, <3>2, <3>3, <3>4, FittingMore DEF Tok
      <3>. QED
        BY <2>1, <3>5 DEF Tok
    <2>. QED
      BY <1>3, <2>2, <2>3 DEF SyncLost
  <1>4. CASE SyncRefused(w)
    BY <1>1, <1>4, ExpireTok DEF SyncRefused, Memory, Tok
  <1>. QED
    BY <1>2, <1>3, <1>4

LEMMA TokStep ==
    PhoneInv /\ Kin /\ Tok(astray) /\ Posts(flows) /\ [PhoneNext]_phoneVars => Tok(astray)'
  <1>. SUFFICES ASSUME PhoneInv, Kin, Tok(astray), Posts(flows), [PhoneNext]_phoneVars
                PROVE  Tok(astray)'
    OBVIOUS
  <1>0. PICK s : s = astray'
    OBVIOUS
  <1>1. SUFFICES Tok(s)'
    BY <1>0
  <1>2. CASE Kill
    BY <1>2, KillTok
  <1>3. ASSUME NEW f \in flows, PurgeAll(f)
        PROVE  Tok(s)'
    <2>1. s = {} => Arriving = {}
      BY <1>0, <1>3 DEF PurgeAll
    <2>. QED
      BY <1>3, <2>1, PurgeAllTok
  <1>4. ASSUME s = {} => astray = {}
        PROVE  Tok(s)
    BY <1>4, TokLess
  <1>5. CASE UNCHANGED phoneVars
    <2>1. Tok(s)
      BY <1>0, <1>4, <1>5 DEF phoneVars, history
    <2>. QED
      BY <1>5, <2>1 DEF Tok, phoneVars, memory
  <1>6. ASSUME NEW f \in flows, Establish(f)
        PROVE  Tok(s)'
    <2>1. Unreachable(f) \/ UNCHANGED astray
      BY <1>6 DEF Establish, ServeMe, Refused401, HandleMe, PurgeForeign, Commit, asked, quiet,
                  still, history
    <2>2. s = {} => astray = {}
      BY <1>0, <2>1 DEF Unreachable
    <2>3. s = {} /\ Unreachable(f) /\ f.kind = "boot" /\ f.fresh =>
            disk.cache.user \in {NoOne, tokens}
      BY <1>0 DEF Unreachable
    <2>. QED
      BY <1>4, <1>6, <2>2, <2>3, EstablishTok
  <1>7. ASSUME NEW f \in flows,
               Wake(f) \/ PurgeLeft(f) \/ DeleteServed(f) \/ DeleteFails(f) \/ Reset(f)
        PROVE  Tok(s)'
    <2>1. UNCHANGED astray
      BY <1>7 DEF Wake, PurgeLeft, DeleteServed, DeleteFails, Reset, quiet, still, history
    <2>. QED
      BY <1>0, <1>4, <1>7, <2>1, FlowTok, ResetTok
  <1>8. ASSUME NEW w \in Spaces, Writes(w) \/ Idle(w) \/ SyncLost(w) \/ SyncRefused(w)
        PROVE  Tok(s)'
    <2>1. UNCHANGED astray
      BY <1>8 DEF Writes, Idle, SyncLost, SyncRefused, history
    <2>. QED
      BY <1>0, <1>4, <1>8, <2>1, ClientsTok
  <1>9. ASSUME NEW p \in People, Refuse(p) \/ \E w \in Spaces : Gain(p, w) \/ Lose(p, w)
        PROVE  Tok(s)'
    <2>1. UNCHANGED <<app, tokens, flows, disk, astray>>
      BY <1>9 DEF Refuse, Gain, Lose, memory, history
    <2>2. Tok(s)
      BY <1>0, <1>4, <2>1
    <2>. QED
      BY <2>1, <2>2 DEF Tok
  <1>10. CASE \E w \in Spaces : Switch(w)
    <2>1. (s = {} => astray = {}) /\ (s = {} => Under({"expire"}) = {})
      BY <1>0, <1>10 DEF Switch
    <2>. QED
      BY <1>4, <1>10, <2>1, UserTok
  <1>11. CASE (StartApp \/ Delete \/ Logout \/ \E p \in People : Login(p))
              /\ ~\E w \in Spaces : Switch(w)
    <2>1. UNCHANGED astray
      BY <1>11 DEF StartApp, Delete, Logout, Login, still, history
    <2>. QED
      BY <1>0, <1>4, <1>11, <2>1, UserTok
  <1>. QED
    BY <1>2, <1>3, <1>5, <1>6, <1>7, <1>8, <1>9, <1>10, <1>11 DEF PhoneNext

LEMMA TokStart ==
    PhoneInit => Tok(astray)
  BY DEF PhoneInit, Tok, Settled, Fitting, Loading, Empty, NoCache

-----------------------------------------------------------------------------
(* The workspace on the screen is the one the client serves *)

\* A session that is about to end; one that is up and stays.
Departing(F) == \E f \in F : f.kind \in {"logout", "expire"}
Live(s) == s = {} /\ app.boot = "ready" /\ ~Departing(flows)

\* A move off the open workspace.
Leads(f, w) == f.kind = "land" /\ f.fresh /\ f.ws = w

Served ==
    /\ current = app.ws /\ client[current].user = app.user
    /\ client[current].on = "running"
       \/ (client[current].on = "lost" /\ \E f \in flows : Leads(f, app.ws))
    /\ \A f \in flows : Leads(f, app.ws) => f.pc \in Asking

\* While nothing has strayed, a session is up and none is ending, the client in use
\* runs for the workspace and account of the store, or has lost it and a landing for
\* it is on its way; and a session without tokens is about to end.
ScreenInv(s) ==
    /\ s = {} /\ app.user # NoOne /\ tokens = NoOne => Departing(flows)
    /\ Posts(flows)
    /\ Live(s) => Served

LEMMA ScreenLess ==
    ASSUME NEW r, NEW s, s = {} => r = {}, ScreenInv(r)
    PROVE  ScreenInv(s)
  BY DEF ScreenInv, Live

\* A step that ends no session, or one that leaves none up.
LEMMA ShownAway ==
    ASSUME NEW s, ScreenInv(s), Posts(flows'), Departing(flows) => Departing(flows'),
           app'.user = app.user, tokens' = tokens \/ Departing(flows'),
           s = {} => app'.boot # "ready" \/ Departing(flows')
    PROVE  ScreenInv(s)'
  BY DEF ScreenInv, Live

LEMMA ShownSame ==
    ASSUME NEW s, ScreenInv(s), Posts(flows'), Departing(flows) => Departing(flows'),
           UNCHANGED <<app, tokens, current>>,
           Live(s) => /\ client'[current] = client[current]
                      /\ \A g \in flows' : Leads(g, app.ws) => g.pc \in Asking
                      /\ (\E f \in flows : Leads(f, app.ws)) => \E g \in flows' : Leads(g, app.ws)
    PROVE  ScreenInv(s)'
  BY DEF ScreenInv, Live, Served

\* The open workspace is the one of the client that has just been started.
LEMMA ShownOpen ==
    ASSUME Memory, NEW F, F \subseteq Working \cup Leaving, Posts(F),
           NEW u, NEW w \in Spaces, NEW known, NEW keep, Open(F, u, w, known, keep),
           UNCHANGED tokens, NEW s, s = {} /\ tokens = NoOne => Departing(F)
    PROVE  ScreenInv(s)'
  <1>1. app'.ws = w /\ app'.user = u /\ current' = w
    BY DEF Open, Serve
  <1>2. client'[w] = [on |-> "running", user |-> u]
    BY RetiredOK DEF Open, Serve
  <1>3. flows' = Outdated(F)
    BY DEF Open
  <1>4. \A f \in flows' : \E g \in F : f.kind = g.kind /\ f.pc = g.pc /\ ~f.fresh
    BY <1>3 DEF Outdated, Working, Leaving, FlowOf
  <1>5. Departing(F) => Departing(flows')
    <2>1. \A g \in F : [g EXCEPT !.fresh = FALSE].kind = g.kind
      BY DEF Working, Leaving, FlowOf
    <2>. QED
      BY <1>3, <2>1 DEF Departing, Outdated
  <1>6. Posts(flows')
    BY <1>4 DEF Posts
  <1>. QED
    BY <1>1, <1>2, <1>4, <1>5, <1>6 DEF ScreenInv, Live, Served, Leads

\* Expiries and logouts that outlive a step of another flow.
LEMMA OthersStay ==
    ASSUME Memory, Posts(flows), NEW f \in flows, f.kind \notin {"logout", "expire"}
    PROVE  /\ Posts(Rest(f)) /\ (Departing(flows) => Departing(Rest(f)))
           /\ Posts(flows \ {f}) /\ (Departing(flows) => Departing(flows \ {f}))
           /\ \A g : g.kind = f.kind =>
                /\ Posts((flows \ {f}) \cup {g})
                /\ Departing(flows) => Departing((flows \ {f}) \cup {g})
  <1>1. Over(f).kind = f.kind
    BY DEF Over, Flow
  <1>. QED
    BY <1>1 DEF Posts, Departing, Rest

LEMMA PastStays ==
    ASSUME NEW F, F \subseteq Working \cup Leaving, Posts(F)
    PROVE  /\ Posts(Outdated(F)) /\ (Departing(F) => Departing(Outdated(F)))
           /\ Posts(Superseded(F)) /\ (Departing(F) => Departing(Superseded(F)))
  <1>. DEFINE old(g) == [g EXCEPT !.fresh = FALSE]
  <1>1. \A g \in F : old(g).kind = g.kind /\ old(g).pc = g.pc
    BY DEF Working, Leaving, FlowOf
  <1>2. \A G : Outdated(G) = {old(g) : g \in G}
    BY DEF Outdated
  <1>. HIDE DEF old
  <1>3. Posts(Outdated(F)) /\ (Departing(F) => Departing(Outdated(F)))
    BY <1>1, <1>2 DEF Posts, Departing
  <1>4. Posts(Superseded(F)) /\ (Departing(F) => Departing(Superseded(F)))
    BY <1>1, <1>2 DEF Posts, Departing, Superseded
  <1>. QED
    BY <1>3, <1>4

LEMMA ExpireShown ==
    ASSUME Memory, NEW s, ScreenInv(s), NEW F, F \subseteq Working \cup Leaving, Posts(F),
           Expire(F), UNCHANGED app
    PROVE  ScreenInv(s)'
  <1>. DEFINE post == Flow("expire", "post", Nowhere, NoOne)
  <1>1. post.kind = "expire" /\ post.pc = "post"
    BY DEF Flow
  <1>2. flows' = Outdated(F) \cup {post} /\ Posts(Outdated(F))
    BY PastStays DEF Expire
  <1>3. Posts(flows') /\ Departing(flows')
    BY <1>1, <1>2 DEF Posts, Departing
  <1>. QED
    BY <1>3 DEF ScreenInv, Live

LEMMA HoldShown ==
    ASSUME Memory, NEW s, ScreenInv(s), NEW F, F \subseteq Working \cup Leaving, Posts(F),
           Departing(flows) => Departing(F), Hold(F), UNCHANGED <<tokens, disk>>
    PROVE  ScreenInv(s)'
  <1>. DEFINE loop == Flow("hold", "wait", Nowhere, tokens)
  <1>1. CASE /\ flows' = F /\ UNCHANGED <<app, client, current>>
             /\ Ending \/ app.boot = "noWorkspace"
    <2>1. app'.boot # "ready" \/ Departing(flows')
      BY <1>1 DEF Ending, Departing
    <2>. QED
      BY <1>1, <2>1, ShownAway
  <1>2. CASE flows' = Superseded(F) \cup {loop} /\ Notice("noWorkspace")
    <2>1. loop.kind = "hold"
      BY DEF Flow
    <2>2. Posts(flows') /\ (Departing(flows) => Departing(flows'))
      BY <1>2, <2>1, PastStays DEF Posts, Departing
    <2>3. app'.boot = "noWorkspace" /\ app'.user = app.user
      BY <1>2 DEF Notice, Memory
    <2>. QED
      BY <2>2, <2>3, ShownAway
  <1>. QED
    BY <1>1, <1>2 DEF Hold

\* A move that is wanted, with tokens, goes on or goes through.
LEMMA LandAfter ==
    ASSUME NEW f, f.kind = "land", NEW res, After(f, res), Wanted(f), SignedIn, res # "signed_out"
    PROVE  \/ Holds(f) \/ Expires(f) \/ Retries(f) \/ Elsewhere(f)
           \/ /\ flows' = (flows \ {f}) \cup {[f EXCEPT !.pc = "wait", !.tries = 2]}
              /\ Notice("reconnecting") \/ UNCHANGED shown
              /\ UNCHANGED <<tokens, disk>>
  BY DEF After, AfterLand

\* f, which is no move off the open workspace, ends or goes on; or f goes on.
LEMMA LeadsStay ==
    ASSUME Memory, NEW s, ScreenInv(s), Live(s), NEW f \in flows
    PROVE  /\ ~Leads(f, app.ws) =>
                \A G \in {Rest(f), flows \ {f}} :
                  /\ \A g \in G : Leads(g, app.ws) => g.pc \in Asking
                  /\ (\E h \in flows : Leads(h, app.ws)) => \E g \in G : Leads(g, app.ws)
           /\ \A g : g.kind = f.kind /\ g.ws = f.ws /\ g.fresh = f.fresh /\ g.pc \in Asking =>
                LET G == (flows \ {f}) \cup {g} IN
                  /\ \A h \in G : Leads(h, app.ws) => h.pc \in Asking
                  /\ (\E h \in flows : Leads(h, app.ws)) => \E h \in G : Leads(h, app.ws)
  <1>1. Over(f).kind = f.kind /\ Over(f).ws = f.ws /\ Over(f).fresh = f.fresh
    BY DEF Over, Flow
  <1>. QED
    BY <1>1 DEF ScreenInv, Served, Leads, Rest

LEMMA AgainShown ==
    ASSUME Memory, NEW s, ScreenInv(s), NEW f \in flows, f.kind \notin {"logout", "expire"}, NEW g,
           g.kind = f.kind, g.ws = f.ws, g.fresh = f.fresh, g.pc \in Asking,
           flows' = (flows \ {f}) \cup {g}, UNCHANGED tokens,
           UNCHANGED shown \/ Notice("reconnecting")
    PROVE  ScreenInv(s)'
  <1>1. Posts(flows') /\ (Departing(flows) => Departing(flows'))
    BY OthersStay DEF ScreenInv
  <1>2. CASE UNCHANGED shown
    BY <1>1, <1>2, LeadsStay, ShownSame DEF shown
  <1>3. CASE Notice("reconnecting")
    <2>1. app'.boot = "reconnecting" /\ app'.user = app.user
      BY <1>3 DEF Notice, Memory
    <2>. QED
      BY <1>1, <2>1, ShownAway
  <1>. QED
    BY <1>2, <1>3

LEMMA AgainIs ==
    ASSUME Memory, NEW f \in flows, f \in Working
    PROVE  \A g \in {Asked(f), [Asked(f) EXCEPT !.tries = 1], [f EXCEPT !.pc = "wait"],
                     [f EXCEPT !.pc = "wait", !.tries = 2]} :
             g.kind = f.kind /\ g.ws = f.ws /\ g.fresh = f.fresh /\ g.pc \in Asking
  BY DEF Asked, Working, FlowOf, Asking

LEMMA AfterShown ==
    ASSUME Memory, Kin, NEW s, Tok(s), ScreenInv(s), NEW f \in flows, f \in Working,
           f.pc \in Asking, NEW res, res = "signed_out" => tokens = NoOne, After(f, res),
           s = {} /\ res = "offline" /\ f.kind = "boot" /\ f.fresh =>
             disk.cache.user \in {NoOne, tokens}
    PROVE  ScreenInv(s)'
  <1>1. f.kind \notin {"logout", "expire"}
    BY DEF ScreenInv, Posts, Working, FlowOf, Asking
  <1>2. /\ Posts(Rest(f)) /\ (Departing(flows) => Departing(Rest(f)))
        /\ Rest(f) \subseteq Working \cup Leaving
    BY <1>1, OthersStay, RestOK DEF ScreenInv
  <1>3. CASE Holds(f)
    BY <1>2, <1>3, HoldShown DEF Holds
  <1>4. CASE Expires(f)
    BY <1>2, <1>4, ExpireShown DEF Expires
  <1>5. CASE Retries(f)
    BY <1>1, <1>5, AgainIs, AgainShown DEF Retries
  <1>6. CASE Elsewhere(f) /\ (app.boot = "ready" \/ (f.kind = "land" /\ app.ws = f.ws))
    <2>1. app.user # NoOne
      BY <1>6 DEF Kin, Sound
    <2>2. Survivors(f) \subseteq Spaces
      BY DEF Survivors, Memory
    <2>3. PICK w \in Survivors(f) : Open(Rest(f), app.user, w, Survivors(f), Spaces)
      BY <1>6 DEF Elsewhere
    <2>4. s = {} /\ tokens = NoOne => Departing(Rest(f))
      BY <1>2, <2>1 DEF ScreenInv
    <2>. QED
      BY <1>2, <1>6, <2>2, <2>3, <2>4, ShownOpen DEF Elsewhere
  <1>7. CASE /\ flows' = (flows \ {f}) \cup {[f EXCEPT !.pc = "wait", !.tries = 2]}
             /\ Notice("reconnecting") \/ UNCHANGED shown
             /\ UNCHANGED <<tokens, disk>>
    BY <1>1, <1>7, AgainIs, AgainShown
  <1>8. CASE /\ flows' = (flows \ {f}) \cup {[f EXCEPT !.pc = "wait"]}
             /\ UNCHANGED <<shown, tokens, disk>>
    BY <1>1, <1>8, AgainIs, AgainShown
  <1>9. CASE ToLogin(f)
    <2>1. app'.boot = "onboarding" /\ app'.user = app.user
      BY <1>9 DEF ToLogin, Memory
    <2>. QED
      BY <1>2, <1>9, <2>1, ShownAway DEF ToLogin
  <1>10. CASE /\ f.kind = "boot" /\ f.fresh /\ res = "offline"
              /\ Cached /\ UNCHANGED tokens
              /\ Open(Rest(f), disk.cache.user, disk.cache.ws, {}, Spaces)
    <2>1. disk.cache.ws \in Spaces /\ (s = {} => tokens # NoOne)
      BY <1>10 DEF Cached, Memory, Place, Tok
    <2>. QED
      BY <1>2, <1>10, <2>1, ShownOpen
  <1>11. CASE Live(s) /\ Leads(f, app.ws)
    <2>1. Wanted(f) /\ SignedIn
      <3>1. app.user # NoOne /\ ~Ending
        BY <1>11 DEF Live, Kin, Departing, Ending
      <3>2. tokens # NoOne
        BY <1>11, <3>1 DEF Live, ScreenInv
      <3>. QED
        BY <1>11, <3>1, <3>2 DEF Wanted, Leads, SignedIn
    <2>2. res # "signed_out" /\ app.boot = "ready" /\ f.kind = "land"
      BY <1>11, <2>1 DEF SignedIn, Live, Leads
    <2>. QED
      BY <1>3, <1>4, <1>5, <1>6, <1>7, <2>1, <2>2, LandAfter
  <1>12. CASE Leaves(f) /\ ~(Live(s) /\ Leads(f, app.ws))
    BY <1>2, <1>12, LeadsStay, ShownSame DEF Leaves, shown
  <1>. QED
    BY <1>3, <1>4, <1>5, <1>6, <1>7, <1>8, <1>9, <1>10, <1>11, <1>12, AfterWays

LEMMA EstablishShown ==
    ASSUME PhoneInv, Kin, NEW s, Tok(s), ScreenInv(s), NEW f \in flows, Establish(f),
           s = {} /\ Unreachable(f) /\ f.kind = "boot" /\ f.fresh =>
             disk.cache.user \in {NoOne, tokens}
    PROVE  ScreenInv(s)'
  <1>1. Memory /\ f \in Working /\ f.pc \in Asking
    <2>1. f.pc \in Asking
      BY DEF Establish, ServeMe, Unreachable, Refused401, HandleMe, PurgeForeign, Commit, Asking
    <2>. QED
      BY <2>1, Stale
  <1>2. f.kind \notin {"logout", "expire"}
    BY <1>1 DEF ScreenInv, Posts, Working, FlowOf, Asking
  <1>3. /\ Posts(Rest(f)) /\ (Departing(flows) => Departing(Rest(f)))
        /\ Rest(f) \subseteq Working \cup Leaving
    BY <1>1, <1>2, OthersStay, RestOK DEF ScreenInv
  <1>4. ASSUME NEW pc \in {"settle", "commit"}, To(f, pc), UNCHANGED <<shown, tokens>>
        PROVE  ScreenInv(s)'
    <2>. DEFINE g == [f EXCEPT !.pc = pc]
    <2>1. g.kind = f.kind /\ g.ws = f.ws /\ g.fresh = f.fresh /\ g.pc \in Asking
      BY <1>1 DEF Working, FlowOf, Asking
    <2>2. flows' = (flows \ {f}) \cup {g}
      BY <1>4 DEF To
    <2>. QED
      BY <1>1, <1>2, <1>4, <2>1, <2>2, AgainShown
  <1>5. CASE ServeMe(f)
    <2>. DEFINE g == [f EXCEPT !.pc = "answered", !.me = lists[f.by]]
    <2>1. g.kind = f.kind /\ g.ws = f.ws /\ g.fresh = f.fresh /\ g.pc \in Asking
      BY <1>1 DEF Working, FlowOf, Asking
    <2>2. flows' = (flows \ {f}) \cup {g} /\ UNCHANGED <<shown, tokens>>
      BY <1>5 DEF ServeMe, quiet, still, shown
    <2>. QED
      BY <1>1, <1>2, <2>1, <2>2, AgainShown
  <1>6. CASE Unreachable(f)
    BY <1>1, <1>6, AfterShown DEF Unreachable
  <1>7. CASE Refused401(f)
    <2>1. CASE After(f, "401") \/ (tokens = NoOne /\ After(f, "signed_out"))
      BY <1>1, <2>1, AfterShown
    <2>2. CASE Expires(f)
      BY <1>1, <1>3, <2>2, ExpireShown DEF Expires
    <2>3. CASE Ask(f) /\ UNCHANGED <<shown, tokens, disk>>
      BY <1>1, <1>2, <2>3, AgainIs, AgainShown DEF Ask
    <2>. QED
      BY <1>7, <2>1, <2>2, <2>3 DEF Refused401
  <1>8. CASE HandleMe(f)
    <2>1. CASE Drop(f)
      BY <1>1, <2>1, AfterShown DEF Drop
    <2>2. CASE To(f, "commit") /\ UNCHANGED <<shown, tokens, disk>>
      BY <1>4, <2>2
    <2>3. CASE Wanted(f) /\ Foreign(f) /\ To(f, "settle") /\ UNCHANGED <<app, tokens, disk>>
      <3>. DEFINE g == [f EXCEPT !.pc = "settle"]
      <3>1. g.kind = f.kind
        BY <1>1 DEF Working, FlowOf
      <3>2. Posts(flows') /\ (Departing(flows) => Departing(flows'))
        BY <1>1, <1>2, <2>3, <3>1, OthersStay DEF To, ScreenInv
      <3>3. ~Live(s)
        <4>1. f.by # NoOne
          BY <1>8 DEF HandleMe, Kin, Sound, Known
        <4>2. s = {} => tokens = f.by
          BY <1>8, <2>3, <4>1 DEF HandleMe, Alive, Wanted, Tok, Fitting
        <4>. QED
          BY <2>3, <4>1, <4>2 DEF Live, Kin, Tok, Settled, Foreign, Owner
      <3>. QED
        BY <2>3, <3>2, <3>3, ShownAway DEF Live
    <2>. QED
      BY <1>8, <2>1, <2>2, <2>3 DEF HandleMe
  <1>9. CASE PurgeForeign(f)
    <2>1. CASE Drop(f)
      BY <1>1, <2>1, AfterShown DEF Drop
    <2>2. CASE To(f, "commit") /\ UNCHANGED <<shown, tokens>>
      BY <1>4, <2>2
    <2>. QED
      BY <1>9, <2>1, <2>2 DEF PurgeForeign
  <1>10. CASE Commit(f)
    <2>1. CASE Drop(f) \/ After(f, "empty")
      BY <1>1, <2>1, AfterShown DEF Drop
    <2>2. ASSUME Wanted(f), NEW w \in Candidates(f), Open(Rest(f), f.by, w, f.me, f.me),
                 UNCHANGED tokens
          PROVE  ScreenInv(s)'
      <3>1. w \in Spaces
        BY <1>1 DEF Candidates, Working, FlowOf
      <3>2. s = {} => tokens # NoOne
        <4>1. f.by # NoOne
          BY <1>10 DEF Commit, Kin, Sound, Known
        <4>2. Alive(f, app)
          BY <1>10, <2>2, <4>1 DEF Alive, Commit, Wanted
        <4>. QED
          BY <4>1, <4>2 DEF Tok, Fitting
      <3>. QED
        BY <1>1, <1>3, <2>2, <3>1, <3>2, ShownOpen
    <2>. QED
      BY <1>10, <2>1, <2>2 DEF Commit
  <1>. QED
    BY <1>5, <1>6, <1>7, <1>8, <1>9, <1>10 DEF Establish

LEMMA FlowShown ==
    ASSUME PhoneInv, Kin, NEW s, Tok(s), ScreenInv(s), NEW f \in flows,
           Wake(f) \/ PurgeLeft(f) \/ DeleteServed(f) \/ DeleteFails(f)
    PROVE  ScreenInv(s)'
  <1>1. Memory
    BY MemoryIs DEF PhoneInv
  <1>2. f \in Working /\ f.kind \notin {"logout", "expire"}
    <2>1. f.pc \in Asking \cup {"over", "deleting"} \/ f.kind = "delete"
      BY DEF Wake, PurgeLeft, DeleteServed, DeleteFails, Asking
    <2>2. f \in Working
      BY <2>1 DEF PhoneInv, PhoneTypeOK, Leaving, FlowOf, Asking
    <2>. QED
      BY <2>1, <2>2 DEF ScreenInv, Posts, Working, FlowOf, Asking
  <1>3. /\ Posts(Rest(f)) /\ (Departing(flows) => Departing(Rest(f)))
        /\ Posts(flows \ {f}) /\ (Departing(flows) => Departing(flows \ {f}))
    BY <1>1, <1>2, OthersStay DEF ScreenInv
  <1>4. CASE Wake(f)
    <2>1. CASE Ask(f)
      BY <1>1, <1>2, <1>4, <2>1, AgainIs, AgainShown DEF Wake, Ask, quiet, still, shown
    <2>2. CASE ~Wanted(f) /\ flows' = Rest(f)
      <3>1. ~(Live(s) /\ Leads(f, app.ws))
        BY <2>2 DEF Live, Leads, Wanted, Departing, Ending
      <3>2. UNCHANGED <<app, tokens, client, current>>
        BY <1>4 DEF Wake, quiet, still
      <3>. QED
        BY <1>1, <1>3, <2>2, <3>1, <3>2, LeadsStay, ShownSame
    <2>. QED
      BY <1>4, <2>1, <2>2 DEF Wake
  <1>5. CASE PurgeLeft(f) \/ DeleteFails(f)
    <2>1. flows' = flows \ {f} /\ UNCHANGED <<app, tokens, client, current>>
      BY <1>5 DEF PurgeLeft, DeleteFails, quiet, still, shown
    <2>2. ~(Live(s) /\ Leads(f, app.ws))
      BY <1>5 DEF PurgeLeft, DeleteFails, ScreenInv, Served, Asking
    <2>. QED
      BY <1>1, <1>3, <2>1, <2>2, LeadsStay, ShownSame
  <1>6. CASE DeleteServed(f)
    <2>. DEFINE now == [f EXCEPT !.fresh = TRUE]
                g == IF Wanted(now) THEN Asked(now) ELSE Over(now)
    <2>1. f.kind = "delete" /\ g.kind = "delete"
      <3>1. now.kind = "delete" /\ now \in Working /\ f.kind = "delete"
        BY <1>2, <1>6 DEF DeleteServed, Working, FlowOf
      <3>2. Asked(now).kind = now.kind
        BY <3>1 DEF Asked, Working, FlowOf
      <3>3. Over(now).kind = now.kind
        BY DEF Over, Flow
      <3>. QED
        BY <3>1, <3>2, <3>3
    <2>2. flows' = (flows \ {f}) \cup {g} /\ UNCHANGED <<app, tokens, client, current>>
      BY <1>6 DEF DeleteServed, shown
    <2>. HIDE DEF g
    <2>3. Posts(flows') /\ (Departing(flows) => Departing(flows'))
      BY <1>1, <1>2, <2>1, <2>2, OthersStay DEF ScreenInv
    <2>4. Live(s) => /\ \A h \in flows' : Leads(h, app.ws) => h.pc \in Asking
                     /\ (\E h \in flows : Leads(h, app.ws)) => \E h \in flows' : Leads(h, app.ws)
      BY <2>1, <2>2 DEF Leads, ScreenInv, Served
    <2>. QED
      BY <2>2, <2>3, <2>4, ShownSame
  <1>. QED
    BY <1>4, <1>5, <1>6

\* Until the store is reset a session that is over is departing.
LEMMA PurgeAllShown ==
    ASSUME PhoneInv, NEW r, ScreenInv(r), NEW f \in flows, PurgeAll(f), NEW s
    PROVE  ScreenInv(s)'
  <1>. DEFINE g == [f EXCEPT !.pc = "purged"]
  <1>1. f \in Leaving
    BY DEF PurgeAll, PhoneInv, PhoneTypeOK, Working, FlowOf
  <1>2. g.kind = "logout"
    BY <1>1 DEF PurgeAll, Leaving, FlowOf
  <1>3. flows' = (flows \ {f}) \cup {g}
    BY DEF PurgeAll
  <1>. HIDE DEF g
  <1>4. Posts(flows') /\ Departing(flows')
    BY <1>2, <1>3 DEF Posts, Departing, ScreenInv
  <1>. QED
    BY <1>4 DEF ScreenInv, Live

LEMMA ResetShown ==
    ASSUME PhoneInv, NEW s, ScreenInv(s), NEW f \in flows, Reset(f)
    PROVE  ScreenInv(s)'
  <1>1. app'.boot = "onboarding" /\ app'.user = NoOne /\ flows' = flows \ {f}
    BY DEF Reset, SignedOut, Loading
  <1>. QED
    BY <1>1 DEF ScreenInv, Live, Posts

LEMMA KillShown ==
    ASSUME Kill, NEW s
    PROVE  ScreenInv(s)'
  BY DEF Kill, ScreenInv, Live, Loading, Posts

LEMMA UserShown ==
    ASSUME PhoneInv, Kin, NEW s, Tok(s), ScreenInv(s),
           StartApp \/ Delete \/ Logout \/ (\E w \in Spaces : Switch(w))
           \/ (\E p \in People : Login(p))
    PROVE  ScreenInv(s)'
  <1>1. ASSUME NEW k, NEW pc, NEW w, NEW u
        PROVE  Flow(k, pc, w, u).kind = k
    BY DEF Flow
  <1>2. CASE StartApp
    <2>1. app'.boot # "ready" /\ app'.user = NoOne
      BY <1>2 DEF StartApp, Tok, Settled, SignedOut, Loading
    <2>2. Posts(flows')
      BY <1>1, <1>2 DEF StartApp, Posts
    <2>. QED
      BY <2>1, <2>2 DEF ScreenInv, Live
  <1>3. CASE Delete \/ \E w \in Spaces : Switch(w)
    <2>1. PICK g : flows' = flows \cup {g} /\ g.kind \in {"delete", "switch"}
      BY <1>1, <1>3 DEF Delete, Switch
    <2>2. UNCHANGED <<app, tokens, client, current>>
      BY <1>3 DEF Delete, Switch, still, shown
    <2>3. Posts(flows') /\ (Departing(flows) => Departing(flows'))
      BY <2>1 DEF Posts, Departing, ScreenInv
    <2>4. Live(s) => /\ \A h \in flows' : Leads(h, app.ws) => h.pc \in Asking
                     /\ (\E h \in flows : Leads(h, app.ws)) => \E h \in flows' : Leads(h, app.ws)
      BY <2>1 DEF Leads, ScreenInv, Served
    <2>. QED
      BY <2>2, <2>3, <2>4, ShownSame
  <1>4. CASE Logout
    <2>. DEFINE g == Flow("logout", "closing", Nowhere, NoOne)
    <2>1. flows' = Outdated(flows) \cup {g} /\ g.kind = "logout" /\ UNCHANGED app
      BY <1>1, <1>4 DEF Logout
    <2>2. Posts(Outdated(flows))
      BY PastStays DEF PhoneInv, PhoneTypeOK, ScreenInv
    <2>. HIDE DEF g
    <2>3. Posts(flows') /\ Departing(flows')
      BY <2>1, <2>2 DEF Posts, Departing
    <2>. QED
      BY <2>1, <2>3, ShownAway
  <1>5. ASSUME NEW p \in People, Login(p)
        PROVE  ScreenInv(s)'
    <2>1. app'.boot = "onboarding" /\ tokens' = p /\ p # NoOne
      BY <1>5, PhoneConstants DEF Login, shown
    <2>2. Posts(flows')
      BY <1>1, <1>5 DEF Login, Posts, ScreenInv
    <2>. QED
      BY <2>1, <2>2 DEF ScreenInv, Live
  <1>. QED
    BY <1>2, <1>3, <1>4, <1>5

LEMMA ClientsShown ==
    ASSUME PhoneInv, NEW s, Tok(s), ScreenInv(s), NEW w \in Spaces,
           Writes(w) \/ Idle(w) \/ SyncLost(w) \/ SyncRefused(w)
    PROVE  ScreenInv(s)'
  <1>1. Memory /\ Posts(flows)
    BY MemoryIs DEF PhoneInv, ScreenInv
  <1>0. Live(s) => current \in Spaces /\ client[current].on # "stopped"
    BY <1>1 DEF Live, ScreenInv, Served, Tok, Settled, Memory, Place
  <1>2. CASE Writes(w) \/ Idle(w)
    <2>1. UNCHANGED <<app, tokens, current, flows>>
      BY <1>2 DEF Writes, Idle, shown
    <2>2. Live(s) => client'[current] = client[current]
      BY <1>0, <1>1, <1>2 DEF Writes, Idle, shown, Memory
    <2>3. Live(s) => \A g \in flows' : Leads(g, app.ws) => g.pc \in Asking
      BY <2>1 DEF ScreenInv, Served
    <2>. QED
      BY <1>1, <2>1, <2>2, <2>3, ShownSame
  <1>3. CASE SyncLost(w)
    <2>. DEFINE g == Flow("land", IF Ending THEN "over" ELSE "me", w, tokens)
    <2>1. /\ g.kind = "land" /\ g.ws = w /\ g.fresh /\ g.pc \in {"over", "me"}
          /\ ~Ending => g.pc = "me"
      BY DEF Flow
    <2>2. /\ UNCHANGED <<app, tokens, current>>
          /\ flows' = IF app.ws = w /\ ~Moving(w) THEN flows \cup {g} ELSE flows
      BY <1>3 DEF SyncLost
    <2>. HIDE DEF g
    <2>3. Posts(flows') /\ (Departing(flows) => Departing(flows'))
      BY <1>1, <2>1, <2>2 DEF Posts, Departing
    <2>4. CASE ~Live(s)
      BY <2>2, <2>3, <2>4, ShownAway DEF Live
    <2>5. CASE Live(s) /\ w # current
      <3>1. client'[current] = client[current]
        BY <1>0, <1>1, <1>3, <2>5 DEF SyncLost, Memory
      <3>2. flows' = flows
        BY <2>2, <2>5 DEF ScreenInv, Served
      <3>3. \A h \in flows' : Leads(h, app.ws) => h.pc \in Asking
        BY <2>5, <3>2 DEF ScreenInv, Served
      <3>. QED
        BY <2>2, <2>3, <3>1, <3>2, <3>3, ShownSame
    <2>6. CASE Live(s) /\ w = current
      <3>1. app.ws = w /\ client[w].user = app.user /\ client[w].on = "running"
        BY <1>3, <2>6 DEF ScreenInv, Served, SyncLost, Works
      <3>2. client'[w] = [client[w] EXCEPT !.on = "lost"]
        BY <1>1, <1>3, <3>1 DEF SyncLost, Memory
      <3>3. client'[w].on = "lost" /\ client'[w].user = app.user
        BY <1>1, <3>1, <3>2 DEF Memory
      <3>4. ~Ending
        BY <2>6 DEF Live, Departing, Ending
      <3>5. \A h \in flows' : Leads(h, app.ws) => h.pc \in Asking
        BY <2>1, <2>2, <2>6, <3>4 DEF ScreenInv, Served, Asking
      <3>6. \E h \in flows' : Leads(h, app.ws)
        BY <2>1, <2>2, <3>1 DEF Leads, Moving
      <3>. QED
        BY <2>2, <2>3, <2>6, <3>1, <3>3, <3>5, <3>6 DEF ScreenInv, Live, Served
    <2>. QED
      BY <2>4, <2>5, <2>6
  <1>4. CASE SyncRefused(w)
    BY <1>1, <1>4, ExpireShown DEF SyncRefused, Memory
  <1>. QED
    BY <1>2, <1>3, <1>4

LEMMA ShownStep ==
    PhoneInv /\ Kin /\ Tok(astray) /\ ScreenInv(astray) /\ [PhoneNext]_phoneVars
      => ScreenInv(astray)'
  <1>. SUFFICES ASSUME PhoneInv, Kin, Tok(astray), ScreenInv(astray), [PhoneNext]_phoneVars
                PROVE  ScreenInv(astray)'
    OBVIOUS
  <1>0. PICK s : s = astray'
    OBVIOUS
  <1>1. SUFFICES ScreenInv(s)'
    BY <1>0
  <1>2. CASE Kill
    BY <1>2, KillShown
  <1>3. ASSUME NEW f \in flows, PurgeAll(f)
        PROVE  ScreenInv(s)'
    BY <1>3, PurgeAllShown
  <1>4. ASSUME s = {} => astray = {}
        PROVE  Tok(s) /\ ScreenInv(s)
    BY <1>4, TokLess, ScreenLess
  <1>5. CASE UNCHANGED <<app, tokens, client, current, flows, astray>>
    <2>1. ScreenInv(s)
      BY <1>0, <1>4, <1>5
    <2>. QED
      BY <1>5, <2>1 DEF ScreenInv, Live, Served
  <1>6. ASSUME NEW f \in flows, Establish(f)
        PROVE  ScreenInv(s)'
    <2>1. Unreachable(f) \/ UNCHANGED astray
      BY <1>6 DEF Establish, ServeMe, Refused401, HandleMe, PurgeForeign, Commit, asked, quiet,
                  still, history
    <2>2. s = {} => astray = {}
      BY <1>0, <2>1 DEF Unreachable
    <2>3. s = {} /\ Unreachable(f) /\ f.kind = "boot" /\ f.fresh =>
            disk.cache.user \in {NoOne, tokens}
      BY <1>0 DEF Unreachable
    <2>. QED
      BY <1>4, <1>6, <2>2, <2>3, EstablishShown
  <1>7. ASSUME NEW f \in flows,
               Wake(f) \/ PurgeLeft(f) \/ DeleteServed(f) \/ DeleteFails(f) \/ Reset(f)
        PROVE  ScreenInv(s)'
    <2>1. UNCHANGED astray
      BY <1>7 DEF Wake, PurgeLeft, DeleteServed, DeleteFails, Reset, quiet, still, history
    <2>. QED
      BY <1>0, <1>4, <1>7, <2>1, FlowShown, ResetShown
  <1>8. ASSUME NEW w \in Spaces, Writes(w) \/ Idle(w) \/ SyncLost(w) \/ SyncRefused(w)
        PROVE  ScreenInv(s)'
    <2>1. UNCHANGED astray
      BY <1>8 DEF Writes, Idle, SyncLost, SyncRefused, history
    <2>. QED
      BY <1>0, <1>4, <1>8, <2>1, ClientsShown
  <1>9. ASSUME NEW p \in People, Refuse(p) \/ \E w \in Spaces : Gain(p, w) \/ Lose(p, w)
        PROVE  ScreenInv(s)'
    BY <1>5, <1>9 DEF Refuse, Gain, Lose, memory, history
  <1>10. CASE StartApp \/ Delete \/ Logout \/ (\E w \in Spaces : Switch(w))
              \/ \E p \in People : Login(p)
    <2>1. s = {} => astray = {}
      BY <1>0, <1>10 DEF StartApp, Delete, Logout, Switch, Login, still, history
    <2>. QED
      BY <1>4, <1>10, <2>1, UserShown
  <1>. QED
    BY <1>2, <1>3, <1>5, <1>6, <1>7, <1>8, <1>9, <1>10 DEF PhoneNext, phoneVars, memory, history

LEMMA ShownStart ==
    PhoneInit => ScreenInv(astray)
  BY DEF PhoneInit, ScreenInv, Live, Posts, Loading

\* The session on the screen is the one its requests go out for: a /me asked with
\* one account's tokens never opens a session beside another's (establishSession,
\* landOutside, landAfterDelete and holdForWorkspace in boot.ts, with their epoch and
\* store checks).  The three steps that break it, by way of bootApp, switchWorkspace
\* and logout, are the exception; what is on the phone beside the session is the
\* session's even then.
THEOREM AccountIsOne == PhoneSpec => []OneAccountUnlessAstray
  <1>1. Kin /\ Tok(astray) => OneAccountUnlessAstray
    <2>. SUFFICES ASSUME Kin, Tok(astray) PROVE OneAccountUnlessAstray
      OBVIOUS
    <2>1. NothingForeign
      BY DEF Kin, NothingForeign
    <2>2. Unstrayed /\ app.boot = "ready" => tokens \in {NoOne, app.user}
      BY DEF Kin, Tok, Settled, Unstrayed
    <2>. QED
      BY <2>1, <2>2 DEF OneAccount, OneAccountUnlessAstray
  <1>2. ScreenInv(astray) => Posts(flows)
    BY DEF ScreenInv
  <1>. QED
    BY <1>1, <1>2, PhoneStart, PhoneStep, KinStart, KinStep, TokStart, TokStep, ShownStart,
       ShownStep, PTL DEF PhoneSpec

\* The workspace on the screen is the one the client in use works on, unless that
\* client has been refused and the app is moving off it (initSync and
\* handleAccessLost), with the same exception.
THEOREM ScreenIsOfItsClient == PhoneSpec => []ScreenIsServedUnlessAstray
  <1>1. ScreenInv(astray) => Posts(flows) /\ ScreenIsServedUnlessAstray
    BY DEF ScreenInv, Live, Served, ScreenIsServed, ScreenIsServedUnlessAstray, Unstrayed,
           Departing, Under, Leads
  <1>. QED
    BY <1>1, PhoneStart, PhoneStep, KinStart, KinStep, TokStart, TokStep, ShownStart,
       ShownStep, PTL DEF PhoneSpec
=============================================================================
