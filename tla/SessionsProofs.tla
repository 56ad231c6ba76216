--------------------------- MODULE SessionsProofs ---------------------------
(***************************************************************************)
(* What the server promises about refresh tokens, and what an honest       *)
(* browser may count on, for any tabs, logins, tokens and faults.          *)
(***************************************************************************)
EXTENDS Sessions, SequenceTheorems, TLAPS

\* A family that is over was once there.
OverWasThere == \A f \in over : \E n \in Issued : tok[n].fam = f

SessionsInv == SessionsTypeOK /\ OneLiveToken /\ OverIsOver /\ OverWasThere

\* What the server may do to the tokens: revoke some, add one.
Kept == UNCHANGED <<tok, over>>
Burns == \E n \in Issued : tok' = Burnt(n) /\ over' = over \cup {tok[n].fam}
Rotates == \E n \in Issued : /\ ~tok[n].revoked /\ over' = over
                             /\ tok' = Append([tok EXCEPT ![n].revoked = TRUE], Token(tok[n].fam, n))
LogsIn == \E f \in Families : Family(f) = {} /\ over' = over /\ tok' = Append(tok, Token(f, None))

LEMMA IssuedAre == ASSUME tok \in Seq(TokenRow) PROVE Issued = 1 .. Len(tok) /\ Len(tok) \in Nat
  BY DEF Issued

LEMMA BurntIs ==
    ASSUME tok \in Seq(TokenRow), NEW n \in Issued
    PROVE  /\ Burnt(n) \in Seq(TokenRow) /\ DOMAIN Burnt(n) = Issued
           /\ \A m \in Issued : /\ Burnt(n)[m].fam = tok[m].fam
                                /\ tok[m].revoked => Burnt(n)[m].revoked
                                /\ tok[m].fam = tok[n].fam => Burnt(n)[m].revoked
  <1>1. \A m \in Issued : tok[m] \in TokenRow
    BY DEF Issued
  <1>2. Issued = 1 .. Len(tok) /\ Len(tok) \in Nat
    BY IssuedAre
  <1>3. Burnt(n) = [m \in Issued |-> IF tok[m].fam = tok[n].fam
                                     THEN [tok[m] EXCEPT !.revoked = TRUE] ELSE tok[m]]
    BY DEF Burnt, Revoke, Issued
  <1>4. \A m \in Issued : Burnt(n)[m] \in TokenRow
    BY <1>1, <1>3 DEF TokenRow
  <1>5. Burnt(n) \in [1 .. Len(tok) -> TokenRow]
    BY <1>2, <1>3, <1>4
  <1>. QED
    BY <1>1, <1>2, <1>3, <1>5 DEF TokenRow

LEMMA TokensStep ==
    ASSUME tok \in Seq(TokenRow), over \subseteq Families, OneLiveToken, OverIsOver, OverWasThere,
           Kept \/ Burns \/ Rotates \/ LogsIn
    PROVE  /\ tok' \in Seq(TokenRow) /\ over' \subseteq Families
           /\ OneLiveToken' /\ OverIsOver' /\ OverWasThere' /\ Issued \subseteq Issued'
           /\ Rotates \/ LogsIn => Len(tok) + 1 \in Issued'
  <1>1. \A m \in Issued : tok[m] \in TokenRow
    BY DEF Issued
  <1>2. Issued = 1 .. Len(tok) /\ Len(tok) \in Nat
    BY IssuedAre
  <1>. DEFINE Fine == /\ tok' \in Seq(TokenRow) /\ over' \subseteq Families
                      /\ OneLiveToken' /\ OverIsOver' /\ OverWasThere' /\ Issued \subseteq Issued'
  <1>3. ASSUME Kept PROVE Fine
    BY <1>3 DEF Kept, Issued, OneLiveToken, OverIsOver, OverWasThere
  <1>4. ASSUME Burns PROVE Fine
    <2>1. PICK n \in Issued : tok' = Burnt(n) /\ over' = over \cup {tok[n].fam}
      BY <1>4 DEF Burns
    <2>2. /\ tok' \in Seq(TokenRow) /\ Issued' = Issued
          /\ \A m \in Issued : /\ tok'[m].fam = tok[m].fam
                               /\ tok[m].revoked => tok'[m].revoked
                               /\ tok[m].fam = tok[n].fam => tok'[m].revoked
      BY <2>1, BurntIs DEF Issued
    <2>3. over' \subseteq Families
      BY <1>1, <2>1 DEF TokenRow
    <2>4. OneLiveToken'
      BY <2>2 DEF OneLiveToken
    <2>5. OverIsOver' /\ OverWasThere'
      BY <2>1, <2>2 DEF OverIsOver, OverWasThere
    <2>. QED
      BY <2>2, <2>3, <2>4, <2>5
  <1>. DEFINE Adds(f) ==
         /\ tok' \in Seq(TokenRow) /\ Issued' = Issued \cup {Len(tok) + 1} /\ over' = over
         /\ \A m \in Issued : tok'[m].fam = tok[m].fam /\ (tok[m].revoked => tok'[m].revoked)
         /\ \A m \in Issued : tok[m].fam = f => tok'[m].revoked
         /\ tok'[Len(tok) + 1].fam = f /\ f \in Families /\ f \notin over
  <1>5. ASSUME NEW f, Adds(f)
        PROVE  Fine /\ Len(tok) + 1 \in Issued'
    <2>1. OneLiveToken'
      BY <1>2, <1>5 DEF OneLiveToken
    <2>2. OverIsOver' /\ OverWasThere'
      BY <1>2, <1>5 DEF OverIsOver, OverWasThere
    <2>. QED
      BY <1>5, <2>1, <2>2
  <1>6. ASSUME NEW S \in Seq(TokenRow), Len(S) = Len(tok), NEW row \in TokenRow, tok' = Append(S, row)
        PROVE  /\ tok' \in Seq(TokenRow) /\ Issued' = Issued \cup {Len(tok) + 1}
               /\ \A m \in Issued : tok'[m] = S[m]
               /\ tok'[Len(tok) + 1] = row
    <2>1. tok' \in Seq(TokenRow) /\ Len(tok') = Len(tok) + 1
      BY <1>6
    <2>2. Issued' = 1 .. Len(tok) + 1
      BY <2>1 DEF Issued
    <2>. QED
      BY <1>2, <1>6, <2>1, <2>2
  <1>7. ASSUME Rotates PROVE Fine /\ Len(tok) + 1 \in Issued'
    <2>1. PICK n \in Issued : /\ ~tok[n].revoked /\ over' = over
                              /\ tok' = Append([tok EXCEPT ![n].revoked = TRUE], Token(tok[n].fam, n))
      BY <1>7 DEF Rotates
    <2> DEFINE S == [tok EXCEPT ![n].revoked = TRUE]
    <2>2. /\ S \in Seq(TokenRow) /\ Len(S) = Len(tok)
          /\ \A m \in Issued : S[m].fam = tok[m].fam /\ (tok[m].revoked => S[m].revoked)
          /\ S[n].revoked
          /\ \A m \in Issued \ {n} : S[m] = tok[m]
      <3>1. /\ DOMAIN S = 1 .. Len(tok) /\ S[n] = [tok[n] EXCEPT !.revoked = TRUE]
            /\ \A m \in Issued \ {n} : S[m] = tok[m]
        BY <1>2 DEF Issued
      <3>2. S[n] \in TokenRow /\ S[n].fam = tok[n].fam /\ S[n].revoked
        <4>1. tok[n] \in TokenRow
          BY <1>1
        <4>2. [tok[n] EXCEPT !.revoked = TRUE] \in TokenRow
          BY <4>1 DEF TokenRow
        <4>3. [tok[n] EXCEPT !.revoked = TRUE].fam = tok[n].fam
          BY <4>1 DEF TokenRow
        <4>4. [tok[n] EXCEPT !.revoked = TRUE].revoked
          BY <4>1 DEF TokenRow
        <4>. QED
          BY <3>1, <4>2, <4>3, <4>4
      <3>3. \A m \in 1 .. Len(tok) : S[m] \in TokenRow
        BY <1>1, <1>2, <3>1, <3>2
      <3>4. S \in [1 .. Len(tok) -> TokenRow]
        BY <3>1, <3>3
      <3>5. S \in Seq(TokenRow) /\ Len(S) = Len(tok)
        BY <1>2, <3>4
      <3>. QED
        BY <3>1, <3>2, <3>5
    <2>3. Token(tok[n].fam, n) \in TokenRow /\ Token(tok[n].fam, n).fam = tok[n].fam
      BY <1>1, <1>2 DEF Token, TokenRow
    <2>. HIDE DEF S
    <2>4. /\ tok' \in Seq(TokenRow) /\ Issued' = Issued \cup {Len(tok) + 1}
          /\ \A m \in Issued : tok'[m] = S[m]
          /\ tok'[Len(tok) + 1] = Token(tok[n].fam, n)
      BY <1>6, <2>1, <2>2, <2>3 DEF S
    <2>5. \A m \in Issued : tok[m].fam = tok[n].fam => tok'[m].revoked
      BY <2>1, <2>2, <2>4 DEF OneLiveToken
    <2>6. tok[n].fam \in Families /\ tok[n].fam \notin over
      BY <1>1, <2>1 DEF TokenRow, OverIsOver
    <2>. QED
      BY <1>5, <2>1, <2>2, <2>3, <2>4, <2>5, <2>6
  <1>8. ASSUME LogsIn PROVE Fine /\ Len(tok) + 1 \in Issued'
    <2>1. PICK f \in Families : Family(f) = {} /\ over' = over /\ tok' = Append(tok, Token(f, None))
      BY <1>8 DEF LogsIn
    <2>2. Token(f, None) \in TokenRow /\ Token(f, None).fam = f
      BY DEF Token, TokenRow, None
    <2>3. /\ tok' \in Seq(TokenRow) /\ Issued' = Issued \cup {Len(tok) + 1}
          /\ \A m \in Issued : tok'[m] = tok[m]
          /\ tok'[Len(tok) + 1] = Token(f, None)
      BY <1>6, <2>1, <2>2
    <2>4. f \notin over /\ \A m \in Issued : tok[m].fam # f
      BY <2>1 DEF Family, OverWasThere
    <2>. QED
      BY <1>5, <2>1, <2>2, <2>3, <2>4
  <1>. QED
    BY <1>3, <1>4, <1>7, <1>8

-----------------------------------------------------------------------------
(* Types *)

LEMMA RowsGrow ==
    ASSUME Issued \subseteq Issued'
    PROVE  /\ Numbers \subseteq Numbers' /\ CallRow \subseteq CallRow'
           /\ TabRow \subseteq TabRow' /\ StoreRow \subseteq StoreRow'
  BY DEF Numbers, CallRow, TabRow, StoreRow

\* What a tab may make of its record.
LEMMA RecordsOf ==
    ASSUME NEW r \in TabRow
    PROVE  /\ Landed(r) \in TabRow /\ Landed(r).phase = "none"
           /\ SignedOut(r) \in TabRow /\ SignedOut(r).phase = r.phase
           /\ EndGeneration(r) \in TabRow /\ EndGeneration(r).phase = r.phase
           /\ Closed \in TabRow /\ Closed.phase = "none"
  <1>. USE DEF TabRow, Numbers, None
  <1>1. Landed(r) \in TabRow /\ Landed(r).phase = "none"
    BY DEF Landed
  <1>2. SignedOut(r) \in TabRow /\ SignedOut(r).phase = r.phase
    BY DEF SignedOut
  <1>3. EndGeneration(r) \in TabRow /\ EndGeneration(r).phase = r.phase
    <2>1. CASE r.phase = "none"
      <3>1. EndGeneration(r) = [r EXCEPT !.ended = FALSE]
        BY <2>1 DEF EndGeneration
      <3>. QED
        BY <3>1
    <2>2. CASE r.phase # "none"
      <3>1. EndGeneration(r) = [r EXCEPT !.ended = TRUE]
        BY <2>2 DEF EndGeneration
      <3>. QED
        BY <3>1
    <2>. QED
      BY <2>1, <2>2
  <1>4. Closed \in TabRow /\ Closed.phase = "none"
    BY DEF Closed
  <1>. QED
    BY <1>1, <1>2, <1>3, <1>4

LEMMA PutStep ==
    ASSUME SessionsTypeOK, Issued \subseteq Issued', NEW t \in Tabs, NEW rec \in TabRow',
           tab' = [tab EXCEPT ![t] = rec],
           rec.phase = "asked" => tab[t].phase = "asked" \/ Exclusive(t)
    PROVE  /\ tab' \in [Tabs -> TabRow']
           /\ \A s \in Tabs : \A u \in Tabs \ {s} : ~(tab'[s].phase = "asked" /\ tab'[u].phase = "asked")
  BY RowsGrow DEF SessionsTypeOK, Exclusive

\* The rest of the types, once the tokens and the tabs have theirs.
SideOK ==
    cache \subseteq Issued /\ calls \subseteq CallRow /\ store \in StoreRow

LEMMA SideStep ==
    ASSUME SessionsTypeOK, Issued \subseteq Issued',
           cache' \subseteq cache \cup Issued', calls' \subseteq calls \cup CallRow',
           store' \in StoreRow'
    PROVE  SideOK'
  BY RowsGrow DEF SessionsTypeOK, SideOK

TabsOK ==
    /\ tab \in [Tabs -> TabRow]
    /\ \A t \in Tabs : \A u \in Tabs \ {t} : ~(tab[t].phase = "asked" /\ tab[u].phase = "asked")

LEMMA TabsRest ==
    ASSUME SessionsTypeOK, Issued \subseteq Issued', tab' = tab
    PROVE  TabsOK'
  BY RowsGrow DEF SessionsTypeOK, TabsOK

LEMMA CallIs ==
    ASSUME NEW kind \in {"refresh", "logout"}, NEW t \in Tabs, NEW n \in Issued, NEW try \in {1, 2}
    PROVE  Call(kind, t, n, try) \in CallRow
  BY DEF Call, CallRow, Numbers

\* The requests at the server.
LEMMA ServingStep ==
    ASSUME SessionsInv, Serving
    PROVE  /\ Kept \/ Burns \/ Rotates
           /\ SideOK' /\ TabsOK'
  <1>0. /\ SessionsTypeOK /\ tok \in Seq(TokenRow) /\ calls \subseteq CallRow
        /\ cache \subseteq Issued /\ over \subseteq Families
        /\ OneLiveToken /\ OverIsOver /\ OverWasThere
        /\ store \in StoreRow
    BY DEF SessionsInv, SessionsTypeOK
  <1>. PICK c \in calls : Read(c) \/ Rotate(c) \/ Repeat(c) \/ Burn(c) \/ ServeLogout(c)
    BY DEF Serving
  <1>1. c \in CallRow /\ c.tok \in Issued
    BY <1>0 DEF CallRow
  <1>2. UNCHANGED <<store, tab>>
    BY DEF Read, Rotate, Repeat, Burn, ServeLogout
  <1>3. ASSUME NEW n, Answer(c, n), n \in Issued' \cup {None, Refusal}, Issued \subseteq Issued'
        PROVE  calls' \subseteq calls \cup CallRow'
    <2>1. [c EXCEPT !.answer = n] \in CallRow'
      BY <1>1, <1>3 DEF CallRow, Numbers
    <2>. QED
      BY <1>3, <2>1 DEF Answer
  <1>4. ASSUME Issued \subseteq Issued', cache' \subseteq cache \cup Issued',
               calls' \subseteq calls \cup CallRow'
        PROVE  SideOK' /\ TabsOK'
    BY <1>0, <1>2, <1>4, SideStep, TabsRest, RowsGrow
  <1>5. CASE Read(c)
    <2>1. Kept /\ UNCHANGED <<tok, cache>>
      BY <1>5 DEF Read, serverSide, Kept
    <2>2. [c EXCEPT !.seen = IF tok[c.tok].revoked THEN "revoked" ELSE "live"] \in CallRow
      BY <1>1 DEF CallRow
    <2>3. Issued' = Issued /\ CallRow' = CallRow
      BY <2>1 DEF Issued, CallRow, Numbers
    <2>4. calls' \subseteq calls \cup CallRow'
      BY <1>5, <2>2, <2>3 DEF Read
    <2>. QED
      BY <1>4, <2>1, <2>3, <2>4
  <1>6. CASE Rotate(c)
    <2>1. Rotates
      BY <1>1, <1>6 DEF Rotate, Rotates, IsRevoked
    <2>2. Issued \subseteq Issued' /\ Len(tok) + 1 \in Issued'
      BY <1>0, <2>1, TokensStep
    <2>3. calls' \subseteq calls \cup CallRow'
      BY <1>3, <1>6, <2>2 DEF Rotate
    <2>. QED
      BY <1>4, <1>6, <2>1, <2>2, <2>3 DEF Rotate
  <1>7. CASE Repeat(c)
    <2>1. Kept /\ UNCHANGED <<tok, cache>>
      BY <1>7 DEF Repeat, serverSide, Kept
    <2>2. Issued' = Issued
      BY <2>1 DEF Issued
    <2>3. PICK s \in Again(c.tok) : Answer(c, s)
      BY <1>7 DEF Repeat
    <2>4. s \in Issued'
      BY <1>0, <2>2, <2>3 DEF Again
    <2>. QED
      BY <1>3, <1>4, <2>1, <2>2, <2>3, <2>4
  <1>8. ASSUME tok' = Burnt(c.tok), over' = over \cup {tok[c.tok].fam}, cache' = cache,
               calls' \subseteq calls \/ Answer(c, Refusal)
        PROVE  Burns /\ SideOK' /\ TabsOK'
    <2>1. Burns
      BY <1>1, <1>8 DEF Burns
    <2>2. Issued \subseteq Issued'
      BY <1>0, <2>1, TokensStep
    <2>. QED
      BY <1>3, <1>4, <1>8, <2>1, <2>2
  <1>9. CASE Burn(c)
    BY <1>8, <1>9 DEF Burn
  <1>10. CASE ServeLogout(c)
    BY <1>8, <1>10 DEF ServeLogout
  <1>. QED
    BY <1>5, <1>6, <1>7, <1>8, <1>9, <1>10

\* A tab changes its own record, and perhaps the storage; the tokens rest.
LEMMA TabStep ==
    ASSUME SessionsTypeOK, UNCHANGED tok, NEW t \in Tabs, NEW rec \in TabRow, Put(t, rec),
           rec.phase = "asked" => tab[t].phase = "asked" \/ Exclusive(t),
           cache' \subseteq cache, calls' \subseteq calls \cup CallRow,
           store' \in StoreRow
    PROVE  SideOK' /\ TabsOK'
  <1>1. Issued' = Issued
    BY DEF Issued
  <1>2. Numbers' = Numbers /\ CallRow' = CallRow /\ TabRow' = TabRow /\ StoreRow' = StoreRow
    BY <1>1 DEF Numbers, CallRow, TabRow, StoreRow
  <1>3. SideOK'
    BY <1>1, <1>2, SideStep
  <1>4. TabsOK'
    BY <1>1, <1>2, PutStep DEF Put, TabsOK
  <1>. QED
    BY <1>3, <1>4

LEMMA GoneStep ==
    ASSUME SessionsTypeOK, UNCHANGED <<tok, cache, calls>>, NEW t \in Tabs, LoginGone(t)
    PROVE  SideOK' /\ TabsOK'
  <1>1. tab[t] \in TabRow /\ store \in StoreRow
    BY DEF SessionsTypeOK
  <1>2. CASE store.owner # NoUser
    <2>1. /\ Put(t, EndGeneration(SignedOut(tab[t])))
          /\ store' = [store EXCEPT !.access = None, !.refresh = None]
      BY <1>2 DEF LoginGone
    <2>2. /\ EndGeneration(SignedOut(tab[t])) \in TabRow
          /\ EndGeneration(SignedOut(tab[t])).phase = tab[t].phase
      BY <1>1, RecordsOf
    <2>3. store' \in StoreRow
      BY <1>1, <2>1 DEF StoreRow, Numbers, None
    <2>. QED
      BY <2>1, <2>2, <2>3, TabStep
  <1>3. CASE store.owner = NoUser
    <2>1. Put(t, SignedOut(tab[t])) /\ store' = EmptyStore
      BY <1>3 DEF LoginGone
    <2>2. SignedOut(tab[t]) \in TabRow /\ SignedOut(tab[t]).phase = tab[t].phase
      BY <1>1, RecordsOf
    <2>3. store' \in StoreRow
      BY <2>1 DEF EmptyStore, StoreRow, Numbers, None
    <2>. QED
      BY <2>1, <2>2, <2>3, TabStep
  <1>. QED
    BY <1>2, <1>3

\* Storing and showing tokens.
LEMMA TokensPut ==
    ASSUME SessionsTypeOK, NEW r \in TabRow, NEW a \in Numbers, NEW n \in Numbers,
           NEW on \in {"closed", "out", "boot", "in"}
    PROVE  /\ [r EXCEPT !.on = on, !.access = a, !.refresh = n] \in TabRow
           /\ [r EXCEPT !.access = a, !.refresh = n] \in TabRow
           /\ [r EXCEPT !.on = on] \in TabRow
           /\ [store EXCEPT !.access = a, !.refresh = n] \in StoreRow
           /\ [store EXCEPT !.refresh = n] \in StoreRow
           /\ EmptyStore \in StoreRow
  <1>1. [r EXCEPT !.on = on, !.access = a, !.refresh = n] \in TabRow
    BY DEF TabRow
  <1>2. [r EXCEPT !.access = a, !.refresh = n] \in TabRow
    BY DEF TabRow
  <1>3. [r EXCEPT !.on = on] \in TabRow
    BY DEF TabRow
  <1>4. [store EXCEPT !.access = a, !.refresh = n] \in StoreRow
    BY DEF SessionsTypeOK, StoreRow
  <1>5. [store EXCEPT !.refresh = n] \in StoreRow
    BY DEF SessionsTypeOK, StoreRow
  <1>6. EmptyStore \in StoreRow
    BY DEF StoreRow, EmptyStore, Numbers, None
  <1>. QED
    BY <1>1, <1>2, <1>3, <1>4, <1>5, <1>6

LEMMA SubjectIs ==
    ASSUME SessionsTypeOK, NEW n \in Numbers
    PROVE  [store EXCEPT !.owner = Subject(n)] \in StoreRow
  <1>1. CASE n = None
    BY <1>1 DEF SessionsTypeOK, StoreRow, Subject
  <1>2. CASE n # None
    <2>1. n \in Issued /\ tok[n] \in TokenRow
      BY <1>2 DEF SessionsTypeOK, Numbers, Issued
    <2>2. Subject(n) \in {UserOf[f] : f \in Families}
      BY <1>2, <2>1 DEF Subject, TokenRow
    <2>. QED
      BY <2>2 DEF SessionsTypeOK, StoreRow
  <1>. QED
    BY <1>1, <1>2

\* A tab moves and the server's side rests.
LEMMA FollowingStep ==
    ASSUME SessionsTypeOK, NEW t \in Tabs, Boot(t) \/ StorageEvent(t) \/ Open(t)
    PROVE  Kept /\ SideOK' /\ TabsOK'
  <1>1. Kept /\ UNCHANGED <<tok, cache, calls>>
    BY DEF Boot, StorageEvent, Open, serverSide, Kept
  <1>2. /\ tab[t] \in TabRow /\ store \in StoreRow
        /\ store.access \in Numbers /\ store.refresh \in Numbers /\ tab[t].access \in Numbers
    BY DEF SessionsTypeOK, TabRow, StoreRow
  <1>3. ASSUME LoginGone(t) PROVE SideOK' /\ TabsOK'
    BY <1>1, <1>3, GoneStep
  <1>4. ASSUME NEW rec \in TabRow, rec.phase = tab[t].phase \/ rec.phase = "none",
               Put(t, rec), store' \in StoreRow
        PROVE  SideOK' /\ TabsOK'
    <2>1. rec.phase = "asked" => tab[t].phase = "asked" \/ Exclusive(t)
      BY <1>4
    <2>. QED
      BY <1>1, <1>4, <2>1, TabStep
  <1>5. CASE Boot(t)
    <2>1. ASSUME Put(t, [tab[t] EXCEPT !.access = store.access, !.refresh = store.refresh]),
                 UNCHANGED store
          PROVE  SideOK' /\ TabsOK'
      <3> DEFINE rec == [tab[t] EXCEPT !.access = store.access, !.refresh = store.refresh]
      <3>1. rec \in TabRow /\ rec.phase = tab[t].phase
        BY <1>2, TokensPut DEF TabRow
      <3>. QED
        BY <1>2, <1>4, <2>1, <3>1
    <2>2. ASSUME Put(t, [tab[t] EXCEPT !.on = "in"]),
                 store' = [store EXCEPT !.owner = Subject(tab[t].access)]
          PROVE  SideOK' /\ TabsOK'
      <3> DEFINE rec == [tab[t] EXCEPT !.on = "in"]
      <3>1. rec \in TabRow /\ rec.phase = tab[t].phase
        BY <1>2 DEF TabRow
      <3>2. store' \in StoreRow
        BY <1>2, <2>2, SubjectIs
      <3>. QED
        BY <1>4, <2>2, <3>1, <3>2
    <2>. QED
      BY <1>1, <1>3, <1>5, <2>1, <2>2 DEF Boot
  <1>6. CASE StorageEvent(t)
    <2>1. CASE store.access = None
      BY <1>1, <1>3, <1>6, <2>1 DEF StorageEvent, Reconcile
    <2>2. CASE store.access # None
      <3> DEFINE rec == [tab[t] EXCEPT !.on = "boot", !.access = store.access,
                                       !.refresh = store.refresh]
      <3>1. rec \in TabRow /\ rec.phase = tab[t].phase
        BY <1>2 DEF TabRow
      <3>2. Put(t, rec) /\ UNCHANGED store
        BY <1>6, <2>2 DEF StorageEvent, Reconcile
      <3>. QED
        BY <1>1, <1>2, <1>4, <3>1, <3>2
    <2>. QED
      BY <2>1, <2>2
  <1>7. CASE Open(t)
    <2> DEFINE rec == [Closed EXCEPT !.on = IF store.access = None THEN "out" ELSE "boot",
                                     !.access = store.access, !.refresh = store.refresh]
    <2>1. rec \in TabRow /\ rec.phase = "none"
      BY <1>2, RecordsOf DEF TabRow, Closed
    <2>2. Put(t, rec) /\ UNCHANGED store
      BY <1>7 DEF Open
    <2>. QED
      BY <1>1, <1>2, <1>4, <2>1, <2>2
  <1>. QED
    BY <1>5, <1>6, <1>7

\* A tab under the refresh lock.
LEMMA LockStep ==
    ASSUME SessionsTypeOK, NEW t \in Tabs, EnterLock(t)
    PROVE  Kept /\ SideOK' /\ TabsOK'
  <1>1. Kept /\ UNCHANGED <<tok, cache>> /\ Entered(t)
    BY DEF EnterLock, DoNotAsk, AskServer, Adopt, SessionEndedElsewhere, Entered, serverSide, Kept
  <1>2. /\ tab[t] \in TabRow /\ store \in StoreRow
        /\ store.access \in Numbers /\ store.refresh \in Numbers /\ tab[t].refresh \in Numbers
    BY DEF SessionsTypeOK, TabRow, StoreRow
  <1>3. Landed(tab[t]) \in TabRow /\ Landed(tab[t]).phase = "none"
    BY <1>2, RecordsOf
  <1>4. ASSUME NEW rec \in TabRow, Put(t, rec), store' \in StoreRow, calls' \subseteq calls \cup CallRow
        PROVE  SideOK' /\ TabsOK'
    <2>1. Exclusive(t)
      BY <1>1 DEF Entered
    <2>. QED
      BY <1>1, <1>4, <2>1, TabStep
  <1>5. CASE DoNotAsk(t)
    BY <1>1, <1>2, <1>3, <1>4, <1>5 DEF DoNotAsk
  <1>6. CASE AskServer(t)
    <2> DEFINE rec == [tab[t] EXCEPT !.phase = "asked", !.try = 1, !.asked = tab[t].refresh]
    <2>1. rec \in TabRow
      BY <1>2 DEF TabRow
    <2>2. tab[t].refresh \in Issued
      BY <1>2, <1>6 DEF AskServer, Numbers, NothingToDo, None
    <2>3. calls' \subseteq calls \cup CallRow
      BY <1>6, <2>2, CallIs DEF AskServer
    <2>. HIDE DEF rec
    <2>4. Put(t, rec) /\ UNCHANGED store
      BY <1>6 DEF AskServer, rec
    <2>. QED
      BY <1>1, <1>2, <1>4, <2>1, <2>3, <2>4
  <1>7. CASE Adopt(t)
    <2>1. [Landed(tab[t]) EXCEPT !.access = store.access, !.refresh = store.refresh] \in TabRow
      BY <1>2, <1>3, TokensPut
    <2>. QED
      BY <1>1, <1>2, <1>4, <1>7, <2>1 DEF Adopt
  <1>8. CASE SessionEndedElsewhere(t)
    <2> DEFINE on == IF store.access = None THEN "out" ELSE "boot"
    <2>1. [Landed(tab[t]) EXCEPT !.on = on, !.access = store.access, !.refresh = store.refresh] \in TabRow
      BY <1>2, <1>3, TokensPut
    <2>2. [store EXCEPT !.refresh = None] \in StoreRow /\ EmptyStore \in StoreRow
      <3>1. None \in Numbers
        BY DEF Numbers
      <3>. QED
        BY <1>2, <1>3, <3>1, TokensPut
    <2>3. store' \in StoreRow
      BY <1>2, <1>8, <2>2 DEF SessionEndedElsewhere
    <2>. QED
      BY <1>1, <1>2, <1>4, <1>8, <2>1, <2>3 DEF SessionEndedElsewhere
  <1>. QED
    BY <1>5, <1>6, <1>7, <1>8 DEF EnterLock

\* The end of a refresh, a logout, a tab closed.
LEMMA EndingStep ==
    ASSUME SessionsTypeOK, NEW t \in Tabs,
           \/ Close(t) \/ Logout(t) \/ StartRefresh(t)
           \/ GiveUpAnswer(t) \/ TakeAnswer(t) \/ TakeRefusal(t)
    PROVE  Kept /\ SideOK' /\ TabsOK'
  <1>1. Kept /\ UNCHANGED <<tok, cache>>
    BY DEF Close, Logout, StartRefresh, GiveUpAnswer, TakeAnswer, TakeRefusal, serverSide, Kept
  <1>2. /\ tab[t] \in TabRow /\ store \in StoreRow /\ None \in Numbers
        /\ tab[t].refresh \in Numbers
    BY DEF SessionsTypeOK, TabRow, StoreRow, Numbers
  <1>3. /\ Landed(tab[t]) \in TabRow /\ Landed(tab[t]).phase = "none"
        /\ SignedOut(tab[t]) \in TabRow
        /\ EndGeneration(SignedOut(tab[t])) \in TabRow
        /\ EndGeneration(SignedOut(tab[t])).phase = tab[t].phase
        /\ Landed(SignedOut(tab[t])) \in TabRow /\ Landed(SignedOut(tab[t])).phase = "none"
        /\ Closed \in TabRow /\ Closed.phase = "none"
    BY <1>2, RecordsOf
  <1>4. ASSUME NEW rec \in TabRow, rec.phase = "asked" => tab[t].phase = "asked",
               Put(t, rec), store' \in StoreRow, calls' \subseteq calls \cup CallRow
        PROVE  SideOK' /\ TabsOK'
    BY <1>1, <1>4, TabStep
  <1>5. CASE Close(t)
    BY <1>1, <1>2, <1>3, <1>4, <1>5 DEF Close, Unheard
  <1>6. CASE Logout(t)
    <2>1. Call("logout", t, tab[t].refresh, 1) \in CallRow
      BY <1>2, <1>6, CallIs DEF Logout, Numbers
    <2>2. store' \in StoreRow
      BY <1>2, <1>6, TokensPut DEF Logout
    <2>3. calls' \subseteq calls \cup CallRow
      BY <1>6, <2>1 DEF Logout
    <2>. QED
      BY <1>1, <1>3, <1>4, <1>6, <2>2, <2>3 DEF Logout
  <1>7. CASE StartRefresh(t)
    <2> DEFINE rec == [tab[t] EXCEPT !.phase = "queued", !.ended = FALSE]
    <2>1. rec \in TabRow /\ rec.phase = "queued"
      BY <1>2 DEF TabRow
    <2>2. Put(t, rec) /\ UNCHANGED <<store, calls>>
      BY <1>7 DEF StartRefresh
    <2>. HIDE DEF rec
    <2>. QED
      BY <1>1, <1>2, <1>4, <2>1, <2>2
  <1>8. CASE GiveUpAnswer(t)
    <2>1. ASSUME Put(t, [tab[t] EXCEPT !.try = 2, !.asked = tab[t].refresh]), tab[t].phase = "asked",
                 tab[t].refresh # None, UNCHANGED store,
                 calls' = Unheard(t) \cup {Call("refresh", t, tab[t].refresh, 2)}
          PROVE  SideOK' /\ TabsOK'
      <3> DEFINE rec == [tab[t] EXCEPT !.try = 2, !.asked = tab[t].refresh]
      <3>1. rec \in TabRow
        BY <1>2 DEF TabRow
      <3>2. calls' \subseteq calls \cup CallRow
        <4>1. Call("refresh", t, tab[t].refresh, 2) \in CallRow
          BY <1>2, <2>1, CallIs DEF Numbers
        <4>. QED
          BY <2>1, <4>1 DEF Unheard
      <3>3. Put(t, rec)
        BY <2>1
      <3>. HIDE DEF rec
      <3>. QED
        BY <1>2, <1>4, <2>1, <3>1, <3>2, <3>3
    <2>2. ASSUME Put(t, Landed(tab[t])), UNCHANGED store, calls' = Unheard(t)
          PROVE  SideOK' /\ TabsOK'
      BY <1>2, <1>3, <1>4, <2>2 DEF Unheard
    <2>. QED
      BY <1>1, <1>8, <2>1, <2>2 DEF GiveUpAnswer
  <1>9. CASE TakeAnswer(t)
    <2>1. PICK c \in calls :
             /\ c.answer \in Issued /\ calls' = Unheard(t)
             /\ \/ Put(t, Landed(tab[t])) /\ UNCHANGED store
                \/ /\ Put(t, [Landed(tab[t]) EXCEPT !.access = c.answer, !.refresh = c.answer])
                   /\ store' = [store EXCEPT !.access = c.answer, !.refresh = c.answer]
      BY <1>9 DEF TakeAnswer
    <2> DEFINE rec == [Landed(tab[t]) EXCEPT !.access = c.answer, !.refresh = c.answer]
    <2>2. rec \in TabRow /\ rec.phase = "none"
      BY <1>3, <2>1 DEF TabRow, Numbers
    <2>3. [store EXCEPT !.access = c.answer, !.refresh = c.answer] \in StoreRow
      BY <1>2, <2>1 DEF StoreRow, Numbers
    <2>. HIDE DEF rec
    <2>4. Put(t, Landed(tab[t])) \/ Put(t, rec)
      BY <2>1 DEF rec
    <2>5. store' \in StoreRow /\ calls' \subseteq calls \cup CallRow
      BY <1>2, <2>1, <2>3 DEF Unheard
    <2>. QED
      BY <1>1, <1>3, <1>4, <2>2, <2>4, <2>5
  <1>10. CASE TakeRefusal(t)
    <2>1. /\ calls' \subseteq calls
          /\ \/ Put(t, Landed(tab[t])) /\ UNCHANGED store
             \/ /\ Put(t, Landed(SignedOut(tab[t])))
                /\ store' = [store EXCEPT !.access = None, !.refresh = None]
      BY <1>10 DEF TakeRefusal, Unheard
    <2>2. [store EXCEPT !.access = None, !.refresh = None] \in StoreRow
      BY <1>2 DEF StoreRow
    <2>. QED
      BY <1>1, <1>2, <1>3, <1>4, <2>1, <2>2
  <1>. QED
    BY <1>5, <1>6, <1>7, <1>8, <1>9, <1>10

\* A login adds a token of a family that had none.
LEMMA LoginStep ==
    ASSUME SessionsInv, NEW t \in Tabs, NEW f \in Families, Login(t, f)
    PROVE  LogsIn /\ SideOK' /\ TabsOK'
  <1>1. LogsIn
    BY DEF Login, LogsIn
  <1>2. SessionsTypeOK /\ tab[t] \in TabRow /\ store \in StoreRow
    BY DEF SessionsInv, SessionsTypeOK
  <1>3. Issued \subseteq Issued' /\ Len(tok) + 1 \in Issued'
    BY <1>1, TokensStep DEF SessionsInv, SessionsTypeOK
  <1>. DEFINE rec == [tab[t] EXCEPT !.on = "boot", !.access = Len(tok) + 1, !.refresh = Len(tok) + 1]
  <1>4. tab[t] \in TabRow' /\ store \in StoreRow'
    BY <1>2, <1>3, RowsGrow
  <1>5. rec \in TabRow' /\ rec.phase = tab[t].phase
    BY <1>3, <1>4 DEF TabRow, Numbers
  <1>6. [store EXCEPT !.access = Len(tok) + 1, !.refresh = Len(tok) + 1] \in StoreRow'
    BY <1>3, <1>4 DEF StoreRow, Numbers
  <1>7. tab' = [tab EXCEPT ![t] = rec]
    BY DEF Login, Put
  <1>. HIDE DEF rec
  <1>8. store' \in StoreRow' /\ cache' = cache /\ calls' = calls
    BY <1>6 DEF Login
  <1>9. TabsOK'
    BY <1>2, <1>3, <1>5, <1>7, PutStep DEF TabsOK
  <1>10. SideOK'
    BY <1>2, <1>3, <1>8, SideStep
  <1>. QED
    BY <1>1, <1>9, <1>10

\* The window of a rotation ends, the server restarts, nothing happens.
LEMMA RestStep ==
    ASSUME SessionsTypeOK, (\E s \in cache : GraceEnds(s)) \/ Restart \/ UNCHANGED sessionVars
    PROVE  Kept /\ SideOK' /\ TabsOK'
  <1>1. Kept /\ cache' \subseteq cache /\ UNCHANGED <<tok, calls, store, tab>>
    BY DEF GraceEnds, Restart, sessionVars, serverSide, Kept
  <1>2. Issued' = Issued
    BY <1>1 DEF Issued
  <1>3. Numbers' = Numbers /\ CallRow' = CallRow /\ TabRow' = TabRow /\ StoreRow' = StoreRow
    BY <1>2 DEF Numbers, CallRow, TabRow, StoreRow
  <1>. QED
    BY <1>1, <1>2, <1>3, TabsRest DEF SideOK, SessionsTypeOK

-----------------------------------------------------------------------------
(* The invariant *)

LEMMA SessionsStart == SessionsInit => SessionsInv
  <1>. SUFFICES ASSUME SessionsInit PROVE SessionsInv
    OBVIOUS
  <1>1. tok = <<>> /\ tok \in Seq(TokenRow) /\ Issued = {}
    BY DEF SessionsInit, Issued
  <1>2. Closed \in TabRow /\ Closed.phase = "none"
    BY DEF Closed, TabRow, Numbers, None
  <1>3. EmptyStore \in StoreRow
    BY DEF EmptyStore, StoreRow, Numbers, None
  <1>4. SessionsTypeOK
    BY <1>1, <1>2, <1>3 DEF SessionsInit, SessionsTypeOK
  <1>. QED
    BY <1>1, <1>4 DEF SessionsInit, SessionsInv, OneLiveToken, OverIsOver, OverWasThere

LEMMA SessionsStep == SessionsInv /\ [SessionsNext]_sessionVars => SessionsInv'
  <1>. SUFFICES ASSUME SessionsInv, [SessionsNext]_sessionVars PROVE SessionsInv'
    OBVIOUS
  <1>1. SessionsTypeOK
    BY DEF SessionsInv
  <1>2. ASSUME Kept \/ Burns \/ Rotates \/ LogsIn, SideOK', TabsOK'
        PROVE  SessionsInv'
    <2>1. /\ tok' \in Seq(TokenRow) /\ over' \subseteq Families
          /\ OneLiveToken' /\ OverIsOver' /\ OverWasThere'
      BY <1>2, TokensStep DEF SessionsInv, SessionsTypeOK
    <2>2. TokenRow' = TokenRow
      BY DEF TokenRow
    <2>3. SessionsTypeOK'
      BY <1>2, <2>1, <2>2 DEF SessionsTypeOK, SideOK, TabsOK
    <2>. QED
      BY <2>1, <2>3 DEF SessionsInv
  <1>3. CASE Serving
    BY <1>2, <1>3, ServingStep
  <1>4. CASE (\E s \in cache : GraceEnds(s)) \/ Restart \/ UNCHANGED sessionVars
    BY <1>1, <1>2, <1>4, RestStep
  <1>5. ASSUME NEW t \in Tabs, Following(t) \/ Open(t) \/ Close(t) \/ Logout(t)
                               \/ StartRefresh(t) \/ GiveUpAnswer(t)
        PROVE  SessionsInv'
    <2>1. CASE Boot(t) \/ StorageEvent(t) \/ Open(t)
      BY <1>1, <1>2, <2>1, FollowingStep
    <2>2. CASE EnterLock(t)
      BY <1>1, <1>2, <2>2, LockStep
    <2>3. CASE \/ Close(t) \/ Logout(t) \/ StartRefresh(t)
               \/ GiveUpAnswer(t) \/ TakeAnswer(t) \/ TakeRefusal(t)
      BY <1>1, <1>2, <2>3, EndingStep
    <2>. QED
      BY <1>5, <2>1, <2>2, <2>3 DEF Following
  <1>6. ASSUME NEW t \in Tabs, NEW f \in Families, Login(t, f)
        PROVE  SessionsInv'
    BY <1>2, <1>6, LoginStep
  <1>. QED
    BY <1>3, <1>4, <1>5, <1>6 DEF SessionsNext

LEMMA SessionsAlways == SessionsSpec => []SessionsInv
  BY SessionsStart, SessionsStep, PTL DEF SessionsSpec

\* Requests and tabs stay what the code makes of them, and at most one tab of a
\* browser asks for new tokens at a time (exclusive, index.ts).
THEOREM SessionsTypeCorrect == SessionsSpec => []SessionsTypeOK
  BY SessionsAlways, PTL DEF SessionsInv

\* However many requests present one refresh token at once, and whatever is
\* lost, repeated or late: a session never has two live tokens (rotate_refresh_
\* token judges the row again under the family's lock, auth.py).
THEOREM NoSecondToken == SessionsSpec => []OneLiveToken
  BY SessionsAlways, PTL DEF SessionsInv

\* A session that was logged out of at the server, or burned by a replay, has
\* no live token and never gets one, whatever rotation was under way.
THEOREM NoWayBack == SessionsSpec => []OverIsOver
  BY SessionsAlways, PTL DEF SessionsInv

-----------------------------------------------------------------------------
(* An honest browser stays signed in *)

\* Families nobody is owed anything about.
Dirty == over \cup excused \cup left
Clean(n) == tok[n].fam \notin Dirty

\* Live, and nobody is about to spend it.
Quiet(n) == ~tok[n].revoked /\ \A c \in calls : ~Unserved(c, n)

\* Who presents it gets an answer.
Tended(n) == ~tok[n].revoked \/ Again(n) # {}

\* Somebody in the browser or on the way to the server has it.
Known(n) ==
    \/ store.refresh = n
    \/ \E t \in Tabs : tab[t].refresh = n
    \/ \E c \in calls : c.kind = "refresh" /\ c.tok = n

Root(n) == tok[n].from = None

\* A token that came of a rotation came of an earlier one of its family.
Lineage ==
    /\ Len(tok) <= MaxTokens
    /\ \A s \in Issued : ~Root(s) =>
         /\ tok[s].from \in Issued /\ tok[s].from < s
         /\ tok[tok[s].from].fam = tok[s].fam /\ tok[tok[s].from].revoked

\* A refresh whose generation has ended is a signed-out tab's; a closed tab has none.
TabIs(r) ==
    /\ r.ended => r.refresh = None /\ r.on = "out" /\ r.phase # "none"
    /\ r.on = "closed" => r.phase = "none"
Quits == \A t \in Tabs : TabIs(tab[t])

\* The tab that asks is served, its successor is nobody's yet, and what another
\* login put into the storage meanwhile is untouched.
Attended(n) == Tended(n) /\ Strays(n) = {} /\ \A s \in Issued : tok[s].from = n => ~Known(s)
Fresh(n) == Root(n) /\ (Clean(n) => Quiet(n))
AskerOK(t) ==
    /\ tab[t].asked \in Issued
    /\ tab[t].refresh = tab[t].asked \/ store.refresh # tab[t].asked
    /\ store.refresh \in {None, tab[t].asked} \/ Root(store.refresh)
    /\ tab[t].refresh \in {None, tab[t].asked} \/ Fresh(tab[t].refresh)
    /\ Clean(tab[t].asked) => Attended(tab[t].asked)
AskersOK == \A t \in Tabs : tab[t].phase = "asked" => AskerOK(t)

\* So is every request on its way, and no request is on its way with a token
\* and with the successor of that token.
CallOK(c) ==
    /\ c.kind = "refresh" /\ c.answer = None /\ Clean(c.tok) => Tended(c.tok) /\ Strays(c.tok) = {}
    /\ c.answer # None => Awaits(c.tab, c)
    /\ c.answer \in Issued => tok[c.answer].from = c.tok /\ (Clean(c.answer) => ~tok[c.answer].revoked)
CallsOK == \A c \in calls : CallOK(c)

\* The stored token is live, unless a tab is about to replace it.
StoreOK ==
    store.refresh # None /\ Clean(store.refresh) =>
        Quiet(store.refresh) \/ \E t \in Tabs : Waiting(t, store.refresh)

HonestInv == Lineage /\ Quits /\ AskersOK /\ CallsOK /\ StoreOK /\ HonestStaysIn

\* What the types say of the pieces.
LEMMA Typed ==
    ASSUME SessionsTypeOK
    PROVE  /\ Issued = 1 .. Len(tok) /\ Len(tok) \in Nat /\ None \notin Issued
           /\ \A n \in Issued : tok[n] \in TokenRow
           /\ store.refresh \in Numbers
           /\ \A t \in Tabs : tab[t] \in TabRow /\ tab[t].refresh \in Numbers /\ tab[t].asked \in Numbers
           /\ \A c \in calls : c \in CallRow /\ c.tab \in Tabs /\ c.tok \in Issued
                                /\ c.answer \in Numbers \cup {Refusal}
           /\ \A t, u \in Tabs : tab[t].phase = "asked" /\ tab[u].phase = "asked" => t = u
  <1>1. Issued = 1 .. Len(tok) /\ Len(tok) \in Nat
    BY IssuedAre DEF SessionsTypeOK
  <1>2. \A n \in Issued : tok[n] \in TokenRow
    BY DEF SessionsTypeOK, Issued
  <1>3. store.refresh \in Numbers
    BY DEF SessionsTypeOK, StoreRow
  <1>4. \A t \in Tabs : tab[t] \in TabRow /\ tab[t].refresh \in Numbers /\ tab[t].asked \in Numbers
    BY DEF SessionsTypeOK, TabRow
  <1>5. \A c \in calls : c \in CallRow /\ c.tab \in Tabs /\ c.tok \in Issued
                          /\ c.answer \in Numbers \cup {Refusal}
    BY DEF SessionsTypeOK, CallRow
  <1>6. \A t, u \in Tabs : tab[t].phase = "asked" /\ tab[u].phase = "asked" => t = u
    BY DEF SessionsTypeOK
  <1>. QED
    BY <1>1, <1>2, <1>3, <1>4, <1>5, <1>6 DEF None

\* A successor is in its predecessor's family.
LEMMA Succession ==
    ASSUME SessionsTypeOK, Lineage, NEW s \in Issued, NEW n \in Issued, tok[s].from = n
    PROVE  tok[s].fam = tok[n].fam /\ tok[n].revoked /\ n < s
  BY Typed DEF Lineage, Root

\* A live token has no successor, so it can be asked with.
LEMMA QuietIs ==
    ASSUME SessionsTypeOK, Lineage, NEW n \in Issued, ~tok[n].revoked
    PROVE  Tended(n) /\ \A s \in Issued : tok[s].from # n
  BY Succession DEF Tended

\* Strays on a root: none.
LEMMA RootIs ==
    ASSUME SessionsTypeOK, NEW n \in Issued, Root(n)
    PROVE  Strays(n) = {}
  BY Typed DEF Strays, Unserved, Root

-----------------------------------------------------------------------------
(* A tab moves, the tokens rest *)

Resting == UNCHANGED <<tok, cache, over, burned>> /\ excused \subseteq excused' /\ left \subseteq left'

LEMMA Rests ==
    ASSUME Resting
    PROVE  /\ Issued' = Issued /\ (Lineage => Lineage') /\ (HonestStaysIn => HonestStaysIn')
           /\ \A n : Clean(n)' => Clean(n)
           /\ \A n : Tended(n)' = Tended(n) /\ Root(n)' = Root(n)
  BY DEF Resting, Issued, Lineage, HonestStaysIn, Clean, Dirty, Tended, Again, Root

\* Requests that were there before, and logouts.
NoNewAsk == \A c \in calls' : c \in calls \/ (c.kind = "logout" /\ c.answer = None)

LEMMA Fewer ==
    ASSUME SessionsTypeOK, Resting, NoNewAsk
    PROVE  /\ \A n : Strays(n)' \subseteq Strays(n)
           /\ \A n : Quiet(n) => Quiet(n)'
           /\ \A n : Fresh(n) => Fresh(n)'
  <1>1. /\ \A n : Clean(n)' => Clean(n)
        /\ \A n : Tended(n)' = Tended(n) /\ Root(n)' = Root(n)
    BY Rests
  <1>2. tok' = tok
    BY DEF Resting
  <1>3. \A n : Strays(n)' \subseteq Strays(n)
    BY <1>2 DEF NoNewAsk, Strays, Unserved
  <1>4. \A n : Quiet(n) => Quiet(n)'
    BY <1>2 DEF NoNewAsk, Quiet, Unserved
  <1>. QED
    BY <1>1, <1>3, <1>4 DEF Fresh

\* A tab drops its tokens or takes those of the storage, asks no more or goes on
\* asking, and the storage stays or is emptied.
Moves(t, rec) ==
    /\ Put(t, rec) /\ Resting /\ NoNewAsk
    /\ rec.refresh \in {None, tab[t].refresh, store.refresh}
    /\ store'.refresh \in {None, store.refresh}
    /\ TabIs(rec)
    /\ rec.phase = "asked" =>
         /\ tab[t].phase = "asked" /\ rec.asked = tab[t].asked /\ rec.try = tab[t].try
         /\ rec.refresh = tab[t].refresh \/ store'.refresh = None \/ rec.refresh = store'.refresh
    /\ tab[t].phase = "asked" /\ rec.phase # "asked" =>
         /\ calls' \subseteq Unheard(t)
         /\ \A n : n = tab[t].asked /\ Clean(n)' => store'.refresh # n

LEMMA MoveKeeps ==
    ASSUME SessionsTypeOK, HonestInv, NEW t \in Tabs, NEW rec, Moves(t, rec)
    PROVE  HonestInv'
  <1>0. PICK r : r = store'.refresh
    OBVIOUS
  <1>1. /\ Lineage /\ Quits /\ AskersOK /\ CallsOK /\ StoreOK /\ HonestStaysIn /\ Resting /\ NoNewAsk
        /\ tok' = tok /\ cache' = cache
    BY DEF HonestInv, Moves, Resting
  <1>2. tab'[t] = rec /\ \A u \in Tabs \ {t} : tab'[u] = tab[u]
    BY DEF Moves, Put, SessionsTypeOK
  <1>3. /\ Issued' = Issued /\ Lineage' /\ HonestStaysIn'
        /\ \A n : Clean(n)' => Clean(n)
        /\ \A n : Tended(n)' = Tended(n) /\ Root(n)' = Root(n)
        /\ \A n : Strays(n)' \subseteq Strays(n)
        /\ \A n : Quiet(n) => Quiet(n)'
        /\ \A n : Fresh(n) => Fresh(n)'
    BY <1>1, Rests, Fewer
  <1>4. r \in {None, store.refresh} /\ None \notin Issued
    BY <1>0, Typed DEF Moves
  <1>5. \A n \in Issued : Known(n)' => Known(n)
    <2>1. ASSUME NEW n \in Issued, Known(n)' PROVE Known(n)
      <3>1. CASE r = n
        BY <1>4, <3>1 DEF Known
      <3>2. ASSUME NEW u \in Tabs, tab'[u].refresh = n PROVE Known(n)
        BY <1>2, <1>4, <3>2 DEF Moves, Known
      <3>3. ASSUME NEW c \in calls', c.kind = "refresh", c.tok = n PROVE Known(n)
        BY <1>1, <3>3 DEF NoNewAsk, Known
      <3>. QED
        BY <1>0, <2>1, <3>1, <3>2, <3>3 DEF Known
    <2>. QED
      BY <2>1
  <1>6. \A n : Attended(n) => Attended(n)'
    BY <1>1, <1>3, <1>5 DEF Attended
  <1>7. Quits'
    BY <1>1, <1>2 DEF Quits, Moves
  <1>8. ASSUME NEW u \in Tabs, tab'[u].phase = "asked" PROVE AskerOK(u)'
    <2>1. tab[u].phase = "asked" /\ AskerOK(u) /\ tab'[u].asked = tab[u].asked
      BY <1>1, <1>2, <1>8 DEF Moves, AskersOK
    <2>0. PICK n, x : n = tab[u].asked /\ x = tab'[u].refresh
      OBVIOUS
    <2>2. /\ n \in Issued
          /\ tab[u].refresh = n \/ store.refresh # n
          /\ store.refresh \in {None, n} \/ Root(store.refresh)
          /\ tab[u].refresh \in {None, n} \/ Fresh(tab[u].refresh)
          /\ Clean(n) => Attended(n)
      BY <2>0, <2>1 DEF AskerOK
    <2>3. r \in {None, n} \/ Root(r)
      BY <1>4, <2>2
    <2>4. x = n \/ r # n
      <3>1. CASE u # t
        BY <1>2, <1>4, <2>0, <2>2, <3>1
      <3>2. CASE u = t
        BY <1>0, <1>2, <1>4, <1>8, <2>0, <2>2, <3>2 DEF Moves
      <3>. QED
        BY <3>1, <3>2
    <2>5. x \in {None, n} \/ Fresh(x)
      <3>1. CASE x = store.refresh /\ x \notin {None, n}
        <4>1. Root(x)
          BY <2>2, <3>1
        <4>2. Clean(x) => Quiet(x) \/ \E v \in Tabs : Waiting(v, x)
          BY <1>1, <3>1 DEF StoreOK
        <4>3. \A v \in Tabs : ~Waiting(v, x)
          BY <2>0, <2>1, <3>1, Typed DEF Waiting
        <4>. QED
          BY <4>1, <4>2, <4>3 DEF Fresh
      <3>2. CASE x = tab[u].refresh
        BY <2>0, <2>2, <3>2
      <3>3. x \in {None, tab[u].refresh, store.refresh}
        BY <1>2, <2>0 DEF Moves
      <3>. QED
        BY <3>1, <3>2, <3>3
    <2>6. x \in {None, n} \/ Fresh(x)'
      BY <1>3, <2>5
    <2>7. Clean(n)' => Attended(n)'
      BY <1>3, <1>6, <2>2
    <2>8. r \in {None, n} \/ Root(r)'
      BY <1>3, <2>3
    <2>. QED
      BY <1>0, <1>3, <2>0, <2>1, <2>2, <2>4, <2>6, <2>7, <2>8 DEF AskerOK
  <1>9. ASSUME NEW c \in calls' PROVE CallOK(c)'
    <2>1. CASE c.kind = "logout" /\ c.answer = None
      BY <1>3, <1>4, <2>1 DEF CallOK
    <2>2. CASE c \in calls
      <3>1. CallOK(c) /\ c.tab \in Tabs
        BY <1>1, <2>2, Typed DEF CallsOK
      <3>2. c.answer # None => Awaits(c.tab, c)'
        <4>1. CASE c.tab # t
          BY <1>2, <3>1, <4>1 DEF CallOK, Awaits
        <4>2. CASE c.tab = t /\ rec.phase = "asked"
          BY <1>2, <3>1, <4>2 DEF CallOK, Awaits, Moves
        <4>3. CASE c.tab = t /\ rec.phase # "asked"
          <5>. SUFFICES ASSUME c.answer # None PROVE FALSE
            OBVIOUS
          <5>1. Awaits(t, c)
            BY <3>1, <4>3 DEF CallOK
          <5>2. c \in Unheard(t)
            BY <1>9, <4>3, <5>1 DEF Moves, Awaits
          <5>. QED
            BY <5>1, <5>2 DEF Unheard
        <4>. QED
          BY <4>1, <4>2, <4>3
      <3>. QED
        BY <1>1, <1>3, <3>1, <3>2 DEF CallOK
    <2>. QED
      BY <1>1, <2>1, <2>2 DEF NoNewAsk
  <1>10. StoreOK'
    <2>. SUFFICES ASSUME r # None, Clean(r)' PROVE Quiet(r)' \/ \E u \in Tabs : Waiting(u, r)'
      BY <1>0 DEF StoreOK
    <2>1. r = store.refresh /\ Clean(r)
      BY <1>3, <1>4
    <2>2. Quiet(r) \/ \E u \in Tabs : Waiting(u, r)
      BY <1>1, <2>1 DEF StoreOK
    <2>3. ASSUME NEW u \in Tabs, Waiting(u, r) PROVE Waiting(u, r)'
      <3>1. CASE u # t
        BY <1>2, <2>3, <3>1 DEF Waiting
      <3>2. CASE u = t
        BY <1>0, <1>2, <2>3, <3>2 DEF Waiting, Moves
      <3>. QED
        BY <3>1, <3>2
    <2>. QED
      BY <1>3, <2>2, <2>3
  <1>. QED
    BY <1>3, <1>7, <1>8, <1>9, <1>10 DEF HonestInv, AskersOK, CallsOK

\* A tab asks with its token: first, or for the second time.
Asks(t, m, k) ==
    /\ Resting /\ UNCHANGED store /\ Exclusive(t) /\ m # None /\ tab[t].refresh = m
    /\ tab[t].phase # "none"
    /\ tab' = [tab EXCEPT ![t] = [tab[t] EXCEPT !.phase = "asked", !.try = k, !.asked = m]]
    /\ calls' = Unheard(t) \cup {Call("refresh", t, m, k)}
    /\ store.refresh \in {None, m} \/ Root(store.refresh)
    /\ tab[t].phase = "asked" /\ tab[t].asked # m => store.refresh # tab[t].asked
    /\ Clean(m)' => Attended(m)

LEMMA AskKeeps ==
    ASSUME SessionsTypeOK, HonestInv, NEW t \in Tabs, NEW m, NEW k \in {1, 2}, Asks(t, m, k)
    PROVE  HonestInv'
  <1>1. /\ Lineage /\ Quits /\ AskersOK /\ CallsOK /\ StoreOK /\ HonestStaysIn /\ Resting
        /\ tok' = tok /\ cache' = cache /\ store' = store /\ m # None /\ tab[t].refresh = m
        /\ Exclusive(t) /\ (Clean(m)' => Attended(m))
    BY DEF HonestInv, Asks, Resting
  <1>2. m \in Issued /\ None \notin Issued
    BY <1>1, Typed DEF Numbers
  <1>3. /\ tab'[t].phase = "asked" /\ tab'[t].asked = m /\ tab'[t].try = k
        /\ tab'[t].refresh = m /\ tab'[t].ended = tab[t].ended /\ tab'[t].on = tab[t].on
        /\ \A u \in Tabs \ {t} : tab'[u] = tab[u]
    <2>1. tab[t] \in TabRow /\ tab' = [tab EXCEPT ![t] = [tab[t] EXCEPT !.phase = "asked", !.try = k, !.asked = m]]
      BY Typed DEF Asks
    <2>2. tab \in [Tabs -> TabRow]
      BY DEF SessionsTypeOK
    <2>. QED
      BY <1>1, <2>1, <2>2 DEF TabRow
  <1>4. /\ Issued' = Issued /\ Lineage' /\ HonestStaysIn'
        /\ \A n : Clean(n)' => Clean(n)
        /\ \A n : Tended(n)' = Tended(n) /\ Root(n)' = Root(n)
    BY <1>1, Rests
  <1>5. PICK new : calls' = Unheard(t) \cup {new} /\ new.kind = "refresh" /\ new.tok = m /\ new.answer = None
    <2>1. calls' = Unheard(t) \cup {Call("refresh", t, m, k)}
      BY DEF Asks
    <2>2. /\ Call("refresh", t, m, k).kind = "refresh" /\ Call("refresh", t, m, k).tok = m
          /\ Call("refresh", t, m, k).answer = None
      BY DEF Call
    <2>. QED
      BY <2>1, <2>2
  <1>6. Unheard(t) \subseteq calls
    BY DEF Unheard
  <1>7. \A n \in Issued : Known(n)' => Known(n)
    <2>1. ASSUME NEW n \in Issued, Known(n)' PROVE Known(n)
      <3>1. CASE store.refresh = n
        BY <3>1 DEF Known
      <3>2. ASSUME NEW u \in Tabs, tab'[u].refresh = n PROVE Known(n)
        BY <1>1, <1>3, <3>2 DEF Known
      <3>3. ASSUME NEW c \in calls', c.kind = "refresh", c.tok = n PROVE Known(n)
        BY <1>1, <1>5, <1>6, <3>3 DEF Known
      <3>. QED
        BY <1>1, <2>1, <3>1, <3>2, <3>3 DEF Known
    <2>. QED
      BY <2>1
  <1>8. Clean(m)' => Attended(m)'
    <2>. SUFFICES ASSUME Clean(m)' PROVE Attended(m)'
      OBVIOUS
    <2>1. Attended(m) /\ Known(m)
      BY <1>1 DEF Known
    <2>2. tok[m].from # m
      BY <1>2, <2>1 DEF Attended
    <2>3. Strays(m)' = {}
      BY <1>1, <1>5, <1>6, <2>1, <2>2 DEF Attended, Strays, Unserved
    <2>. QED
      BY <1>1, <1>4, <1>7, <2>1, <2>3 DEF Attended
  <1>9. Quits'
    BY <1>1, <1>3 DEF Quits, TabIs, Asks
  <1>10. ASSUME NEW u \in Tabs, tab'[u].phase = "asked" PROVE AskerOK(u)'
    <2>1. u = t
      BY <1>1, <1>3, <1>10 DEF Exclusive
    <2>2. store.refresh \in {None, m} \/ Root(store.refresh)'
      BY <1>4 DEF Asks
    <2>. QED
      BY <1>1, <1>2, <1>3, <1>4, <1>8, <2>1, <2>2 DEF AskerOK
  <1>11. ASSUME NEW c \in calls' PROVE CallOK(c)'
    <2>1. CASE c = new
      BY <1>2, <1>4, <1>5, <1>8, <2>1 DEF CallOK, Attended
    <2>2. CASE c \in Unheard(t)
      <3>1. c \in calls /\ CallOK(c) /\ c.tok \in Issued /\ c.tab \in Tabs
        BY <1>1, <1>6, <2>2, Typed DEF CallsOK
      <3>2. c.answer # None => Awaits(c.tab, c)'
        <4>1. CASE c.tab # t
          BY <1>3, <3>1, <4>1 DEF CallOK, Awaits
        <4>2. CASE c.tab = t
          BY <2>2, <3>1, <4>2 DEF CallOK, Unheard
        <4>. QED
          BY <4>1, <4>2
      <3>3. ASSUME c.kind = "refresh", c.answer = None, Clean(c.tok)'
            PROVE  Tended(c.tok)' /\ Strays(c.tok)' = {}
        <4>1. Clean(c.tok) /\ Tended(c.tok) /\ Strays(c.tok) = {}
          BY <1>4, <3>1, <3>3 DEF CallOK
        <4>2. tok[c.tok].from # m
          <5>. SUFFICES ASSUME tok[c.tok].from = m PROVE FALSE
            OBVIOUS
          <5>1. tok[c.tok].fam = tok[m].fam
            BY <1>1, <1>2, <3>1, Succession
          <5>2. Clean(m)'
            BY <1>1, <3>3, <5>1 DEF Clean
          <5>3. Known(c.tok)
            BY <3>1, <3>3 DEF Known
          <5>. QED
            BY <1>1, <3>1, <5>2, <5>3 DEF Attended
        <4>3. Strays(c.tok)' = {}
          BY <1>1, <1>5, <1>6, <4>1, <4>2 DEF Strays, Unserved
        <4>. QED
          BY <1>4, <4>1, <4>3
      <3>. QED
        BY <1>1, <1>4, <3>1, <3>2, <3>3 DEF CallOK
    <2>. QED
      BY <1>5, <2>1, <2>2
  <1>12. StoreOK'
    <2>0. PICK r : r = store.refresh
      OBVIOUS
    <2>. SUFFICES ASSUME r # None, Clean(r)' PROVE Quiet(r)' \/ \E u \in Tabs : Waiting(u, r)'
      BY <1>1, <2>0 DEF StoreOK
    <2>1. CASE r = m
      BY <1>3, <2>1 DEF Waiting
    <2>2. CASE r # m
      <3>1. Quiet(r) \/ \E u \in Tabs : Waiting(u, r)
        BY <1>1, <1>4, <2>0 DEF StoreOK
      <3>2. \A u \in Tabs : ~Waiting(u, r)
        BY <1>1, <2>0, <2>2 DEF Waiting, Exclusive, Asks
      <3>3. Quiet(r)'
        BY <1>1, <1>5, <1>6, <2>2, <3>1, <3>2 DEF Quiet, Unserved
      <3>. QED
        BY <3>3
    <2>. QED
      BY <2>1, <2>2
  <1>. QED
    BY <1>4, <1>9, <1>10, <1>11, <1>12 DEF HonestInv, AskersOK, CallsOK

\* What a tab's record becomes.
LEMMA Fields ==
    ASSUME NEW r \in TabRow
    PROVE  /\ Landed(r).refresh = r.refresh /\ Landed(r).phase = "none" /\ ~Landed(r).ended
           /\ SignedOut(r).refresh = None /\ SignedOut(r).on = "out" /\ SignedOut(r).phase = r.phase
           /\ SignedOut(r).asked = r.asked /\ SignedOut(r).try = r.try /\ SignedOut(r).ended = r.ended
           /\ EndGeneration(r).refresh = r.refresh /\ EndGeneration(r).on = r.on
           /\ EndGeneration(r).phase = r.phase /\ EndGeneration(r).asked = r.asked
           /\ EndGeneration(r).try = r.try /\ EndGeneration(r).ended = (r.phase # "none")
           /\ Closed.refresh = None /\ Closed.phase = "none" /\ ~Closed.ended
  BY DEF TabRow, Landed, SignedOut, EndGeneration, Closed

LEMMA AnswerKeeps ==
    ASSUME SessionsTypeOK, HonestInv, NEW t \in Tabs, NEW c \in calls, ~tab[t].ended,
           Awaits(t, c), c.answer \in Issued, calls' = Unheard(t),
           Put(t, [Landed(tab[t]) EXCEPT !.access = c.answer, !.refresh = c.answer]),
           store' = [store EXCEPT !.access = c.answer, !.refresh = c.answer],
           UNCHANGED <<serverSide, history>>
    PROVE  HonestInv'
  <1>1. /\ Lineage /\ Quits /\ AskersOK /\ CallsOK /\ StoreOK /\ HonestStaysIn /\ Resting
        /\ tok' = tok
    BY DEF HonestInv, Resting, serverSide, history
  <1>2. PICK s, n : s = c.answer /\ n = tab[t].asked
    OBVIOUS
  <1>3. /\ n \in Issued /\ s \in Issued /\ tab[t].phase = "asked" /\ c.tab = t /\ c.tok = n
        /\ c.kind = "refresh" /\ None \notin Issued
        /\ tok[s].from = n /\ (Clean(s) => ~tok[s].revoked)
        /\ (Clean(n) => Attended(n))
    BY <1>1, <1>2, Typed DEF Awaits, AskersOK, AskerOK, CallsOK, CallOK
  <1>4. /\ tab'[t].phase = "none" /\ ~tab'[t].ended /\ \A u \in Tabs \ {t} : tab'[u] = tab[u]
        /\ store'.refresh = s
    <2>1. tab[t] \in TabRow /\ tab \in [Tabs -> TabRow] /\ store \in StoreRow
      BY DEF SessionsTypeOK
    <2>2. Landed(tab[t]) \in TabRow /\ Landed(tab[t]).phase = "none" /\ ~Landed(tab[t]).ended
      BY <2>1, RecordsOf, Fields
    <2>3. /\ [Landed(tab[t]) EXCEPT !.access = c.answer, !.refresh = c.answer].phase = "none"
          /\ ~[Landed(tab[t]) EXCEPT !.access = c.answer, !.refresh = c.answer].ended
      BY <2>2 DEF TabRow
    <2>. QED
      BY <1>2, <2>1, <2>3 DEF Put, StoreRow
  <1>5. /\ Issued' = Issued /\ Lineage' /\ HonestStaysIn'
        /\ \A x : Clean(x)' => Clean(x)
        /\ \A x : Tended(x)' = Tended(x)
    BY <1>1, Rests
  <1>6. \A u \in Tabs : tab'[u].phase # "asked"
    BY <1>3, <1>4, Typed
  <1>7. ASSUME NEW d \in calls' PROVE CallOK(d)'
    <2>1. d \in calls /\ d \in Unheard(t) /\ CallOK(d) /\ d.tab \in Tabs
      BY <1>1, <1>7, Typed DEF Unheard, CallsOK
    <2>2. d.answer = None
      BY <1>3, <2>1, Typed DEF CallOK, Unheard, Awaits
    <2>3. \A x : Strays(x)' \subseteq Strays(x)
      BY <1>1 DEF Strays, Unserved, Unheard
    <2>. QED
      BY <1>3, <1>5, <2>1, <2>2, <2>3 DEF CallOK
  <1>8. Quits'
    BY <1>1, <1>4 DEF Quits, TabIs
  <1>9. Clean(s)' => Quiet(s)'
    <2>. SUFFICES ASSUME Clean(s)' PROVE Quiet(s)'
      OBVIOUS
    <2>1. Clean(s) /\ Clean(n)
      BY <1>1, <1>3, <1>5, Succession DEF Clean
    <2>2. ~Known(s)
      BY <1>3, <2>1 DEF Attended
    <2>3. \A d \in calls' : ~Unserved(d, s)
      BY <2>2 DEF Known, Unserved, Unheard
    <2>. QED
      BY <1>1, <1>3, <2>1, <2>3 DEF Quiet
  <1>10. StoreOK'
    BY <1>4, <1>9 DEF StoreOK
  <1>. QED
    BY <1>5, <1>6, <1>7, <1>8, <1>10 DEF HonestInv, AskersOK, CallsOK

\* Under the refresh lock.
LEMMA EnterKeeps ==
    ASSUME SessionsTypeOK, HonestInv, NEW t \in Tabs, EnterLock(t)
    PROVE  HonestInv'
  <1>1. /\ Lineage /\ Quits /\ AskersOK /\ CallsOK /\ StoreOK
        /\ tab[t] \in TabRow /\ store \in StoreRow
        /\ tab[t].ended => tab[t].refresh = None /\ tab[t].on = "out"
        /\ tab[t].phase = "queued" /\ Exclusive(t)
    BY DEF HonestInv, SessionsTypeOK, Quits, TabIs, EnterLock, DoNotAsk, AskServer, Adopt,
           SessionEndedElsewhere, Entered
  <1>2. /\ Landed(tab[t]).refresh = tab[t].refresh /\ Landed(tab[t]).phase = "none" /\ ~Landed(tab[t]).ended
        /\ Landed(tab[t]) \in TabRow
    BY <1>1, Fields, RecordsOf
  <1>3. ASSUME NEW rec, Put(t, rec), UNCHANGED <<serverSide, calls, history>>,
               rec.refresh \in {tab[t].refresh, store.refresh}, rec.phase = "none", ~rec.ended,
               store'.refresh \in {None, store.refresh}
        PROVE  HonestInv'
    <2>1. Resting /\ NoNewAsk
      BY <1>3 DEF Resting, NoNewAsk, serverSide, history
    <2>2. Moves(t, rec)
      BY <1>1, <1>3, <2>1 DEF Moves, TabIs
    <2>. QED
      BY <2>2, MoveKeeps
  <1>4. CASE DoNotAsk(t)
    BY <1>2, <1>3, <1>4 DEF DoNotAsk
  <1>5. CASE Adopt(t)
    <2>1. PICK rec : rec = [Landed(tab[t]) EXCEPT !.access = store.access, !.refresh = store.refresh]
      OBVIOUS
    <2>2. rec.refresh = store.refresh /\ rec.phase = "none" /\ ~rec.ended
      BY <1>2, <2>1 DEF TabRow
    <2>. QED
      BY <1>3, <1>5, <2>1, <2>2 DEF Adopt
  <1>6. CASE SessionEndedElsewhere(t)
    <2>1. PICK rec : rec = [Landed(tab[t]) EXCEPT !.on = IF store.access = None THEN "out" ELSE "boot",
                                                  !.access = store.access, !.refresh = store.refresh]
      OBVIOUS
    <2>2. rec.refresh = store.refresh /\ rec.phase = "none" /\ ~rec.ended
      BY <1>2, <2>1 DEF TabRow
    <2>3. store'.refresh \in {None, store.refresh}
      BY <1>1, <1>6 DEF SessionEndedElsewhere, StoreRow, EmptyStore
    <2>. QED
      BY <1>3, <1>6, <2>1, <2>2, <2>3 DEF SessionEndedElsewhere
  <1>7. CASE AskServer(t)
    <2>0. PICK m : m = tab[t].refresh
      OBVIOUS
    <2>1. /\ m # None /\ store.refresh = m /\ m \in Issued /\ None \notin Issued
      BY <1>1, <1>7, <2>0, Typed DEF AskServer, Mine, Numbers
    <2>2. /\ Resting /\ store' = store /\ tok' = tok /\ calls' = calls \cup {Call("refresh", t, m, 1)}
          /\ tab' = [tab EXCEPT ![t] = [tab[t] EXCEPT !.phase = "asked", !.try = 1, !.asked = m]]
          /\ excused' = excused \cup {tok[c.tok].fam : c \in Strays(m)}
      BY <1>7, <2>0 DEF AskServer, Put, serverSide, Resting
    <2>3. Unheard(t) = calls
      BY <1>1 DEF Unheard, Awaits
    <2>4. ASSUME Clean(m)' PROVE Attended(m)
      <3>1. Clean(m)
        BY <2>2, <2>4, Rests
      <3>2. Quiet(m)
        BY <1>1, <2>1, <3>1 DEF StoreOK, Waiting, Exclusive
      <3>3. ASSUME NEW c \in Strays(m) PROVE FALSE
        <4>1. c \in calls /\ c.tok = tok[m].from /\ c.tok \in Issued
          BY <3>3, Typed DEF Strays, Unserved
        <4>2. tok[c.tok].fam = tok[m].fam
          BY <1>1, <2>1, <4>1, Succession
        <4>3. tok[m].fam \in excused'
          BY <2>2, <3>3, <4>2
        <4>. QED
          BY <2>2, <2>4, <4>3 DEF Clean, Dirty
      <3>. QED
        BY <1>1, <2>1, <3>2, <3>3, QuietIs DEF Attended, Quiet
    <2>5. Asks(t, m, 1)
      BY <1>1, <2>0, <2>1, <2>2, <2>3, <2>4 DEF Asks
    <2>. QED
      BY <2>5, AskKeeps
  <1>. QED
    BY <1>4, <1>5, <1>6, <1>7 DEF EnterLock

\* A refresh given up, asked again, answered or refused.
LEMMA EndKeeps ==
    ASSUME SessionsTypeOK, HonestInv, NEW t \in Tabs,
           GiveUpAnswer(t) \/ TakeAnswer(t) \/ TakeRefusal(t)
    PROVE  HonestInv'
  <1>0. PICK n : n = tab[t].asked
    OBVIOUS
  <1>1. /\ Lineage /\ Quits /\ AskersOK /\ CallsOK /\ StoreOK
        /\ tab[t] \in TabRow /\ store \in StoreRow
        /\ tab[t].ended => tab[t].refresh = None
        /\ tab[t].phase = "asked"
    BY DEF HonestInv, SessionsTypeOK, Quits, TabIs, GiveUpAnswer, TakeAnswer, TakeRefusal, Awaits
  <1>2. /\ Landed(tab[t]).refresh = tab[t].refresh /\ Landed(tab[t]).phase = "none" /\ ~Landed(tab[t]).ended
        /\ SignedOut(tab[t]) \in TabRow /\ SignedOut(tab[t]).refresh = None
    BY <1>1, Fields, RecordsOf
  <1>3. Landed(SignedOut(tab[t])).refresh = None /\ Landed(SignedOut(tab[t])).phase = "none"
        /\ ~Landed(SignedOut(tab[t])).ended
    BY <1>2, Fields
  <1>4. /\ n \in Issued /\ None \notin Issued
        /\ tab[t].refresh = n \/ store.refresh # n
        /\ store.refresh \in {None, n} \/ Root(store.refresh)
        /\ tab[t].refresh \in {None, n} \/ Fresh(tab[t].refresh)
        /\ Clean(n) => Attended(n)
    BY <1>0, <1>1, Typed DEF AskersOK, AskerOK
  <1>5. ASSUME NEW rec, Put(t, rec), Resting, calls' = Unheard(t),
               rec.refresh \in {None, tab[t].refresh}, rec.phase = "none", ~rec.ended,
               store'.refresh \in {None, store.refresh},
               Clean(n)' => store'.refresh # n
        PROVE  HonestInv'
    <2>1. NoNewAsk
      BY <1>5 DEF NoNewAsk, Unheard
    <2>2. Moves(t, rec)
      BY <1>0, <1>1, <1>5, <2>1 DEF Moves, TabIs
    <2>. QED
      BY <2>2, MoveKeeps
  <1>6. CASE TakeAnswer(t)
    <2>1. PICK c \in calls :
            /\ Awaits(t, c) /\ c.answer \in Issued
            /\ IF tab[t].ended
               THEN Put(t, Landed(tab[t])) /\ UNCHANGED store
               ELSE /\ Put(t, [Landed(tab[t]) EXCEPT !.access = c.answer, !.refresh = c.answer])
                    /\ store' = [store EXCEPT !.access = c.answer, !.refresh = c.answer]
      BY <1>6 DEF TakeAnswer
    <2>2. calls' = Unheard(t) /\ UNCHANGED <<serverSide, history>>
      BY <1>6 DEF TakeAnswer
    <2>3. Resting
      BY <2>2 DEF Resting, serverSide, history
    <2>4. CASE tab[t].ended
      BY <1>1, <1>2, <1>4, <1>5, <2>1, <2>2, <2>3, <2>4
    <2>5. CASE ~tab[t].ended
      BY <2>1, <2>2, <2>5, AnswerKeeps
    <2>. QED
      BY <2>4, <2>5
  <1>7. CASE TakeRefusal(t)
    <2>1. Resting /\ calls' = Unheard(t)
      BY <1>7 DEF TakeRefusal, Resting, serverSide, history
    <2>2. CASE tab[t].ended
      BY <1>1, <1>2, <1>4, <1>5, <1>7, <2>1, <2>2 DEF TakeRefusal
    <2>3. CASE ~tab[t].ended
      <3>1. Put(t, Landed(SignedOut(tab[t]))) /\ store'.refresh = None
        BY <1>1, <1>7, <2>3 DEF TakeRefusal, StoreRow
      <3>. QED
        BY <1>3, <1>4, <1>5, <2>1, <3>1
    <2>. QED
      BY <2>2, <2>3
  <1>8. CASE GiveUpAnswer(t)
    <2>0. PICK m : m = tab[t].refresh
      OBVIOUS
    <2>1. CASE tab[t].try = 1 /\ ~tab[t].ended /\ m # None
      <3>1. /\ Put(t, [tab[t] EXCEPT !.try = 2, !.asked = m]) /\ Resting /\ store' = store
            /\ calls' = Unheard(t) \cup {Call("refresh", t, m, 2)}
        BY <1>8, <2>0, <2>1 DEF GiveUpAnswer, Resting, serverSide
      <3>2. tab' = [tab EXCEPT ![t] = [tab[t] EXCEPT !.phase = "asked", !.try = 2, !.asked = m]]
        <4>1. [tab[t] EXCEPT !.try = 2, !.asked = m]
                = [tab[t] EXCEPT !.phase = "asked", !.try = 2, !.asked = m]
          BY <1>1 DEF TabRow
        <4>. QED
          BY <3>1, <4>1 DEF Put
      <3>3. m \in Issued
        BY <2>0, <2>1, Typed DEF Numbers
      <3>4. ASSUME Clean(m)' PROVE Attended(m)
        <4>1. Clean(m)
          BY <3>1, <3>4, Rests
        <4>2. CASE m = n
          BY <1>4, <4>1, <4>2
        <4>3. CASE m # n
          <5>1. Root(m) /\ Quiet(m)
            BY <1>4, <2>0, <2>1, <4>1, <4>3 DEF Fresh
          <5>. QED
            BY <1>1, <3>3, <5>1, QuietIs, RootIs DEF Attended, Quiet
        <4>. QED
          BY <4>2, <4>3
      <3>5. Exclusive(t)
        BY <1>1, Typed DEF Exclusive
      <3>6. Asks(t, m, 2)
        BY <1>0, <1>1, <1>4, <2>0, <2>1, <3>1, <3>2, <3>4, <3>5 DEF Asks
      <3>. QED
        BY <3>6, AskKeeps
    <2>2. CASE ~(tab[t].try = 1 /\ ~tab[t].ended /\ m # None)
      <3>1. /\ Put(t, Landed(tab[t])) /\ store' = store /\ calls' = Unheard(t) /\ Resting
            /\ tok' = tok /\ tok[n].fam \in excused'
        BY <1>0, <1>8, <2>0, <2>2 DEF GiveUpAnswer, Resting, serverSide
      <3>2. ~Clean(n)'
        BY <3>1 DEF Clean, Dirty
      <3>. QED
        BY <1>2, <1>5, <3>1, <3>2
    <2>. QED
      BY <2>1, <2>2
  <1>. QED
    BY <1>6, <1>7, <1>8

\* The steps of a tab at rest tokens are moves, asks, or the answer kept.
LEMMA TabKeeps ==
    ASSUME SessionsTypeOK, HonestInv, NEW t \in Tabs,
           Following(t) \/ Open(t) \/ Close(t) \/ Logout(t) \/ StartRefresh(t) \/ GiveUpAnswer(t)
    PROVE  HonestInv'
  <1>1. /\ Lineage /\ Quits /\ AskersOK /\ CallsOK /\ StoreOK
        /\ tab[t] \in TabRow /\ store \in StoreRow
        /\ tab[t].ended => tab[t].refresh = None /\ tab[t].on = "out" /\ tab[t].phase # "none"
        /\ tab[t].on = "closed" => tab[t].phase = "none"
    BY DEF HonestInv, SessionsTypeOK, Quits, TabIs
  <1>2. /\ UNCHANGED <<tok, cache, over, calls>> /\ UNCHANGED history => Resting /\ NoNewAsk
        /\ UNCHANGED <<serverSide, history>> => Resting
    BY DEF history, serverSide, Resting, NoNewAsk
  <1>3. /\ Landed(tab[t]).refresh = tab[t].refresh /\ Landed(tab[t]).phase = "none" /\ ~Landed(tab[t]).ended
        /\ SignedOut(tab[t]).refresh = None /\ SignedOut(tab[t]).on = "out"
        /\ SignedOut(tab[t]).phase = tab[t].phase /\ SignedOut(tab[t]).asked = tab[t].asked
        /\ SignedOut(tab[t]).try = tab[t].try /\ SignedOut(tab[t]).ended = tab[t].ended
        /\ SignedOut(tab[t]) \in TabRow /\ Landed(tab[t]) \in TabRow
        /\ Closed.refresh = None /\ Closed.phase = "none" /\ ~Closed.ended
        /\ Closed \in TabRow
    BY <1>1, Fields, RecordsOf
  <1>4. PICK out : /\ out = EndGeneration(SignedOut(tab[t])) /\ out.refresh = None /\ out.on = "out"
                   /\ out.phase = tab[t].phase /\ out.asked = tab[t].asked /\ out.try = tab[t].try
                   /\ out.ended => out.phase # "none"
    <2>1. PICK s : s = SignedOut(tab[t])
      OBVIOUS
    <2>2. s \in TabRow /\ s.refresh = None /\ s.on = "out"
          /\ s.phase = tab[t].phase /\ s.asked = tab[t].asked /\ s.try = tab[t].try
      BY <1>3, <2>1
    <2>3. PICK out : out = EndGeneration(s)
      OBVIOUS
    <2>4. /\ out.refresh = s.refresh /\ out.on = s.on /\ out.phase = s.phase
          /\ out.asked = s.asked /\ out.try = s.try /\ out.ended = (s.phase # "none")
      BY <2>2, <2>3, Fields
    <2>. QED
      BY <2>1, <2>2, <2>3, <2>4
  \* A move, the storage and the requests resting.
  <1>5. ASSUME NEW rec, Put(t, rec), Resting, NoNewAsk, store' = store, tab[t].phase # "asked",
               rec.refresh \in {None, tab[t].refresh, store.refresh}, rec.phase = "none",
               ~rec.ended
        PROVE  HonestInv'
    BY <1>5, MoveKeeps DEF Moves, TabIs
  <1>6. ASSUME LoginGone(t), Resting, NoNewAsk PROVE HonestInv'
    <2>1. CASE store.owner # NoUser
      <3>1. Put(t, out) /\ store' = [store EXCEPT !.access = None, !.refresh = None]
        BY <1>4, <1>6, <2>1 DEF LoginGone
      <3>2. store'.refresh = None
        BY <1>1, <3>1 DEF StoreRow
      <3>3. Moves(t, out)
        BY <1>4, <1>6, <3>1, <3>2 DEF Moves, TabIs
      <3>. QED
        BY <3>3, MoveKeeps
    <2>2. CASE store.owner = NoUser
      <3>0. PICK rec : rec = SignedOut(tab[t])
        OBVIOUS
      <3>1. Put(t, rec) /\ store'.refresh = None
        BY <1>6, <2>2, <3>0 DEF LoginGone, EmptyStore
      <3>2. Moves(t, rec)
        <4>1. /\ rec.refresh = None /\ rec.on = "out" /\ rec.phase = tab[t].phase
              /\ rec.asked = tab[t].asked /\ rec.try = tab[t].try /\ rec.ended = tab[t].ended
          BY <1>3, <3>0
        <4>2. TabIs(rec)
          BY <1>1, <4>1 DEF TabIs
        <4>. QED
          BY <1>6, <3>1, <4>1, <4>2 DEF Moves
      <3>. QED
        BY <3>2, MoveKeeps
    <2>. QED
      BY <2>1, <2>2
  <1>7. CASE Boot(t)
    <2>1. Resting /\ NoNewAsk /\ tab[t].phase = "none" /\ tab[t].on = "boot"
      BY <1>2, <1>7 DEF Boot, serverSide
    <2>2. ASSUME Put(t, [tab[t] EXCEPT !.access = store.access, !.refresh = store.refresh]), UNCHANGED store
          PROVE  HonestInv'
      <3>1. PICK rec : rec = [tab[t] EXCEPT !.access = store.access, !.refresh = store.refresh]
        OBVIOUS
      <3>2. rec.refresh = store.refresh /\ rec.phase = "none" /\ ~rec.ended
        BY <1>1, <2>1, <3>1 DEF TabRow
      <3>. QED
        BY <1>5, <2>1, <2>2, <3>1, <3>2
    <2>3. ASSUME Put(t, [tab[t] EXCEPT !.on = "in"]),
                 store' = [store EXCEPT !.owner = Subject(tab[t].access)]
          PROVE  HonestInv'
      <3>1. PICK rec : rec = [tab[t] EXCEPT !.on = "in"]
        OBVIOUS
      <3>2. rec.refresh = tab[t].refresh /\ rec.phase = "none" /\ ~rec.ended
        BY <1>1, <2>1, <3>1 DEF TabRow
      <3>3. store'.refresh = store.refresh
        BY <1>1, <2>3 DEF StoreRow
      <3>4. Moves(t, rec)
        BY <2>1, <2>3, <3>1, <3>2, <3>3 DEF Moves, TabIs
      <3>. QED
        BY <3>4, MoveKeeps
    <2>. QED
      BY <1>6, <1>7, <2>1, <2>2, <2>3 DEF Boot
  <1>8. CASE StorageEvent(t)
    <2>1. Resting /\ NoNewAsk /\ tab[t].on = "in"
      BY <1>2, <1>8 DEF StorageEvent, serverSide
    <2>2. CASE store.access # None
      <3>1. PICK rec : rec = [tab[t] EXCEPT !.on = "boot", !.access = store.access, !.refresh = store.refresh]
        OBVIOUS
      <3>2. /\ rec.refresh = store.refresh /\ rec.phase = tab[t].phase /\ ~rec.ended
            /\ rec.asked = tab[t].asked /\ rec.try = tab[t].try /\ rec.on = "boot"
        BY <1>1, <2>1, <3>1 DEF TabRow
      <3>3. Put(t, rec) /\ UNCHANGED store
        BY <1>8, <2>2, <3>1 DEF StorageEvent, Reconcile
      <3>4. Moves(t, rec)
        BY <2>1, <3>2, <3>3 DEF Moves, TabIs
      <3>. QED
        BY <3>4, MoveKeeps
    <2>. QED
      BY <1>6, <1>8, <2>1, <2>2 DEF StorageEvent, Reconcile
  <1>9. CASE Open(t)
    <2>1. Resting /\ NoNewAsk
      BY <1>2, <1>9 DEF Open, serverSide
    <2>2. PICK rec : rec = [Closed EXCEPT !.on = IF store.access = None THEN "out" ELSE "boot",
                                          !.access = store.access, !.refresh = store.refresh]
      OBVIOUS
    <2>3. rec.refresh = store.refresh /\ rec.phase = "none" /\ ~rec.ended
      BY <2>2 DEF Closed
    <2>4. Put(t, rec) /\ store' = store /\ tab[t].phase # "asked"
      BY <1>1, <1>9, <2>2 DEF Open
    <2>. QED
      BY <1>5, <2>1, <2>3, <2>4
  <1>10. CASE Close(t)
    <2>1. /\ Resting /\ NoNewAsk /\ Put(t, Closed) /\ store' = store /\ calls' = Unheard(t)
          /\ tab[t].phase = "asked" => tok[tab[t].asked].fam \in Dirty'
      BY <1>10 DEF Close, serverSide, Resting, NoNewAsk, Unheard, Dirty
    <2>2. \A n : n = tab[t].asked /\ tab[t].phase = "asked" => ~Clean(n)'
      BY <2>1 DEF Clean, Resting
    <2>3. Moves(t, Closed)
      BY <1>3, <2>1, <2>2 DEF Moves, TabIs
    <2>. QED
      BY <2>3, MoveKeeps
  <1>11. CASE Logout(t)
    <2>1. /\ Resting /\ Put(t, out) /\ store'.refresh = None
          /\ calls' = calls \cup {Call("logout", t, tab[t].refresh, 1)}
      BY <1>4, <1>11 DEF Logout, serverSide, Resting, EmptyStore
    <2>2. /\ Call("logout", t, tab[t].refresh, 1).kind = "logout"
          /\ Call("logout", t, tab[t].refresh, 1).answer = None
      BY DEF Call
    <2>3. NoNewAsk
      BY <2>1, <2>2 DEF NoNewAsk
    <2>4. Moves(t, out)
      BY <1>4, <2>1, <2>3 DEF Moves, TabIs
    <2>. QED
      BY <2>4, MoveKeeps
  <1>12. CASE StartRefresh(t)
    <2>1. /\ Resting /\ NoNewAsk /\ store' = store /\ tab[t].phase = "none"
          /\ tab[t].on \in {"boot", "in"}
      BY <1>2, <1>12 DEF StartRefresh, serverSide
    <2>2. PICK rec : rec = [tab[t] EXCEPT !.phase = "queued", !.ended = FALSE]
      OBVIOUS
    <2>3. rec.refresh = tab[t].refresh /\ rec.phase = "queued" /\ ~rec.ended /\ rec.on = tab[t].on
      BY <1>1, <2>2 DEF TabRow
    <2>4. Put(t, rec)
      BY <1>12, <2>2 DEF StartRefresh
    <2>5. Moves(t, rec)
      BY <2>1, <2>3, <2>4 DEF Moves, TabIs
    <2>. QED
      BY <2>5, MoveKeeps
  <1>13. CASE EnterLock(t)
    BY <1>13, EnterKeeps
  <1>14. CASE GiveUpAnswer(t) \/ TakeAnswer(t) \/ TakeRefusal(t)
    BY <1>14, EndKeeps
  <1>. QED
    BY <1>7, <1>8, <1>9, <1>10, <1>11, <1>12, <1>13, <1>14 DEF Following

-----------------------------------------------------------------------------
(* The server moves, the tabs rest *)

\* Each request is one that was there, unanswered as it was or answered to a tab
\* that waits for it, with a live successor.
Served1(c, d) ==
    /\ c.kind = d.kind /\ c.tab = d.tab /\ c.tok = d.tok /\ c.try = d.try
    /\ \/ d.answer = c.answer
       \/ /\ c.answer = None /\ d.answer # None /\ Awaits(c.tab, c)
          /\ d.answer \in Issued' => tok'[d.answer].from = c.tok /\ ~tok'[d.answer].revoked
AllServed == \A d \in calls' : \E c \in calls : Served1(c, d)

\* No successor of a clean family leaves the cache while its predecessor is asked
\* with, and no token of a clean family is revoked.
Serves ==
    /\ UNCHANGED <<store, tab>> /\ AllServed
    /\ Issued' = Issued /\ Len(tok') = Len(tok) /\ Dirty \subseteq Dirty'
    /\ \A n \in Issued :
         /\ tok'[n].fam = tok[n].fam /\ tok'[n].from = tok[n].from
         /\ tok[n].revoked => tok'[n].revoked
         /\ Clean(n)' => tok'[n].revoked = tok[n].revoked
    /\ cache' \subseteq cache
    /\ \A s \in cache \ cache' : Clean(s)' =>
         (\A t \in Tabs : ~Waiting(t, tok[s].from)) /\ (\A c \in calls : ~Unserved(c, tok[s].from))

LEMMA ServesKeep ==
    ASSUME SessionsTypeOK, HonestInv, Serves, HonestStaysIn'
    PROVE  HonestInv'
  <1>1. /\ Lineage /\ Quits /\ AskersOK /\ CallsOK /\ StoreOK
        /\ Issued' = Issued /\ store' = store /\ tab' = tab /\ None \notin Issued
    BY Typed DEF HonestInv, Serves
  <1>2. \A n \in Issued : (Clean(n)' => Clean(n)) /\ Root(n)' = Root(n)
    BY DEF Serves, Clean, Dirty, Root
  <1>3. Lineage'
    <2>1. ASSUME NEW s \in Issued, ~Root(s)'
          PROVE  /\ tok'[s].from \in Issued /\ tok'[s].from < s
                 /\ tok'[tok'[s].from].fam = tok'[s].fam /\ tok'[tok'[s].from].revoked
      <3>1. /\ tok[s].from \in Issued /\ tok[s].from < s
            /\ tok[tok[s].from].fam = tok[s].fam /\ tok[tok[s].from].revoked
        BY <1>1, <1>2, <2>1 DEF Lineage
      <3>. QED
        BY <3>1 DEF Serves
    <2>2. Len(tok') <= MaxTokens
      BY <1>1 DEF Lineage, Serves
    <2>. QED
      BY <1>1, <2>1, <2>2 DEF Lineage
  <1>4. \A n : Known(n)' => Known(n)
    BY <1>1 DEF Known, Serves, AllServed, Served1
  <1>5. \A n \in Issued : \A d \in calls' : Unserved(d, n) =>
          \E c \in calls : Unserved(c, n) /\ c.tab = d.tab /\ c.try = d.try
    BY DEF Serves, AllServed, Served1, Unserved
  <1>6. \A n \in Issued : Strays(n) = {} => Strays(n)' = {}
    <2>. SUFFICES ASSUME NEW n \in Issued, NEW d \in Strays(n)' PROVE Strays(n) # {}
      OBVIOUS
    <2>1. d \in calls' /\ d.kind = "refresh" /\ d.tok = tok[n].from /\ d.answer = None
      BY DEF Strays, Unserved, Serves
    <2>2. PICK c \in calls : Served1(c, d)
      BY <2>1 DEF Serves, AllServed
    <2>3. c \in Strays(n)
      BY <2>1, <2>2 DEF Served1, Strays, Unserved
    <2>. QED
      BY <2>3
  <1>7. ASSUME NEW n \in Issued, Clean(n)', Tended(n),
               (\E t \in Tabs : Waiting(t, n)) \/ (\E c \in calls : Unserved(c, n))
        PROVE  Tended(n)'
    <2>1. CASE ~tok[n].revoked
      BY <1>7, <2>1 DEF Tended, Serves
    <2>2. CASE tok[n].revoked
      <3>1. PICK s \in cache : tok[s].from = n /\ ~tok[s].revoked
        BY <1>7, <2>2 DEF Tended, Again
      <3>2. s \in Issued /\ tok[s].fam = tok[n].fam
        BY <1>1, <3>1, Succession DEF SessionsTypeOK
      <3>3. Clean(s)'
        BY <1>7, <3>2 DEF Clean, Serves
      <3>4. s \in cache'
        BY <1>7, <3>1, <3>3 DEF Serves
      <3>5. tok'[s].from = n /\ ~tok'[s].revoked
        BY <3>1, <3>2, <3>3 DEF Serves
      <3>. QED
        BY <3>4, <3>5 DEF Tended, Again
    <2>. QED
      BY <2>1, <2>2
  <1>8. \A n \in Issued : Clean(n)' /\ Quiet(n) => Quiet(n)'
    BY <1>5 DEF Quiet, Serves
  <1>9. ASSUME NEW t \in Tabs, tab[t].phase = "asked" PROVE AskerOK(t)'
    <2>0. PICK n, x, r : n = tab[t].asked /\ x = tab[t].refresh /\ r = store.refresh
      OBVIOUS
    <2>1. /\ n \in Issued
          /\ x = n \/ r # n
          /\ r \in {None, n} \/ Root(r)
          /\ x \in {None, n} \/ Fresh(x)
          /\ Clean(n) => Attended(n)
          /\ r \in Issued \cup {None} /\ x \in Issued \cup {None}
      BY <1>1, <1>9, <2>0, Typed DEF AskersOK, AskerOK, Numbers
    <2>2. r \in {None, n} \/ Root(r)'
      BY <1>2, <2>1
    <2>3. x \in {None, n} \/ Fresh(x)'
      BY <1>2, <1>8, <2>1 DEF Fresh
    <2>4. ASSUME Clean(n)' PROVE Attended(n)'
      <3>1. Attended(n) /\ Waiting(t, n)
        BY <1>2, <1>9, <2>0, <2>1, <2>4 DEF Waiting
      <3>2. Tended(n)' /\ Strays(n)' = {}
        BY <1>6, <1>7, <2>1, <2>4, <3>1 DEF Attended
      <3>3. \A s \in Issued : tok'[s].from = n => ~Known(s)'
        BY <1>4, <3>1 DEF Attended, Serves
      <3>. QED
        BY <1>1, <3>2, <3>3 DEF Attended
    <2>. QED
      BY <1>1, <2>0, <2>1, <2>2, <2>3, <2>4 DEF AskerOK
  <1>10. ASSUME NEW d \in calls' PROVE CallOK(d)'
    <2>1. PICK c \in calls : Served1(c, d)
      BY <1>10 DEF Serves, AllServed
    <2>2. CallOK(c) /\ c.tok \in Issued /\ d.tok = c.tok
      BY <1>1, <2>1, Typed DEF CallsOK, Served1
    <2>3. d.answer # None => Awaits(d.tab, d)'
      BY <1>1, <2>1, <2>2 DEF Served1, CallOK, Awaits
    <2>4. ASSUME d.kind = "refresh", d.answer = None, Clean(d.tok)'
          PROVE  Tended(d.tok)' /\ Strays(d.tok)' = {}
      <3>0. PICK n : n = d.tok
        OBVIOUS
      <3>1. c.kind = "refresh" /\ c.answer = None /\ c.tok = n /\ n \in Issued /\ Clean(n)'
        BY <2>1, <2>2, <2>4, <3>0 DEF Served1
      <3>2. Tended(n) /\ Strays(n) = {} /\ Unserved(c, n)
        BY <1>2, <2>2, <3>1 DEF CallOK, Unserved
      <3>. QED
        BY <1>6, <1>7, <3>0, <3>1, <3>2
    <2>5. ASSUME d.answer \in Issued
          PROVE  tok'[d.answer].from = d.tok /\ (Clean(d.answer)' => ~tok'[d.answer].revoked)
      <3>1. CASE d.answer = c.answer
        <4>0. PICK s : s = d.answer /\ s \in Issued
          BY <2>5
        <4>1. tok[s].from = c.tok /\ (Clean(s) => ~tok[s].revoked)
          BY <2>2, <3>1, <4>0 DEF CallOK
        <4>2. tok'[s].from = c.tok /\ (Clean(s)' => ~tok'[s].revoked)
          BY <1>2, <4>0, <4>1 DEF Serves
        <4>. QED
          BY <2>2, <4>0, <4>2
      <3>2. CASE d.answer # c.answer
        BY <1>1, <2>1, <2>2, <2>5, <3>2 DEF Served1
      <3>. QED
        BY <3>1, <3>2
    <2>. QED
      BY <1>1, <2>3, <2>4, <2>5 DEF CallOK
  <1>11. StoreOK'
    <2>0. PICK r : r = store.refresh
      OBVIOUS
    <2>. SUFFICES ASSUME r # None, Clean(r)' PROVE Quiet(r)' \/ \E u \in Tabs : Waiting(u, r)'
      BY <1>1, <2>0 DEF StoreOK
    <2>1. r \in Issued
      BY <2>0, Typed DEF Numbers
    <2>2. Quiet(r) \/ \E u \in Tabs : Waiting(u, r)
      BY <1>1, <1>2, <2>0, <2>1 DEF StoreOK
    <2>. QED
      BY <1>1, <1>8, <2>1, <2>2 DEF Waiting
  <1>12. Quits'
    BY <1>1 DEF Quits
  <1>. QED
    BY <1>1, <1>3, <1>9, <1>10, <1>11, <1>12 DEF HonestInv, AskersOK, CallsOK

LEMMA BurntElse ==
    ASSUME SessionsTypeOK, NEW n \in Issued, tok' = Burnt(n)
    PROVE  /\ Issued' = Issued /\ Len(tok') = Len(tok)
           /\ \A m \in Issued : /\ tok'[m].fam = tok[m].fam /\ tok'[m].from = tok[m].from
                                /\ tok[m].revoked => tok'[m].revoked
                                /\ tok[m].fam # tok[n].fam => tok'[m].revoked = tok[m].revoked
  <1>1. \A m \in Issued : tok[m] \in TokenRow
    BY Typed
  <1>2. tok' = [m \in Issued |-> IF tok[m].fam = tok[n].fam
                                 THEN [tok[m] EXCEPT !.revoked = TRUE] ELSE tok[m]]
    BY DEF Burnt, Revoke, Issued
  <1>3. tok' \in Seq(TokenRow) /\ Issued' = Issued
    BY BurntIs DEF SessionsTypeOK, Issued
  <1>4. Len(tok') = Len(tok)
    <2>1. Len(tok') \in Nat /\ 1 .. Len(tok') = 1 .. Len(tok) /\ Len(tok) \in Nat
      BY <1>3, Typed DEF Issued
    <2>. QED
      BY <2>1
  <1>5. ASSUME NEW m \in Issued
        PROVE  /\ tok'[m].fam = tok[m].fam /\ tok'[m].from = tok[m].from
               /\ tok[m].revoked => tok'[m].revoked
               /\ tok[m].fam # tok[n].fam => tok'[m].revoked = tok[m].revoked
    BY <1>1, <1>2, <1>5 DEF TokenRow
  <1>. QED
    BY <1>3, <1>4, <1>5

\* All that the server does but rotate, and the end of what it remembers.
LEMMA ServesAre ==
    ASSUME SessionsTypeOK, HonestInv,
           \/ \E c \in calls : Read(c) \/ Repeat(c) \/ Burn(c) \/ ServeLogout(c)
           \/ (\E s \in cache : GraceEnds(s)) \/ Restart
    PROVE  HonestInv'
  <1>1. /\ Lineage /\ CallsOK /\ HonestStaysIn /\ None \notin Issued /\ cache \subseteq Issued
        /\ Refusal \notin Issued /\ Refusal # None
    BY Typed, SessionConstants DEF HonestInv, SessionsTypeOK, Lineage, Refusal, None
  <1>2. \A d : Served1(d, d)
    BY DEF Served1
  <1>3. ASSUME UNCHANGED tok
        PROVE  /\ Issued' = Issued /\ Len(tok') = Len(tok)
               /\ \A n \in Issued :
                    /\ tok'[n].fam = tok[n].fam /\ tok'[n].from = tok[n].from
                    /\ tok[n].revoked => tok'[n].revoked
                    /\ Clean(n)' => tok'[n].revoked = tok[n].revoked
    BY <1>3 DEF Issued
  <1>4. ASSUME NEW c \in calls, c.kind = "refresh", c.answer = None, NEW n, Answer(c, n), n # None,
               n \in Issued' => tok'[n].from = c.tok /\ ~tok'[n].revoked
        PROVE  AllServed
    <2>1. PICK e : e = [c EXCEPT !.answer = n]
      OBVIOUS
    <2>2. c \in CallRow
      BY Typed
    <2>3. e.kind = c.kind /\ e.tab = c.tab /\ e.tok = c.tok /\ e.try = c.try /\ e.answer = n
      BY <2>1, <2>2 DEF CallRow
    <2>4. Awaits(c.tab, c) => Served1(c, e)
      BY <1>4, <2>3 DEF Served1
    <2>5. calls' = (calls \ {c}) \cup (IF Awaits(c.tab, c) THEN {e} ELSE {})
      BY <1>4, <2>1 DEF Answer
    <2>. QED
      BY <1>2, <2>4, <2>5 DEF AllServed
  <1>5. ASSUME NEW c \in calls, Read(c) PROVE HonestInv'
    <2>1. PICK e : e = [c EXCEPT !.seen = IF tok[c.tok].revoked THEN "revoked" ELSE "live"]
      OBVIOUS
    <2>2. c \in CallRow
      BY Typed
    <2>3. e.kind = c.kind /\ e.tab = c.tab /\ e.tok = c.tok /\ e.try = c.try /\ e.answer = c.answer
      BY <2>1, <2>2 DEF CallRow
    <2>4. calls' = (calls \ {c}) \cup {e} /\ UNCHANGED <<serverSide, store, tab, history>>
      BY <1>5, <2>1 DEF Read
    <2>5. Served1(c, e)
      BY <2>3 DEF Served1
    <2>6. AllServed
      BY <1>2, <2>4, <2>5 DEF AllServed
    <2>7. Serves /\ HonestStaysIn'
      BY <1>1, <1>3, <2>4, <2>6 DEF Serves, serverSide, history, Dirty, HonestStaysIn
    <2>. QED
      BY <2>7, ServesKeep
  <1>6. ASSUME NEW c \in calls, Repeat(c) PROVE HonestInv'
    <2>1. PICK s \in Again(c.tok) : Answer(c, s)
      BY <1>6 DEF Repeat
    <2>2. s \in Issued /\ tok[s].from = c.tok /\ ~tok[s].revoked
      BY <1>1, <2>1 DEF Again
    <2>3. /\ c.kind = "refresh" /\ c.answer = None /\ UNCHANGED <<serverSide, store, tab, history>>
          /\ tok' = tok
      BY <1>6 DEF Repeat, Served, serverSide
    <2>4. AllServed
      BY <1>1, <1>4, <2>1, <2>2, <2>3
    <2>5. Serves /\ HonestStaysIn'
      BY <1>1, <1>3, <2>3, <2>4 DEF Serves, serverSide, history, Dirty, HonestStaysIn
    <2>. QED
      BY <2>5, ServesKeep
  <1>7. ASSUME NEW n \in Issued, tok' = Burnt(n), over' = over \cup {tok[n].fam}, AllServed,
               UNCHANGED <<cache, store, tab, excused, left>>, HonestStaysIn'
        PROVE  HonestInv'
    <2>1. /\ Issued' = Issued /\ Len(tok') = Len(tok)
          /\ \A m \in Issued : /\ tok'[m].fam = tok[m].fam /\ tok'[m].from = tok[m].from
                               /\ tok[m].revoked => tok'[m].revoked
                               /\ tok[m].fam # tok[n].fam => tok'[m].revoked = tok[m].revoked
      BY <1>7, BurntElse
    <2>2. \A m \in Issued : Clean(m)' => tok[m].fam # tok[n].fam
      BY <1>7, <2>1 DEF Clean, Dirty
    <2>3. Dirty \subseteq Dirty'
      BY <1>7 DEF Dirty
    <2>4. Serves
      BY <1>7, <2>1, <2>2, <2>3 DEF Serves
    <2>. QED
      BY <1>7, <2>4, ServesKeep
  <1>8. ASSUME NEW c \in calls, Burn(c) PROVE HonestInv'
    <2>1. /\ c.kind = "refresh" /\ c.answer = None /\ IsRevoked(c) /\ Again(c.tok) = {}
          /\ tok' = Burnt(c.tok) /\ over' = over \cup {tok[c.tok].fam} /\ Answer(c, Refusal)
          /\ burned' = burned \cup ({tok[c.tok].fam} \ over)
          /\ UNCHANGED <<cache, store, tab, excused, left>>
      BY <1>8 DEF Burn, Served
    <2>2. c.tok \in Issued /\ CallOK(c)
      BY <1>1, Typed DEF CallsOK
    <2>3. Issued' = Issued
      BY <2>1, <2>2, BurntElse
    <2>4. AllServed
      BY <1>1, <1>4, <2>1, <2>3
    <2>5. ~Clean(c.tok)
      BY <2>1, <2>2 DEF CallOK, Tended, IsRevoked
    <2>6. HonestStaysIn'
      BY <1>1, <2>1, <2>5 DEF HonestStaysIn, Clean, Dirty
    <2>. QED
      BY <1>7, <2>1, <2>2, <2>4, <2>6
  <1>9. ASSUME NEW c \in calls, ServeLogout(c) PROVE HonestInv'
    <2>1. /\ tok' = Burnt(c.tok) /\ over' = over \cup {tok[c.tok].fam} /\ calls' = calls \ {c}
          /\ UNCHANGED <<cache, store, tab, excused, left, burned>>
      BY <1>9 DEF ServeLogout, history
    <2>2. c.tok \in Issued
      BY Typed
    <2>3. AllServed /\ HonestStaysIn'
      BY <1>1, <1>2, <2>1 DEF AllServed, HonestStaysIn
    <2>. QED
      BY <1>7, <2>1, <2>2, <2>3
  <1>10. ASSUME NEW s \in cache, GraceEnds(s) PROVE HonestInv'
    <2>1. /\ \A t \in Tabs : ~Waiting(t, tok[s].from)
          /\ cache' = cache \ {s} /\ UNCHANGED <<tok, over, calls, store, tab, burned, left>>
          /\ excused' = excused \cup {tok[s].fam : c \in Strays(s)}
      BY <1>10 DEF GraceEnds
    <2>2. ASSUME Clean(s)', NEW c \in calls, Unserved(c, tok[s].from) PROVE FALSE
      <3>1. c \in Strays(s)
        BY <2>2 DEF Strays
      <3>2. tok[s].fam \in excused'
        BY <2>1, <3>1
      <3>. QED
        BY <2>1, <2>2, <3>2 DEF Clean, Dirty
    <2>3. AllServed /\ HonestStaysIn' /\ Dirty \subseteq Dirty'
      BY <1>1, <1>2, <2>1 DEF AllServed, HonestStaysIn, Dirty
    <2>4. \A x \in cache \ cache' : x = s
      BY <2>1
    <2>5. Serves
      BY <1>3, <2>1, <2>2, <2>3, <2>4 DEF Serves
    <2>. QED
      BY <2>3, <2>5, ServesKeep
  <1>11. CASE Restart
    <2>1. /\ cache' = {} /\ UNCHANGED <<tok, over, calls, store, tab, burned, left>>
          /\ excused' = excused \cup {tok[s].fam : s \in cache}
      BY <1>11 DEF Restart
    <2>2. \A s \in cache : ~Clean(s)'
      BY <2>1 DEF Clean, Dirty
    <2>3. AllServed /\ HonestStaysIn' /\ Dirty \subseteq Dirty'
      BY <1>1, <1>2, <2>1 DEF AllServed, HonestStaysIn, Dirty
    <2>4. Serves
      BY <1>3, <2>1, <2>2, <2>3 DEF Serves
    <2>. QED
      BY <2>3, <2>4, ServesKeep
  <1>. QED
    BY <1>5, <1>6, <1>8, <1>9, <1>10, <1>11

\* A rotation: the token is spent, its successor is nobody's but the answer's.
LEMMA RotateKeeps ==
    ASSUME SessionsTypeOK, OneLiveToken, HonestInv, NEW c \in calls, Rotate(c)
    PROVE  HonestInv'
  <1>0. PICK m, z : m = c.tok /\ z = Len(tok) + 1
    OBVIOUS
  <1>1. /\ Lineage /\ Quits /\ AskersOK /\ CallsOK /\ StoreOK
        /\ store' = store /\ tab' = tab /\ c.kind = "refresh" /\ c.answer = None
        /\ cache' = cache \cup {z} /\ Answer(c, z) /\ ~tok[m].revoked
        /\ tok' = Append([tok EXCEPT ![m].revoked = TRUE], Token(tok[m].fam, m))
        /\ Len(tok) < MaxTokens
    BY <1>0 DEF HonestInv, Rotate, Served, IsRevoked
  <1>2. /\ m \in Issued /\ Issued = 1 .. Len(tok) /\ Len(tok) \in Nat /\ z \notin Issued /\ None \notin Issued
        /\ m < z /\ z # None
    BY <1>0, Typed DEF None
  <1>3. /\ Issued' = Issued \cup {z} /\ Len(tok') = z
        /\ \A n \in Issued : /\ tok'[n].fam = tok[n].fam /\ tok'[n].from = tok[n].from
                             /\ tok'[n].revoked = (tok[n].revoked \/ n = m)
        /\ tok'[z].fam = tok[m].fam /\ tok'[z].from = m /\ ~tok'[z].revoked
    <2>1. PICK S : S = [tok EXCEPT ![m].revoked = TRUE]
      OBVIOUS
    <2>2. tok \in Seq(TokenRow) /\ \A n \in Issued : tok[n] \in TokenRow
      BY Typed DEF SessionsTypeOK
    <2>3. /\ DOMAIN S = 1 .. Len(tok) /\ S[m] = [tok[m] EXCEPT !.revoked = TRUE]
          /\ \A n \in Issued \ {m} : S[n] = tok[n]
      BY <1>2, <2>1 DEF Issued
    <2>4. [tok[m] EXCEPT !.revoked = TRUE] \in TokenRow
      BY <1>2, <2>2 DEF TokenRow
    <2>5. S \in [1 .. Len(tok) -> TokenRow]
      <3>1. \A n \in 1 .. Len(tok) : S[n] \in TokenRow
        BY <1>2, <2>2, <2>3, <2>4
      <3>2. S = [n \in DOMAIN S |-> S[n]]
        BY <2>1
      <3>. QED
        BY <2>3, <3>1, <3>2
    <2>6. S \in Seq(TokenRow) /\ Len(S) = Len(tok)
      BY <1>2, <2>5
    <2>7. \A n \in Issued : /\ S[n].fam = tok[n].fam /\ S[n].from = tok[n].from
                            /\ S[n].revoked = (tok[n].revoked \/ n = m)
      BY <1>2, <2>2, <2>3 DEF TokenRow
    <2>8. PICK row : row = Token(tok[m].fam, m) /\ row.fam = tok[m].fam /\ row.from = m /\ ~row.revoked
      <3>1. /\ Token(tok[m].fam, m).fam = tok[m].fam /\ Token(tok[m].fam, m).from = m
            /\ ~Token(tok[m].fam, m).revoked
        BY DEF Token
      <3>. QED
        BY <3>1
    <2>9. tok' = Append(S, row)
      BY <1>1, <2>1, <2>8
    <2>10. row \in TokenRow
      <3>1. m \in Nat /\ tok[m].fam \in Families
        BY <1>2, <2>2 DEF TokenRow
      <3>. QED
        BY <2>8, <3>1 DEF TokenRow, Token
    <2>11. /\ tok' \in Seq(TokenRow) /\ Len(tok') = z /\ tok'[z] = row
           /\ \A n \in 1 .. Len(tok) : tok'[n] = S[n]
      BY <1>0, <2>6, <2>9, <2>10
    <2>12. Issued' = 1 .. z
      BY <2>11 DEF Issued
    <2>13. Issued' = Issued \cup {z}
      BY <1>0, <1>2, <2>12
    <2>. QED
      BY <1>2, <2>7, <2>8, <2>11, <2>13
  <1>4. /\ \A n \in Issued : Clean(n)' = Clean(n) /\ Root(n)' = Root(n)
        /\ Dirty' = Dirty /\ HonestStaysIn'
    <2>1. Dirty' = Dirty /\ HonestStaysIn'
      BY DEF Rotate, history, Dirty, HonestStaysIn, HonestInv
    <2>. QED
      BY <1>3, <2>1 DEF Clean, Root
  <1>5. Lineage'
    <2>1. ASSUME NEW s \in Issued, ~Root(s)'
          PROVE  /\ tok'[s].from \in Issued /\ tok'[s].from < s
                 /\ tok'[tok'[s].from].fam = tok'[s].fam /\ tok'[tok'[s].from].revoked
      <3>1. /\ tok[s].from \in Issued /\ tok[s].from < s
            /\ tok[tok[s].from].fam = tok[s].fam /\ tok[tok[s].from].revoked
        BY <1>1, <1>4, <2>1 DEF Lineage
      <3>. QED
        BY <1>3, <3>1
    <2>2. z <= MaxTokens
      BY <1>0, <1>1, <1>2, SessionConstants
    <2>3. ASSUME NEW s \in Issued', ~Root(s)'
          PROVE  /\ tok'[s].from \in Issued' /\ tok'[s].from < s
                 /\ tok'[tok'[s].from].fam = tok'[s].fam /\ tok'[tok'[s].from].revoked
      <3>1. CASE s \in Issued
        BY <1>3, <2>1, <2>3, <3>1
      <3>2. CASE s = z
        BY <1>2, <1>3, <3>2
      <3>. QED
        BY <1>3, <2>3, <3>1, <3>2
    <2>. QED
      BY <1>3, <2>2, <2>3 DEF Lineage
  <1>6. PICK e : /\ calls' = (calls \ {c}) \cup (IF Awaits(c.tab, c) THEN {e} ELSE {})
                 /\ e.kind = "refresh" /\ e.tab = c.tab /\ e.tok = m /\ e.try = c.try /\ e.answer = z
    <2>1. PICK e : e = [c EXCEPT !.answer = z]
      OBVIOUS
    <2>2. c \in CallRow
      BY Typed
    <2>3. e.kind = c.kind /\ e.tab = c.tab /\ e.tok = c.tok /\ e.try = c.try /\ e.answer = z
      BY <2>1, <2>2 DEF CallRow
    <2>. QED
      BY <1>0, <1>1, <2>1, <2>3 DEF Answer
  <1>7. ~Known(z)'
    <2>1. store.refresh # z /\ (\A t \in Tabs : tab[t].refresh # z) /\ (\A d \in calls : d.tok # z)
      BY <1>2, Typed DEF Numbers
    <2>. QED
      BY <1>1, <1>2, <1>6, <2>1 DEF Known
  <1>8. \A n : Known(n)' => Known(n)
    BY <1>0, <1>1, <1>6 DEF Known
  <1>9. \A n : \A d \in calls' : Unserved(d, n) => d \in calls
    BY <1>2, <1>6 DEF Unserved
  <1>10. \A n \in Issued : Strays(n) = {} => Strays(n)' = {}
    BY <1>3, <1>9 DEF Strays, Unserved
  <1>11. Known(m) /\ Unserved(c, m)
    BY <1>0, <1>1 DEF Known, Unserved
  <1>12. ASSUME NEW n \in Issued, Clean(n), Tended(n),
                (\A s \in Issued : tok[s].from = n => ~Known(s)) \/ (\E d \in calls : Unserved(d, n))
         PROVE  Tended(n)'
    <2>1. CASE n = m
      BY <1>1, <1>3, <2>1 DEF Tended, Again
    <2>2. CASE n # m /\ ~tok[n].revoked
      BY <1>3, <2>2 DEF Tended
    <2>3. CASE n # m /\ tok[n].revoked
      <3>1. PICK s \in cache : tok[s].from = n /\ ~tok[s].revoked
        BY <1>12, <2>3 DEF Tended, Again
      <3>2. s \in Issued /\ tok[s].fam = tok[n].fam
        BY <1>1, <3>1, Succession DEF SessionsTypeOK
      <3>3. s # m
        <4>. SUFFICES ASSUME s = m PROVE FALSE
          OBVIOUS
        <4>1. PICK d \in calls : Unserved(d, n)
          BY <1>11, <1>12, <3>1, <3>2
        <4>2. Clean(m) /\ CallOK(c)
          BY <1>1, <1>12, <3>2 DEF Clean, CallsOK
        <4>3. Strays(m) = {}
          BY <1>0, <1>1, <4>2 DEF CallOK
        <4>. QED
          BY <3>1, <4>1, <4>3 DEF Strays
      <3>4. tok'[s].from = n /\ ~tok'[s].revoked /\ s \in cache'
        BY <1>1, <1>3, <3>1, <3>2, <3>3
      <3>. QED
        BY <3>4 DEF Tended, Again
    <2>. QED
      BY <2>1, <2>2, <2>3
  <1>13. \A n \in Issued : Quiet(n) => Quiet(n)'
    BY <1>3, <1>9, <1>11 DEF Quiet
  <1>14. ASSUME NEW t \in Tabs, tab[t].phase = "asked" PROVE AskerOK(t)'
    <2>0. PICK n, x, r : n = tab[t].asked /\ x = tab[t].refresh /\ r = store.refresh
      OBVIOUS
    <2>1. /\ n \in Issued
          /\ x = n \/ r # n
          /\ r \in {None, n} \/ Root(r)
          /\ x \in {None, n} \/ Fresh(x)
          /\ Clean(n) => Attended(n)
          /\ r \in Issued \cup {None} /\ x \in Issued \cup {None}
      BY <1>1, <1>14, <2>0, Typed DEF AskersOK, AskerOK, Numbers
    <2>2. r \in {None, n} \/ Root(r)'
      BY <1>4, <2>1
    <2>3. x \in {None, n} \/ Fresh(x)'
      BY <1>4, <1>13, <2>1 DEF Fresh
    <2>4. ASSUME Clean(n)' PROVE Attended(n)'
      <3>1. Attended(n) /\ Clean(n)
        BY <1>4, <2>1, <2>4
      <3>2. Tended(n)' /\ Strays(n)' = {}
        BY <1>10, <1>12, <2>1, <3>1 DEF Attended
      <3>3. \A s \in Issued : tok'[s].from = n => ~Known(s)'
        BY <1>3, <1>8, <3>1 DEF Attended
      <3>. QED
        BY <1>3, <1>7, <3>2, <3>3 DEF Attended
    <2>. QED
      BY <1>1, <1>3, <2>0, <2>1, <2>2, <2>3, <2>4 DEF AskerOK
  <1>15. ASSUME NEW d \in calls' PROVE CallOK(d)'
    <2>1. CASE d = e /\ Awaits(c.tab, c)
      <3>1. Awaits(d.tab, d)'
        BY <1>0, <1>1, <1>6, <2>1 DEF Awaits
      <3>. QED
        BY <1>2, <1>3, <1>6, <2>1, <3>1 DEF CallOK
    <2>2. CASE d \in calls
      <3>1. CallOK(d) /\ d.tok \in Issued /\ d.answer \in Numbers \cup {Refusal} /\ d.tab \in Tabs
        BY <1>1, <2>2, Typed DEF CallsOK
      <3>2. d.answer # None => Awaits(d.tab, d)'
        BY <1>1, <3>1 DEF CallOK, Awaits
      <3>3. ASSUME d.kind = "refresh", d.answer = None, Clean(d.tok)'
            PROVE  Tended(d.tok)' /\ Strays(d.tok)' = {}
        <4>0. PICK n : n = d.tok
          OBVIOUS
        <4>1. n \in Issued /\ Clean(n) /\ Tended(n) /\ Strays(n) = {} /\ Unserved(d, n)
          BY <1>4, <3>1, <3>3, <4>0 DEF CallOK, Unserved
        <4>2. Tended(n)' /\ Strays(n)' = {}
          BY <1>10, <1>12, <2>2, <4>1
        <4>. QED
          BY <4>0, <4>2
      <3>4. ASSUME d.answer \in Issued'
            PROVE  tok'[d.answer].from = d.tok /\ (Clean(d.answer)' => ~tok'[d.answer].revoked)
        <4>0. PICK s : s = d.answer
          OBVIOUS
        <4>1. s \in Issued
          <5>1. z # Refusal
            BY <1>0, <1>1, <1>2, SessionConstants DEF Refusal
          <5>. QED
            BY <1>2, <1>3, <3>1, <3>4, <4>0, <5>1 DEF Numbers
        <4>2. tok[s].from = d.tok /\ (Clean(s) => ~tok[s].revoked) /\ Awaits(d.tab, d)
          BY <1>2, <3>1, <4>0, <4>1 DEF CallOK
        <4>3. ASSUME Clean(s) PROVE s # m
          <5>1. tab[d.tab].phase = "asked" /\ tab[d.tab].asked = d.tok
            BY <4>2 DEF Awaits
          <5>2. Clean(d.tok)
            BY <1>1, <3>1, <4>1, <4>2, <4>3, Succession DEF Clean
          <5>3. Attended(d.tok)
            BY <1>1, <3>1, <5>1, <5>2 DEF AskersOK, AskerOK
          <5>. QED
            BY <1>11, <4>1, <4>2, <5>3 DEF Attended
        <4>4. tok'[s].from = d.tok /\ (Clean(s)' => ~tok'[s].revoked)
          BY <1>3, <1>4, <4>1, <4>2, <4>3
        <4>. QED
          BY <4>0, <4>4
      <3>. QED
        BY <3>2, <3>3, <3>4 DEF CallOK
    <2>. QED
      BY <1>6, <2>1, <2>2
  <1>16. StoreOK'
    <2>0. PICK r : r = store.refresh
      OBVIOUS
    <2>. SUFFICES ASSUME r # None, Clean(r)' PROVE Quiet(r)' \/ \E u \in Tabs : Waiting(u, r)'
      BY <1>1, <2>0 DEF StoreOK
    <2>1. r \in Issued
      BY <2>0, Typed DEF Numbers
    <2>2. Quiet(r) \/ \E u \in Tabs : Waiting(u, r)
      BY <1>1, <1>4, <2>0, <2>1 DEF StoreOK
    <2>. QED
      BY <1>1, <1>13, <2>1, <2>2 DEF Waiting
  <1>17. Quits'
    BY <1>1 DEF Quits
  <1>. QED
    BY <1>1, <1>4, <1>5, <1>14, <1>15, <1>16, <1>17 DEF HonestInv, AskersOK, CallsOK

\* A login: a token nobody has asked with, in the storage and in its tab.
LEMMA LoginKeeps ==
    ASSUME SessionsTypeOK, HonestInv, NEW t \in Tabs, NEW f \in Families, Login(t, f)
    PROVE  HonestInv'
  <1>0. PICK z : z = Len(tok) + 1
    OBVIOUS
  <1>1. /\ Lineage /\ Quits /\ AskersOK /\ CallsOK /\ StoreOK
        /\ UNCHANGED <<cache, over, calls, history>> /\ tok' = Append(tok, Token(f, None))
        /\ tab[t].phase = "none" /\ tab[t].on = "out" /\ Len(tok) < MaxTokens
        /\ tab[t] \in TabRow /\ tab \in [Tabs -> TabRow] /\ store \in StoreRow
    BY DEF HonestInv, Login, SessionsTypeOK
  <1>2. /\ Issued = 1 .. Len(tok) /\ Len(tok) \in Nat /\ z \notin Issued /\ None \notin Issued /\ z # None
    BY <1>0, Typed DEF None
  <1>3. /\ Issued' = Issued \cup {z} /\ Len(tok') = z
        /\ \A n \in Issued : tok'[n] = tok[n]
        /\ tok'[z].from = None /\ ~tok'[z].revoked
    <2>1. tok \in Seq(TokenRow)
      BY DEF SessionsTypeOK
    <2>2. Token(f, None) \in TokenRow
      BY DEF Token, TokenRow, None
    <2>3. /\ tok' \in Seq(TokenRow) /\ Len(tok') = z /\ tok'[z] = Token(f, None)
          /\ \A n \in 1 .. Len(tok) : tok'[n] = tok[n]
      BY <1>0, <1>1, <2>1, <2>2
    <2>4. Issued' = 1 .. z
      BY <2>3 DEF Issued
    <2>5. Issued' = Issued \cup {z}
      BY <1>0, <1>2, <2>4
    <2>. QED
      BY <1>2, <2>3, <2>5 DEF Token
  <1>4. /\ store'.refresh = z /\ tab'[t].refresh = z /\ tab'[t].phase = "none" /\ tab'[t].on = "boot"
        /\ tab'[t].ended = tab[t].ended
        /\ \A u \in Tabs \ {t} : tab'[u] = tab[u]
    <2>1. PICK rec : /\ rec = [tab[t] EXCEPT !.on = "boot", !.access = z, !.refresh = z]
                     /\ tab' = [tab EXCEPT ![t] = rec]
                     /\ store' = [store EXCEPT !.access = z, !.refresh = z]
      BY <1>0 DEF Login, Put
    <2>2. rec.refresh = z /\ rec.phase = "none" /\ rec.on = "boot" /\ rec.ended = tab[t].ended
      BY <1>1, <2>1 DEF TabRow
    <2>. QED
      BY <1>1, <2>1, <2>2 DEF StoreRow
  <1>5. /\ \A n \in Issued : Clean(n)' = Clean(n) /\ Root(n)' = Root(n)
        /\ Root(z)' /\ HonestStaysIn'
    BY <1>1, <1>3 DEF history, Dirty, HonestStaysIn, HonestInv, Clean, Root
  <1>6. Lineage'
    <2>1. z <= MaxTokens
      BY <1>0, <1>1, <1>2, SessionConstants
    <2>2. ASSUME NEW s \in Issued, ~Root(s)'
          PROVE  /\ tok'[s].from \in Issued /\ tok'[s].from < s
                 /\ tok'[tok'[s].from].fam = tok'[s].fam /\ tok'[tok'[s].from].revoked
      <3>1. /\ tok[s].from \in Issued /\ tok[s].from < s
            /\ tok[tok[s].from].fam = tok[s].fam /\ tok[tok[s].from].revoked
        BY <1>1, <1>5, <2>2 DEF Lineage
      <3>. QED
        BY <1>3, <3>1
    <2>. QED
      BY <1>3, <1>5, <2>1, <2>2 DEF Lineage
  <1>7. \A n \in Issued : Known(n)' => Known(n)
    BY <1>1, <1>2, <1>4 DEF Known
  <1>8. \A n \in Issued : Strays(n)' = Strays(n) /\ Tended(n)' = Tended(n)
    BY <1>1, <1>3 DEF Strays, Tended, Again, SessionsTypeOK
  <1>9. \A n \in Issued : Quiet(n)' = Quiet(n)
    BY <1>1, <1>3 DEF Quiet
  <1>10. \A n \in Issued : Attended(n) => Attended(n)'
    BY <1>2, <1>3, <1>7, <1>8 DEF Attended
  <1>11. ASSUME NEW u \in Tabs, tab'[u].phase = "asked" PROVE AskerOK(u)'
    <2>0. PICK n, x : n = tab[u].asked /\ x = tab[u].refresh
      OBVIOUS
    <2>1. u # t /\ tab'[u] = tab[u] /\ tab[u].phase = "asked"
      BY <1>4, <1>11
    <2>2. /\ n \in Issued /\ x \in Issued \cup {None}
          /\ x \in {None, n} \/ Fresh(x)
          /\ Clean(n) => Attended(n)
      BY <1>1, <2>0, <2>1, Typed DEF AskersOK, AskerOK, Numbers
    <2>3. x \in {None, n} \/ Fresh(x)'
      BY <1>5, <1>9, <2>2 DEF Fresh
    <2>4. Clean(n)' => Attended(n)'
      BY <1>5, <1>10, <2>2
    <2>. QED
      BY <1>2, <1>3, <1>4, <1>5, <2>0, <2>1, <2>2, <2>3, <2>4 DEF AskerOK
  <1>12. ASSUME NEW d \in calls' PROVE CallOK(d)'
    <2>0. PICK n, s : n = d.tok /\ s = d.answer
      OBVIOUS
    <2>1. d \in calls /\ CallOK(d) /\ n \in Issued /\ s \in Numbers \cup {Refusal} /\ d.tab \in Tabs
      BY <1>1, <1>12, <2>0, Typed DEF CallsOK
    <2>2. s # None => Awaits(d.tab, d)'
      BY <1>1, <1>4, <2>0, <2>1 DEF CallOK, Awaits
    <2>3. d.kind = "refresh" /\ s = None /\ Clean(n)' => Tended(n)' /\ Strays(n)' = {}
      BY <1>5, <1>8, <2>0, <2>1 DEF CallOK
    <2>4. s \in Issued' => s \in Issued
      <3>1. z # Refusal
        BY <1>0, <1>1, <1>2, SessionConstants DEF Refusal
      <3>. QED
        BY <1>2, <1>3, <2>1, <3>1 DEF Numbers
    <2>5. s \in Issued' => tok'[s].from = n /\ (Clean(s)' => ~tok'[s].revoked)
      BY <1>3, <1>5, <2>0, <2>1, <2>4 DEF CallOK
    <2>. QED
      BY <2>0, <2>2, <2>3, <2>5 DEF CallOK
  <1>13. StoreOK'
    <2>1. \A d \in calls' : ~Unserved(d, z)
      BY <1>1, <1>2, Typed DEF Unserved
    <2>. QED
      BY <1>3, <1>4, <2>1 DEF StoreOK, Quiet
  <1>14. Quits'
    BY <1>1, <1>2, <1>4, Typed DEF Quits, TabIs, Login
  <1>. QED
    BY <1>5, <1>6, <1>11, <1>12, <1>13, <1>14 DEF HonestInv, AskersOK, CallsOK

LEMMA HonestStart == SessionsInit => HonestInv
  <1>. SUFFICES ASSUME SessionsInit PROVE HonestInv
    OBVIOUS
  <1>1. /\ Issued = {} /\ Len(tok) = 0 /\ calls = {} /\ store.refresh = None
        /\ \A t \in Tabs : tab[t].phase = "none" /\ ~tab[t].ended
    BY DEF SessionsInit, Issued, EmptyStore, Closed
  <1>. QED
    BY <1>1, SessionConstants
       DEF SessionsInit, HonestInv, Lineage, Quits, TabIs, AskersOK, CallsOK, StoreOK, HonestStaysIn

LEMMA HonestStep == SessionsInv /\ HonestInv /\ [SessionsNext]_sessionVars => HonestInv'
  <1>. SUFFICES ASSUME SessionsInv, HonestInv, [SessionsNext]_sessionVars PROVE HonestInv'
    OBVIOUS
  <1>1. SessionsTypeOK /\ OneLiveToken
    BY DEF SessionsInv
  <1>2. CASE Serving
    BY <1>1, <1>2, ServesAre, RotateKeeps DEF Serving
  <1>3. CASE Restart \/ \E s \in cache : GraceEnds(s)
    BY <1>1, <1>3, ServesAre
  <1>4. ASSUME NEW t \in Tabs, Following(t) \/ Open(t) \/ Close(t) \/ Logout(t)
                               \/ StartRefresh(t) \/ GiveUpAnswer(t)
        PROVE  HonestInv'
    BY <1>1, <1>4, TabKeeps
  <1>5. ASSUME NEW t \in Tabs, NEW f \in Families, Login(t, f)
        PROVE  HonestInv'
    BY <1>1, <1>5, LoginKeeps
  <1>6. CASE UNCHANGED sessionVars
    <2>1. UNCHANGED <<tok, cache, over, calls, store, tab, burned, excused, left>>
      BY <1>6 DEF sessionVars, serverSide, history
    <2>2. Resting /\ NoNewAsk
      BY <2>1 DEF Resting, NoNewAsk
    <2>3. /\ Lineage' = Lineage /\ Quits' = Quits /\ StoreOK' = StoreOK /\ HonestStaysIn' = HonestStaysIn
      BY <2>1 DEF Lineage, Issued, Root, Quits, StoreOK, Clean, Dirty, Quiet, Waiting, HonestStaysIn
    <2>4. AskersOK' = AskersOK
      BY <2>1 DEF AskersOK, AskerOK, Issued, Root, Fresh, Clean, Dirty, Quiet, Attended, Tended, Again,
                  Strays, Known
    <2>5. CallsOK' = CallsOK
      BY <2>1 DEF CallsOK, CallOK, Issued, Clean, Dirty, Tended, Again, Strays, Awaits
    <2>. QED
      BY <2>3, <2>4, <2>5 DEF HonestInv
  <1>. QED
    BY <1>2, <1>3, <1>4, <1>5, <1>6 DEF SessionsNext

\* The server never takes an honest browser for a thief: a family is burned only
\* if its user logged out, or it met one of the risks named with excused; for any
\* tabs, logins, lost answers, repeated and late requests (auth.py, refresh in
\* index.ts).
THEOREM HonestIsSpared == SessionsSpec => []HonestStaysIn
  <1>1. SessionsSpec => []HonestInv
    BY SessionsAlways, HonestStart, HonestStep, PTL DEF SessionsSpec
  <1>2. HonestInv => HonestStaysIn
    BY DEF HonestInv
  <1>. QED
    BY <1>1, <1>2, PTL

=============================================================================
