-------------------------- MODULE SyncClientProofs --------------------------
(***************************************************************************)
(* Theorems about a device on top of the endpoint, for every number of     *)
(* users, commands, concurrent requests, faults and batch sizes:           *)
(* DeviceTypes, by the inductive invariant Base; NothingSavedIsLost, by    *)
(* Careful, which follows every saved change through memory, the writes    *)
(* under way and the disk; NoLossUntold, by Told, which follows the count  *)
(* of what a lost workspace took with it; RefusalsHeal, by Heals, which    *)
(* follows what a refused command left on the screen; and                  *)
(* TempsNotStranded, by Settling, which says how far a reply is on its way *)
(* to the disk, and Tidy, which follows the temp entries of the screen.    *)
(***************************************************************************)
EXTENDS SyncClient, SyncServerProofs, FiniteSetTheorems, WellFoundedInduction

-----------------------------------------------------------------------------
(* Types *)

Replicas == UNION {[S -> Entry] : S \in SUBSET (Ids \cup Adds)}
Queues == Seq(Command)
Tokens == Nat \cup {Star}

\* What is written under each of the five keys.
Writes ==
    [key : {"queue"}, value : Queues, awaited : BOOLEAN]
        \cup [key : {"replica"}, value : Replicas, awaited : BOOLEAN]
        \cup [key : {"token"}, value : Tokens, awaited : BOOLEAN]
        \cup [key : {"needsFullSync"}, value : BOOLEAN, awaited : BOOLEAN]
        \cup [key : {"lossNotice"}, value : Nat, awaited : BOOLEAN]

Disk == [queue : Queues, token : Tokens, replica : Replicas,
         needsFullSync : BOOLEAN, lossNotice : Nat]

Lane == [job   : {"idle", "flush", "pull", "recover", "lost", "gone"},
         step  : {"start", "reply", "flag", "queue", "token", "replica", "clear"},
         slots : SUBSET Slots, batch : SUBSET Cmds, full : BOOLEAN]

\* What the reads of a start may answer.
Reads == [is : {"found"}, queue : Queues, replica : Replicas, token : Tokens,
          needsFullSync : BOOLEAN, edited : BOOLEAN]

\* A start's purge, and how many of the five keys it has removed.
Purges == [is : {"nothing", "purge"}, removed : 0..5, count : Nat]

DeviceTyped ==
    /\ up \in {"up", "down"} /\ stored \in Reads \cup {NoAnswer} /\ (Reading => up = "up")
    /\ queue \in Queues /\ replica \in Replicas /\ syncToken \in Tokens
    /\ needsFullSync \in BOOLEAN
    /\ DOMAIN idAliases \subseteq Adds /\ \A t \in DOMAIN idAliases : idAliases[t] \in Nat
    /\ lane \in Lane
    /\ rejected \subseteq Cmds /\ refused \subseteq Cmds
    /\ disk \in Disk /\ writes \in Seq(Writes)
    /\ lossTold \in Nat /\ waived \in Nat /\ swallowed \in Nat
    /\ purge \in Purges /\ (Purging => up = "down")

-----------------------------------------------------------------------------
(* Induction over the natural numbers, and folds over a queue *)

Less == {pair \in Nat \X Nat : pair[1] < pair[2]}

LEMMA LessWellFounded == IsWellFoundedOn(Less, Nat)
<1>1. IsWellFoundedOn(OpToRel(<, Nat), Nat) BY NatLessThanWellFounded
<1>2. Less = OpToRel(<, Nat) BY DEF OpToRel, Less
<1>3. QED BY <1>1, <1>2

LEMMA Least ==
    ASSUME NEW T, T \subseteq Nat, T # {}
    PROVE  \E x \in T : \A y \in T : x <= y
<1>1. PICK x \in T : \A y \in T : ~(<<y, x>> \in Less) BY LessWellFounded, WFMin
<1>2. ASSUME NEW y \in T, y < x PROVE FALSE
  <2>1. <<y, x>> \in Nat \X Nat /\ <<y, x>>[1] < <<y, x>>[2] BY <1>2
  <2>2. <<y, x>> \in Less BY <2>1 DEF Less
  <2>3. QED BY <1>1, <2>2
<1>3. x \in Nat /\ \A y \in T : y \in Nat OBVIOUS
<1>4. \A y \in T : x <= y BY <1>2, <1>3
<1>5. QED BY <1>4

\* The step from n to n + 1 carries a set from 0 to every number.
LEMMA Induction ==
    ASSUME NEW T, 0 \in T, \A n \in Nat : n \in T => n + 1 \in T
    PROVE  Nat \subseteq T
<1> SUFFICES ASSUME Nat \ T # {} PROVE FALSE OBVIOUS
<1>1. PICK x \in Nat \ T : \A y \in Nat \ T : x <= y BY Least
<1>2. x # 0 /\ x - 1 \in Nat BY <1>1
<1>3. x - 1 \in T BY <1>1, <1>2
<1>4. QED BY <1>1, <1>2, <1>3

LEMMA MaxIsIn ==
    ASSUME NEW m \in Nat, NEW S \in SUBSET (1..m), S # {}
    PROVE  Max(S) \in S /\ \A y \in S : Max(S) >= y
<1> DEFINE T == {n \in Nat : \A y \in S : n >= y}
<1>1. PICK x \in T : \A y \in T : x <= y
  <2>1. m \in T OBVIOUS
  <2>2. T \subseteq Nat /\ T # {} BY <2>1
  <2> HIDE DEF T
  <2>3. QED BY <2>2, Least
<1>2. x \in Nat /\ \A y \in S : x >= y OBVIOUS
<1>3. x \in S
  <2> SUFFICES ASSUME x \notin S PROVE FALSE OBVIOUS
  <2>1. \A y \in S : y \in 1..m /\ x > y BY <1>2
  <2> PICK y \in S : TRUE OBVIOUS
  <2>2. y \in Nat /\ y > 0 /\ x > y BY <2>1
  <2>3. x > 0 /\ x - 1 \in Nat BY <1>2, <2>2
  <2>4. \A z \in S : x - 1 >= z BY <1>2, <2>1
  <2>5. x - 1 \in T BY <2>3, <2>4
  <2> HIDE DEF T
  <2>6. QED BY <1>1, <1>2, <2>5
<1>4. QED BY <1>2, <1>3 DEF Max

LEMMA MaxIs ==
    ASSUME NEW m \in Nat, NEW S \in SUBSET (1..m), NEW x \in S, \A y \in S : x >= y
    PROVE  Max(S) = x
<1>1. \A y \in S : y \in 1..m OBVIOUS
<1>2. PICK z : z = Max(S) OBVIOUS
<1>3. z \in S /\ z >= x BY <1>2, MaxIsIn
<1>4. z \in Nat /\ x \in Nat /\ x >= z BY <1>1, <1>3
<1>5. z = x BY <1>3, <1>4
<1>6. QED BY <1>2, <1>5

\* The two folds over a queue: what it draws on a replica, and what is left of
\* it without a batch.
Draw == [fold |-> "draw", batch |-> {}]
Leave(batch) == [fold |-> "leave", batch |-> batch]
Fold(w, acc, c) ==
    IF w.fold = "draw" THEN ApplyCommand(acc, c)
    ELSE IF c.uuid \in w.batch THEN acc ELSE Append(acc, c)

\* One step of the recursion that defines a fold over the positions in S.
Unfold(w, base, q, it, S) ==
    IF S = {} THEN base ELSE Fold(w, it[S \ {Max(S)}], q[Max(S)])
Folds(w, base, q, it, m) == it = [S \in SUBSET (1..m) |-> Unfold(w, base, q, it, S)]

LEMMA FoldExists ==
    ASSUME NEW w, NEW base, NEW q
    PROVE  \A m \in Nat : \E it : Folds(w, base, q, it, m)
<1> DEFINE T == {m \in Nat : \E it : Folds(w, base, q, it, m)}
<1>1. 0 \in T
  <2>1. SUBSET (1..0) = {{}} OBVIOUS
  <2> DEFINE it == [S \in {{}} |-> base]
  <2>2. it = [S \in SUBSET (1..0) |-> Unfold(w, base, q, it, S)] BY <2>1 DEF Unfold
  <2>3. QED BY <2>2 DEF Folds
<1>2. ASSUME NEW m \in Nat, m \in T PROVE m + 1 \in T
  <2>1. PICK it : Folds(w, base, q, it, m) BY <1>2
  <2> DEFINE more == [S \in SUBSET (1..(m + 1)) |->
                        IF m + 1 \in S THEN Fold(w, it[S \ {m + 1}], q[m + 1]) ELSE it[S]]
  <2>2. \A S \in SUBSET (1..m) : it[S] = Unfold(w, base, q, it, S) BY <2>1 DEF Folds
  <2>3. ASSUME NEW S \in SUBSET (1..(m + 1)) PROVE more[S] = Unfold(w, base, q, more, S)
    <3>1. CASE m + 1 \in S
      <4>1. Max(S) = m + 1
        <5>1. m + 1 \in Nat /\ \A y \in S : m + 1 >= y OBVIOUS
        <5>2. QED BY <3>1, <5>1, MaxIs
      <4>2. S \ {m + 1} \in SUBSET (1..m) /\ S \ {m + 1} \in SUBSET (1..(m + 1)) OBVIOUS
      <4>3. more[S \ {m + 1}] = it[S \ {m + 1}] BY <4>2
      <4>4. more[S] = Fold(w, it[S \ {m + 1}], q[m + 1]) BY <3>1
      <4>5. S # {} BY <3>1
      <4> HIDE DEF more
      <4>6. QED BY <4>1, <4>3, <4>4, <4>5 DEF Unfold
    <3>2. CASE m + 1 \notin S
      <4>1. S \in SUBSET (1..m) BY <3>2
      <4>2. more[S] = it[S] BY <3>2
      <4>3. ASSUME S # {} PROVE more[S \ {Max(S)}] = it[S \ {Max(S)}] BY <3>2
      <4> HIDE DEF more
      <4>4. QED BY <2>2, <4>1, <4>2, <4>3 DEF Unfold
    <3>3. QED BY <3>1, <3>2
  <2>4. more = [S \in SUBSET (1..(m + 1)) |-> more[S]] OBVIOUS
  <2> HIDE DEF more
  <2>5. Folds(w, base, q, more, m + 1) BY <2>3, <2>4 DEF Folds
  <2>6. QED BY <2>5
<1>3. Nat \subseteq T
  <2> HIDE DEF T
  <2>1. QED BY <1>1, <1>2, Induction
<1>4. QED BY <1>3

FoldOf(w, base, q) ==
    (CHOOSE it : it = [S \in SUBSET (DOMAIN q) |-> Unfold(w, base, q, it, S)])[DOMAIN q]

\* A fold is what its steps, one command after the other, lead to.
Leads(f, w, base, q) ==
    /\ f[0] = base /\ f[Len(q)] = FoldOf(w, base, q)
    /\ \A k \in 1..Len(q) : f[k] = Fold(w, f[k - 1], q[k])

LEMMA FoldSteps ==
    ASSUME NEW w, NEW base, NEW q \in Queues
    PROVE  \E f : Leads(f, w, base, q)
<1>1. DOMAIN q = 1..Len(q) /\ Len(q) \in Nat BY DEF Queues
<1> DEFINE it == CHOOSE i : Folds(w, base, q, i, Len(q))
           f  == [k \in 0..Len(q) |-> it[1..k]]
<1>2. Folds(w, base, q, it, Len(q)) BY <1>1, FoldExists
<1>3. FoldOf(w, base, q) = it[1..Len(q)] BY <1>1 DEF Folds, FoldOf
<1> HIDE DEF it
<1>4. \A S \in SUBSET (1..Len(q)) : it[S] = Unfold(w, base, q, it, S) BY <1>2 DEF Folds
<1>5. f[0] = base
  <2>1. 1..0 = {} OBVIOUS
  <2>2. it[{}] = base BY <1>4 DEF Unfold
  <2>3. f[0] = it[1..0] BY <1>1
  <2>4. QED BY <2>1, <2>2, <2>3
<1>6. ASSUME NEW k \in 1..Len(q) PROVE f[k] = Fold(w, f[k - 1], q[k])
  <2>1. k \in Nat /\ k >= 1 BY <1>1
  <2>2. (1..k) \ {k} = 1..(k - 1) /\ k \in 1..k BY <2>1
  <2>3. 1..k \in SUBSET (1..Len(q)) BY <1>1, <2>1
  <2>4. Max(1..k) = k
    <3>1. \A y \in 1..k : k >= y BY <2>1
    <3>2. QED BY <2>1, <2>2, <3>1, MaxIs
  <2>5. it[1..k] = Fold(w, it[1..(k - 1)], q[k]) BY <1>4, <2>2, <2>3, <2>4 DEF Unfold
  <2>6. f[k] = it[1..k] /\ f[k - 1] = it[1..(k - 1)] BY <1>1, <2>1
  <2>7. QED BY <2>5, <2>6
<1>7. f[Len(q)] = FoldOf(w, base, q) BY <1>1, <1>3
<1>8. Leads(f, w, base, q) BY <1>5, <1>6, <1>7 DEF Leads
<1>9. QED BY <1>8

\* What every step keeps, the fold keeps.
LEMMA FoldKeeps ==
    ASSUME NEW w, NEW base, NEW q \in Queues, NEW Good, base \in Good,
           \A acc \in Good, k \in DOMAIN q : Fold(w, acc, q[k]) \in Good
    PROVE  FoldOf(w, base, q) \in Good
<1>1. DOMAIN q = 1..Len(q) /\ Len(q) \in Nat BY DEF Queues
<1> PICK f : Leads(f, w, base, q) BY FoldSteps
<1>2. /\ f[0] = base /\ f[Len(q)] = FoldOf(w, base, q)
      /\ \A k \in 1..Len(q) : f[k] = Fold(w, f[k - 1], q[k])
    BY DEF Leads
<1> DEFINE T == {n \in Nat : n <= Len(q) => f[n] \in Good}
<1>3. 0 \in T BY <1>2
<1>4. ASSUME NEW n \in Nat, n \in T PROVE n + 1 \in T
  <2>1. CASE n + 1 <= Len(q)
    <3>1. n + 1 \in 1..Len(q) /\ f[n] \in Good BY <1>1, <1>4, <2>1
    <3>2. f[n + 1] = Fold(w, f[n], q[n + 1]) BY <1>2, <3>1
    <3>3. QED BY <1>1, <3>1, <3>2
  <2>2. CASE ~(n + 1 <= Len(q)) BY <2>2
  <2>3. QED BY <2>1, <2>2
<1>5. Nat \subseteq T
  <2> HIDE DEF T
  <2>1. QED BY <1>3, <1>4, Induction
<1>6. QED BY <1>1, <1>2, <1>5

LEMMA DrawIs ==
    ASSUME NEW base, NEW q
    PROVE  FoldLeft(ApplyCommand, base, q) = FoldOf(Draw, base, q)
BY DEF FoldLeft, MapThenFoldSet, FoldOf, Unfold, Fold, Draw

LEMMA WithoutIs ==
    ASSUME NEW q, NEW batch
    PROVE  Without(q, batch) = FoldOf(Leave(batch), <<>>, q)
BY DEF FoldLeft, MapThenFoldSet, FoldOf, Unfold, Fold, Leave, Without

-----------------------------------------------------------------------------
(* What the operators of the device return *)

LEMMA UuidsOf == ASSUME NEW q \in Queues PROVE Uuids(q) \subseteq Cmds
<1>1. \A k \in DOMAIN q : q[k] \in Command BY DEF Queues
<1>2. QED BY <1>1 DEF Uuids, Command

LEMMA UuidsNone == Uuids(<<>>) = {}
<1>1. DOMAIN <<>> = {} OBVIOUS
<1>2. QED BY <1>1 DEF Uuids

LEMMA UuidsAppend ==
    ASSUME NEW q \in Queues, NEW c \in Command
    PROVE  Append(q, c) \in Queues /\ Uuids(Append(q, c)) = Uuids(q) \cup {c.uuid}
<1> PICK n : n = Len(q) + 1 OBVIOUS
<1>1. Append(q, c) \in Queues BY DEF Queues
<1>2. /\ DOMAIN Append(q, c) = DOMAIN q \cup {n} /\ Append(q, c)[n] = c
      /\ \A k \in DOMAIN q : Append(q, c)[k] = q[k]
    BY DEF Queues
<1>3. QED BY <1>1, <1>2 DEF Uuids

LEMMA RewriteKeeps ==
    ASSUME NEW q \in Queues, NEW mapping, \A t \in DOMAIN mapping : mapping[t] \in Nat
    PROVE  /\ RewriteRefs(q, mapping) \in Queues
           /\ Uuids(RewriteRefs(q, mapping)) = Uuids(q)
           /\ Len(RewriteRefs(q, mapping)) = Len(q)
<1> PICK r : r = RewriteRefs(q, mapping) OBVIOUS
<1>1. DOMAIN q = 1..Len(q) /\ Len(q) \in Nat BY DEF Queues
<1>2. r = [k \in 1..Len(q) |-> [q[k] EXCEPT !.ref = IF @ \in DOMAIN mapping THEN mapping[@] ELSE @]]
    BY <1>1 DEF RewriteRefs
<1>3. ASSUME NEW k \in 1..Len(q) PROVE r[k] \in Command /\ r[k].uuid = q[k].uuid
  <2> PICK c : c = q[k] OBVIOUS
  <2> PICK ref : ref = IF c.ref \in DOMAIN mapping THEN mapping[c.ref] ELSE c.ref OBVIOUS
  <2>1. c \in Command BY <1>1 DEF Queues
  <2>2. ref \in Nat \cup Adds BY <2>1 DEF Command
  <2>3. r[k] = [c EXCEPT !.ref = ref] BY <1>2
  <2>4. QED BY <2>1, <2>2, <2>3 DEF Command
<1>4. r \in Queues /\ Len(r) = Len(q) /\ DOMAIN r = DOMAIN q
  <2>1. r \in [1..Len(q) -> Command] BY <1>2, <1>3
  <2>2. QED BY <1>1, <2>1 DEF Queues
<1>5. Uuids(r) = Uuids(q) BY <1>1, <1>3, <1>4 DEF Uuids
<1>6. QED BY <1>4, <1>5

LEMMA WithoutKeeps ==
    ASSUME NEW q \in Queues, NEW batch
    PROVE  Without(q, batch) \in Queues /\ Uuids(Without(q, batch)) = Uuids(q) \ batch
<1>1. DOMAIN q = 1..Len(q) /\ Len(q) \in Nat BY DEF Queues
<1> PICK w : w = Leave(batch) OBVIOUS
<1>2. \A acc, c : Fold(w, acc, c) = IF c.uuid \in batch THEN acc ELSE Append(acc, c)
    BY DEF Fold, Leave
<1> PICK f : Leads(f, w, <<>>, q) BY FoldSteps
<1>3. /\ f[0] = <<>> /\ f[Len(q)] = FoldOf(w, <<>>, q)
      /\ \A k \in 1..Len(q) : f[k] = Fold(w, f[k - 1], q[k])
    BY DEF Leads
<1> DEFINE Past(n) == {q[k].uuid : k \in 1..n} \ batch
           T == {n \in Nat : n <= Len(q) => f[n] \in Queues /\ Uuids(f[n]) = Past(n)}
<1>4. 0 \in T
  <2>1. 1..0 = {} /\ <<>> \in Queues BY DEF Queues
  <2>2. Past(0) = {} BY <2>1
  <2> HIDE DEF Past
  <2>3. QED BY <1>3, <2>1, <2>2, UuidsNone
<1>5. ASSUME NEW n \in Nat, n \in T PROVE n + 1 \in T
  <2> SUFFICES ASSUME n + 1 <= Len(q)
               PROVE  f[n + 1] \in Queues /\ Uuids(f[n + 1]) = Past(n + 1)
      OBVIOUS
  <2> PICK c, g, m : c = q[n + 1] /\ g = f[n] /\ m = n + 1 OBVIOUS
  <2>1. n + 1 \in 1..Len(q) /\ n <= Len(q) BY <1>1
  <2>2. c \in Command BY <1>1, <2>1 DEF Queues
  <2>3. f[m] = IF c.uuid \in batch THEN g ELSE Append(g, c)
    <3>1. f[n + 1] = Fold(w, f[(n + 1) - 1], q[n + 1]) BY <1>3, <2>1
    <3>2. (n + 1) - 1 = n OBVIOUS
    <3>3. QED BY <1>2, <3>1, <3>2
  <2>4. g \in Queues /\ Uuids(g) = Past(n) BY <1>5, <2>1
  <2>5. Past(m) = Past(n) \cup ({c.uuid} \ batch)
    <3>1. 1..m = (1..n) \cup {m} OBVIOUS
    <3>2. QED BY <3>1
  <2> HIDE DEF Past
  <2>6. CASE c.uuid \in batch BY <2>3, <2>4, <2>5, <2>6
  <2>7. CASE c.uuid \notin batch
    <3>1. Append(g, c) \in Queues /\ Uuids(Append(g, c)) = Uuids(g) \cup {c.uuid}
        BY <2>2, <2>4, UuidsAppend
    <3>2. QED BY <2>3, <2>4, <2>5, <2>7, <3>1
  <2>8. QED BY <2>6, <2>7
<1>6. Nat \subseteq T
  <2> HIDE DEF T
  <2>1. QED BY <1>4, <1>5, Induction
<1>7. FoldOf(w, <<>>, q) \in Queues /\ Uuids(FoldOf(w, <<>>, q)) = Past(Len(q))
  <2>1. Len(q) \in T BY <1>1, <1>6
  <2>2. f[Len(q)] \in Queues /\ Uuids(f[Len(q)]) = Past(Len(q)) BY <1>1, <2>1
  <2> HIDE DEF Past
  <2>3. QED BY <1>3, <2>2
<1>8. Past(Len(q)) = Uuids(q) \ batch BY <1>1 DEF Uuids
<1> HIDE DEF Past
<1>9. QED BY <1>7, <1>8, WithoutIs

LEMMA ReplicaIs ==
    ASSUME NEW rep
    PROVE  rep \in Replicas <=> /\ DOMAIN rep \subseteq Ids \cup Adds /\ \A x \in DOMAIN rep : rep[x] \in Entry
                                /\ rep = [x \in DOMAIN rep |-> rep[x]]
BY DEF Replicas

LEMMA NoReplicaType == NoReplica \in Replicas
BY DEF Replicas, NoReplica

LEMMA PutReplica ==
    ASSUME NEW rep \in Replicas, NEW x \in Ids \cup Adds, NEW e \in Entry
    PROVE  Put(rep, x, e) \in Replicas
<1>1. DOMAIN rep \subseteq Ids \cup Adds /\ \A y \in DOMAIN rep : rep[y] \in Entry BY ReplicaIs
<1>2. Put(rep, x, e) \in [DOMAIN rep \cup {x} -> Entry] BY <1>1 DEF Put
<1>3. QED BY <1>1, <1>2 DEF Replicas

LEMMA ApplyKeeps ==
    ASSUME NEW rep \in Replicas, NEW c \in Command
    PROVE  ApplyCommand(rep, c) \in Replicas
<1>1. c.uuid \in Contents /\ c.uuid \in Cmds BY DEF Command, Contents
<1>2. CASE c.uuid \in Adds
  <2> DEFINE e == [content |-> c.uuid, is_deleted |-> FALSE]
  <2>1. e \in Entry BY <1>1 DEF Entry
  <2> HIDE DEF e
  <2>2. QED BY <1>2, <2>1, PutReplica DEF ApplyCommand, e
<1>3. CASE c.uuid \notin Adds /\ c.ref \in DOMAIN rep
  <2> PICK del : del = (rep[c.ref].is_deleted \/ c.uuid \in Deletes) OBVIOUS
  <2> DEFINE e == [content |-> c.uuid, is_deleted |-> del]
  <2>1. c.ref \in Ids \cup Adds BY <1>3, ReplicaIs
  <2>2. del \in BOOLEAN OBVIOUS
  <2>3. e \in Entry BY <1>1, <2>2 DEF Entry
  <2>4. ApplyCommand(rep, c) = Put(rep, c.ref, e) BY <1>3 DEF ApplyCommand
  <2> HIDE DEF e
  <2>5. QED BY <2>1, <2>3, <2>4, PutReplica
<1>4. CASE c.uuid \notin Adds /\ c.ref \notin DOMAIN rep BY <1>4 DEF ApplyCommand
<1>5. QED BY <1>2, <1>3, <1>4

LEMMA DrawKeeps ==
    ASSUME NEW base \in Replicas, NEW q \in Queues
    PROVE  FoldLeft(ApplyCommand, base, q) \in Replicas
<1>1. \A acc, c : Fold(Draw, acc, c) = ApplyCommand(acc, c) BY DEF Fold, Draw
<1>2. \A k \in DOMAIN q : q[k] \in Command BY DEF Queues
<1>3. \A acc \in Replicas, k \in DOMAIN q : Fold(Draw, acc, q[k]) \in Replicas BY <1>1, <1>2, ApplyKeeps
<1>4. QED BY <1>3, FoldKeeps, DrawIs

-----------------------------------------------------------------------------
(* The server, as the device sees it *)

\* Its log holds only what took effect, and so do the "ok"s of its requests.
OkIsApplied ==
    /\ synced \subseteq Applied
    /\ \A s \in Slots : \A c \in DOMAIN req[s].status : req[s].status[c] = "ok" => c \in Applied

\* A request has an answer for every command it is past, and is past all of
\* them when it is done.
Answers ==
    \A s \in Slots :
        /\ req[s].i > 0
        /\ \A k \in DOMAIN req[s].cmds : k < req[s].i => req[s].cmds[k].uuid \in DOMAIN req[s].status
        /\ req[s].pc \in {"collect", "done"} /\ req[s].code = "ok" => ~AtCommand(s)

-----------------------------------------------------------------------------
(* The lane *)

\* A job that holds the lane is at one of its own steps.
LaneShape ==
    /\ lane.slots # {} => lane.step \in {"reply", "flag"}
    /\ lane.step # "start" => lane.job \in {"flush", "pull", "recover"}
    /\ lane.step \in {"flag", "queue"} => lane.job = "flush"
    /\ \A s, t \in lane.slots : s = t

\* The request the lane waits for carries the lane's batch, or failed.
OurRequest ==
    \A s \in lane.slots :
        /\ req[s].pc # "free"
        /\ Uuids(req[s].cmds) = lane.batch \/ (req[s].pc = "done" /\ req[s].code = "unavailable")

\* The server answered for a command: it took effect or was refused.
Decided == Applied \cup refused

\* Once refusals are flagged, every command of the batch has its answer.
FlagDecided == lane.step = "flag" => lane.batch \subseteq Decided

\* The process is not running, or waits for what it read from the disk.
Asleep ==
    /\ up = "down" \/ Reading =>
          /\ writes = <<>> /\ queue = <<>> /\ replica = NoReplica /\ syncToken = Star
          /\ ~needsFullSync /\ idAliases = NoReplica /\ lane = Idle /\ rejected = {}
    /\ Reading => up = "up" /\ stored = Found

-----------------------------------------------------------------------------
(* What became of a saved change *)

\* Where a change may have gone besides the queue.
Accounted == Decided \cup discarded

\* The queues among the writes hold only commands of E.
HoldsOnly(ws, E) == \A k \in DOMAIN ws : ws[k].key = "queue" => Uuids(ws[k].value) \subseteq E

\* The queue on disk, q0, and after it each queue among the writes before the n-th,
\* holds every change saved by the time it is the stored one, or E excuses it.
Orderly(E, sv, q0, ws, n) ==
    /\ sv \subseteq Uuids(q0) \cup E
    /\ \A k \in DOMAIN ws : ws[k].key = "queue" /\ k < n => sv \subseteq Uuids(ws[k].value) \cup E
    /\ \A j, k \in DOMAIN ws :
          ws[j].key = "queue" /\ ws[k].key = "queue" /\ j < k /\ k < n =>
              Uuids(ws[j].value) \subseteq Uuids(ws[k].value) \cup E
InOrder(E, n) == Orderly(E, saved, disk.queue, writes, n)

\* A notice of a loss, the n-th of the writes.
Notice(ws, n) == n \in DOMAIN ws /\ ws[n].key = "lossNotice" /\ ws[n].value > 0

\* So does the queue in memory.
InMemory ==
    up = "up" /\ ~Reading =>
        /\ saved \subseteq Uuids(queue) \cup Accounted
        /\ HoldsOnly(writes, Uuids(queue) \cup Accounted)

\* A change leaves the queues on disk only after it left the queue in memory.
NotAhead ==
    lane.job \notin {"lost", "gone"} => InOrder(Cmds \ Uuids(queue), Len(writes) + 1)

\* A purge does not touch the stored queue before the notice is on disk.
NoticeFirst ==
    \A n \in Nat : Notice(writes, n) =>
        lane.job = "lost" /\ InOrder(Decided \cup (discarded \ lane.batch), n)

\* Only what the user made is queued or saved.
OnlyMade ==
    /\ IsFiniteSet(made) /\ made \subseteq Mine /\ saved \subseteq made /\ refused \subseteq made /\ rejected \subseteq refused
    /\ Uuids(queue) \subseteq made /\ Uuids(disk.queue) \subseteq made /\ lane.batch \subseteq made
    /\ Reading => Uuids(stored.queue) \subseteq made
    /\ HoldsOnly(writes, made)

Kept ==
    /\ InOrder(Accounted, Len(writes) + 1)
    /\ InMemory /\ NotAhead /\ NoticeFirst
    /\ lane.job = "lost" => Uuids(queue) \subseteq discarded

\* What a start's purge has counted is given up, and the screen goes first.
Purged ==
    Purging => /\ Uuids(disk.queue) \subseteq discarded
               /\ purge.removed >= 1 => disk.replica = NoReplica
               /\ purge.removed >= 4 => disk.queue = <<>>

\* What holds of every device, and what holds besides when the user and the timers
\* wait for the reads of a start.
Base == Typed /\ OkIsApplied /\ Answers /\ DeviceTyped /\ LaneShape /\ OurRequest /\ FlagDecided /\ OnlyMade
Careful == Base /\ Asleep /\ Purged /\ Kept

-----------------------------------------------------------------------------
(* What a step of the device does to the server *)

ServerStep ==
    \/ UNCHANGED serverVars
    \/ \E s \in Slots : Serve(s) \/ Unavailable(s)
    \/ Quiet /\ \E s \in Slots : FreeSlot(s)
    \/ Quiet /\ \E s \in Slots, cs \in Queues, tok \in Tokens : Send(s, Device, cs, tok)
    \/ UNCHANGED req /\ \E u \in Users, c \in Command : Commits(u, c)
    \/ Stamps
    \/ DeleteWorkspace

LEMMA SendType ==
    ASSUME Typed, NEW s \in Slots, NEW u \in Users, NEW cs \in Queues, NEW tok \in Tokens,
           Send(s, u, cs, tok)
    PROVE  req' \in [Slots -> Request] /\ AtTheLock'
<1> DEFINE r == [Free EXCEPT !.pc = "sent", !.user = u, !.cmds = cs, !.token = tok]
<1>1. r \in Request /\ r.pc = "sent" BY FreeRequest DEF Request, Queues, Tokens
<1>2. QED BY <1>1, SetRequest DEF Send, Typed

LEMMA ServerTyped == Typed /\ ServerStep => Typed'
<1> SUFFICES ASSUME Typed, ServerStep PROVE Typed' OBVIOUS
<1>1. ASSUME Quiet PROVE DataTypeOK' /\ MemberRows'
    BY <1>1 DEF Quiet, DataTypeOK, MemberRows, Typed, TypeOK
<1>2. ASSUME DataTypeOK', MemberRows', req' \in [Slots -> Request], AtTheLock' PROVE Typed'
    BY <1>2 DEF DataTypeOK, Typed, TypeOK
<1>3. ASSUME UNCHANGED req PROVE req' \in [Slots -> Request] /\ AtTheLock'
    BY <1>3 DEF Typed, TypeOK, AtTheLock, AtCommand
<1>4. ASSUME NEW s \in Slots, Serve(s) \/ Unavailable(s) PROVE Typed'
  <2>1. [Next]_serverVars BY <1>4 DEF Next
  <2>2. QED BY <2>1, TypedStep
<1>5. ASSUME Quiet, NEW s \in Slots, FreeSlot(s) PROVE Typed'
  <2>1. Free.pc = "free" BY DEF Free
  <2>2. req' \in [Slots -> Request] /\ AtTheLock'
      BY <1>5, <2>1, FreeRequest, SetRequest DEF FreeSlot, Typed
  <2>3. QED BY <1>1, <1>2, <1>5, <2>2
<1>6. ASSUME Quiet, NEW s \in Slots, NEW cs \in Queues, NEW tok \in Tokens, Send(s, Device, cs, tok)
      PROVE  Typed'
    BY <1>1, <1>2, <1>6, SendType, ClientConstants
<1>7. ASSUME UNCHANGED req, NEW u \in Users, NEW c \in Command, Commits(u, c) PROVE Typed'
    BY <1>2, <1>3, <1>7, CommitType
<1>8. CASE Stamps BY <1>2, <1>3, <1>8, StampType DEF Stamps
<1>9. CASE DeleteWorkspace BY <1>2, <1>3, <1>9, DeleteType
<1>10. CASE UNCHANGED serverVars BY <1>1, <1>2, <1>3, <1>10 DEF serverVars, Quiet
<1>11. QED BY <1>4, <1>5, <1>6, <1>7, <1>8, <1>9, <1>10 DEF ServerStep

\* The log and the ledger: a step leaves them, commits, stamps or deletes.
LEMMA DataStep ==
    ASSUME Typed, ServerStep
    PROVE  \/ Quiet
           \/ \E u \in Users, c \in Command : Commits(u, c)
           \/ Stamps
           \/ DeleteWorkspace
<1>1. ASSUME NEW s \in Slots, Serve(s) \/ Unavailable(s)
      PROVE  Quiet \/ \E u \in Users, c \in Command : Commits(u, c)
  <2>1. CASE Apply(s) BY <2>1, ApplyStep
  <2>2. Unavailable(s) => Quiet BY DEF Unavailable, Quiet
  <2>3. Admit(s) \/ CheckLog(s) \/ RefuseViewer(s) => Quiet BY DEF Admit, CheckLog, RefuseViewer, Quiet
  <2>4. ReadVersion(s) \/ Collect(s) => Quiet BY DEF ReadVersion, Collect, Quiet
  <2>5. QED BY <1>1, <2>1, <2>2, <2>3, <2>4 DEF Serve
<1>2. UNCHANGED serverVars => Quiet BY DEF serverVars, Quiet
<1>3. QED BY <1>1, <1>2 DEF ServerStep

\* What took effect stays so.
LEMMA AppliedGrows ==
    ASSUME Typed, ServerStep
    PROVE  Applied \subseteq Applied' /\ (synced \subseteq Applied => synced' \subseteq Applied')
<1>1. CASE Quiet BY <1>1 DEF Quiet, Applied
<1>2. CASE DeleteWorkspace BY <1>2 DEF DeleteWorkspace, Applied
<1>3. ASSUME NEW e, ledger' = Append(ledger, e) PROVE Applied \subseteq Applied' /\ ({e.cmd} \ {NoCmd}) \subseteq Applied'
  <2>1. PICK n : n = Len(ledger) + 1 OBVIOUS
  <2>2. /\ DOMAIN ledger' = DOMAIN ledger \cup {n} /\ ledger'[n] = e
        /\ \A v \in DOMAIN ledger : ledger'[v] = ledger[v]
      BY <1>3, <2>1, LedgerGrows
  <2>3. QED BY <2>2 DEF Applied
<1>4. CASE Stamps BY <1>3, <1>4 DEF Stamps, StampMember
<1>5. ASSUME NEW u \in Users, NEW c \in Command, Commits(u, c)
      PROVE  Applied \subseteq Applied' /\ (synced \subseteq Applied => synced' \subseteq Applied')
  <2>1. PICK e : ledger' = Append(ledger, e) /\ e.cmd = c.uuid BY <1>5 DEF Commits, Commit
  <2>2. synced' = synced \cup {c.uuid} BY <1>5 DEF Commits, Commit
  <2>3. c.uuid # NoCmd BY ServerConstants DEF Command
  <2>4. QED BY <1>3, <2>1, <2>2, <2>3
<1>6. QED BY <1>1, <1>2, <1>4, <1>5, DataStep

LEMMA ReportsOn ==
    ASSUME Typed, ServerStep, NEW s \in Slots
    PROVE  Reports(s)
<1>1. Free.status = <<>> /\ DOMAIN <<>> = {} BY DEF Free
<1>2. ASSUME NEW t \in Slots, Serve(t) \/ Unavailable(t) PROVE Reports(s)
    BY <1>2, ReportsStep DEF Next
<1>3. ASSUME NEW t \in Slots, FreeSlot(t) PROVE Reports(s)
    BY <1>1, <1>3 DEF FreeSlot, Reports, Typed, TypeOK
<1>4. ASSUME NEW t \in Slots, NEW cs, NEW tok, Send(t, Device, cs, tok) PROVE Reports(s)
    BY <1>1, <1>4 DEF Send, Reports, Typed, TypeOK, Free
<1>5. ASSUME UNCHANGED req PROVE Reports(s) BY <1>5 DEF Reports
<1>6. CASE Stamps BY <1>5, <1>6 DEF Stamps, StampMember
<1>7. CASE DeleteWorkspace BY <1>5, <1>7 DEF DeleteWorkspace
<1>8. QED BY <1>2, <1>3, <1>4, <1>5, <1>6, <1>7 DEF ServerStep, serverVars

LEMMA OkStep ==
    ASSUME Typed, OkIsApplied, ServerStep
    PROVE  OkIsApplied'
<1>1. Applied \subseteq Applied' /\ synced' \subseteq Applied' BY AppliedGrows DEF OkIsApplied
<1>2. \A s \in Slots : Reports(s) BY ReportsOn
<1>3. QED BY <1>1, <1>2 DEF OkIsApplied, Reports

\* One request is answered for what it is past.
AnswersFor(r) ==
    /\ r.i > 0
    /\ \A k \in DOMAIN r.cmds : k < r.i => r.cmds[k].uuid \in DOMAIN r.status
    /\ r.pc \in {"collect", "done"} /\ r.code = "ok" => r.i \notin DOMAIN r.cmds

LEMMA AnswersIs == Answers <=> \A s \in Slots : AnswersFor(req[s])
BY DEF Answers, AnswersFor, AtCommand

LEMMA AnswersPut ==
    ASSUME Typed, Answers, NEW t \in Slots, NEW r, AnswersFor(r), req' = [req EXCEPT ![t] = r]
    PROVE  Answers'
<1>1. \A s \in Slots : req'[s] = IF s = t THEN r ELSE req[s] BY DEF Typed, TypeOK
<1>2. \A s \in Slots : AnswersFor(req'[s]) BY <1>1, AnswersIs
<1>3. Answers' <=> \A s \in Slots : AnswersFor(req'[s])
    BY DEF Answers, AnswersFor, AtCommand
<1>4. QED BY <1>2, <1>3

LEMMA AnswersReport ==
    ASSUME Typed, Answers, NEW t \in Slots, AtCommand(t), NEW v, Report(t, v)
    PROVE  Answers'
<1> PICK q : q = req[t] OBVIOUS
<1>1. q \in Request /\ AnswersFor(q) BY AnswersIs DEF Typed, TypeOK
<1>2. Current(t).uuid = q.cmds[q.i].uuid BY DEF Current
<1> DEFINE st == Put(q.status, q.cmds[q.i].uuid, v)
           r == [q EXCEPT !.pc = "command", !.i = q.i + 1, !.status = st]
<1>3. req' = [req EXCEPT ![t] = r] BY <1>2 DEF Report
<1>4. r.pc = "command" /\ r.i = q.i + 1 /\ r.cmds = q.cmds /\ r.status = st BY <1>1 DEF Request
<1>5. DOMAIN st = DOMAIN q.status \cup {q.cmds[q.i].uuid} BY DEF Put
<1>6. q.i \in Nat /\ q.cmds \in Seq(Command) BY <1>1 DEF Request
<1>7. DOMAIN q.cmds \subseteq Nat BY <1>6
<1>8. AnswersFor(r)
  <2> HIDE DEF r, st
  <2>1. \A k \in DOMAIN q.cmds : k < q.i + 1 => k < q.i \/ k = q.i BY <1>6, <1>7
  <2>2. QED BY <1>1, <1>4, <1>5, <1>6, <2>1 DEF AnswersFor
<1> HIDE DEF r
<1>9. QED BY <1>3, <1>8, AnswersPut

LEMMA AnswersStep ==
    ASSUME Typed, Answers, ServerStep
    PROVE  Answers'
<1>1. AnswersFor(Free)
  <2>1. Free.cmds = <<>> /\ Free.i = 1 /\ Free.pc = "free" /\ DOMAIN <<>> = {} BY DEF Free
  <2>2. QED BY <2>1 DEF AnswersFor
<1>2. ASSUME NEW t \in Slots, Serve(t) \/ Unavailable(t) PROVE Answers'
  <2> PICK q : q = req[t] OBVIOUS
  <2>1. q \in Request /\ AnswersFor(q) /\ (q.pc = "lock" => AtCommand(t)) BY AnswersIs DEF Typed, TypeOK, AtTheLock
  <2>2. CASE Unavailable(t)
    <3> DEFINE r == [Free EXCEPT !.pc = "done", !.code = "unavailable"]
    <3>1. r.cmds = <<>> /\ r.i = 1 /\ r.code = "unavailable" /\ DOMAIN <<>> = {} BY DEF Free
    <3>2. AnswersFor(r) BY <3>1 DEF AnswersFor
    <3>3. req' = [req EXCEPT ![t] = r] BY <2>2 DEF Unavailable
    <3> HIDE DEF r
    <3>4. QED BY <3>2, <3>3, AnswersPut
  <2>3. CASE CheckLog(t)
    <3>1. CASE Report(t, "ok") BY <2>3, <3>1, AnswersReport DEF CheckLog
    <3>2. CASE req' = [req EXCEPT ![t].pc = "lock"]
      <4> DEFINE r == [q EXCEPT !.pc = "lock"]
      <4>1. AnswersFor(r) BY <2>1 DEF AnswersFor, Request
      <4>2. req' = [req EXCEPT ![t] = r] BY <3>2
      <4> HIDE DEF r
      <4>3. QED BY <4>1, <4>2, AnswersPut
    <3>3. QED BY <2>3, <3>1, <3>2 DEF CheckLog
  <2>4. CASE RefuseViewer(t) BY <2>1, <2>4, AnswersReport DEF RefuseViewer
  <2>5. CASE Apply(t) BY <2>1, <2>5, AnswersReport DEF Apply
  <2>6. CASE Admit(t)
    <3>1. ASSUME NEW code \in {"not_found", "forbidden"}, req' = [req EXCEPT ![t].pc = "done", ![t].code = code]
          PROVE  Answers'
      <4> DEFINE r == [q EXCEPT !.pc = "done", !.code = code]
      <4>1. AnswersFor(r) BY <2>1 DEF AnswersFor, Request
      <4>2. req' = [req EXCEPT ![t] = r] BY <3>1
      <4> HIDE DEF r
      <4>3. QED BY <4>1, <4>2, AnswersPut
    <3>2. ASSUME NEW role, req' = [req EXCEPT ![t].pc = "command", ![t].role = role] PROVE Answers'
      <4> DEFINE r == [q EXCEPT !.pc = "command", !.role = role]
      <4>1. AnswersFor(r) BY <2>1 DEF AnswersFor, Request
      <4>2. req' = [req EXCEPT ![t] = r] BY <3>2
      <4> HIDE DEF r
      <4>3. QED BY <4>1, <4>2, AnswersPut
    <3>3. QED BY <2>6, <3>1, <3>2 DEF Admit
  <2>7. CASE ReadVersion(t)
    <3>1. ASSUME NEW v, req' = [req EXCEPT ![t].pc = "collect", ![t].upper = v] PROVE Answers'
      <4> DEFINE r == [q EXCEPT !.pc = "collect", !.upper = v]
      <4>1. r.i \notin DOMAIN r.cmds BY <2>1, <2>7 DEF ReadVersion, AtCommand, Request
      <4>2. AnswersFor(r) BY <2>1, <4>1 DEF AnswersFor, Request
      <4>3. req' = [req EXCEPT ![t] = r] BY <3>1
      <4> HIDE DEF r
      <4>4. QED BY <4>2, <4>3, AnswersPut
    <3>2. QED BY <2>7, <3>1 DEF ReadVersion
  <2>8. CASE Collect(t)
    <3>1. ASSUME NEW g, NEW k, NEW pc \in {"done", "collect"},
                 req' = [req EXCEPT ![t].got = g, ![t].k = k, ![t].pc = pc]
          PROVE  Answers'
      <4> DEFINE r == [q EXCEPT !.got = g, !.k = k, !.pc = pc]
      <4>1. q.code = "ok" => q.i \notin DOMAIN q.cmds BY <2>1, <2>8 DEF Collect, AnswersFor
      <4>2. AnswersFor(r) BY <2>1, <4>1 DEF AnswersFor, Request
      <4>3. req' = [req EXCEPT ![t] = r] BY <3>1
      <4> HIDE DEF r
      <4>4. QED BY <4>2, <4>3, AnswersPut
    <3>2. QED BY <2>8, <3>1 DEF Collect
  <2>9. QED BY <1>2, <2>2, <2>3, <2>4, <2>5, <2>6, <2>7, <2>8 DEF Serve
<1>3. ASSUME NEW t \in Slots, FreeSlot(t) PROVE Answers'
    BY <1>1, <1>3, AnswersPut DEF FreeSlot
<1>4. ASSUME NEW t \in Slots, NEW cs \in Queues, NEW tok, Send(t, Device, cs, tok) PROVE Answers'
  <2> DEFINE r == [Free EXCEPT !.pc = "sent", !.user = Device, !.cmds = cs, !.token = tok]
  <2>1. r.i = 1 /\ r.pc = "sent" /\ r.cmds = cs BY DEF Free
  <2>2. DOMAIN cs \subseteq Nat \ {0} BY DEF Queues
  <2>3. \A k \in DOMAIN cs : ~(k < 1) BY <2>2
  <2> HIDE DEF r
  <2>4. AnswersFor(r) BY <2>1, <2>3 DEF AnswersFor
  <2>5. req' = [req EXCEPT ![t] = r] BY <1>4 DEF Send, r
  <2>6. QED BY <2>4, <2>5, AnswersPut
<1>5. ASSUME UNCHANGED req PROVE Answers' BY <1>5 DEF Answers, AtCommand
<1>6. CASE Stamps BY <1>5, <1>6 DEF Stamps, StampMember
<1>7. CASE DeleteWorkspace BY <1>5, <1>7 DEF DeleteWorkspace
<1>8. QED BY <1>2, <1>3, <1>4, <1>5, <1>6, <1>7 DEF ServerStep, serverVars

-----------------------------------------------------------------------------
(* A reply *)

LEMMA EntryOfRow ==
    ASSUME NEW got \in SUBSET Copy, NEW id \in {c.id : c \in LiveCopies(got)}
    PROVE  id \in Ids /\ EntryOf(RowOf(got, id)) \in Entry
<1>1. PICK c \in got : c.id = id BY DEF LiveCopies
<1> PICK d : d = CHOOSE x \in got : x.id = id OBVIOUS
<1>2. d \in got BY <1>1
<1>3. c \in Copy /\ d \in Copy BY <1>2
<1>4. id \in Ids BY <1>1, <1>3 DEF Copy
<1>5. d.row \in Row /\ d.row.content \in Contents BY <1>3 DEF Copy, Row
<1>6. RowOf(got, id) = d.row BY DEF RowOf
<1>7. EntryOf(d.row) \in Entry BY <1>5 DEF EntryOf, Entry
<1>8. QED BY <1>4, <1>6, <1>7

LEMMA ReplacedKeeps ==
    ASSUME NEW got \in SUBSET Copy, NEW q \in Queues
    PROVE  Replaced(got, q) \in Replicas
<1> DEFINE base == [id \in {c.id : c \in LiveCopies(got)} |-> EntryOf(RowOf(got, id))]
<1>1. DOMAIN base \subseteq Ids /\ \A id \in DOMAIN base : base[id] \in Entry BY EntryOfRow
<1>2. base \in Replicas
  <2>1. base = [x \in DOMAIN base |-> base[x]] OBVIOUS
  <2> HIDE DEF base
  <2>2. QED BY <1>1, <2>1, ReplicaIs
<1>3. Replaced(got, q) = FoldLeft(ApplyCommand, base, q) BY DEF Replaced
<1> HIDE DEF base
<1>4. QED BY <1>2, <1>3, DrawKeeps

LEMMA MergedKeeps ==
    ASSUME NEW rep \in Replicas, NEW mapping, NEW got \in SUBSET Copy
    PROVE  Merged(rep, mapping, got) \in Replicas
<1> PICK r : r = Merged(rep, mapping, got) OBVIOUS
<1> DEFINE live == {c.id : c \in LiveCopies(got)}
           gone == {c.id : c \in got \ LiveCopies(got)}
           S    == ((DOMAIN rep \ DOMAIN mapping) \ gone) \cup live
<1>1. DOMAIN rep \subseteq Ids \cup Adds /\ \A x \in DOMAIN rep : rep[x] \in Entry BY ReplicaIs
<1>2. r = [id \in S |-> IF id \in live THEN EntryOf(RowOf(got, id)) ELSE rep[id]] BY DEF Merged
<1>3. \A id \in live : id \in Ids /\ EntryOf(RowOf(got, id)) \in Entry BY EntryOfRow
<1>4. r \in [S -> Entry] /\ S \subseteq Ids \cup Adds
  <2>1. \A id \in S : (id \in live \/ id \in DOMAIN rep) OBVIOUS
  <2> HIDE DEF S, live
  <2>2. QED BY <1>1, <1>2, <1>3, <2>1
<1> HIDE DEF S
<1>5. QED BY <1>4 DEF Replicas

LEMMA MappingType ==
    ASSUME Typed, OkIsApplied, NEW s \in Slots
    PROVE  /\ DOMAIN Mapping(s) \subseteq Adds
           /\ \A t \in DOMAIN Mapping(s) : Mapping(s)[t] \in Nat
<1> PICK m : m = Mapping(s) OBVIOUS
<1>1. DOMAIN m = {x \in Adds \cap DOMAIN req[s].status : req[s].status[x] = "ok"} BY DEF Mapping
<1>2. ASSUME NEW t \in DOMAIN m PROVE m[t] \in Nat
  <2>1. t \in Applied BY <1>1 DEF OkIsApplied
  <2>2. \E v \in DOMAIN ledger : ledger[v].cmd = t BY <2>1 DEF Applied
  <2>3. m[t] = CHOOSE v \in DOMAIN ledger : ledger[v].cmd = t BY <1>1 DEF Mapping
  <2>4. m[t] \in DOMAIN ledger BY <2>2, <2>3
  <2>5. DOMAIN ledger \subseteq Nat BY DEF Typed, TypeOK
  <2>6. QED BY <2>4, <2>5
<1>3. QED BY <1>1, <1>2

\* Folding a reply in keeps the types, and the queue is what was left to do.
LEMMA ResponseType ==
    ASSUME Typed, OkIsApplied, DeviceTyped, NEW s \in Slots, NEW rest \in Queues,
           ApplyResponse(s, rest)
    PROVE  /\ queue' \in Queues /\ Uuids(queue') = Uuids(rest) /\ Len(queue') = Len(rest)
           /\ replica' \in Replicas /\ syncToken' \in Tokens
           /\ DOMAIN idAliases' \subseteq Adds /\ \A t \in DOMAIN idAliases' : idAliases'[t] \in Nat
<1> PICK m : m = Mapping(s) OBVIOUS
<1> PICK q : q = RewriteRefs(rest, m) OBVIOUS
<1>1. DOMAIN m \subseteq Adds /\ \A t \in DOMAIN m : m[t] \in Nat BY MappingType
<1>2. q \in Queues /\ Uuids(q) = Uuids(rest) /\ Len(q) = Len(rest) BY <1>1, RewriteKeeps
<1>3. req[s] \in Request BY DEF Typed, TypeOK
<1>4. req[s].got \in SUBSET Copy /\ req[s].upper \in Nat BY <1>3 DEF Request
<1>5. queue' = q BY DEF ApplyResponse
<1>6. replica' \in Replicas
  <2>1. replica' = IF req[s].token = Star THEN Replaced(req[s].got, q) ELSE Merged(replica, m, req[s].got)
      BY DEF ApplyResponse
  <2>2. Replaced(req[s].got, q) \in Replicas BY <1>2, <1>4, ReplacedKeeps
  <2>3. replica \in Replicas BY DEF DeviceTyped
  <2>4. Merged(replica, m, req[s].got) \in Replicas BY <1>4, <2>3, MergedKeeps
  <2>5. QED BY <2>1, <2>2, <2>4
<1>7. syncToken' \in Tokens BY <1>4 DEF ApplyResponse, Tokens
<1>8. DOMAIN idAliases' \subseteq Adds /\ \A t \in DOMAIN idAliases' : idAliases'[t] \in Nat
  <2>1. idAliases' = [t \in DOMAIN m \cup DOMAIN idAliases |->
                        IF t \in DOMAIN m THEN m[t] ELSE idAliases[t]]
      BY DEF ApplyResponse
  <2>2. QED BY <1>1, <2>1 DEF DeviceTyped
<1>9. QED BY <1>2, <1>5, <1>6, <1>7, <1>8

-----------------------------------------------------------------------------
(* The device's steps: types *)

LEMMA FormsAreCommands ==
    ASSUME Typed, NEW c \in Cmds
    PROVE  Forms(c) \subseteq Command /\ \A f \in Forms(c) : f.uuid = c
<1>1. c \in Adds => Forms(c) = {[uuid |-> c, ref |-> c]} BY DEF Forms
<1>2. c \notin Adds => Target[c] \in Adds BY ServerConstants
<1>3. \A t \in DOMAIN temps : temps[t] \in Nat BY DEF Typed, TypeOK
<1>4. QED BY <1>1, <1>2, <1>3 DEF Forms, Command

LEMMA BatchOfQueue ==
    ASSUME NEW q \in Queues, NEW n \in Nat, n <= Len(q)
    PROVE  SubSeq(q, 1, n) \in Queues /\ Uuids(SubSeq(q, 1, n)) \subseteq Uuids(q)
<1> PICK r : r = SubSeq(q, 1, n) OBVIOUS
<1>1. DOMAIN q = 1..Len(q) /\ Len(q) \in Nat BY DEF Queues
<1>2. r \in Queues BY <1>1 DEF Queues
<1>3. DOMAIN r = 1..n /\ \A k \in 1..n : r[k] = q[k] BY <1>1 DEF Queues
<1>4. QED BY <1>1, <1>2, <1>3 DEF Uuids

\* What the device asks with, and what it sends.
BatchNow == SubSeq(queue, 1, IF Len(queue) < BatchSize THEN Len(queue) ELSE BatchSize)

LEMMA BatchNowType ==
    ASSUME DeviceTyped
    PROVE  BatchNow \in Queues /\ Uuids(BatchNow) \subseteq Uuids(queue) /\ AskFor \in Tokens
<1>1. Len(queue) \in Nat /\ BatchSize \in Nat BY ClientConstants DEF DeviceTyped, Queues
<1> PICK n : n = IF Len(queue) < BatchSize THEN Len(queue) ELSE BatchSize OBVIOUS
<1>2. n \in Nat /\ n <= Len(queue) BY <1>1
<1>3. BatchNow = SubSeq(queue, 1, n) BY DEF BatchNow
<1>4. AskFor \in Tokens BY DEF AskFor, DeviceTyped, Tokens
<1>5. QED BY <1>2, <1>3, <1>4, BatchOfQueue DEF DeviceTyped

\* The steps of a start's purge.
PurgeSteps == BootPurges \/ RemoveKey \/ BootReports \/ KillInPurge

LEMMA OrderIs ==
    /\ Len(PurgeOrder) = 5
    /\ PurgeOrder[1] = "replica" /\ PurgeOrder[2] = "token" /\ PurgeOrder[3] = "needsFullSync"
    /\ PurgeOrder[4] = "queue" /\ PurgeOrder[5] = "lossNotice"
BY DEF PurgeOrder

\* A purge touches neither the server nor the memory, and only removes from the disk.
LEMMA PurgeKeeps ==
    ASSUME DeviceTyped, PurgeSteps
    PROVE  /\ up = "down"
           /\ UNCHANGED <<serverVars, up, stored, volatile, writes, made, saved, refused, waived>>
           /\ ~RemoveKey => disk' = disk
<1>1. up = "down" BY DEF DeviceTyped, PurgeSteps, BootPurges, RemoveKey, BootReports, KillInPurge
<1>2. UNCHANGED <<serverVars, up, stored, volatile, writes, made, saved, refused, waived>>
    BY DEF PurgeSteps, BootPurges, RemoveKey, BootReports, KillInPurge, history
<1>3. ~RemoveKey => disk' = disk BY DEF PurgeSteps, BootPurges, BootReports, KillInPurge
<1>4. QED BY <1>1, <1>2, <1>3

\* The key that is removed, the n-th, and no other.
Removes(d, d2, n) ==
    /\ d2.replica = IF n = 1 THEN NoReplica ELSE d.replica
    /\ d2.token = IF n = 2 THEN Star ELSE d.token
    /\ d2.needsFullSync = IF n = 3 THEN FALSE ELSE d.needsFullSync
    /\ d2.queue = IF n = 4 THEN <<>> ELSE d.queue
    /\ d2.lossNotice = IF n = 5 THEN 0 ELSE d.lossNotice

LEMMA WithoutKey ==
    ASSUME NEW d \in Disk
    PROVE  /\ [d EXCEPT !.replica = NoReplica] \in Disk /\ Removes(d, [d EXCEPT !.replica = NoReplica], 1)
           /\ [d EXCEPT !.token = Star] \in Disk /\ Removes(d, [d EXCEPT !.token = Star], 2)
           /\ [d EXCEPT !.needsFullSync = FALSE] \in Disk /\ Removes(d, [d EXCEPT !.needsFullSync = FALSE], 3)
           /\ [d EXCEPT !.queue = <<>>] \in Disk /\ Removes(d, [d EXCEPT !.queue = <<>>], 4)
           /\ [d EXCEPT !.lossNotice = 0] \in Disk /\ Removes(d, [d EXCEPT !.lossNotice = 0], 5)
<1>1. <<>> \in Queues /\ NoReplica \in Replicas /\ Star \in Tokens BY NoReplicaType DEF Queues, Tokens
<1>2. /\ [d EXCEPT !.replica = NoReplica] \in Disk
      /\ [d EXCEPT !.token = Star] \in Disk
      /\ [d EXCEPT !.needsFullSync = FALSE] \in Disk
      /\ [d EXCEPT !.queue = <<>>] \in Disk
      /\ [d EXCEPT !.lossNotice = 0] \in Disk
    BY <1>1 DEF Disk
<1>3. Removes(d, [d EXCEPT !.replica = NoReplica], 1) BY DEF Disk, Removes
<1>4. Removes(d, [d EXCEPT !.token = Star], 2) BY DEF Disk, Removes
<1>5. Removes(d, [d EXCEPT !.needsFullSync = FALSE], 3) BY DEF Disk, Removes
<1>6. Removes(d, [d EXCEPT !.queue = <<>>], 4) BY DEF Disk, Removes
<1>7. Removes(d, [d EXCEPT !.lossNotice = 0], 5) BY DEF Disk, Removes
<1>8. QED BY <1>2, <1>3, <1>4, <1>5, <1>6, <1>7

LEMMA RemoveKeyIs ==
    ASSUME DeviceTyped, RemoveKey
    PROVE  /\ Purging /\ purge.removed \in 0..4 /\ disk' \in Disk
           /\ Removes(disk, disk', purge.removed + 1)
           /\ purge'.removed = purge.removed + 1 /\ purge'.count = purge.count
           /\ purge'.is = purge.is /\ purge' \in Purges
           /\ UNCHANGED <<made, saved, refused, discarded, lossTold, waived, swallowed>>
<1> PICK n, d, key : n = purge.removed + 1 /\ d = disk /\ key = PurgeOrder[n] OBVIOUS
<1>1. purge \in Purges /\ d \in Disk BY DEF DeviceTyped
<1>2. purge.removed \in 0..4 /\ n \in 1..5 BY <1>1, OrderIs DEF RemoveKey, Purges
<1>3. disk' = [d EXCEPT ![key] = EmptyDisk[key]] BY DEF RemoveKey
<1>4. n = 1 \/ n = 2 \/ n = 3 \/ n = 4 \/ n = 5 BY <1>2
<1>5. /\ EmptyDisk.replica = NoReplica /\ EmptyDisk.token = Star /\ EmptyDisk.needsFullSync = FALSE
      /\ EmptyDisk.queue = <<>> /\ EmptyDisk.lossNotice = 0
    BY DEF EmptyDisk
<1>6. ASSUME key = "replica", n = 1 PROVE disk' \in Disk /\ Removes(d, disk', n)
  <2>1. disk' = [d EXCEPT !.replica = NoReplica] BY <1>3, <1>5, <1>6
  <2>2. QED BY <1>1, <1>6, <2>1, WithoutKey
<1>7. ASSUME key = "token", n = 2 PROVE disk' \in Disk /\ Removes(d, disk', n)
  <2>1. disk' = [d EXCEPT !.token = Star] BY <1>3, <1>5, <1>7
  <2>2. QED BY <1>1, <1>7, <2>1, WithoutKey
<1>8. ASSUME key = "needsFullSync", n = 3 PROVE disk' \in Disk /\ Removes(d, disk', n)
  <2>1. disk' = [d EXCEPT !.needsFullSync = FALSE] BY <1>3, <1>5, <1>8
  <2>2. QED BY <1>1, <1>8, <2>1, WithoutKey
<1>9. ASSUME key = "queue", n = 4 PROVE disk' \in Disk /\ Removes(d, disk', n)
  <2>1. disk' = [d EXCEPT !.queue = <<>>] BY <1>3, <1>5, <1>9
  <2>2. QED BY <1>1, <1>9, <2>1, WithoutKey
<1>10. ASSUME key = "lossNotice", n = 5 PROVE disk' \in Disk /\ Removes(d, disk', n)
  <2>1. disk' = [d EXCEPT !.lossNotice = 0] BY <1>3, <1>5, <1>10
  <2>2. QED BY <1>1, <1>10, <2>1, WithoutKey
<1>11. disk' \in Disk /\ Removes(d, disk', n) BY <1>4, <1>6, <1>7, <1>8, <1>9, <1>10, OrderIs
<1>12. /\ purge'.removed = purge.removed + 1 /\ purge'.count = purge.count
       /\ purge'.is = purge.is /\ purge' \in Purges
    BY <1>1, <1>2 DEF RemoveKey, Purges
<1>13. Purging /\ UNCHANGED <<made, saved, refused, discarded, lossTold, waived, swallowed>>
    BY DEF RemoveKey, history
<1>14. QED BY <1>2, <1>11, <1>12, <1>13

LEMMA CountType == ASSUME DeviceTyped PROVE CountOnDisk \in Nat
<1>1. Len(disk.queue) \in Nat /\ disk.lossNotice \in Nat BY DEF DeviceTyped, Disk, Queues
<1>2. QED BY <1>1 DEF CountOnDisk

LEMMA PurgeStepType ==
    ASSUME DeviceTyped, PurgeSteps
    PROVE  DeviceTyped'
<1>1. /\ purge \in Purges /\ lossTold \in Nat /\ swallowed \in Nat /\ disk \in Disk BY DEF DeviceTyped
<1>2. /\ up = "down" /\ UNCHANGED <<up, stored, volatile, writes, made, saved, refused, waived>>
      /\ ~RemoveKey => disk' = disk
    BY PurgeKeeps
<1>3. NoPurge \in Purges BY DEF NoPurge, Purges
<1>4. disk' \in Disk /\ purge' \in Purges /\ lossTold' \in Nat /\ swallowed' \in Nat
  <2>1. CASE BootPurges BY <1>1, <1>2, <2>1, CountType DEF BootPurges, RemoveKey, Purges
  <2>2. CASE RemoveKey BY <1>1, <2>2, RemoveKeyIs
  <2>3. CASE BootReports
    <3>1. purge.count \in Nat BY <1>1 DEF Purges
    <3>2. QED BY <1>1, <1>3, <2>3, <3>1 DEF BootReports
  <2>4. CASE KillInPurge
    <3>1. purge.count \in Nat /\ CountOnDisk \in Nat BY <1>1, CountType DEF Purges
    <3>2. swallowed' \in Nat BY <1>1, <2>4, <3>1 DEF KillInPurge
    <3>3. QED BY <1>1, <1>3, <2>4, <3>2 DEF KillInPurge
  <2>5. QED BY <2>1, <2>2, <2>3, <2>4 DEF PurgeSteps
<1>5. QED BY <1>2, <1>4 DEF DeviceTyped, volatile, Reading, Purging

LEMMA DeviceServerStep ==
    ASSUME Typed, DeviceTyped, ClientNext
    PROVE  ServerStep
<1>1. UNCHANGED dataVars => Quiet BY DEF dataVars, Quiet
<1>2. ASSUME NEW c \in Cmds, Mutate(c) PROVE ServerStep BY <1>2 DEF Mutate, ServerStep
<1>3. ASSUME NEW c \in Cmds, OtherDevice(c) PROVE ServerStep
  <2>1. PICK f \in Forms(c) : Verdict(By[c], f) = "ok" /\ Commit(By[c], f) BY <1>3 DEF OtherDevice
  <2>2. f \in Command /\ f.uuid = c BY FormsAreCommands
  <2>3. ~Logged(f) BY <1>3, <2>2 DEF OtherDevice, Logged
  <2>4. alive BY <2>1 DEF Verdict
  <2>5. By[c] \in Users BY ServerConstants
  <2>6. Commits(By[c], f) BY <2>1, <2>3, <2>4 DEF Commits
  <2>7. QED BY <1>3, <2>2, <2>5, <2>6 DEF OtherDevice, ServerStep
<1>4. ASSUME NEW s \in Slots, Step(s) PROVE ServerStep
    BY <1>1, <1>4 DEF Step, MarkNeedsFullSync, ApplyFlush, ApplyPull, RetryLater, LoseAccess, ServerStep
<1>5. ASSUME NEW s \in Slots, GiveUp(s) \/ DropOrphan(s) \/ Serving(s) \/ Failing(s) PROVE ServerStep
    BY <1>1, <1>5 DEF GiveUp, DropOrphan, Serving, Failing, ServerStep
<1>6. CASE SendBatch
  <2>1. \E s \in Slots : Send(s, Device, BatchNow, AskFor) BY <1>6 DEF SendBatch, DoSync, BatchNow
  <2>2. Quiet BY <1>1, <1>6 DEF SendBatch
  <2>3. QED BY <2>1, <2>2, BatchNowType DEF ServerStep
<1>7. CASE SendPull
  <2>1. \E s \in Slots : Send(s, Device, <<>>, AskFor) BY <1>7 DEF SendPull
  <2>2. Quiet BY <1>1, <1>7 DEF SendPull
  <2>3. <<>> \in Queues BY DEF Queues
  <2>4. QED BY <2>1, <2>2, <2>3, BatchNowType DEF ServerStep
<1>8. ASSUME Run PROVE ServerStep
  <2>1. Settle \/ StartFlush \/ PersistToken \/ PersistReplica \/ ClearNeedsFullSync \/ EndReply \/ ReportLoss
        => UNCHANGED serverVars
      BY DEF Settle, StartFlush, PersistToken, PersistReplica, ClearNeedsFullSync, EndReply, ReportLoss
  <2>2. Boot \/ Hydrated \/ BootFromCache \/ BootPurges => UNCHANGED serverVars
      BY DEF Boot, Hydrate, Hydrated, BootFromCache, BootPurges
  <2>3. PurgeSteps => UNCHANGED serverVars BY PurgeKeeps
  <2>4. QED BY <1>6, <1>7, <1>8, <2>1, <2>2, <2>3 DEF Run, ServerStep, PurgeSteps
<1>9. CASE Kill \/ KillInPurge \/ WriteFails BY <1>9 DEF Kill, KillInPurge, WriteFails, ServerStep
<1>10. CASE Membership
  <2>1. ASSUME NEW u \in Users, NEW role \in Roles, AcceptInvite(u, role) \/ ChangeRole(u, role)
        PROVE  Stamps
      BY <2>1, MembershipStep
  <2>2. ASSUME NEW u \in Users, RemoveMember(u) PROVE Stamps BY <2>2, MembershipStep DEF Roles
  <2>3. QED BY <1>10, <2>1, <2>2 DEF Membership, ServerStep
<1>11. QED BY <1>2, <1>3, <1>4, <1>5, <1>8, <1>9, <1>10 DEF ClientNext

LEMMA WriteTypes ==
    /\ \A q \in Queues : Write("queue", q) \in Writes /\ Forgotten("queue", q) \in Writes
    /\ \A rep \in Replicas : Write("replica", rep) \in Writes /\ Forgotten("replica", rep) \in Writes
    /\ \A tok \in Tokens : Write("token", tok) \in Writes
    /\ \A b \in BOOLEAN : Write("needsFullSync", b) \in Writes
    /\ \A n \in Nat : Write("lossNotice", n) \in Writes
BY DEF Write, Forgotten, Writes

LEMMA WriteKeys ==
    ASSUME NEW w \in Writes
    PROVE  /\ w.key = "queue" => w.value \in Queues
           /\ w.key = "replica" => w.value \in Replicas
           /\ w.key = "token" => w.value \in Tokens
           /\ w.key = "needsFullSync" => w.value \in BOOLEAN
           /\ w.key = "lossNotice" => w.value \in Nat
           /\ w.key \in {"queue", "replica", "token", "needsFullSync", "lossNotice"}
BY DEF Writes

LEMMA PurgeType == ASSUME NEW n \in Nat PROVE Purge(n) \in Seq(Writes)
<1>1. <<>> \in Queues BY DEF Queues
<1>2. Star \in Tokens BY DEF Tokens
<1> PICK w1, w2, w3, w4, w5 :
      /\ w1 = Write("lossNotice", n) /\ w2 = Write("replica", NoReplica) /\ w3 = Write("token", Star)
      /\ w4 = Write("needsFullSync", FALSE) /\ w5 = Write("queue", <<>>)
    OBVIOUS
<1>3. w1 \in Writes /\ w2 \in Writes /\ w3 \in Writes /\ w4 \in Writes /\ w5 \in Writes
    BY <1>1, <1>2, WriteTypes, NoReplicaType
<1>4. Purge(n) = <<w1, w2, w3, w4, w5>> BY DEF Purge
<1>5. \A a, b, c, d, e \in Writes : <<a, b, c, d, e>> \in Seq(Writes) OBVIOUS
<1>6. <<w1, w2, w3, w4, w5>> \in Seq(Writes) BY <1>3, <1>5
<1>7. QED BY <1>4, <1>6

LEMMA IdleType ==
    /\ Idle \in Lane
    /\ \A job \in {"idle", "flush", "pull", "recover", "lost", "gone"} : [Idle EXCEPT !.job = job] \in Lane
BY DEF Idle, Lane

LEMMA LeaveType ==
    ASSUME LeaveLane
    PROVE  lane' \in Lane /\ lane' \in {Idle, [Idle EXCEPT !.job = "recover"]} /\ rejected' \subseteq rejected
BY IdleType DEF LeaveLane

LEMMA DiskType ==
    ASSUME NEW d \in Disk, NEW w \in Writes
    PROVE  [d EXCEPT ![w.key] = w.value] \in Disk
<1>1. ASSUME NEW q \in Queues PROVE [d EXCEPT !["queue"] = q] \in Disk BY DEF Disk
<1>2. ASSUME NEW q \in Replicas PROVE [d EXCEPT !["replica"] = q] \in Disk BY DEF Disk
<1>3. ASSUME NEW q \in Tokens PROVE [d EXCEPT !["token"] = q] \in Disk BY DEF Disk
<1>4. ASSUME NEW q \in BOOLEAN PROVE [d EXCEPT !["needsFullSync"] = q] \in Disk BY DEF Disk
<1>5. ASSUME NEW q \in Nat PROVE [d EXCEPT !["lossNotice"] = q] \in Disk BY DEF Disk
<1>6. QED BY <1>1, <1>2, <1>3, <1>4, <1>5, WriteKeys

LEMMA MutateType ==
    ASSUME Typed, DeviceTyped, NEW c \in Cmds, Mutate(c)
    PROVE  /\ \E cmd \in Command : cmd.uuid = c /\ queue' = Append(queue, cmd)
           /\ queue' \in Queues /\ replica' \in Replicas /\ writes' \in Seq(Writes)
           /\ writes' = writes \o <<Forgotten("queue", queue'), Forgotten("replica", replica')>>
<1>1. PICK x \in ShownAs(c) :
        LET cmd == RewriteRefs(<<[uuid |-> c, ref |-> x]>>, idAliases)[1]
        IN  replica' = ApplyCommand(replica, cmd) /\ queue' = Append(queue, cmd)
    BY DEF Mutate
<1> PICK d, cmd : d = [uuid |-> c, ref |-> x] /\ cmd = RewriteRefs(<<d>>, idAliases)[1] OBVIOUS
<1>2. x \in Nat \cup Adds
  <2>1. c \notin Adds => Target[c] \in Adds BY ServerConstants
  <2>2. CASE c \in Adds BY <2>2 DEF ShownAs
  <2>3. CASE c \notin Adds
    <3>1. x = Target[c] \/ x \in Nat BY <2>3 DEF ShownAs
    <3>2. QED BY <2>1, <2>3, <3>1
  <2>4. QED BY <2>2, <2>3
<1>3. d \in Command BY <1>2 DEF Command
<1>4. <<d>> \in Queues /\ Len(<<d>>) = 1 BY <1>3 DEF Queues
<1> PICK r : r = RewriteRefs(<<d>>, idAliases) OBVIOUS
<1>5. r \in Queues /\ Uuids(r) = Uuids(<<d>>) /\ Len(r) = 1
    BY <1>4, RewriteKeeps DEF DeviceTyped
<1>6. cmd \in Command /\ DOMAIN r = {1} BY <1>5 DEF Queues
<1>7. cmd.uuid = c
  <2>1. Uuids(r) = {cmd.uuid} BY <1>6 DEF Uuids
  <2>2. DOMAIN <<d>> = {1} /\ <<d>>[1] = d OBVIOUS
  <2>3. Uuids(<<d>>) = {c} BY <2>2 DEF Uuids
  <2>4. QED BY <1>5, <2>1, <2>3
<1>8. queue' = Append(queue, cmd) /\ replica' = ApplyCommand(replica, cmd) BY <1>1
<1>9. queue' \in Queues /\ replica' \in Replicas
    BY <1>6, <1>8, UuidsAppend, ApplyKeeps DEF DeviceTyped
<1>10. writes' = writes \o <<Forgotten("queue", queue'), Forgotten("replica", replica')>>
    BY DEF Mutate
<1>11. writes' \in Seq(Writes)
  <2>1. Forgotten("queue", queue') \in Writes /\ Forgotten("replica", replica') \in Writes
      BY <1>9, WriteTypes
  <2>2. <<Forgotten("queue", queue'), Forgotten("replica", replica')>> \in Seq(Writes) BY <2>1
  <2>3. QED BY <1>10, <2>2 DEF DeviceTyped
<1>12. QED BY <1>6, <1>7, <1>8, <1>9, <1>10, <1>11

\* The changes that go with the workspace can be counted.
LEMMA DoomedType ==
    ASSUME DeviceTyped, OnlyMade
    PROVE  Doomed \subseteq made /\ IsFiniteSet(Doomed) /\ Cardinality(Doomed) \in Nat
<1>1. Doomed \subseteq made BY DEF Doomed, OnlyMade
<1>2. QED BY <1>1, FS_Subset, FS_CardinalityType DEF OnlyMade

LEMMA ReplyType ==
    ASSUME Typed, OkIsApplied, DeviceTyped, OnlyMade, NEW s \in Slots, Step(s)
    PROVE  DeviceTyped'
<1>1. lane \in Lane /\ queue \in Queues /\ writes \in Seq(Writes) BY DEF DeviceTyped
<1>2. CASE MarkNeedsFullSync(s)
  <2>1. Refusals(s) \subseteq Cmds BY <1>1 DEF Refusals, Lane
  <2>2. lane' \in Lane BY <1>1, <1>2 DEF MarkNeedsFullSync, Lane
  <2>3. Flag \in Seq(Writes)
    <3>1. Write("needsFullSync", TRUE) \in Writes BY WriteTypes
    <3>2. \A w \in Writes : <<w>> \in Seq(Writes) OBVIOUS
    <3>3. QED BY <3>1, <3>2 DEF Flag
  <2>4. writes' \in Seq(Writes) BY <1>1, <1>2, <2>3 DEF MarkNeedsFullSync
  <2>5. rejected' \subseteq Cmds /\ refused' \subseteq Cmds
      BY <1>2, <2>1 DEF MarkNeedsFullSync, NewlyRejected, DeviceTyped
  <2>6. QED BY <1>2, <2>2, <2>4, <2>5 DEF MarkNeedsFullSync, DeviceTyped, process, Reading, Purging
<1>3. CASE ApplyFlush(s)
  <2>1. StillQueued \in Queues BY <1>1, WithoutKeeps DEF StillQueued
  <2>2. ApplyResponse(s, StillQueued) BY <1>3 DEF ApplyFlush
  <2>3. /\ queue' \in Queues /\ replica' \in Replicas /\ syncToken' \in Tokens
        /\ DOMAIN idAliases' \subseteq Adds /\ \A t \in DOMAIN idAliases' : idAliases'[t] \in Nat
      BY <2>1, <2>2, ResponseType
  <2>4. lane' \in Lane
    <3>1. (req[s].token = Star) \in BOOLEAN OBVIOUS
    <3>2. QED BY <1>1, <1>3, <3>1 DEF ApplyFlush, Lane
  <2>5. writes' \in Seq(Writes)
    <3>1. Write("queue", queue') \in Writes BY <2>3, WriteTypes
    <3>2. QED BY <1>1, <1>3, <3>1 DEF ApplyFlush
  <2>6. QED BY <1>3, <2>3, <2>4, <2>5 DEF ApplyFlush, DeviceTyped, process, history, Reading, Purging
<1>4. CASE ApplyPull(s)
  <2>1. ApplyResponse(s, queue) BY <1>4 DEF ApplyPull
  <2>2. /\ queue' \in Queues /\ replica' \in Replicas /\ syncToken' \in Tokens
        /\ DOMAIN idAliases' \subseteq Adds /\ \A t \in DOMAIN idAliases' : idAliases'[t] \in Nat
      BY <1>1, <2>1, ResponseType
  <2>3. lane' \in Lane
    <3>1. (req[s].token = Star) \in BOOLEAN OBVIOUS
    <3>2. QED BY <1>1, <1>4, <3>1 DEF ApplyPull, Lane
  <2>4. writes' \in Seq(Writes)
    <3>1. Write("token", syncToken') \in Writes BY <2>2, WriteTypes
    <3>2. QED BY <1>1, <1>4, <3>1 DEF ApplyPull
  <2>5. QED BY <1>4, <2>2, <2>3, <2>4 DEF ApplyPull, DeviceTyped, process, history, Reading, Purging
<1>5. CASE RetryLater(s)
  <2>1. lane' \in Lane /\ rejected' \subseteq rejected BY <1>5, LeaveType DEF RetryLater
  <2>2. QED BY <1>5, <2>1 DEF RetryLater, DeviceTyped, process, history, Reading, Purging
<1>6. CASE LoseAccess(s)
  <2>1. Doomed \subseteq Cmds /\ Cardinality(Doomed) \in Nat
      BY DoomedType, ClientConstants DEF OnlyMade
  <2>2. writes' \in Seq(Writes) BY <1>1, <1>6, <2>1, PurgeType DEF LoseAccess
  <2>3. lane' \in Lane BY <1>6, <2>1, IdleType DEF LoseAccess, Lane, Idle
  <2>4. QED BY <1>6, <2>2, <2>3 DEF LoseAccess, DeviceTyped, process, Reading, Purging
<1>7. QED BY <1>2, <1>3, <1>4, <1>5, <1>6 DEF Step

\* The steps that leave the server alone, or only send to it.
LEMMA RunType ==
    ASSUME DeviceTyped, OnlyMade, Run
    PROVE  DeviceTyped'
<1>1. lane \in Lane /\ queue \in Queues /\ writes \in Seq(Writes) /\ disk \in Disk /\ replica \in Replicas
    BY DEF DeviceTyped
<1>2. \A w \in Writes : <<w>> \in Seq(Writes) OBVIOUS
<1>3. <<>> \in Queues /\ <<>> \in Seq(Writes) /\ NoReplica \in Replicas /\ Star \in Tokens
    BY NoReplicaType DEF Queues, Tokens
<1>4. CASE Settle
  <2> PICK w : w = Head(writes) OBVIOUS
  <2>1. writes # <<>> BY <1>4 DEF Settle, Settled
  <2>2. w \in Writes /\ Tail(writes) \in Seq(Writes) BY <1>1, <2>1
  <2>3. disk' = [disk EXCEPT ![w.key] = w.value] BY <1>4 DEF Settle
  <2>4. disk' \in Disk BY <1>1, <2>2, <2>3, DiskType
  <2>5. QED BY <1>4, <2>2, <2>4 DEF Settle, DeviceTyped, process, volatile, Reading, Purging
<1>5. CASE StartFlush
  <2>1. lane' \in Lane BY <1>5, IdleType DEF StartFlush
  <2>2. QED BY <1>5, <2>1 DEF StartFlush, DeviceTyped, process, history, Reading, Purging
<1>6. CASE SendBatch
  <2>1. PICK s \in Slots : lane' = [lane EXCEPT !.step = "reply", !.slots = {s}, !.batch = Uuids(BatchNow)]
      BY <1>6 DEF SendBatch, DoSync, BatchNow
  <2>2. Uuids(BatchNow) \subseteq Cmds BY <1>1, BatchNowType, UuidsOf
  <2>3. lane' \in Lane BY <1>1, <2>1, <2>2 DEF Lane
  <2>4. QED BY <1>6, <2>3 DEF SendBatch, DeviceTyped, process, history, Reading, Purging
<1>7. CASE SendPull
  <2>1. PICK s \in Slots, job \in {"pull", "recover"} :
          lane' = [Idle EXCEPT !.job = job, !.step = "reply", !.slots = {s}]
      BY <1>7 DEF SendPull
  <2>2. lane' \in Lane BY <2>1 DEF Lane, Idle
  <2>3. QED BY <1>7, <2>2 DEF SendPull, DeviceTyped, process, history, Reading, Purging
<1>8. CASE PersistToken
  <2>1. lane' \in Lane BY <1>1, <1>8 DEF PersistToken, Lane
  <2>2. writes' \in Seq(Writes) BY <1>2, <1>8, WriteTypes DEF PersistToken, DeviceTyped
  <2>3. QED BY <1>8, <2>1, <2>2 DEF PersistToken, DeviceTyped, process, history, Reading, Purging
<1>9. CASE PersistReplica
  <2>1. lane' \in Lane BY <1>1, <1>9 DEF PersistReplica, Lane
  <2>2. writes' \in Seq(Writes) BY <1>1, <1>2, <1>9, WriteTypes DEF PersistReplica
  <2>3. QED BY <1>9, <2>1, <2>2 DEF PersistReplica, DeviceTyped, process, history, Reading, Purging
<1>10. CASE ClearNeedsFullSync
  <2>1. lane' \in Lane BY <1>1, <1>10 DEF ClearNeedsFullSync, Lane
  <2>2. writes' \in Seq(Writes) BY <1>2, <1>10, WriteTypes DEF ClearNeedsFullSync
  <2>3. QED BY <1>10, <2>1, <2>2 DEF ClearNeedsFullSync, DeviceTyped, process, history, Reading, Purging
<1>11. CASE EndReply
  <2>1. lane' \in Lane /\ rejected' \subseteq rejected
      BY <1>11, IdleType, LeaveType DEF EndReply
  <2>2. QED BY <1>11, <2>1 DEF EndReply, DeviceTyped, process, history, Reading, Purging
<1>12. CASE ReportLoss
  <2>1. Cardinality(lane.batch) \in Nat BY FS_Subset, FS_CardinalityType DEF OnlyMade
  <2>2. lane' \in Lane BY <1>12, IdleType DEF ReportLoss
  <2>3. writes' \in Seq(Writes) BY <1>2, <1>12, WriteTypes DEF ReportLoss
  <2>4. lossTold' \in Nat BY <1>12, <2>1 DEF ReportLoss, DeviceTyped
  <2>5. QED BY <1>3, <1>12, <2>2, <2>3, <2>4 DEF ReportLoss, DeviceTyped, process, Reading, Purging
<1>13. Found \in Reads
  <2>1. (saved # {}) \in BOOLEAN OBVIOUS
  <2>2. QED BY <1>1, <2>1 DEF Found, Reads, Disk
<1>14. CASE Boot
  <2>1. disk' \in Disk /\ waived' \in Nat BY <1>1, <1>14 DEF Boot, Disk, DeviceTyped
  <2>2. QED BY <1>13, <1>14, <2>1 DEF Boot, Hydrate, DeviceTyped, volatile, Reading, Purging
<1>15. CASE BootFromCache
    BY <1>13, <1>15 DEF BootFromCache, Hydrate, DeviceTyped, volatile, Reading, Purging
<1>16. CASE Hydrated
  <2>1. stored \in Reads BY <1>16 DEF Hydrated, Reading, Purging, DeviceTyped
  <2>2. queue' \in Queues /\ replica' \in Replicas /\ syncToken' \in Tokens /\ needsFullSync' \in BOOLEAN
      BY <1>16, <2>1 DEF Hydrated, Fill, Reads, DeviceTyped
  <2>3. QED BY <1>16, <2>2 DEF Hydrated, DeviceTyped, history, Reading, Purging
<1>17. CASE BootPurges \/ RemoveKey \/ BootReports BY <1>17, PurgeStepType DEF PurgeSteps
<1>18. QED BY <1>4, <1>5, <1>6, <1>7, <1>8, <1>9, <1>10, <1>11, <1>12, <1>14, <1>15, <1>16, <1>17 DEF Run

LEMMA DeviceStep ==
    ASSUME Typed, OkIsApplied, DeviceTyped, OnlyMade, ClientNext
    PROVE  DeviceTyped'
<1>1. UNCHANGED clientVars => DeviceTyped' BY DEF clientVars, process, volatile, history, DeviceTyped, Reading, Purging
<1>2. ASSUME NEW c \in Cmds, Mutate(c) PROVE DeviceTyped'
    BY <1>2, MutateType DEF Mutate, DeviceTyped, process, Reading, Purging
<1>3. ASSUME NEW c \in Cmds, OtherDevice(c) PROVE DeviceTyped'
    BY <1>1, <1>3 DEF OtherDevice
<1>4. ASSUME NEW s \in Slots, Step(s) PROVE DeviceTyped' BY <1>4, ReplyType
<1>5. ASSUME NEW s \in Slots, GiveUp(s) PROVE DeviceTyped'
  <2>1. lane' \in Lane /\ rejected' \subseteq rejected BY <1>5, LeaveType DEF GiveUp
  <2>2. QED BY <1>5, <2>1 DEF GiveUp, DeviceTyped, process, history, Reading, Purging
<1>6. ASSUME NEW s \in Slots, DropOrphan(s) \/ Serving(s) PROVE DeviceTyped'
    BY <1>1, <1>6 DEF DropOrphan, Serving
<1>7. ASSUME NEW s \in Slots, Failing(s) PROVE DeviceTyped'
    BY <1>7 DEF Failing, DeviceTyped, process, volatile, history, Reading, Purging
<1>8. CASE Run BY <1>8, RunType
<1>9. CASE Kill
  <2>1. <<>> \in Queues /\ <<>> \in Seq(Writes) /\ NoReplica \in Replicas /\ Star \in Tokens
      BY NoReplicaType DEF Queues, Tokens
  <2>2. NoReplica = <<>> /\ DOMAIN NoReplica = {} BY DEF NoReplica
  <2>3. QED BY <1>9, <2>1, <2>2, IdleType DEF Kill, Forget, DeviceTyped, Reading, Purging
<1>10. CASE WriteFails
  <2>1. lane' \in Lane /\ rejected' \subseteq rejected BY <1>10, LeaveType DEF WriteFails, DeviceTyped
  <2>2. writes' \in Seq(Writes) BY <1>10 DEF WriteFails, Settled, DeviceTyped
  <2>3. QED BY <1>10, <2>1, <2>2 DEF WriteFails, DeviceTyped, process, history, Reading, Purging
<1>11. CASE Membership BY <1>1, <1>11 DEF Membership
<1>12. CASE KillInPurge BY <1>12, PurgeStepType DEF PurgeSteps
<1>13. QED BY <1>2, <1>3, <1>4, <1>5, <1>6, <1>7, <1>8, <1>9, <1>10, <1>11, <1>12 DEF ClientNext

-----------------------------------------------------------------------------
(* The device's steps: the lane and its request *)

LEMMA LaneStep ==
    ASSUME DeviceTyped, LaneShape, ClientNext
    PROVE  LaneShape'
<1>1. UNCHANGED lane => LaneShape' BY DEF LaneShape
<1>2. lane' \in {Idle} \cup {[Idle EXCEPT !.job = job] : job \in {"flush", "recover", "gone"}} => LaneShape'
    BY DEF LaneShape, Idle
<1>3. ASSUME LeaveLane PROVE LaneShape' BY <1>2, <1>3 DEF LeaveLane
<1>4. ASSUME NEW s \in Slots, Step(s) PROVE LaneShape'
  <2>1. CASE MarkNeedsFullSync(s)
      BY <2>1 DEF MarkNeedsFullSync, Replied, LaneShape, DeviceTyped, Lane
  <2>2. CASE ApplyFlush(s) BY <2>2 DEF ApplyFlush, LaneShape, DeviceTyped, Lane
  <2>3. CASE ApplyPull(s) BY <2>3 DEF ApplyPull, LaneShape, DeviceTyped, Lane
  <2>4. CASE RetryLater(s) BY <1>3, <2>4 DEF RetryLater
  <2>5. CASE LoseAccess(s) BY <2>5 DEF LoseAccess, LaneShape, Idle
  <2>6. QED BY <1>4, <2>1, <2>2, <2>3, <2>4, <2>5 DEF Step
<1>5. CASE Run
  <2>1. CASE Settle \/ Boot \/ BootFromCache \/ Hydrated
      BY <1>1, <2>1 DEF Settle, Boot, BootFromCache, Hydrated, Hydrate, volatile
  <2>2. CASE StartFlush BY <1>2, <2>2 DEF StartFlush
  <2>3. CASE SendBatch BY <2>3 DEF SendBatch, DoSync, LaneShape, DeviceTyped, Lane
  <2>4. CASE SendPull
    <3>1. PICK s \in Slots, job \in {"pull", "recover"} :
            lane' = [Idle EXCEPT !.job = job, !.step = "reply", !.slots = {s}]
        BY <2>4 DEF SendPull
    <3>2. QED BY <3>1 DEF LaneShape, Idle
  <2>5. CASE PersistToken BY <2>5 DEF PersistToken, LaneShape, DeviceTyped, Lane
  <2>6. CASE PersistReplica BY <2>6 DEF PersistReplica, LaneShape, DeviceTyped, Lane
  <2>7. CASE ClearNeedsFullSync BY <2>7 DEF ClearNeedsFullSync, LaneShape, DeviceTyped, Lane
  <2>8. CASE EndReply BY <1>2, <1>3, <2>8 DEF EndReply
  <2>9. CASE ReportLoss BY <1>2, <2>9 DEF ReportLoss
  <2>10. CASE PurgeSteps BY <1>1, <2>10, PurgeKeeps DEF volatile
  <2>11. QED BY <1>5, <2>1, <2>2, <2>3, <2>4, <2>5, <2>6, <2>7, <2>8, <2>9, <2>10 DEF Run, PurgeSteps
<1>6. ASSUME NEW c \in Cmds, Mutate(c) \/ OtherDevice(c) PROVE LaneShape'
    BY <1>1, <1>6 DEF Mutate, OtherDevice, clientVars, volatile
<1>7. ASSUME NEW s \in Slots, DropOrphan(s) \/ Serving(s) \/ Failing(s) PROVE LaneShape'
    BY <1>1, <1>7 DEF DropOrphan, Serving, Failing, clientVars, volatile
<1>8. ASSUME NEW s \in Slots, GiveUp(s) PROVE LaneShape' BY <1>3, <1>8 DEF GiveUp
<1>9. CASE Kill BY <1>2, <1>9 DEF Kill, Forget
<1>10. CASE WriteFails BY <1>1, <1>3, <1>10 DEF WriteFails
<1>11. CASE Membership BY <1>1, <1>11 DEF Membership, clientVars, volatile
<1>12. CASE KillInPurge BY <1>1, <1>12 DEF KillInPurge, volatile
<1>13. QED BY <1>4, <1>5, <1>6, <1>7, <1>8, <1>9, <1>10, <1>11, <1>12 DEF ClientNext

\* A request under way keeps its commands until it is done, or fails.
LEMMA RequestGoesOn ==
    ASSUME Typed, NEW t \in Slots, Serve(t) \/ Unavailable(t), NEW s \in Slots, req[s].pc # "free"
    PROVE  /\ req'[s].pc # "free"
           /\ \/ req'[s].cmds = req[s].cmds /\ (req[s].pc = "done" => req'[s] = req[s])
              \/ req'[s].pc = "done" /\ req'[s].code = "unavailable"
<1>1. req \in [Slots -> Request] BY DEF Typed, TypeOK
<1>2. CASE Unavailable(t) BY <1>1, <1>2 DEF Unavailable, Free
<1>3. CASE Admit(t) BY <1>1, <1>3 DEF Admit, Request
<1>4. CASE CheckLog(t)
  <2>1. CASE Report(t, "ok") BY <1>1, <1>4, <2>1 DEF CheckLog, Report, Request
  <2>2. CASE req' = [req EXCEPT ![t].pc = "lock"] BY <1>1, <1>4, <2>2 DEF CheckLog, Request
  <2>3. QED BY <1>4, <2>1, <2>2 DEF CheckLog
<1>5. CASE RefuseViewer(t) BY <1>1, <1>5 DEF RefuseViewer, Report, Request
<1>6. CASE Apply(t) BY <1>1, <1>6 DEF Apply, Report, Request
<1>7. CASE ReadVersion(t) BY <1>1, <1>7 DEF ReadVersion, Request
<1>8. CASE Collect(t) BY <1>1, <1>8 DEF Collect, Request
<1>9. QED BY <1>2, <1>3, <1>4, <1>5, <1>6, <1>7, <1>8 DEF Serve

LEMMA WaitStep ==
    ASSUME Typed, DeviceTyped, LaneShape, OurRequest, ClientNext
    PROVE  OurRequest'
<1>1. req \in [Slots -> Request] /\ lane \in Lane BY DEF Typed, TypeOK, DeviceTyped
<1>2. ASSUME UNCHANGED req, lane'.slots = {} \/ (lane'.slots = lane.slots /\ lane'.batch = lane.batch)
      PROVE  OurRequest'
    BY <1>2 DEF OurRequest
<1>3. ASSUME lane'.slots = {} PROVE OurRequest' BY <1>3 DEF OurRequest
<1>4. ASSUME LeaveLane PROVE lane'.slots = {} BY <1>4 DEF LeaveLane, Idle
<1>5. ASSUME NEW s \in Slots, Step(s) PROVE OurRequest'
  <2>1. CASE MarkNeedsFullSync(s) BY <1>1, <1>2, <2>1 DEF MarkNeedsFullSync, serverVars, Lane
  <2>2. CASE ApplyFlush(s) BY <1>1, <1>3, <2>2 DEF ApplyFlush, Lane
  <2>3. CASE ApplyPull(s) BY <1>1, <1>3, <2>3 DEF ApplyPull, Lane
  <2>4. CASE RetryLater(s) BY <1>3, <1>4, <2>4 DEF RetryLater
  <2>5. CASE LoseAccess(s) BY <1>3, <2>5 DEF LoseAccess, Idle
  <2>6. QED BY <1>5, <2>1, <2>2, <2>3, <2>4, <2>5 DEF Step
<1>6. ASSUME NEW s \in Slots, Serve(s) \/ Unavailable(s), UNCHANGED lane PROVE OurRequest'
  <2>1. ASSUME NEW t \in lane.slots
        PROVE  /\ req'[t].pc # "free"
               /\ Uuids(req'[t].cmds) = lane.batch \/ (req'[t].pc = "done" /\ req'[t].code = "unavailable")
    <3>1. t \in Slots /\ req[t].pc # "free" BY <1>1 DEF OurRequest, Lane
    <3>2. QED BY <1>6, <3>1, RequestGoesOn DEF OurRequest
  <2>2. QED BY <1>6, <2>1 DEF OurRequest
<1>7. ASSUME NEW s \in Slots, NEW cs, NEW tok, Send(s, Device, cs, tok),
             lane'.slots = {s}, lane'.batch = Uuids(cs)
      PROVE  OurRequest'
  <2>1. req'[s].pc = "sent" /\ req'[s].cmds = cs BY <1>1, <1>7 DEF Send, Free
  <2>2. QED BY <1>7, <2>1 DEF OurRequest
<1>8. CASE SendBatch
  <2>1. PICK s \in Slots : /\ Send(s, Device, BatchNow, AskFor)
                           /\ lane' = [lane EXCEPT !.step = "reply", !.slots = {s}, !.batch = Uuids(BatchNow)]
      BY <1>8 DEF SendBatch, DoSync, BatchNow
  <2>2. lane'.slots = {s} /\ lane'.batch = Uuids(BatchNow) BY <1>1, <2>1 DEF Lane
  <2>3. QED BY <1>7, <2>1, <2>2
<1>9. CASE SendPull
  <2>1. PICK s \in Slots : /\ Send(s, Device, <<>>, AskFor)
                           /\ lane'.slots = {s} /\ lane'.batch = {}
      BY <1>9 DEF SendPull, Idle
  <2>2. QED BY <1>7, <2>1, UuidsNone
<1>10. CASE Run
  <2>1. CASE Settle \/ Boot \/ BootFromCache \/ Hydrated
      BY <1>2, <2>1 DEF Settle, Boot, BootFromCache, Hydrated, Hydrate, volatile, serverVars
  <2>2. CASE StartFlush BY <1>3, <2>2 DEF StartFlush, Idle
  <2>3. CASE PersistToken BY <1>1, <1>2, <2>3 DEF PersistToken, serverVars, Lane
  <2>4. CASE PersistReplica BY <1>1, <1>2, <2>4 DEF PersistReplica, serverVars, Lane
  <2>5. CASE ClearNeedsFullSync BY <1>1, <1>2, <2>5 DEF ClearNeedsFullSync, serverVars, Lane
  <2>6. CASE EndReply
    <3>1. lane'.slots = {} BY <1>4, <2>6 DEF EndReply, Idle
    <3>2. QED BY <1>3, <3>1
  <2>7. CASE ReportLoss BY <1>3, <2>7 DEF ReportLoss, Idle
  <2>8. CASE PurgeSteps BY <1>2, <2>8, PurgeKeeps DEF volatile, serverVars
  <2>9. QED BY <1>8, <1>9, <1>10, <2>1, <2>2, <2>3, <2>4, <2>5, <2>6, <2>7, <2>8 DEF Run, PurgeSteps
<1>11. ASSUME NEW c \in Cmds, Mutate(c) \/ OtherDevice(c) PROVE OurRequest'
    BY <1>2, <1>11 DEF Mutate, OtherDevice, clientVars, volatile, serverVars
<1>12. ASSUME NEW s \in Slots, DropOrphan(s) PROVE OurRequest'
  <2>1. /\ UNCHANGED lane /\ s \notin lane.slots /\ \A t \in lane.slots : t \in Slots
        /\ req' = [req EXCEPT ![s] = Free]
      BY <1>1, <1>12 DEF DropOrphan, FreeSlot, clientVars, volatile, Lane
  <2>2. \A t \in lane.slots : req'[t] = req[t] BY <1>1, <2>1
  <2>3. QED BY <2>1, <2>2 DEF OurRequest
<1>13. ASSUME NEW s \in Slots, Serving(s) \/ Failing(s) PROVE OurRequest'
    BY <1>6, <1>13 DEF Serving, Failing, clientVars, volatile
<1>14. ASSUME NEW s \in Slots, GiveUp(s) PROVE OurRequest' BY <1>3, <1>4, <1>14 DEF GiveUp
<1>15. CASE Kill BY <1>3, <1>15 DEF Kill, Forget, Idle
<1>16. CASE WriteFails BY <1>2, <1>3, <1>4, <1>16 DEF WriteFails, serverVars
<1>17. CASE Membership
  <2>1. UNCHANGED req
      BY <1>17 DEF Membership, AcceptInvite, ChangeRole, RemoveMember, StampMember, DeleteWorkspace
  <2>2. QED BY <1>2, <1>17, <2>1 DEF Membership, clientVars, volatile
<1>18. CASE KillInPurge BY <1>2, <1>18 DEF KillInPurge, volatile, serverVars
<1>19. QED BY <1>5, <1>10, <1>11, <1>12, <1>13, <1>14, <1>15, <1>16, <1>17, <1>18 DEF ClientNext

-----------------------------------------------------------------------------
(* What the user made *)

LEMMA JoinIs ==
    ASSUME NEW a \in Seq(Writes), NEW b \in Seq(Writes)
    PROVE  /\ a \o b \in Seq(Writes) /\ Len(a) \in Nat /\ Len(b) \in Nat /\ Len(a \o b) = Len(a) + Len(b)
           /\ DOMAIN a = 1..Len(a) /\ DOMAIN b = 1..Len(b) /\ DOMAIN (a \o b) = 1..(Len(a) + Len(b))
           /\ \A k \in 1..Len(a) : (a \o b)[k] = a[k]
           /\ \A k \in 1..Len(b) : (a \o b)[Len(a) + k] = b[k]
           /\ \A k \in DOMAIN (a \o b) : k \in 1..Len(a) \/ (k > Len(a) /\ \E i \in 1..Len(b) : k = Len(a) + i)
<1>1. /\ a \o b \in Seq(Writes) /\ Len(a) \in Nat /\ Len(b) \in Nat /\ Len(a \o b) = Len(a) + Len(b)
      /\ DOMAIN a = 1..Len(a) /\ DOMAIN b = 1..Len(b) /\ DOMAIN (a \o b) = 1..(Len(a) + Len(b))
      /\ \A k \in 1..Len(a) : (a \o b)[k] = a[k]
    OBVIOUS
<1>2. \A k \in 1..Len(b) : (a \o b)[Len(a) + k] = b[k] OBVIOUS
<1>3. ASSUME NEW k \in DOMAIN (a \o b), k \notin 1..Len(a)
      PROVE  k > Len(a) /\ \E i \in 1..Len(b) : k = Len(a) + i
  <2>1. k \in Nat /\ k > Len(a) /\ k <= Len(a) + Len(b) BY <1>1, <1>3
  <2>2. k - Len(a) \in 1..Len(b) /\ k = Len(a) + (k - Len(a)) BY <1>1, <2>1
  <2>3. QED BY <2>1, <2>2
<1>4. QED BY <1>1, <1>2, <1>3

LEMMA TailIs ==
    ASSUME NEW a \in Seq(Writes), a # <<>>
    PROVE  /\ Tail(a) \in Seq(Writes) /\ Head(a) \in Writes /\ Head(a) = a[1] /\ 1 \in DOMAIN a
           /\ \A k \in DOMAIN Tail(a) : k \in Nat /\ k >= 1 /\ k + 1 \in DOMAIN a /\ Tail(a)[k] = a[k + 1]
           /\ \A k \in DOMAIN a : k \in Nat /\ k >= 1
           /\ Len(a) \in Nat /\ Len(Tail(a)) \in Nat /\ Len(a) = Len(Tail(a)) + 1
OBVIOUS

LEMMA HoldsMore ==
    ASSUME NEW ws, NEW E, NEW F, HoldsOnly(ws, E), E \subseteq F
    PROVE  HoldsOnly(ws, F)
BY DEF HoldsOnly

LEMMA HoldsNone == ASSUME NEW E PROVE HoldsOnly(<<>>, E)
<1>1. DOMAIN <<>> = {} OBVIOUS
<1>2. QED BY <1>1 DEF HoldsOnly

LEMMA HoldsJoin ==
    ASSUME NEW a \in Seq(Writes), NEW b \in Seq(Writes), NEW E, HoldsOnly(a, E), HoldsOnly(b, E)
    PROVE  HoldsOnly(a \o b, E)
BY JoinIs DEF HoldsOnly

LEMMA HoldsTail ==
    ASSUME NEW a \in Seq(Writes), a # <<>>, NEW E, HoldsOnly(a, E)
    PROVE  HoldsOnly(Tail(a), E) /\ (Head(a).key = "queue" => Uuids(Head(a).value) \subseteq E)
BY TailIs DEF HoldsOnly

\* Writes that hold no queue.
NoQueue(ws) == \A k \in DOMAIN ws : ws[k].key # "queue"

LEMMA NoQueueHolds == ASSUME NEW ws, NoQueue(ws), NEW E PROVE HoldsOnly(ws, E)
BY DEF NoQueue, HoldsOnly

LEMMA OneWrite ==
    ASSUME NEW w \in Writes
    PROVE  /\ <<w>> \in Seq(Writes) /\ DOMAIN <<w>> = {1} /\ <<w>>[1] = w
           /\ \A ws \in Seq(Writes) : Append(ws, w) = ws \o <<w>>
OBVIOUS

LEMMA KeysOfWrites ==
    ASSUME NEW key, NEW value
    PROVE  /\ Write(key, value).key = key /\ Write(key, value).value = value
           /\ Forgotten(key, value).key = key /\ Forgotten(key, value).value = value
BY DEF Write, Forgotten

LEMMA PurgeIs ==
    ASSUME NEW n
    PROVE  /\ DOMAIN Purge(n) = 1..5
           /\ Purge(n)[1].key = "lossNotice" /\ Purge(n)[1].value = n
           /\ \A k \in 2..4 : Purge(n)[k].key \notin {"queue", "lossNotice"}
           /\ Purge(n)[5].key = "queue" /\ Purge(n)[5].value = <<>>
<1> PICK p, w1, w2, w3, w4, w5 :
      /\ p = Purge(n)
      /\ w1 = Write("lossNotice", n) /\ w2 = Write("replica", NoReplica) /\ w3 = Write("token", Star)
      /\ w4 = Write("needsFullSync", FALSE) /\ w5 = Write("queue", <<>>)
    OBVIOUS
<1>1. /\ w1.key = "lossNotice" /\ w1.value = n /\ w2.key = "replica" /\ w3.key = "token"
      /\ w4.key = "needsFullSync" /\ w5.key = "queue" /\ w5.value = <<>>
    BY KeysOfWrites
<1>2. p = <<w1, w2, w3, w4, w5>> BY DEF Purge
<1>3. /\ DOMAIN p = 1..5 /\ p[1] = w1 /\ p[2] = w2 /\ p[3] = w3 /\ p[4] = w4 /\ p[5] = w5
    BY <1>2
<1>4. \A k \in 2..4 : k = 2 \/ k = 3 \/ k = 4 OBVIOUS
<1>5. \A k \in 2..4 : p[k].key \notin {"queue", "lossNotice"} BY <1>1, <1>3, <1>4
<1>6. QED BY <1>1, <1>3, <1>5

LEMMA PurgeHolds == ASSUME NEW n, NEW E PROVE HoldsOnly(Purge(n), E)
<1>1. ASSUME NEW k \in DOMAIN Purge(n), Purge(n)[k].key = "queue" PROVE Purge(n)[k].value = <<>>
  <2>1. k \in 1..5 BY <1>1, PurgeIs
  <2>2. k = 1 \/ k \in 2..4 \/ k = 5 BY <2>1
  <2>3. QED BY <1>1, <2>2, PurgeIs
<1>2. QED BY <1>1, UuidsNone DEF HoldsOnly

LEMMA EditWrites ==
    ASSUME NEW q \in Queues, NEW rep \in Replicas
    PROVE  \A ws : ws = <<Forgotten("queue", q), Forgotten("replica", rep)>> =>
           /\ ws \in Seq(Writes) /\ DOMAIN ws = {1, 2} /\ Len(ws) = 2
           /\ ws[1].key = "queue" /\ ws[1].value = q /\ ws[2].key = "replica"
<1> PICK w1, w2 : w1 = Forgotten("queue", q) /\ w2 = Forgotten("replica", rep) OBVIOUS
<1>1. w1 \in Writes /\ w2 \in Writes BY WriteTypes
<1>2. w1.key = "queue" /\ w1.value = q /\ w2.key = "replica" BY KeysOfWrites
<1>3. /\ <<w1, w2>> \in Seq(Writes) /\ DOMAIN <<w1, w2>> = {1, 2} /\ Len(<<w1, w2>>) = 2
      /\ <<w1, w2>>[1] = w1 /\ <<w1, w2>>[2] = w2
    BY <1>1
<1>4. QED BY <1>2, <1>3

\* Appending a write of another key, or a queue of E.
LEMMA HoldsAppend ==
    ASSUME NEW ws \in Seq(Writes), NEW E, HoldsOnly(ws, E), NEW w \in Writes,
           w.key = "queue" => Uuids(w.value) \subseteq E
    PROVE  HoldsOnly(Append(ws, w), E) /\ HoldsOnly(ws \o <<w>>, E) /\ HoldsOnly(<<w>>, E)
<1>1. HoldsOnly(<<w>>, E) BY OneWrite DEF HoldsOnly
<1>2. QED BY <1>1, OneWrite, HoldsJoin

LEMMA MadeReply ==
    ASSUME Typed, OkIsApplied, DeviceTyped, OnlyMade, NEW s \in Slots, Step(s)
    PROVE  OnlyMade'
<1>1. lane \in Lane /\ queue \in Queues /\ writes \in Seq(Writes) BY DEF DeviceTyped
<1>2. CASE MarkNeedsFullSync(s)
  <2>1. Refusals(s) \subseteq made BY DEF Refusals, OnlyMade
  <2>2. HoldsOnly(writes', made)
    <3>1. Write("needsFullSync", TRUE) \in Writes BY WriteTypes
    <3>2. writes' = writes \o <<Write("needsFullSync", TRUE)>> BY <1>2 DEF MarkNeedsFullSync, Flag
    <3>3. QED BY <1>1, <3>1, <3>2, HoldsAppend, KeysOfWrites DEF OnlyMade
  <2>3. lane'.batch = lane.batch BY <1>1, <1>2 DEF MarkNeedsFullSync, Lane
  <2>4. QED BY <1>2, <2>1, <2>2, <2>3 DEF MarkNeedsFullSync, OnlyMade, NewlyRejected, process, Reading
<1>3. CASE ApplyFlush(s)
  <2>1. StillQueued \in Queues /\ Uuids(StillQueued) \subseteq made
      BY <1>1, WithoutKeeps DEF StillQueued, OnlyMade
  <2>2. queue' \in Queues /\ Uuids(queue') \subseteq made BY <1>3, <2>1, ResponseType DEF ApplyFlush
  <2>3. HoldsOnly(writes', made)
    <3> PICK w : w = Write("queue", queue') OBVIOUS
    <3>1. w \in Writes /\ w.value = queue' BY <2>2, WriteTypes, KeysOfWrites
    <3>2. writes' = Append(writes, w) BY <1>3 DEF ApplyFlush
    <3>3. QED BY <1>1, <2>2, <3>1, <3>2, HoldsAppend DEF OnlyMade
  <2>4. lane'.batch = lane.batch BY <1>1, <1>3 DEF ApplyFlush, Lane
  <2>5. QED BY <1>3, <2>2, <2>3, <2>4 DEF ApplyFlush, OnlyMade, process, history, Reading
<1>4. CASE ApplyPull(s)
  <2>1. queue' \in Queues /\ Uuids(queue') \subseteq made /\ syncToken' \in Tokens
      BY <1>1, <1>4, ResponseType DEF ApplyPull, OnlyMade
  <2>2. HoldsOnly(writes', made)
    <3> PICK w : w = Write("token", syncToken') OBVIOUS
    <3>1. w \in Writes /\ w.key # "queue" BY <2>1, WriteTypes, KeysOfWrites
    <3>2. writes' = Append(writes, w) BY <1>4 DEF ApplyPull
    <3>3. QED BY <1>1, <3>1, <3>2, HoldsAppend DEF OnlyMade
  <2>3. lane'.batch = lane.batch BY <1>1, <1>4 DEF ApplyPull, Lane
  <2>4. QED BY <1>4, <2>1, <2>2, <2>3 DEF ApplyPull, OnlyMade, process, history, Reading
<1>5. CASE RetryLater(s)
  <2>1. lane'.batch = {} /\ rejected' \subseteq rejected BY <1>5 DEF RetryLater, LeaveLane, Idle
  <2>2. QED BY <1>5, <2>1 DEF RetryLater, OnlyMade, process, history, Reading
<1>6. CASE LoseAccess(s)
  <2>1. Doomed \subseteq made /\ Cardinality(Doomed) \in Nat BY DoomedType
  <2>2. HoldsOnly(writes', made)
      BY <1>1, <1>6, <2>1, PurgeType, PurgeHolds, HoldsJoin DEF LoseAccess, OnlyMade
  <2>3. lane'.batch = Doomed BY <1>6 DEF LoseAccess, Idle
  <2>4. QED BY <1>6, <2>1, <2>2, <2>3 DEF LoseAccess, OnlyMade, process, Reading
<1>7. QED BY <1>2, <1>3, <1>4, <1>5, <1>6 DEF Step

LEMMA MadePurge ==
    ASSUME DeviceTyped, OnlyMade, PurgeSteps
    PROVE  OnlyMade'
<1>1. /\ UNCHANGED <<stored, volatile, writes, made, saved, refused>> /\ (~RemoveKey => disk' = disk)
    BY PurgeKeeps
<1>2. Uuids(disk'.queue) \subseteq made
  <2>1. CASE RemoveKey
    <3>1. disk'.queue = <<>> \/ disk'.queue = disk.queue BY <2>1, RemoveKeyIs DEF Removes
    <3>2. QED BY <3>1, UuidsNone DEF OnlyMade
  <2>2. CASE ~RemoveKey BY <1>1, <2>2 DEF OnlyMade
  <2>3. QED BY <2>1, <2>2
<1>3. QED BY <1>1, <1>2 DEF OnlyMade, volatile, Reading

LEMMA MadeRun ==
    ASSUME DeviceTyped, OnlyMade, Run
    PROVE  OnlyMade'
<1>1. lane \in Lane /\ queue \in Queues /\ writes \in Seq(Writes) /\ disk \in Disk BY DEF DeviceTyped
<1>2. ASSUME UNCHANGED <<process, queue, rejected, disk, history>>, lane'.batch = lane.batch \/ lane'.batch \subseteq made,
             HoldsOnly(writes', made)
      PROVE  OnlyMade'
    BY <1>2 DEF OnlyMade, process, history, Reading
<1>3. ASSUME NEW w \in Writes, w.key # "queue" PROVE HoldsOnly(<<w>>, made)
    BY <1>3, OneWrite DEF HoldsOnly
<1>4. CASE Settle
  <2> PICK w : w = Head(writes) OBVIOUS
  <2>1. /\ disk' = [disk EXCEPT ![w.key] = w.value] /\ writes' = Tail(writes) /\ writes # <<>>
        /\ saved' = IF w.key = "queue" THEN saved \cup Uuids(w.value) ELSE saved
      BY <1>4 DEF Settle, Settled
  <2>2. HoldsOnly(writes', made) /\ (w.key = "queue" => Uuids(w.value) \subseteq made)
      BY <1>1, <2>1, HoldsTail DEF OnlyMade
  <2>3. disk'.queue = IF w.key = "queue" THEN w.value ELSE disk.queue
    <3>1. w \in Writes BY <1>1, <2>1, TailIs
    <3>2. w.key \in {"queue", "replica", "token", "needsFullSync", "lossNotice"} BY <3>1, WriteKeys
    <3>3. QED BY <1>1, <2>1, <3>2 DEF Disk
  <2>4. saved' \subseteq made /\ Uuids(disk'.queue) \subseteq made BY <2>1, <2>2, <2>3 DEF OnlyMade
  <2>5. QED BY <1>4, <2>2, <2>4 DEF Settle, OnlyMade, process, volatile, Reading
<1>5. CASE StartFlush
    BY <1>2, <1>5 DEF StartFlush, Idle, OnlyMade
<1>6. CASE SendBatch
  <2>1. PICK s \in Slots : lane' = [lane EXCEPT !.step = "reply", !.slots = {s}, !.batch = Uuids(BatchNow)]
      BY <1>6 DEF SendBatch, DoSync, BatchNow
  <2>2. lane'.batch \subseteq made BY <1>1, <2>1, BatchNowType DEF Lane, OnlyMade
  <2>3. QED BY <1>2, <1>6, <2>2 DEF SendBatch, OnlyMade
<1>7. CASE SendPull BY <1>2, <1>7 DEF SendPull, Idle, OnlyMade
<1>8. CASE PersistToken
  <2>1. HoldsOnly(writes', made) BY <1>3, <1>8, WriteTypes, KeysOfWrites DEF PersistToken, DeviceTyped
  <2>2. QED BY <1>1, <1>2, <1>8, <2>1 DEF PersistToken, Lane
<1>9. CASE PersistReplica
  <2>1. HoldsOnly(writes', made) BY <1>3, <1>9, WriteTypes, KeysOfWrites DEF PersistReplica, DeviceTyped
  <2>2. QED BY <1>1, <1>2, <1>9, <2>1 DEF PersistReplica, Lane
<1>10. CASE ClearNeedsFullSync
  <2>1. HoldsOnly(writes', made) BY <1>3, <1>10, WriteTypes, KeysOfWrites DEF ClearNeedsFullSync
  <2>2. QED BY <1>1, <1>2, <1>10, <2>1 DEF ClearNeedsFullSync, Lane
<1>11. CASE EndReply
  <2>1. lane'.batch = {} /\ rejected' \subseteq rejected BY <1>11 DEF EndReply, LeaveLane, Idle
  <2>2. QED BY <1>11, <2>1 DEF EndReply, OnlyMade, process, history, Reading
<1>12. CASE ReportLoss
  <2>1. HoldsOnly(writes', made) BY <1>3, <1>12, WriteTypes, KeysOfWrites DEF ReportLoss
  <2>2. lane'.batch = {} BY <1>12 DEF ReportLoss, Idle
  <2>3. QED BY <1>12, <2>1, <2>2, UuidsNone DEF ReportLoss, OnlyMade, process, Reading
<1>13. CASE Boot \/ BootFromCache
  <2>1. /\ UNCHANGED <<queue, lane, rejected, writes, made, saved, refused>>
        /\ stored' = Found
        /\ disk'.queue = disk.queue
      BY <1>1, <1>13 DEF Boot, BootFromCache, Hydrate, volatile, Disk
  <2>2. stored'.queue = disk.queue BY <2>1 DEF Found
  <2>3. QED BY <2>1, <2>2 DEF OnlyMade, Reading
<1>14. CASE Hydrated
  <2>1. Uuids(queue') \subseteq made BY <1>14 DEF Hydrated, Fill, OnlyMade
  <2>2. QED BY <1>14, <2>1 DEF Hydrated, OnlyMade, history, Reading
<1>15. CASE BootPurges \/ RemoveKey \/ BootReports BY <1>15, MadePurge DEF PurgeSteps
<1>16. QED BY <1>4, <1>5, <1>6, <1>7, <1>8, <1>9, <1>10, <1>11, <1>12, <1>13, <1>14, <1>15 DEF Run

LEMMA MadeStep ==
    ASSUME Typed, OkIsApplied, DeviceTyped, OnlyMade, ClientNext
    PROVE  OnlyMade'
<1>1. UNCHANGED clientVars => OnlyMade'
    BY DEF clientVars, process, volatile, history, OnlyMade, Reading
<1>2. ASSUME NEW c \in Cmds, Mutate(c) PROVE OnlyMade'
  <2> PICK ws : ws = <<Forgotten("queue", queue'), Forgotten("replica", replica')>> OBVIOUS
  <2>1. /\ \E cmd \in Command : cmd.uuid = c /\ queue' = Append(queue, cmd)
        /\ queue' \in Queues /\ replica' \in Replicas /\ writes' = writes \o ws
      BY <1>2, MutateType
  <2>2. Uuids(queue') = Uuids(queue) \cup {c} BY <2>1, UuidsAppend DEF DeviceTyped
  <2>3. c \in Mine /\ made' = made \cup {c} BY <1>2 DEF Mutate
  <2>4. IsFiniteSet(made') BY <2>3, FS_AddElement DEF OnlyMade
  <2>5. HoldsOnly(writes', made')
    <3>1. /\ ws \in Seq(Writes) /\ DOMAIN ws = {1, 2} /\ ws[1].value = queue'
          /\ ws[1].key = "queue" /\ ws[2].key = "replica"
      <4>1. queue' \in Queues /\ replica' \in Replicas BY <2>1
      <4>2. QED BY <4>1, EditWrites
    <3>2. Uuids(queue') \subseteq made' BY <2>2, <2>3 DEF OnlyMade
    <3>3. HoldsOnly(ws, made') BY <3>1, <3>2 DEF HoldsOnly
    <3>4. HoldsOnly(writes, made') BY <2>3, HoldsMore DEF OnlyMade
    <3>5. QED BY <2>1, <3>1, <3>3, <3>4, HoldsJoin DEF DeviceTyped
  <2>6. QED BY <1>2, <2>2, <2>3, <2>4, <2>5 DEF Mutate, OnlyMade, process, Reading
<1>3. ASSUME NEW c \in Cmds, OtherDevice(c) PROVE OnlyMade' BY <1>1, <1>3 DEF OtherDevice
<1>4. ASSUME NEW s \in Slots, Step(s) PROVE OnlyMade' BY <1>4, MadeReply
<1>5. ASSUME NEW s \in Slots, GiveUp(s) PROVE OnlyMade'
  <2>1. lane'.batch = {} /\ rejected' \subseteq rejected BY <1>5 DEF GiveUp, LeaveLane, Idle
  <2>2. QED BY <1>5, <2>1 DEF GiveUp, OnlyMade, process, history, Reading
<1>6. ASSUME NEW s \in Slots, DropOrphan(s) \/ Serving(s) PROVE OnlyMade'
    BY <1>1, <1>6 DEF DropOrphan, Serving
<1>7. ASSUME NEW s \in Slots, Failing(s) PROVE OnlyMade'
    BY <1>7 DEF Failing, OnlyMade, process, volatile, history, Reading
<1>8. CASE Run BY <1>8, MadeRun
<1>9. CASE Kill
  <2>1. HoldsOnly(writes', made) BY <1>9, HoldsNone DEF Kill
  <2>2. QED BY <1>9, <2>1, UuidsNone DEF Kill, Forget, Idle, OnlyMade, Reading
<1>10. CASE WriteFails
  <2>1. HoldsOnly(writes', made) BY <1>10, HoldsTail DEF WriteFails, Settled, OnlyMade, DeviceTyped
  <2>2. lane'.batch \subseteq made /\ rejected' \subseteq rejected
      BY <1>10 DEF WriteFails, LeaveLane, Idle, OnlyMade
  <2>3. QED BY <1>10, <2>1, <2>2 DEF WriteFails, OnlyMade, process, history, Reading
<1>11. CASE Membership BY <1>1, <1>11 DEF Membership
<1>12. CASE KillInPurge BY <1>12, MadePurge DEF PurgeSteps
<1>13. QED BY <1>2, <1>3, <1>4, <1>5, <1>6, <1>7, <1>8, <1>9, <1>10, <1>11, <1>12 DEF ClientNext

-----------------------------------------------------------------------------
(* What the reply decides *)

LEMMA DecidedGrows ==
    ASSUME Typed, DeviceTyped, ClientNext
    PROVE  Applied \subseteq Applied' /\ refused \subseteq refused' /\ Decided \subseteq Decided'
<1>1. Applied \subseteq Applied' BY DeviceServerStep, AppliedGrows
<1>2. refused \subseteq refused'
  <2>1. UNCHANGED clientVars \/ UNCHANGED history => refused \subseteq refused' BY DEF clientVars, history
  <2>2. ASSUME NEW s \in Slots, Step(s) PROVE refused \subseteq refused'
      BY <2>1, <2>2 DEF Step, MarkNeedsFullSync, ApplyFlush, ApplyPull, RetryLater, LoseAccess
  <2>3. CASE Run
    <3>1. Settle \/ StartFlush \/ SendBatch \/ SendPull \/ PersistToken \/ PersistReplica \/ ClearNeedsFullSync
          => refused \subseteq refused'
        BY <2>1 DEF Settle, StartFlush, SendBatch, SendPull, PersistToken, PersistReplica, ClearNeedsFullSync
    <3>2. EndReply \/ ReportLoss \/ Boot \/ Hydrated \/ BootFromCache => refused \subseteq refused'
        BY <2>1 DEF EndReply, ReportLoss, Boot, BootFromCache, Hydrate, Hydrated
    <3>3. PurgeSteps => refused \subseteq refused' BY PurgeKeeps
    <3>4. QED BY <2>3, <3>1, <3>2, <3>3 DEF Run, PurgeSteps
  <2>4. ASSUME NEW c \in Cmds, Mutate(c) \/ OtherDevice(c) PROVE refused \subseteq refused'
      BY <2>1, <2>4 DEF Mutate, OtherDevice
  <2>5. ASSUME NEW s \in Slots, GiveUp(s) \/ DropOrphan(s) \/ Serving(s) \/ Failing(s) PROVE refused \subseteq refused'
      BY <2>1, <2>5 DEF GiveUp, DropOrphan, Serving, Failing
  <2>6. Kill \/ KillInPurge \/ WriteFails \/ Membership => refused \subseteq refused'
      BY <2>1 DEF Kill, KillInPurge, WriteFails, Membership
  <2>7. QED BY <2>2, <2>3, <2>4, <2>5, <2>6 DEF ClientNext
<1>3. QED BY <1>1, <1>2 DEF Decided

\* The reply that the lane waited for answers every command of its batch.
LEMMA BatchAnswered ==
    ASSUME Typed, Answers, OurRequest, NEW s \in lane.slots, s \in Slots,
           req[s].pc = "done", req[s].code = "ok"
    PROVE  lane.batch \subseteq DOMAIN req[s].status
<1> PICK r : r = req[s] OBVIOUS
<1>1. r \in Request BY DEF Typed, TypeOK
<1>2. r.cmds \in Seq(Command) /\ r.i \in Nat BY <1>1 DEF Request
<1>3. DOMAIN r.cmds = 1..Len(r.cmds) /\ Len(r.cmds) \in Nat BY <1>2
<1>4. Uuids(r.cmds) = lane.batch BY DEF OurRequest
<1>5. /\ r.i > 0 /\ r.i \notin DOMAIN r.cmds
      /\ \A k \in DOMAIN r.cmds : k < r.i => r.cmds[k].uuid \in DOMAIN r.status
    BY AnswersIs DEF AnswersFor
<1>6. r.i > Len(r.cmds) BY <1>2, <1>3, <1>5
<1>7. \A k \in DOMAIN r.cmds : k < r.i BY <1>2, <1>3, <1>6
<1>8. \A c \in lane.batch : c \in DOMAIN r.status BY <1>4, <1>5, <1>7 DEF Uuids
<1>9. QED BY <1>8

\* A command of the batch was refused or took effect.
LEMMA RefusedOrApplied ==
    ASSUME Typed, OkIsApplied, Answers, OurRequest, NEW s \in lane.slots, s \in Slots,
           req[s].pc = "done", req[s].code = "ok"
    PROVE  lane.batch \subseteq Applied \cup Refusals(s)
BY BatchAnswered DEF OkIsApplied, Refusals

LEMMA FlagStep ==
    ASSUME Base, ClientNext
    PROVE  FlagDecided'
<1>1. Typed /\ OkIsApplied /\ Answers /\ DeviceTyped /\ OurRequest /\ FlagDecided BY DEF Base
<1>2. lane \in Lane BY <1>1 DEF DeviceTyped
<1>3. Decided \subseteq Decided' BY <1>1, DecidedGrows
<1>4. UNCHANGED lane => FlagDecided' BY <1>1, <1>3 DEF FlagDecided
<1>5. lane'.step # "flag" => FlagDecided' BY DEF FlagDecided
<1>6. LeaveLane => FlagDecided' BY <1>5 DEF LeaveLane, Idle
<1>7. ASSUME NEW s \in Slots, Step(s) PROVE FlagDecided'
  <2>1. CASE MarkNeedsFullSync(s)
    <3>1. lane.batch \subseteq Applied \cup Refusals(s)
        BY <1>1, <2>1, RefusedOrApplied DEF MarkNeedsFullSync, Replied
    <3>2. lane'.batch = lane.batch /\ refused' = refused \cup Refusals(s) BY <1>2, <2>1 DEF MarkNeedsFullSync, Lane
    <3>3. Applied \subseteq Applied' BY <1>1, DecidedGrows
    <3>4. QED BY <3>1, <3>2, <3>3 DEF FlagDecided, Decided
  <2>2. ApplyFlush(s) \/ ApplyPull(s) \/ LoseAccess(s) => FlagDecided'
      BY <1>2, <1>5 DEF ApplyFlush, ApplyPull, LoseAccess, Lane, Idle
  <2>3. RetryLater(s) => FlagDecided' BY <1>6 DEF RetryLater
  <2>4. QED BY <1>7, <2>1, <2>2, <2>3 DEF Step
<1>8. CASE Run
  <2>1. Settle \/ Boot \/ BootFromCache \/ Hydrated => FlagDecided'
      BY <1>4 DEF Settle, Boot, BootFromCache, Hydrated, Hydrate, volatile
  <2>2. StartFlush \/ ReportLoss => FlagDecided' BY <1>5 DEF StartFlush, ReportLoss, Idle
  <2>3. SendBatch => FlagDecided' BY <1>2, <1>5 DEF SendBatch, DoSync, Lane
  <2>4. SendPull => FlagDecided' BY <1>5 DEF SendPull, Idle
  <2>5. PersistToken \/ PersistReplica \/ ClearNeedsFullSync => FlagDecided'
      BY <1>2, <1>5 DEF PersistToken, PersistReplica, ClearNeedsFullSync, Lane
  <2>6. EndReply => FlagDecided' BY <1>5, <1>6 DEF EndReply, Idle
  <2>7. PurgeSteps => FlagDecided' BY <1>1, <1>4, PurgeKeeps DEF volatile
  <2>8. QED BY <1>8, <2>1, <2>2, <2>3, <2>4, <2>5, <2>6, <2>7 DEF Run, PurgeSteps
<1>9. ASSUME NEW c \in Cmds, Mutate(c) \/ OtherDevice(c) PROVE FlagDecided'
    BY <1>4, <1>9 DEF Mutate, OtherDevice, clientVars, volatile
<1>10. ASSUME NEW s \in Slots, DropOrphan(s) \/ Serving(s) \/ Failing(s) \/ GiveUp(s) PROVE FlagDecided'
    BY <1>4, <1>6, <1>10 DEF DropOrphan, Serving, Failing, GiveUp, clientVars, volatile
<1>11. Kill => FlagDecided' BY <1>5 DEF Kill, Forget, Idle
<1>12. WriteFails => FlagDecided' BY <1>4, <1>6 DEF WriteFails
<1>13. Membership => FlagDecided' BY <1>4 DEF Membership, clientVars, volatile
<1>14. KillInPurge => FlagDecided' BY <1>4 DEF KillInPurge, volatile
<1>15. QED BY <1>7, <1>8, <1>9, <1>10, <1>11, <1>12, <1>13, <1>14 DEF ClientNext

-----------------------------------------------------------------------------
(* Every device is well formed *)

LEMMA BaseInit == ClientInit => Base
<1> SUFFICES ASSUME ClientInit PROVE Base OBVIOUS
<1>1. /\ Init /\ up = "down" /\ stored = NoAnswer /\ disk = EmptyDisk /\ writes = <<>> /\ queue = <<>>
      /\ replica = NoReplica /\ syncToken = Star /\ needsFullSync = FALSE /\ idAliases = NoReplica
      /\ lane = Idle /\ rejected = {} /\ made = {} /\ saved = {} /\ refused = {}
      /\ purge = NoPurge /\ lossTold = 0 /\ waived = 0 /\ swallowed = 0
    BY DEF ClientInit
<1>2. Typed BY <1>1, TypedInit
<1>3. OkIsApplied /\ Answers
  <2>1. synced = {} /\ \A s \in Slots : req[s] = Free BY <1>1 DEF Init
  <2>2. Free.status = <<>> /\ Free.cmds = <<>> /\ Free.i = 1 /\ Free.pc = "free" /\ DOMAIN <<>> = {} BY DEF Free
  <2>3. QED BY <2>1, <2>2, AnswersIs DEF OkIsApplied, AnswersFor
<1>4. DeviceTyped
  <2>1. <<>> \in Queues /\ <<>> \in Seq(Writes) /\ NoReplica \in Replicas /\ Star \in Tokens
      BY NoReplicaType DEF Queues, Tokens
  <2>2. EmptyDisk \in Disk BY <2>1 DEF EmptyDisk, Disk
  <2>3. DOMAIN NoReplica = {} BY DEF NoReplica
  <2>4. NoPurge \in Purges BY DEF NoPurge, Purges
  <2>5. QED BY <1>1, <2>1, <2>2, <2>3, <2>4, IdleType DEF DeviceTyped, Reading, Purging
<1>5. LaneShape /\ OurRequest /\ FlagDecided BY <1>1 DEF LaneShape, OurRequest, FlagDecided, Idle
<1>6. OnlyMade
  <2>1. disk.queue = <<>> /\ lane.batch = {} BY <1>1 DEF EmptyDisk, Idle
  <2>2. IsFiniteSet({}) BY FS_EmptySet
  <2>3. QED BY <1>1, <2>1, <2>2, UuidsNone, HoldsNone DEF OnlyMade, Reading
<1>7. QED BY <1>2, <1>3, <1>4, <1>5, <1>6 DEF Base

LEMMA BaseStep == Base /\ [ClientNext]_vars => Base'
<1> SUFFICES ASSUME Base, [ClientNext]_vars PROVE Base' OBVIOUS
<1>1. Typed /\ OkIsApplied /\ Answers /\ DeviceTyped /\ LaneShape /\ OurRequest /\ OnlyMade /\ FlagDecided BY DEF Base
<1>2. CASE ClientNext
  <2>1. ServerStep BY <1>1, <1>2, DeviceServerStep
  <2>2. Typed' /\ OkIsApplied' /\ Answers' BY <1>1, <2>1, ServerTyped, OkStep, AnswersStep
  <2>3. DeviceTyped' /\ OnlyMade' BY <1>1, <1>2, DeviceStep, MadeStep
  <2>4. LaneShape' /\ OurRequest' /\ FlagDecided' BY <1>1, <1>2, LaneStep, WaitStep, FlagStep
  <2>5. QED BY <2>2, <2>3, <2>4 DEF Base
<1>3. CASE UNCHANGED vars
  <2>1. UNCHANGED serverVars /\ UNCHANGED clientVars BY <1>3 DEF vars
  <2>2. ServerStep BY <2>1 DEF ServerStep
  <2>3. Typed' /\ OkIsApplied' /\ Answers' BY <1>1, <2>2, ServerTyped, OkStep, AnswersStep
  <2>4. DeviceTyped' /\ OnlyMade' BY <1>1, <2>1 DEF clientVars, process, volatile, history, DeviceTyped, OnlyMade, Reading, Purging
  <2>5. LaneShape' /\ OurRequest' BY <1>1, <2>1 DEF clientVars, serverVars, volatile, LaneShape, OurRequest
  <2>6. FlagDecided' BY <1>1, <2>1 DEF clientVars, serverVars, volatile, history, FlagDecided, Decided, Applied
  <2>7. QED BY <2>3, <2>4, <2>5, <2>6 DEF Base
<1>4. QED BY <1>2, <1>3

LEMMA BaseTypes == Base => ClientTypeOK
<1> SUFFICES ASSUME Base PROVE ClientTypeOK OBVIOUS
<1>1. Typed /\ DeviceTyped /\ LaneShape /\ OnlyMade BY DEF Base
<1>2. TypeOK BY <1>1 DEF Typed
<1>3. \A rep \in Replicas : IsReplica(rep) BY ReplicaIs DEF IsReplica
<1>4. lane.slots \subseteq Slots /\ Cardinality(lane.slots) <= 1
  <2>1. lane.slots \subseteq Slots BY <1>1 DEF DeviceTyped, Lane
  <2>2. CASE lane.slots = {} BY <2>1, <2>2, FS_EmptySet
  <2>3. ASSUME NEW s \in lane.slots PROVE Cardinality(lane.slots) <= 1
    <3>1. lane.slots = {s} BY <1>1 DEF LaneShape
    <3>2. QED BY <3>1, FS_Singleton
  <2>4. QED BY <2>1, <2>2, <2>3
<1>5. rejected \subseteq Mine /\ rejected \subseteq refused BY <1>1 DEF OnlyMade
<1>6. lane.job \in {"idle", "flush", "pull", "recover", "lost", "gone"}
      /\ lane.step \in {"start", "reply", "flag", "queue", "token", "replica", "clear"}
    BY <1>1 DEF DeviceTyped, Lane
<1>7. Reading => stored.replica \in Replicas BY <1>1 DEF DeviceTyped, Reading, Purging, Reads
<1>8. /\ disk.queue \in Queues /\ disk.replica \in Replicas /\ disk.token \in Tokens
      /\ disk.needsFullSync \in BOOLEAN /\ disk.lossNotice \in Nat
    BY <1>1 DEF DeviceTyped, Disk
<1>9. purge.removed \in 0..5 /\ purge.count \in Nat BY <1>1 DEF DeviceTyped, Purges
<1>10. QED BY <1>1, <1>2, <1>3, <1>4, <1>5, <1>6, <1>7, <1>8, <1>9 DEF ClientTypeOK, DeviceTyped, Queues, Tokens

\* Every key of the device, in memory, under way and on disk, holds what the code
\* stores there, and one request at most is waited for, however many commands,
\* users, faults and concurrent requests there are (client.ts: the fields of
\* SyncClient and the five keys of persist).
THEOREM DeviceTypes == ClientSpec => []ClientTypeOK
<1>1. Base /\ [ClientNext]_vars => Base' BY BaseStep
<1>2. QED BY <1>1, BaseInit, BaseTypes, PTL DEF ClientSpec

-----------------------------------------------------------------------------
(* A device that waits for the reads of its start *)

LEMMA AsleepStep ==
    ASSUME ~ActsEarly, Base, Asleep, ClientNext
    PROVE  Asleep'
<1>1. DeviceTyped /\ LaneShape BY DEF Base
<1>2. /\ Idle.step = "start" /\ Idle.slots = {} /\ Idle.job = "idle" BY DEF Idle
<1> DEFINE Out == up = "down" \/ Reading
<1>3. Out => /\ writes = <<>> /\ queue = <<>> /\ replica = NoReplica /\ syncToken = Star
             /\ ~needsFullSync /\ idAliases = NoReplica /\ lane = Idle /\ rejected = {}
    BY DEF Asleep
<1>4. ASSUME UNCHANGED process, ~Out PROVE Asleep'
  <2>1. ~(up' = "down" \/ Reading') BY <1>4 DEF process, Reading
  <2>2. QED BY <2>1 DEF Asleep
<1>5. ASSUME UNCHANGED <<process, volatile, disk, writes, saved>> PROVE Asleep'
    BY <1>5 DEF process, volatile, Asleep, Reading, Found
<1>6. ASSUME NEW c \in Cmds, Mutate(c) PROVE Asleep'
  <2>1. ~Out BY <1>6 DEF Mutate, Active
  <2>2. QED BY <1>4, <1>6, <2>1 DEF Mutate
<1>7. ASSUME NEW s \in Slots, Step(s) PROVE Asleep'
  <2>1. lane # Idle BY <1>2, <1>7 DEF Step, MarkNeedsFullSync, ApplyFlush, ApplyPull, RetryLater, LoseAccess, Replied
  <2>2. ~Out BY <1>3, <2>1
  <2>3. UNCHANGED process BY <1>7 DEF Step, MarkNeedsFullSync, ApplyFlush, ApplyPull, RetryLater, LoseAccess
  <2>4. QED BY <1>4, <2>2, <2>3
<1>8. CASE Settle
  <2>1. ~Out BY <1>3, <1>8 DEF Settle, Settled
  <2>2. QED BY <1>4, <1>8, <2>1 DEF Settle
<1>9. CASE StartFlush \/ SendBatch \/ SendPull
  <2>1. ~Out BY <1>2, <1>3, <1>9 DEF StartFlush, SendBatch, SendPull, Active
  <2>2. QED BY <1>4, <1>9, <2>1 DEF StartFlush, SendBatch, SendPull
<1>10. CASE PersistToken \/ PersistReplica \/ ClearNeedsFullSync \/ EndReply \/ ReportLoss
  <2>1. ~Out
      BY <1>2, <1>3, <1>10 DEF PersistToken, PersistReplica, ClearNeedsFullSync, EndReply, ReportLoss
  <2>2. QED BY <1>4, <1>10, <2>1 DEF PersistToken, PersistReplica, ClearNeedsFullSync, EndReply, ReportLoss
<1>11. CASE Boot \/ BootFromCache
  <2>1. /\ up = "down" /\ up' = "up" /\ stored' = Found
        /\ UNCHANGED <<queue, replica, syncToken, needsFullSync, idAliases, lane, rejected, writes, saved>>
      BY <1>11 DEF Boot, BootFromCache, Hydrate, volatile
  <2>2. /\ disk'.queue = disk.queue /\ disk'.replica = disk.replica /\ disk'.token = disk.token
        /\ disk'.needsFullSync = disk.needsFullSync
      BY <1>1, <1>11 DEF Boot, BootFromCache, DeviceTyped, Disk
  <2>3. stored' = Found' BY <2>1, <2>2 DEF Found
  <2>4. QED BY <1>3, <2>1, <2>3 DEF Asleep
<1>12. CASE Hydrated
  <2>1. up = "up" /\ UNCHANGED up /\ stored' = NoAnswer BY <1>1, <1>12 DEF Hydrated, DeviceTyped
  <2>2. QED BY <2>1 DEF Asleep, Reading
<1>13. CASE PurgeSteps
  <2>1. up = "down" /\ UNCHANGED <<up, stored, volatile, writes>> BY <1>1, <1>13, PurgeKeeps
  <2>2. ~Reading BY <1>1, <2>1 DEF DeviceTyped
  <2>3. QED BY <2>1, <2>2 DEF Asleep, volatile, Reading
<1>14. CASE Run BY <1>8, <1>9, <1>10, <1>11, <1>12, <1>13, <1>14 DEF Run, PurgeSteps
<1>15. ASSUME NEW s \in Slots, GiveUp(s) PROVE Asleep'
  <2>1. ~Out BY <1>2, <1>3, <1>15 DEF GiveUp
  <2>2. QED BY <1>4, <1>15, <2>1 DEF GiveUp
<1>16. CASE WriteFails
  <2>1. ~Out BY <1>3, <1>16 DEF WriteFails, Settled
  <2>2. QED BY <1>4, <1>16, <2>1 DEF WriteFails
<1>17. CASE Kill BY <1>17 DEF Kill, Forget, Asleep, Reading
<1>18. ASSUME NEW s \in Slots, DropOrphan(s) \/ Serving(s) \/ Failing(s) PROVE Asleep'
    BY <1>5, <1>18 DEF DropOrphan, Serving, Failing, clientVars, history
<1>19. ASSUME NEW c \in Cmds, OtherDevice(c) PROVE Asleep' BY <1>5, <1>19 DEF OtherDevice, clientVars, history
<1>20. CASE Membership BY <1>5, <1>20 DEF Membership, clientVars, history
<1>21. CASE KillInPurge BY <1>13, <1>21 DEF PurgeSteps
<1>22. QED BY <1>6, <1>7, <1>14, <1>15, <1>16, <1>17, <1>18, <1>19, <1>20, <1>21 DEF ClientNext

-----------------------------------------------------------------------------
(* A workspace that a start found gone *)

LEMMA PurgeStays ==
    ASSUME ~ActsEarly, Base, Asleep, Purging, ClientNext, ~PurgeSteps
    PROVE  UNCHANGED <<purge, disk, discarded>>
<1>1. up = "down" /\ ~Reading BY DEF Base, DeviceTyped
<1>2. writes = <<>> /\ lane = Idle BY <1>1 DEF Asleep
<1>3. Idle.step = "start" /\ Idle.slots = {} /\ Idle.job = "idle" BY DEF Idle
<1>4. \A c \in Cmds : ~Mutate(c) BY <1>1 DEF Mutate, Active
<1>5. \A s \in Slots : ~Step(s)
    BY <1>2, <1>3 DEF Step, MarkNeedsFullSync, ApplyFlush, ApplyPull, RetryLater, LoseAccess, Replied
<1>6. \A s \in Slots : ~GiveUp(s) BY <1>2, <1>3 DEF GiveUp
<1>7. ~Settle /\ ~StartFlush /\ ~SendBatch /\ ~SendPull
    BY <1>1, <1>2, <1>3 DEF Settle, Settled, StartFlush, SendBatch, SendPull, Active
<1>8. ~PersistToken /\ ~PersistReplica /\ ~ClearNeedsFullSync /\ ~EndReply /\ ~ReportLoss
    BY <1>2, <1>3 DEF PersistToken, PersistReplica, ClearNeedsFullSync, EndReply, ReportLoss
<1>9. ~Boot /\ ~BootFromCache /\ ~Hydrated BY <1>1 DEF Boot, BootFromCache, Hydrate, Hydrated
<1>10. ~Run BY <1>7, <1>8, <1>9 DEF Run, PurgeSteps
<1>11. ~Kill /\ ~WriteFails BY <1>1, <1>2 DEF Kill, WriteFails, Settled
<1>12. ASSUME NEW c \in Cmds, OtherDevice(c) PROVE UNCHANGED <<purge, disk, discarded>>
    BY <1>12 DEF OtherDevice, clientVars, process, history
<1>13. ASSUME NEW s \in Slots, DropOrphan(s) \/ Serving(s) \/ Failing(s)
       PROVE  UNCHANGED <<purge, disk, discarded>>
    BY <1>13 DEF DropOrphan, Serving, Failing, clientVars, process, history
<1>14. CASE Membership BY <1>14 DEF Membership, clientVars, process, history
<1>15. QED BY <1>4, <1>5, <1>6, <1>10, <1>11, <1>12, <1>13, <1>14 DEF ClientNext, PurgeSteps

\* No other step begins a purge.
LEMMA PurgeBegins ==
    ASSUME Base, ClientNext, ~PurgeSteps
    PROVE  UNCHANGED purge
<1>1. ASSUME NEW c \in Cmds, Mutate(c) \/ OtherDevice(c) PROVE UNCHANGED purge
    BY <1>1 DEF Mutate, OtherDevice, clientVars, process
<1>2. ASSUME NEW s \in Slots, Step(s) \/ GiveUp(s) \/ DropOrphan(s) \/ Serving(s) \/ Failing(s)
      PROVE  UNCHANGED purge
    BY <1>2 DEF Step, MarkNeedsFullSync, ApplyFlush, ApplyPull, RetryLater, LoseAccess, GiveUp, DropOrphan,
                Serving, Failing, clientVars, process
<1>3. CASE Run
  <2>1. Settle \/ StartFlush \/ SendBatch \/ SendPull \/ PersistToken \/ PersistReplica => UNCHANGED purge
      BY DEF Settle, StartFlush, SendBatch, SendPull, PersistToken, PersistReplica, process
  <2>2. ClearNeedsFullSync \/ EndReply \/ ReportLoss \/ Boot \/ Hydrated \/ BootFromCache => UNCHANGED purge
      BY DEF ClearNeedsFullSync, EndReply, ReportLoss, Boot, BootFromCache, Hydrate, Hydrated, process
  <2>3. QED BY <1>3, <2>1, <2>2 DEF Run, PurgeSteps
<1>4. CASE Kill \/ WriteFails \/ Membership BY <1>4 DEF Kill, WriteFails, Membership, clientVars, process
<1>5. QED BY <1>1, <1>2, <1>3, <1>4 DEF ClientNext, PurgeSteps

LEMMA PurgedStep ==
    ASSUME ~ActsEarly, Base, Asleep, Purged, ClientNext
    PROVE  Purged'
<1>1. DeviceTyped BY DEF Base
<1>2. CASE ~PurgeSteps
  <2>1. UNCHANGED purge BY <1>2, PurgeBegins
  <2>2. CASE Purging BY <1>2, <2>1, <2>2, PurgeStays DEF Purged, Purging
  <2>3. CASE ~Purging BY <2>1, <2>3 DEF Purged, Purging
  <2>4. QED BY <2>2, <2>3
<1>3. CASE BootPurges
  <2>1. disk' = disk /\ discarded' = discarded \cup Uuids(disk.queue) /\ purge'.removed = 0
      BY <1>3 DEF BootPurges
  <2>2. QED BY <2>1 DEF Purged
<1>4. CASE RemoveKey
  <2>1. /\ Purging /\ purge.removed \in 0..4 /\ Removes(disk, disk', purge.removed + 1)
        /\ purge'.removed = purge.removed + 1 /\ discarded' = discarded
      BY <1>1, <1>4, RemoveKeyIs
  <2>2. disk'.queue = disk.queue \/ disk'.queue = <<>> BY <2>1 DEF Removes
  <2>3. Uuids(disk'.queue) \subseteq discarded' BY <2>1, <2>2, UuidsNone DEF Purged
  <2>4. disk'.replica = NoReplica BY <2>1 DEF Removes, Purged
  <2>5. purge'.removed >= 4 => disk'.queue = <<>> BY <2>1 DEF Removes, Purged
  <2>6. QED BY <2>3, <2>4, <2>5 DEF Purged
<1>5. CASE BootReports \/ KillInPurge BY <1>5 DEF BootReports, KillInPurge, Purged, Purging
<1>6. QED BY <1>2, <1>3, <1>4, <1>5 DEF PurgeSteps

-----------------------------------------------------------------------------
(* The order of the queue's writes *)

LEMMA OrderMore ==
    ASSUME NEW E, NEW F, NEW sv, NEW q0, NEW ws, NEW n, Orderly(E, sv, q0, ws, n), E \subseteq F
    PROVE  Orderly(F, sv, q0, ws, n)
BY DEF Orderly

\* Two excuses that both hold: what neither of them covers alone is not needed.
LEMMA OrderMeet ==
    ASSUME NEW E, NEW F, NEW G, NEW sv, NEW q0, NEW ws, NEW n,
           Orderly(E, sv, q0, ws, n), Orderly(F, sv, q0, ws, n), E \cap F \subseteq G
    PROVE  Orderly(G, sv, q0, ws, n)
BY DEF Orderly

\* An excuse for a command nobody saved or queued is not needed.
LEMMA OrderWithin ==
    ASSUME NEW E, NEW F, NEW M, NEW sv, NEW q0, NEW ws, NEW n,
           Orderly(E, sv, q0, ws, n), sv \subseteq M, HoldsOnly(ws, M), E \cap M \subseteq F
    PROVE  Orderly(F, sv, q0, ws, n)
BY DEF Orderly, HoldsOnly

LEMMA OrderNone ==
    ASSUME NEW E, NEW sv, NEW q0, NEW n, sv \subseteq Uuids(q0) \cup E
    PROVE  Orderly(E, sv, q0, <<>>, n)
<1>1. DOMAIN <<>> = {} OBVIOUS
<1>2. QED BY <1>1 DEF Orderly

\* The first of the writes reaches the disk.
LEMMA OrderSettle ==
    ASSUME NEW E, NEW sv, NEW q0, NEW ws \in Seq(Writes), ws # <<>>, NEW n \in Nat,
           Orderly(E, sv, q0, ws, n + 1), n >= 1
    PROVE  IF Head(ws).key = "queue"
           THEN Orderly(E, sv \cup Uuids(Head(ws).value), Head(ws).value, Tail(ws), n)
           ELSE Orderly(E, sv, q0, Tail(ws), n)
<1> PICK w, tl : w = Head(ws) /\ tl = Tail(ws) OBVIOUS
<1>1. /\ w = ws[1] /\ 1 \in DOMAIN ws
      /\ \A k \in DOMAIN tl : k \in Nat /\ k >= 1 /\ k + 1 \in DOMAIN ws /\ tl[k] = ws[k + 1]
    BY TailIs
<1>2. \A k \in DOMAIN tl : k < n => k + 1 < n + 1 /\ 1 < k + 1 BY <1>1
<1>3. \A j, k \in DOMAIN tl : j < k => j + 1 < k + 1 BY <1>1
<1>4. 1 < n + 1 OBVIOUS
<1>5. /\ sv \subseteq Uuids(q0) \cup E
      /\ \A k \in DOMAIN ws : ws[k].key = "queue" /\ k < n + 1 => sv \subseteq Uuids(ws[k].value) \cup E
      /\ \A j, k \in DOMAIN ws :
            ws[j].key = "queue" /\ ws[k].key = "queue" /\ j < k /\ k < n + 1 =>
                Uuids(ws[j].value) \subseteq Uuids(ws[k].value) \cup E
    BY DEF Orderly
<1>6. \A k \in DOMAIN tl : tl[k].key = "queue" /\ k < n => sv \subseteq Uuids(tl[k].value) \cup E
    BY <1>1, <1>2, <1>5
<1>7. \A j, k \in DOMAIN tl :
        tl[j].key = "queue" /\ tl[k].key = "queue" /\ j < k /\ k < n =>
            Uuids(tl[j].value) \subseteq Uuids(tl[k].value) \cup E
  <2> SUFFICES ASSUME NEW j \in DOMAIN tl, NEW k \in DOMAIN tl, tl[j].key = "queue", tl[k].key = "queue", j < k, k < n
               PROVE  Uuids(tl[j].value) \subseteq Uuids(tl[k].value) \cup E
      OBVIOUS
  <2> PICK a, b : a = j + 1 /\ b = k + 1 OBVIOUS
  <2>1. a \in DOMAIN ws /\ b \in DOMAIN ws /\ tl[j] = ws[a] /\ tl[k] = ws[b] /\ a < b /\ b < n + 1
      BY <1>1, <1>2, <1>3
  <2>2. QED BY <1>5, <2>1
<1>8. CASE w.key = "queue"
  <2>1. sv \subseteq Uuids(w.value) \cup E BY <1>1, <1>4, <1>5, <1>8
  <2>2. ASSUME NEW k \in DOMAIN tl, tl[k].key = "queue", k < n
        PROVE  Uuids(w.value) \subseteq Uuids(tl[k].value) \cup E
    <3> PICK b : b = k + 1 OBVIOUS
    <3>1. b \in DOMAIN ws /\ tl[k] = ws[b] /\ 1 < b /\ b < n + 1 BY <1>1, <1>2, <2>2
    <3>2. QED BY <1>1, <1>5, <1>8, <2>2, <3>1
  <2>3. QED BY <1>6, <1>7, <1>8, <2>1, <2>2 DEF Orderly
<1>9. CASE w.key # "queue" BY <1>5, <1>6, <1>7, <1>9 DEF Orderly
<1>10. QED BY <1>8, <1>9

\* The first of the writes never does.
LEMMA OrderDrop ==
    ASSUME NEW E, NEW sv, NEW q0, NEW ws \in Seq(Writes), ws # <<>>, NEW n \in Nat,
           Orderly(E, sv, q0, ws, n + 1)
    PROVE  Orderly(E, sv, q0, Tail(ws), n)
<1> PICK tl : tl = Tail(ws) OBVIOUS
<1>1. \A k \in DOMAIN tl : k \in Nat /\ k >= 1 /\ k + 1 \in DOMAIN ws /\ tl[k] = ws[k + 1]
    BY TailIs
<1>2. ASSUME NEW k \in DOMAIN tl, tl[k].key = "queue", k < n PROVE sv \subseteq Uuids(tl[k].value) \cup E
  <2> PICK b : b = k + 1 OBVIOUS
  <2>1. b \in DOMAIN ws /\ tl[k] = ws[b] /\ b < n + 1 BY <1>1, <1>2
  <2>2. QED BY <1>2, <2>1 DEF Orderly
<1>3. ASSUME NEW j \in DOMAIN tl, NEW k \in DOMAIN tl, tl[j].key = "queue", tl[k].key = "queue", j < k, k < n
      PROVE  Uuids(tl[j].value) \subseteq Uuids(tl[k].value) \cup E
  <2> PICK a, b : a = j + 1 /\ b = k + 1 OBVIOUS
  <2>1. a \in DOMAIN ws /\ b \in DOMAIN ws /\ tl[j] = ws[a] /\ tl[k] = ws[b] /\ a < b /\ b < n + 1
      BY <1>1, <1>3
  <2>2. QED BY <1>3, <2>1 DEF Orderly
<1>4. sv \subseteq Uuids(q0) \cup E BY DEF Orderly
<1>5. QED BY <1>2, <1>3, <1>4 DEF Orderly

\* What is appended does not matter to the writes before it.
LEMMA OrderBefore ==
    ASSUME NEW E, NEW sv, NEW q0, NEW ws \in Seq(Writes), NEW more \in Seq(Writes), NEW n \in Nat,
           n <= Len(ws) + 1, Orderly(E, sv, q0, ws, n)
    PROVE  Orderly(E, sv, q0, ws \o more, n)
<1> PICK all : all = ws \o more OBVIOUS
<1>1. /\ Len(ws) \in Nat /\ DOMAIN ws = 1..Len(ws)
      /\ \A k \in 1..Len(ws) : all[k] = ws[k]
      /\ DOMAIN all = 1..(Len(ws) + Len(more)) /\ Len(more) \in Nat
    BY JoinIs
<1>2. \A k \in DOMAIN all : k < n => k \in DOMAIN ws /\ all[k] = ws[k] BY <1>1
<1>3. \A j, k \in DOMAIN all : j < k /\ k < n => j < n BY <1>1
<1>4. QED BY <1>2, <1>3 DEF Orderly

\* At most one queue is appended, and it holds what is saved and queued so far.
LEMMA OrderJoin ==
    ASSUME NEW E, NEW sv, NEW q0, NEW ws \in Seq(Writes), NEW more \in Seq(Writes),
           Orderly(E, sv, q0, ws, Len(ws) + 1),
           \A k \in DOMAIN more : more[k].key = "queue" =>
               /\ sv \subseteq Uuids(more[k].value) \cup E
               /\ HoldsOnly(ws, Uuids(more[k].value) \cup E)
               /\ \A j \in DOMAIN more : more[j].key = "queue" => j = k
    PROVE  Orderly(E, sv, q0, ws \o more, Len(ws \o more) + 1)
<1> PICK all, m : all = ws \o more /\ m = Len(ws) OBVIOUS
<1>1. /\ m \in Nat /\ DOMAIN ws = 1..m /\ Len(more) \in Nat /\ DOMAIN more = 1..Len(more)
      /\ \A k \in 1..m : all[k] = ws[k]
      /\ \A k \in 1..Len(more) : all[m + k] = more[k]
      /\ DOMAIN all = 1..(m + Len(more))
      /\ \A k \in DOMAIN all : k \in 1..m \/ (k > m /\ \E i \in 1..Len(more) : k = m + i)
    BY JoinIs
<1>2. ASSUME NEW k \in DOMAIN all, all[k].key = "queue"
      PROVE  /\ sv \subseteq Uuids(all[k].value) \cup E
             /\ \A j \in DOMAIN all : all[j].key = "queue" /\ j < k =>
                    Uuids(all[j].value) \subseteq Uuids(all[k].value) \cup E
  <2>1. CASE k \in 1..m
    <3>1. all[k] = ws[k] /\ k < m + 1 BY <1>1, <2>1
    <3>2. sv \subseteq Uuids(all[k].value) \cup E BY <1>1, <1>2, <2>1, <3>1 DEF Orderly
    <3>3. ASSUME NEW j \in DOMAIN all, all[j].key = "queue", j < k
          PROVE  Uuids(all[j].value) \subseteq Uuids(all[k].value) \cup E
      <4>1. j \in 1..m BY <1>1, <2>1, <3>3
      <4>2. all[j] = ws[j] BY <1>1, <4>1
      <4>3. QED BY <1>1, <1>2, <2>1, <3>1, <3>3, <4>1, <4>2 DEF Orderly
    <3>4. QED BY <3>2, <3>3
  <2>2. CASE k \notin 1..m
    <3>1. PICK i \in DOMAIN more : k = m + i /\ all[k] = more[i] BY <1>1, <2>2
    <3>2. sv \subseteq Uuids(more[i].value) \cup E /\ HoldsOnly(ws, Uuids(more[i].value) \cup E) BY <1>2, <3>1
    <3>3. ASSUME NEW j \in DOMAIN all, all[j].key = "queue", j < k
          PROVE  Uuids(all[j].value) \subseteq Uuids(all[k].value) \cup E
      <4>1. CASE j \in 1..m BY <1>1, <3>1, <3>2, <3>3, <4>1 DEF HoldsOnly
      <4>2. CASE j \notin 1..m
        <5>1. PICK h \in 1..Len(more) : j = m + h BY <1>1, <4>2
        <5>2. h \in DOMAIN more /\ all[j] = more[h] BY <1>1, <5>1
        <5>3. h = i BY <1>2, <3>1, <3>3, <5>2
        <5>4. j = k BY <3>1, <5>1, <5>3
        <5>5. k \in Nat BY <1>1
        <5>6. QED BY <3>3, <5>4, <5>5
      <4>3. QED BY <4>1, <4>2
    <3>4. QED BY <3>1, <3>2, <3>3
  <2>3. QED BY <2>1, <2>2
<1>3. sv \subseteq Uuids(q0) \cup E BY DEF Orderly
<1>4. QED BY <1>2, <1>3 DEF Orderly

-----------------------------------------------------------------------------
(* Nothing saved is lost *)

LEMMA KeptNext ==
    ASSUME Orderly(Accounted', saved', disk'.queue, writes', Len(writes') + 1),
           up' = "up" /\ stored' = NoAnswer =>
               /\ saved' \subseteq Uuids(queue') \cup Accounted'
               /\ HoldsOnly(writes', Uuids(queue') \cup Accounted'),
           lane'.job \notin {"lost", "gone"} =>
               Orderly(Cmds \ Uuids(queue'), saved', disk'.queue, writes', Len(writes') + 1),
           \A n \in Nat : Notice(writes', n) =>
               /\ lane'.job = "lost"
               /\ Orderly(Decided' \cup (discarded' \ lane'.batch), saved', disk'.queue, writes', n),
           lane'.job = "lost" => Uuids(queue') \subseteq discarded'
    PROVE  Kept'
<1>1. InOrder(Accounted, Len(writes) + 1)' BY DEF InOrder
<1>2. InMemory' BY DEF InMemory, Reading
<1>3. NotAhead' BY DEF NotAhead, InOrder
<1>4. NoticeFirst' BY DEF NoticeFirst, InOrder, Notice
<1>5. QED BY <1>1, <1>2, <1>3, <1>4 DEF Kept

\* A step that writes no queue and no notice, and does not change what is queued.
LEMMA KeptQuiet ==
    ASSUME DeviceTyped, Kept, Decided \subseteq Decided', UNCHANGED <<process, saved, discarded>>,
           disk'.queue = disk.queue, Uuids(queue') = Uuids(queue),
           NEW more \in Seq(Writes), writes' = writes \o more,
           \A k \in DOMAIN more : more[k].key \notin {"queue", "lossNotice"},
           lane' = lane \/ (lane.job \notin {"lost", "gone"} /\ lane'.job \notin {"lost", "gone"})
    PROVE  Kept'
<1> PICK A, D, D1, ws : /\ A = Accounted' /\ D = Decided' /\ ws = writes'
                        /\ D1 = Decided
    OBVIOUS
<1>1. writes \in Seq(Writes) /\ ws = writes \o more BY DEF DeviceTyped
<1>2. Accounted \subseteq A /\ D1 \subseteq D BY DEF Accounted
<1>3. Orderly(A, saved, disk.queue, ws, Len(ws) + 1)
  <2>1. Orderly(Accounted, saved, disk.queue, writes, Len(writes) + 1) BY DEF Kept, InOrder
  <2>2. Orderly(Accounted, saved, disk.queue, ws, Len(ws) + 1) BY <1>1, <2>1, OrderJoin
  <2>3. QED BY <1>2, <2>2, OrderMore
<1>4. up' = "up" /\ stored' = NoAnswer =>
        /\ saved \subseteq Uuids(queue) \cup A
        /\ HoldsOnly(ws, Uuids(queue) \cup A)
  <2> SUFFICES ASSUME up' = "up", stored' = NoAnswer
               PROVE  saved \subseteq Uuids(queue) \cup A /\ HoldsOnly(ws, Uuids(queue) \cup A)
      OBVIOUS
  <2>1. saved \subseteq Uuids(queue) \cup Accounted /\ HoldsOnly(writes, Uuids(queue) \cup Accounted)
      BY DEF Kept, InMemory, process, Reading
  <2>2. HoldsOnly(writes, Uuids(queue) \cup A) BY <1>2, <2>1, HoldsMore
  <2>3. HoldsOnly(more, Uuids(queue) \cup A) BY DEF HoldsOnly
  <2>4. QED BY <1>1, <1>2, <2>1, <2>2, <2>3, HoldsJoin
<1>5. lane'.job \notin {"lost", "gone"} =>
        Orderly(Cmds \ Uuids(queue), saved, disk.queue, ws, Len(ws) + 1)
  <2> SUFFICES ASSUME lane'.job \notin {"lost", "gone"}
               PROVE  Orderly(Cmds \ Uuids(queue), saved, disk.queue, ws, Len(ws) + 1)
      OBVIOUS
  <2>1. Orderly(Cmds \ Uuids(queue), saved, disk.queue, writes, Len(writes) + 1) BY DEF Kept, NotAhead, InOrder
  <2>2. QED BY <1>1, <2>1, OrderJoin
<1>6. ASSUME NEW n \in Nat, Notice(ws, n)
      PROVE  /\ lane' = lane /\ lane.job = "lost"
             /\ Orderly(D \cup (discarded \ lane.batch), saved, disk.queue, ws, n)
  <2>1. n \in DOMAIN writes /\ ws[n] = writes[n] /\ n <= Len(writes) + 1
    <3>1. n \in DOMAIN ws /\ ws[n].key = "lossNotice" BY <1>6 DEF Notice
    <3>2. /\ DOMAIN writes = 1..Len(writes) /\ Len(writes) \in Nat /\ DOMAIN more = 1..Len(more)
          /\ \A k \in 1..Len(writes) : ws[k] = writes[k]
          /\ \A k \in 1..Len(more) : ws[Len(writes) + k] = more[k]
          /\ \A k \in DOMAIN ws : k \in 1..Len(writes) \/ (k > Len(writes) /\ \E i \in 1..Len(more) : k = Len(writes) + i)
        BY <1>1, JoinIs
    <3>3. n \in 1..Len(writes)
      <4> SUFFICES ASSUME n \notin 1..Len(writes) PROVE FALSE OBVIOUS
      <4>1. PICK i \in 1..Len(more) : n = Len(writes) + i BY <3>1, <3>2
      <4>2. ws[n] = more[i] /\ i \in DOMAIN more BY <3>2, <4>1
      <4>3. QED BY <3>1, <4>2
    <3>4. QED BY <3>2, <3>3
  <2>2. Notice(writes, n) BY <1>6, <2>1 DEF Notice
  <2> PICK E, F : E = D1 \cup (discarded \ lane.batch) /\ F = D \cup (discarded \ lane.batch) OBVIOUS
  <2>3. lane.job = "lost" /\ Orderly(E, saved, disk.queue, writes, n) BY <2>2 DEF Kept, NoticeFirst, InOrder
  <2>4. Orderly(E, saved, disk.queue, ws, n) BY <1>1, <2>1, <2>3, OrderBefore
  <2>5. E \subseteq F BY <1>2
  <2>6. QED BY <2>3, <2>4, <2>5, OrderMore
<1>7. lane'.job = "lost" => Uuids(queue) \subseteq discarded BY DEF Kept
<1>8. saved' = saved /\ discarded' = discarded OBVIOUS
<1>9. QED BY <1>3, <1>4, <1>5, <1>6, <1>7, <1>8, KeptNext

\* One queue is appended, among other writes.
LEMMA OrderOne ==
    ASSUME NEW E, NEW sv, NEW q0, NEW ws \in Seq(Writes), NEW more \in Seq(Writes),
           Orderly(E, sv, q0, ws, Len(ws) + 1),
           NEW i \in DOMAIN more, NEW q, more[i].value = q,
           \A k \in DOMAIN more : k # i => more[k].key # "queue",
           sv \subseteq Uuids(q) \cup E, HoldsOnly(ws, Uuids(q) \cup E)
    PROVE  Orderly(E, sv, q0, ws \o more, Len(ws \o more) + 1)
<1>1. ASSUME NEW k \in DOMAIN more, more[k].key = "queue"
      PROVE  /\ sv \subseteq Uuids(more[k].value) \cup E
             /\ HoldsOnly(ws, Uuids(more[k].value) \cup E)
             /\ \A j \in DOMAIN more : more[j].key = "queue" => j = k
  <2>1. k = i BY <1>1
  <2>2. more[k].value = q BY <2>1
  <2>3. QED BY <2>1, <2>2
<1>2. QED BY <1>1, OrderJoin

LEMMA NoticeJoin ==
    ASSUME NEW a \in Seq(Writes), NEW b \in Seq(Writes), NEW n, Notice(a \o b, n)
    PROVE  \/ n \in 1..Len(a) /\ Notice(a, n)
           \/ \E i \in DOMAIN b : n = Len(a) + i /\ Notice(b, i)
<1> PICK all, m : all = a \o b /\ m = Len(a) OBVIOUS
<1>1. n \in DOMAIN all /\ all[n].key = "lossNotice" /\ all[n].value > 0 BY DEF Notice
<1>2. /\ DOMAIN a = 1..m /\ DOMAIN b = 1..Len(b)
      /\ \A k \in 1..m : all[k] = a[k]
      /\ \A k \in 1..Len(b) : all[m + k] = b[k]
      /\ \A k \in DOMAIN all : k \in 1..m \/ (k > m /\ \E i \in 1..Len(b) : k = m + i)
    BY JoinIs
<1>3. CASE n \in 1..m BY <1>1, <1>2, <1>3 DEF Notice
<1>4. CASE n \notin 1..m
  <2>1. PICK i \in 1..Len(b) : n = m + i BY <1>1, <1>2, <1>4
  <2>2. i \in DOMAIN b /\ all[n] = b[i] BY <1>2, <2>1
  <2>3. QED BY <1>1, <2>1, <2>2 DEF Notice
<1>5. QED BY <1>3, <1>4

LEMMA NoticeOnlyLost ==
    ASSUME Kept, lane.job # "lost", NEW n \in Nat
    PROVE  ~Notice(writes, n)
BY DEF Kept, NoticeFirst

\* An edit: the appended queue holds all that is queued.
LEMMA KeptMutate ==
    ASSUME ~ActsEarly, Base, Kept, ClientNext, NEW c \in Cmds, Mutate(c)
    PROVE  Kept'
<1> PICK ws, more : ws = writes' /\ more = <<Forgotten("queue", queue'), Forgotten("replica", replica')>> OBVIOUS
<1>1. Typed /\ DeviceTyped /\ OnlyMade BY DEF Base
<1>2. /\ \E cmd \in Command : cmd.uuid = c /\ queue' = Append(queue, cmd)
      /\ queue' \in Queues /\ replica' \in Replicas /\ writes' = writes \o more
    BY <1>1, MutateType
<1> PICK q : q = queue' OBVIOUS
<1>3. Uuids(q) = Uuids(queue) \cup {c} BY <1>1, <1>2, UuidsAppend DEF DeviceTyped
<1>4. /\ more \in Seq(Writes) /\ DOMAIN more = {1, 2}
      /\ more[1].key = "queue" /\ more[1].value = q /\ more[2].key = "replica"
  <2>1. queue' \in Queues /\ replica' \in Replicas BY <1>2
  <2>2. QED BY <2>1, EditWrites
<1>5. /\ UNCHANGED <<process, lane, disk, saved, discarded>> /\ up = "up" /\ ~Reading
      /\ lane.job \notin {"lost", "gone"} /\ c \notin made
    BY DEF Mutate, Active
<1> PICK A, D, D1 : A = Accounted' /\ D = Decided' /\ D1 = Decided OBVIOUS
<1>6. D1 \subseteq D /\ Accounted \subseteq A BY <1>1, <1>5, DecidedGrows DEF Accounted
<1>7. writes \in Seq(Writes) /\ ws = writes \o more BY <1>1, <1>2 DEF DeviceTyped
<1>8. saved \subseteq made /\ HoldsOnly(writes, made) /\ Uuids(queue) \subseteq made /\ made \subseteq Cmds
    BY <1>1, ClientConstants DEF OnlyMade
<1>9. saved \subseteq Uuids(queue) \cup Accounted /\ HoldsOnly(writes, Uuids(queue) \cup Accounted)
    BY <1>5 DEF Kept, InMemory
<1>10. saved \subseteq Uuids(q) \cup A /\ HoldsOnly(writes, Uuids(q) \cup A)
  <2>1. Uuids(queue) \cup Accounted \subseteq Uuids(q) \cup A BY <1>3, <1>6
  <2>2. QED BY <1>9, <2>1, HoldsMore
<1>11. Orderly(A, saved, disk.queue, ws, Len(ws) + 1)
  <2>1. Orderly(Accounted, saved, disk.queue, writes, Len(writes) + 1) BY DEF Kept, InOrder
  <2>2. Orderly(A, saved, disk.queue, writes, Len(writes) + 1) BY <1>6, <2>1, OrderMore
  <2>3. QED BY <1>4, <1>7, <1>10, <2>2, OrderOne
<1>12. HoldsOnly(ws, Uuids(q) \cup A)
  <2>1. HoldsOnly(more, Uuids(q) \cup A) BY <1>4 DEF HoldsOnly
  <2>2. QED BY <1>4, <1>7, <1>10, <2>1, HoldsJoin
<1>13. Orderly(Cmds \ Uuids(q), saved, disk.queue, ws, Len(ws) + 1)
  <2>0. PICK E, F : E = Cmds \ Uuids(queue) /\ F = Cmds \ Uuids(q) OBVIOUS
  <2>1. Orderly(E, saved, disk.queue, writes, Len(writes) + 1) BY <1>5, <2>0 DEF Kept, NotAhead, InOrder
  <2>2. E \cap made \subseteq F BY <1>3, <1>5, <1>6, <2>0
  <2>3. Orderly(F, saved, disk.queue, writes, Len(writes) + 1) BY <1>8, <2>1, <2>2, OrderWithin
  <2>4. saved \subseteq Uuids(q) \cup F /\ HoldsOnly(writes, Uuids(q) \cup F)
    <3>1. made \subseteq Uuids(q) \cup F BY <1>8, <2>0
    <3>2. QED BY <1>8, <3>1, HoldsMore
  <2>5. 1 \in DOMAIN more /\ \A k \in DOMAIN more : k # 1 => more[k].key # "queue" BY <1>4
  <2>6. Orderly(F, saved, disk.queue, ws, Len(ws) + 1) BY <1>4, <1>7, <2>3, <2>4, <2>5, OrderOne
  <2>7. QED BY <2>0, <2>6
<1>14. ASSUME NEW n \in Nat PROVE ~Notice(ws, n)
  <2> SUFFICES ASSUME Notice(ws, n) PROVE FALSE OBVIOUS
  <2>1. \A i \in DOMAIN more : ~Notice(more, i) BY <1>4 DEF Notice
  <2>2. Notice(writes, n) BY <1>4, <1>7, <2>1, NoticeJoin DEF Notice
  <2>3. QED BY <1>5, <2>2, NoticeOnlyLost
<1>15. saved' = saved /\ discarded' = discarded /\ lane' = lane /\ disk' = disk BY <1>5
<1>16. QED BY <1>5, <1>11, <1>12, <1>10, <1>13, <1>14, <1>15, KeptNext

\* A reply to a flush: what it takes off the queue has its answer.
LEMMA KeptFlush ==
    ASSUME Base, Asleep, Kept, ClientNext, NEW s \in Slots, ApplyFlush(s)
    PROVE  Kept'
<1>1. Typed /\ OkIsApplied /\ Answers /\ OurRequest /\ DeviceTyped /\ OnlyMade /\ FlagDecided BY DEF Base
<1> PICK q, ws, w : q = queue' /\ ws = writes' /\ w = Write("queue", queue') OBVIOUS
<1>2. queue \in Queues /\ writes \in Seq(Writes) /\ lane \in Lane BY <1>1 DEF DeviceTyped
<1>3. q \in Queues /\ Uuids(q) = Uuids(queue) \ lane.batch
  <2>1. StillQueued \in Queues /\ Uuids(StillQueued) = Uuids(queue) \ lane.batch
      BY <1>2, WithoutKeeps DEF StillQueued
  <2>2. ApplyResponse(s, StillQueued) BY DEF ApplyFlush
  <2>3. queue' \in Queues /\ Uuids(queue') = Uuids(StillQueued) BY <1>1, <2>1, <2>2, ResponseType
  <2>4. QED BY <2>1, <2>3
<1>4. w \in Writes /\ w.key = "queue" /\ w.value = q /\ ws = writes \o <<w>>
  <2>1. w \in Writes BY <1>3, WriteTypes
  <2>2. QED BY <1>2, <2>1, KeysOfWrites, OneWrite DEF ApplyFlush
<1>5. lane.batch \subseteq Decided
  <2>1. CASE lane.step = "flag" BY <1>1, <2>1 DEF FlagDecided
  <2>2. CASE Refusals(s) = {} BY <1>1, <2>2, RefusedOrApplied DEF ApplyFlush, Decided
  <2>3. QED BY <2>1, <2>2 DEF ApplyFlush
<1>6. /\ UNCHANGED <<process, disk, saved, discarded>> /\ lane.job = "flush" /\ lane'.job = "flush"
    BY <1>2 DEF ApplyFlush, history, Lane
<1>7. up = "up" /\ ~Reading BY <1>1, <1>6 DEF Asleep, Idle, DeviceTyped
<1> PICK A, D, D1 : A = Accounted' /\ D = Decided' /\ D1 = Decided OBVIOUS
<1>8. D1 \subseteq D /\ Accounted \subseteq A /\ D \subseteq A BY <1>1, <1>6, DecidedGrows DEF Accounted
<1>9. saved \subseteq made /\ HoldsOnly(writes, made) /\ Uuids(queue) \subseteq made /\ made \subseteq Cmds
    BY <1>1, ClientConstants DEF OnlyMade
<1>10. saved \subseteq Uuids(q) \cup A /\ HoldsOnly(writes, Uuids(q) \cup A)
  <2>1. saved \subseteq Uuids(queue) \cup Accounted /\ HoldsOnly(writes, Uuids(queue) \cup Accounted)
      BY <1>7 DEF Kept, InMemory
  <2>2. Uuids(queue) \cup Accounted \subseteq Uuids(q) \cup A BY <1>3, <1>5, <1>8
  <2>3. QED BY <2>1, <2>2, HoldsMore
<1>11. Orderly(A, saved, disk.queue, ws, Len(ws) + 1)
  <2>1. Orderly(Accounted, saved, disk.queue, writes, Len(writes) + 1) BY DEF Kept, InOrder
  <2>2. Orderly(A, saved, disk.queue, writes, Len(writes) + 1) BY <1>8, <2>1, OrderMore
  <2>3. <<w>> \in Seq(Writes) /\ DOMAIN <<w>> = {1} /\ <<w>>[1] = w BY <1>4, OneWrite
  <2>4. QED BY <1>2, <1>4, <1>10, <2>2, <2>3, OrderOne
<1>12. HoldsOnly(ws, Uuids(q) \cup A) BY <1>2, <1>4, <1>10, HoldsAppend
<1>13. Orderly(Cmds \ Uuids(q), saved, disk.queue, ws, Len(ws) + 1)
  <2>0. PICK E, F : E = Cmds \ Uuids(queue) /\ F = Cmds \ Uuids(q) OBVIOUS
  <2>1. Orderly(E, saved, disk.queue, writes, Len(writes) + 1) BY <1>6, <2>0 DEF Kept, NotAhead, InOrder
  <2>2. E \subseteq F BY <1>3, <1>8, <2>0
  <2>3. Orderly(F, saved, disk.queue, writes, Len(writes) + 1) BY <2>1, <2>2, OrderMore
  <2>4. saved \subseteq Uuids(q) \cup F /\ HoldsOnly(writes, Uuids(q) \cup F)
    <3>1. made \subseteq Uuids(q) \cup F BY <1>9, <2>0
    <3>2. QED BY <1>9, <3>1, HoldsMore
  <2>5. <<w>> \in Seq(Writes) /\ DOMAIN <<w>> = {1} /\ <<w>>[1] = w BY <1>4, OneWrite
  <2>6. \A k \in DOMAIN <<w>> : k # 1 => <<w>>[k].key # "queue" BY <2>5
  <2>7. Orderly(F, saved, disk.queue, ws, Len(ws) + 1) BY <1>2, <1>4, <2>3, <2>4, <2>5, <2>6, OrderOne
  <2>8. QED BY <2>0, <2>7
<1>14. ASSUME NEW n \in Nat PROVE ~Notice(ws, n)
  <2> SUFFICES ASSUME Notice(ws, n) PROVE FALSE OBVIOUS
  <2>1. n \in DOMAIN ws /\ ws[n].key = "lossNotice" /\ ws[n].value > 0 BY DEF Notice
  <2>2. /\ DOMAIN ws = 1..(Len(writes) + 1) /\ DOMAIN writes = 1..Len(writes) /\ Len(writes) \in Nat
        /\ ws[Len(writes) + 1] = w /\ \A k \in 1..Len(writes) : ws[k] = writes[k]
      BY <1>2, <1>4
  <2>3. n # Len(writes) + 1 BY <1>4, <2>1, <2>2
  <2>4. n \in 1..Len(writes) BY <2>1, <2>2, <2>3
  <2>5. Notice(writes, n) BY <2>1, <2>2, <2>4 DEF Notice
  <2>6. QED BY <1>6, <2>5, NoticeOnlyLost
<1>15. saved' = saved /\ discarded' = discarded /\ disk' = disk /\ lane'.job = "flush" BY <1>6
<1>16. QED BY <1>10, <1>11, <1>12, <1>13, <1>14, <1>15, KeptNext

\* Access is lost: the notice is issued before the writes that empty the disk, and
\* until it settles only what had left the queue with an answer is not on disk.
LEMMA KeptLost ==
    ASSUME Base, Asleep, Kept, ClientNext, NEW s \in Slots, LoseAccess(s)
    PROVE  Kept'
<1>1. Typed /\ DeviceTyped /\ OnlyMade /\ LaneShape BY DEF Base
<1> PICK ws, m, p : ws = writes' /\ m = Cardinality(Doomed) /\ p = Purge(Cardinality(Doomed)) OBVIOUS
<1>2. /\ UNCHANGED <<process, queue, disk, saved>> /\ discarded' = discarded \cup Uuids(queue) \cup rejected
      /\ ws = writes \o p /\ lane'.job = "lost" /\ lane'.batch = Doomed
    BY DEF LoseAccess, Idle
<1>3. writes \in Seq(Writes) /\ p \in Seq(Writes) BY <1>1, DoomedType, PurgeType DEF DeviceTyped
<1>4. /\ DOMAIN p = 1..5 /\ p[5].key = "queue" /\ p[5].value = <<>>
      /\ \A k \in DOMAIN p : k # 5 => p[k].key # "queue"
      /\ \A k \in DOMAIN p : k # 1 => p[k].key # "lossNotice"
  <2>1. \A k \in 1..5 : k = 1 \/ k \in 2..4 \/ k = 5 OBVIOUS
  <2>2. QED BY <2>1, PurgeIs
<1>5. lane.job \in {"flush", "pull", "recover"} BY <1>1 DEF LaneShape, LoseAccess, Replied
<1>6. up = "up" /\ ~Reading BY <1>1, <1>5 DEF Asleep, Idle, DeviceTyped
<1> PICK A, D, D1 : A = Accounted' /\ D = Decided' /\ D1 = Decided OBVIOUS
<1>7. D1 \subseteq D /\ Accounted \subseteq A /\ Uuids(queue) \subseteq A
    BY <1>1, <1>2, DecidedGrows DEF Accounted
<1>8. saved \subseteq A /\ HoldsOnly(writes, A)
  <2>1. saved \subseteq Uuids(queue) \cup Accounted /\ HoldsOnly(writes, Uuids(queue) \cup Accounted)
      BY <1>6 DEF Kept, InMemory
  <2>2. Uuids(queue) \cup Accounted \subseteq A BY <1>7
  <2>3. QED BY <2>1, <2>2, HoldsMore
<1>9. Orderly(A, saved, disk.queue, ws, Len(ws) + 1)
  <2>1. Orderly(Accounted, saved, disk.queue, writes, Len(writes) + 1) BY DEF Kept, InOrder
  <2>2. Orderly(A, saved, disk.queue, writes, Len(writes) + 1) BY <1>7, <2>1, OrderMore
  <2> PICK none : none = <<>> OBVIOUS
  <2>3. saved \subseteq Uuids(none) \cup A /\ HoldsOnly(writes, Uuids(none) \cup A)
    <3>1. A \subseteq Uuids(none) \cup A OBVIOUS
    <3>2. QED BY <1>8, <3>1, HoldsMore
  <2>4. 5 \in DOMAIN p /\ p[5].value = none /\ \A k \in DOMAIN p : k # 5 => p[k].key # "queue" BY <1>4
  <2>5. QED BY <1>2, <1>3, <2>2, <2>3, <2>4, OrderOne
<1>10. saved \subseteq Uuids(queue) \cup A /\ HoldsOnly(ws, Uuids(queue) \cup A)
  <2>1. HoldsOnly(p, A) BY PurgeHolds
  <2>2. HoldsOnly(ws, A) BY <1>2, <1>3, <1>8, <2>1, HoldsJoin
  <2>3. A \subseteq Uuids(queue) \cup A OBVIOUS
  <2>4. QED BY <1>8, <2>2, <2>3, HoldsMore
<1>11. ASSUME NEW n \in Nat, Notice(ws, n)
       PROVE  Orderly(D \cup (discarded' \ lane'.batch), saved, disk.queue, ws, n)
  <2>1. \A i \in DOMAIN p : Notice(p, i) => i = 1 BY <1>4 DEF Notice
  <2>2. ~Notice(writes, n) BY <1>5, NoticeOnlyLost
  <2>3. n = Len(writes) + 1 BY <1>2, <1>3, <1>11, <2>1, <2>2, NoticeJoin
  <2> PICK E1, E2, F : /\ E1 = Accounted /\ E2 = Cmds \ Uuids(queue)
                       /\ F = D \cup (discarded' \ lane'.batch)
      OBVIOUS
  <2>4. Orderly(E1, saved, disk.queue, writes, Len(writes) + 1) BY DEF Kept, InOrder
  <2>5. Orderly(E2, saved, disk.queue, writes, Len(writes) + 1) BY <1>5 DEF Kept, NotAhead, InOrder
  <2>6. E1 \cap E2 \subseteq F
    <3>1. E1 = D1 \cup discarded BY DEF Accounted
    <3>2. rejected \subseteq D1 BY <1>1 DEF Decided, OnlyMade
    <3>3. F = D \cup (discarded \ (Uuids(queue) \cup rejected)) BY <1>2 DEF Doomed
    <3>4. QED BY <1>7, <3>1, <3>2, <3>3
  <2>7. Orderly(F, saved, disk.queue, writes, Len(writes) + 1) BY <2>4, <2>5, <2>6, OrderMeet
  <2>8. Len(writes) + 1 \in Nat /\ Len(writes) + 1 <= Len(writes) + 1 BY <1>3
  <2>9. QED BY <1>2, <1>3, <2>3, <2>7, <2>8, OrderBefore
<1>12. saved' = saved /\ disk' = disk /\ queue' = queue /\ lane'.job = "lost" BY <1>2
<1>13. Uuids(queue) \subseteq discarded' BY <1>2
<1>14. QED BY <1>9, <1>10, <1>11, <1>12, <1>13, KeptNext

LEMMA NoticeNone == ASSUME NEW n PROVE ~Notice(<<>>, n)
<1>1. DOMAIN <<>> = {} OBVIOUS
<1>2. QED BY <1>1 DEF Notice

LEMMA NoticeTail ==
    ASSUME NEW ws \in Seq(Writes), ws # <<>>, NEW n \in Nat, Notice(Tail(ws), n)
    PROVE  Notice(ws, n + 1) /\ n >= 1
BY TailIs DEF Notice

LEMMA KeptSettle ==
    ASSUME Base, Asleep, Kept, ClientNext, Settle
    PROVE  Kept'
<1>1. Typed /\ DeviceTyped BY DEF Base
<1> PICK w, tl : w = Head(writes) /\ tl = Tail(writes) OBVIOUS
<1>2. /\ writes # <<>> /\ writes' = tl /\ disk' = [disk EXCEPT ![w.key] = w.value]
      /\ saved' = IF w.key = "queue" THEN saved \cup Uuids(w.value) ELSE saved
      /\ UNCHANGED <<serverVars, process, volatile, refused, discarded>>
    BY DEF Settle, Settled
<1>3. writes \in Seq(Writes) /\ disk \in Disk BY <1>1 DEF DeviceTyped
<1>4. /\ tl \in Seq(Writes) /\ w \in Writes /\ Len(tl) \in Nat /\ Len(writes) = Len(tl) + 1 /\ Len(tl) + 1 >= 1
    BY <1>2, <1>3, TailIs
<1>5. disk'.queue = IF w.key = "queue" THEN w.value ELSE disk.queue
  <2>1. w.key \in {"queue", "replica", "token", "needsFullSync", "lossNotice"} BY <1>4, WriteKeys
  <2>2. QED BY <1>2, <1>3, <2>1 DEF Disk
<1>6. up = "up" /\ ~Reading BY <1>1, <1>2 DEF Asleep, DeviceTyped
<1>7. ASSUME NEW E, NEW n \in Nat, n >= 1, Orderly(E, saved, disk.queue, writes, n + 1)
      PROVE  Orderly(E, saved', disk'.queue, tl, n)
  <2>1. IF w.key = "queue" THEN Orderly(E, saved \cup Uuids(w.value), w.value, tl, n)
                           ELSE Orderly(E, saved, disk.queue, tl, n)
      BY <1>2, <1>3, <1>7, OrderSettle
  <2>2. QED BY <1>2, <1>5, <2>1
<1>8. UNCHANGED <<Decided, Accounted, queue, lane, discarded>>
    BY <1>2 DEF Decided, Accounted, Applied, serverVars, volatile
<1>9. Orderly(Accounted, saved', disk'.queue, tl, Len(tl) + 1)
  <2>1. Orderly(Accounted, saved, disk.queue, writes, Len(tl) + 1 + 1) BY <1>4 DEF Kept, InOrder
  <2>2. QED BY <1>4, <1>7, <2>1
<1>10. saved' \subseteq Uuids(queue) \cup Accounted /\ HoldsOnly(tl, Uuids(queue) \cup Accounted)
  <2>1. saved \subseteq Uuids(queue) \cup Accounted /\ HoldsOnly(writes, Uuids(queue) \cup Accounted)
      BY <1>6 DEF Kept, InMemory
  <2>2. /\ HoldsOnly(tl, Uuids(queue) \cup Accounted)
        /\ w.key = "queue" => Uuids(w.value) \subseteq Uuids(queue) \cup Accounted
      BY <1>2, <1>3, <2>1, HoldsTail
  <2>3. QED BY <1>2, <2>1, <2>2
<1>11. lane.job \notin {"lost", "gone"} =>
         Orderly(Cmds \ Uuids(queue), saved', disk'.queue, tl, Len(tl) + 1)
  <2> SUFFICES ASSUME lane.job \notin {"lost", "gone"}
               PROVE  Orderly(Cmds \ Uuids(queue), saved', disk'.queue, tl, Len(tl) + 1)
      OBVIOUS
  <2>1. Orderly(Cmds \ Uuids(queue), saved, disk.queue, writes, Len(tl) + 1 + 1)
      BY <1>4 DEF Kept, NotAhead, InOrder
  <2>2. QED BY <1>4, <1>7, <2>1
<1>12. ASSUME NEW n \in Nat, Notice(tl, n)
       PROVE  lane.job = "lost" /\ Orderly(Decided \cup (discarded \ lane.batch), saved', disk'.queue, tl, n)
  <2>1. Notice(writes, n + 1) /\ n >= 1 /\ n + 1 \in Nat BY <1>2, <1>3, <1>12, NoticeTail
  <2>2. lane.job = "lost" /\ Orderly(Decided \cup (discarded \ lane.batch), saved, disk.queue, writes, n + 1)
      BY <2>1 DEF Kept, NoticeFirst, InOrder
  <2>3. QED BY <1>7, <2>1, <2>2
<1>13. lane.job = "lost" => Uuids(queue) \subseteq discarded BY DEF Kept
<1>14. QED BY <1>2, <1>8, <1>9, <1>10, <1>11, <1>12, <1>13, KeptNext

\* The user has heard of the loss: what memory still held is among it.
LEMMA KeptReported ==
    ASSUME Base, Asleep, Kept, ClientNext, ReportLoss
    PROVE  Kept'
<1>1. Typed /\ DeviceTyped BY DEF Base
<1>2. /\ lane.job = "lost" /\ writes = <<>> /\ queue' = <<>> /\ writes' = <<Write("lossNotice", 0)>>
      /\ lane'.job = "gone" /\ UNCHANGED <<serverVars, process, disk, saved, refused, discarded>>
    BY DEF ReportLoss, Settled, Idle
<1> PICK w : w = Write("lossNotice", 0) OBVIOUS
<1>3. w \in Writes /\ w.key = "lossNotice" /\ w.value = 0 /\ <<>> \in Seq(Writes) BY WriteTypes, KeysOfWrites
<1>4. <<w>> \in Seq(Writes) /\ DOMAIN <<w>> = {1} /\ <<w>>[1] = w /\ <<>> \o <<w>> = <<w>> BY <1>3, OneWrite
<1>5. up = "up" /\ ~Reading BY <1>1, <1>2 DEF Asleep, DeviceTyped, Idle
<1>6. UNCHANGED <<Decided, Accounted>> BY <1>2 DEF Decided, Accounted, Applied, serverVars
<1>7. Orderly(Accounted, saved, disk.queue, <<w>>, Len(<<w>>) + 1)
  <2>1. Orderly(Accounted, saved, disk.queue, <<>>, Len(<<>>) + 1) BY <1>2 DEF Kept, InOrder
  <2>2. \A k \in DOMAIN <<w>> : <<w>>[k].key # "queue" BY <1>3, <1>4
  <2>3. Orderly(Accounted, saved, disk.queue, <<>> \o <<w>>, Len(<<>> \o <<w>>) + 1)
      BY <1>3, <1>4, <2>1, <2>2, OrderJoin
  <2>4. QED BY <1>4, <2>3
<1>8. saved \subseteq Accounted
    BY <1>2, <1>5 DEF Kept, InMemory, Accounted
<1>9. HoldsOnly(<<w>>, Uuids(<<>>) \cup Accounted) BY <1>3, <1>4 DEF HoldsOnly
<1>10. ASSUME NEW n \in Nat PROVE ~Notice(<<w>>, n) BY <1>3, <1>4 DEF Notice
<1>11. QED BY <1>2, <1>6, <1>7, <1>8, <1>9, <1>10, KeptNext

\* The process dies: the disk holds what is saved, and a purge whose notice was
\* still under way had not touched it.
LEMMA KeptKill ==
    ASSUME Base, Kept, ClientNext, Kill
    PROVE  Kept'
<1>1. Typed /\ DeviceTyped /\ OnlyMade BY DEF Base
<1>2. /\ writes' = <<>> /\ up' = "down" /\ lane'.job = "idle" /\ queue' = <<>>
      /\ discarded' = IF NoticePending THEN discarded \ lane.batch ELSE discarded
      /\ UNCHANGED <<serverVars, disk, saved, refused>>
    BY DEF Kill, Forget, Idle
<1>3. UNCHANGED Decided BY <1>2 DEF Decided, Applied, serverVars
<1>4. saved \subseteq Uuids(disk.queue) \cup Decided \cup discarded'
  <2>1. CASE NoticePending
    <3>1. PICK n \in DOMAIN writes : Notice(writes, n) BY <2>1 DEF NoticePending, Notice
    <3>2. n \in Nat BY <1>1 DEF DeviceTyped
    <3>3. Orderly(Decided \cup (discarded \ lane.batch), saved, disk.queue, writes, n)
        BY <3>1, <3>2 DEF Kept, NoticeFirst, InOrder
    <3>4. QED BY <1>2, <2>1, <3>3 DEF Orderly
  <2>2. CASE ~NoticePending BY <1>2, <2>2 DEF Kept, InOrder, Orderly, Accounted
  <2>3. QED BY <2>1, <2>2
<1>5. Accounted' = Decided \cup discarded' BY <1>3 DEF Accounted
<1>6. Orderly(Accounted', saved, disk.queue, <<>>, Len(<<>>) + 1) BY <1>4, <1>5, OrderNone
<1>7. Orderly(Cmds \ Uuids(<<>>), saved, disk.queue, <<>>, Len(<<>>) + 1)
  <2>1. saved \subseteq Cmds BY <1>1, ClientConstants DEF OnlyMade
  <2>2. QED BY <2>1, UuidsNone, OrderNone
<1>8. QED BY <1>2, <1>3, <1>6, <1>7, NoticeNone, KeptNext

\* A start asks for what is stored, and changes neither the queue nor the disk's.
LEMMA KeptWake ==
    ASSUME Base, Asleep, Kept, ClientNext, Boot \/ BootFromCache
    PROVE  Kept'
<1>1. Typed /\ DeviceTyped BY DEF Base
<1>2. /\ up = "down" /\ stored' = Found
      /\ UNCHANGED <<serverVars, queue, lane, writes, saved, refused, discarded>>
      /\ disk'.queue = disk.queue
    BY <1>1 DEF Boot, BootFromCache, Hydrate, volatile, DeviceTyped, Disk
<1>3. stored' # NoAnswer BY <1>2 DEF Found, NoAnswer
<1>4. UNCHANGED <<Decided, Accounted>> BY <1>2 DEF Decided, Accounted, Applied, serverVars
<1>5. Orderly(Accounted, saved, disk.queue, writes, Len(writes) + 1) BY DEF Kept, InOrder
<1>6. lane.job \notin {"lost", "gone"} =>
        Orderly(Cmds \ Uuids(queue), saved, disk.queue, writes, Len(writes) + 1)
    BY DEF Kept, NotAhead, InOrder
<1>7. \A n \in Nat : Notice(writes, n) =>
        lane.job = "lost" /\ Orderly(Decided \cup (discarded \ lane.batch), saved, disk.queue, writes, n)
    BY DEF Kept, NoticeFirst, InOrder
<1>8. lane.job = "lost" => Uuids(queue) \subseteq discarded BY DEF Kept
<1>9. QED BY <1>2, <1>3, <1>4, <1>5, <1>6, <1>7, <1>8, KeptNext

\* The reads answer with the disk as it is: no write was under way.
LEMMA KeptHydrated ==
    ASSUME Base, Asleep, Kept, ClientNext, Hydrated
    PROVE  Kept'
<1>1. Typed /\ DeviceTyped /\ OnlyMade BY DEF Base
<1>2. /\ Reading /\ UNCHANGED <<serverVars, lane, disk, writes, saved, refused, discarded>>
      /\ queue' = IF stored.queue = <<>> /\ ~stored.edited THEN queue ELSE stored.queue
    BY DEF Hydrated, Fill, history
<1>3. writes = <<>> /\ queue = <<>> /\ lane.job = "idle" /\ stored.queue = disk.queue
    BY <1>2 DEF Asleep, Found, Idle
<1>4. queue' = disk.queue BY <1>2, <1>3
<1>5. UNCHANGED <<Decided, Accounted>> BY <1>2 DEF Decided, Accounted, Applied, serverVars
<1>6. Orderly(Accounted, saved, disk.queue, <<>>, Len(<<>>) + 1) BY <1>3 DEF Kept, InOrder
<1>7. saved \subseteq Uuids(disk.queue) \cup Accounted BY <1>6 DEF Orderly
<1>8. Orderly(Cmds \ Uuids(disk.queue), saved, disk.queue, <<>>, Len(<<>>) + 1)
  <2>1. saved \subseteq Cmds BY <1>1, ClientConstants DEF OnlyMade
  <2>2. QED BY <2>1, OrderNone
<1>9. HoldsOnly(<<>>, Uuids(disk.queue) \cup Accounted) BY HoldsNone
<1>10. QED BY <1>2, <1>3, <1>4, <1>5, <1>6, <1>7, <1>8, <1>9, NoticeNone, KeptNext

\* A start that finds the workspace gone discards what is stored, and a start that
\* is killed in the purge keeps what it had not removed.
LEMMA KeptPurged ==
    ASSUME Base, Asleep, Purged, Kept, ClientNext, PurgeSteps
    PROVE  Kept'
<1>1. Typed /\ DeviceTyped /\ OnlyMade BY DEF Base
<1>2. up = "down" /\ UNCHANGED <<serverVars, up, queue, lane, writes, saved, refused>>
    BY <1>1, PurgeKeeps DEF volatile
<1>3. writes = <<>> /\ queue = <<>> /\ lane.job = "idle" BY <1>2 DEF Asleep, Idle
<1>4. UNCHANGED Decided BY <1>2 DEF Decided, Applied, serverVars
<1>5. saved \subseteq Uuids(disk.queue) \cup Decided \cup discarded BY DEF Kept, InOrder, Orderly, Accounted
<1>6. saved \subseteq Uuids(disk'.queue) \cup Decided \cup discarded'
  <2>1. CASE BootPurges BY <1>5, <2>1 DEF BootPurges
  <2>2. CASE RemoveKey
    <3>1. /\ Purging /\ discarded' = discarded
          /\ disk'.queue = <<>> \/ disk'.queue = disk.queue
        BY <1>1, <2>2, RemoveKeyIs DEF Removes
    <3>2. QED BY <1>5, <3>1 DEF Purged
  <2>3. CASE BootReports BY <1>5, <2>3 DEF BootReports
  <2>4. CASE KillInPurge BY <1>5, <2>4 DEF KillInPurge
  <2>5. QED BY <2>1, <2>2, <2>3, <2>4 DEF PurgeSteps
<1>7. Accounted' = Decided \cup discarded' BY <1>4 DEF Accounted
<1>8. \A q : saved \subseteq Uuids(q) \cup Accounted' => Orderly(Accounted', saved, q, <<>>, Len(<<>>) + 1)
    BY OrderNone
<1>9. \A q : Orderly(Cmds \ Uuids(<<>>), saved, q, <<>>, Len(<<>>) + 1)
  <2>1. saved \subseteq Cmds BY <1>1, ClientConstants DEF OnlyMade
  <2>2. QED BY <2>1, UuidsNone, OrderNone
<1>10. QED BY <1>2, <1>3, <1>4, <1>6, <1>7, <1>8, <1>9, NoticeNone, KeptNext

\* Storage refuses a write: the later ones hold all that the missing one held.
LEMMA KeptFailed ==
    ASSUME Base, Asleep, Kept, ClientNext, WriteFails
    PROVE  Kept'
<1>1. Typed /\ DeviceTyped BY DEF Base
<1> PICK tl : tl = Tail(writes) OBVIOUS
<1>2. /\ writes # <<>> /\ writes' = tl /\ lane.job \notin {"lost", "gone"} /\ lane'.job \notin {"lost", "gone"}
      /\ UNCHANGED <<serverVars, process, queue, disk, saved, refused, discarded>>
    BY DEF WriteFails, Settled, LeaveLane, Idle, history
<1>3. writes \in Seq(Writes) BY <1>1 DEF DeviceTyped
<1>4. tl \in Seq(Writes) /\ Len(tl) \in Nat /\ Len(writes) = Len(tl) + 1 /\ Len(tl) + 1 \in Nat
    BY <1>2, <1>3, TailIs
<1>5. UNCHANGED <<Decided, Accounted>> BY <1>2 DEF Decided, Accounted, Applied, serverVars
<1>6. ASSUME NEW E, Orderly(E, saved, disk.queue, writes, Len(writes) + 1)
      PROVE  Orderly(E, saved, disk.queue, tl, Len(tl) + 1)
    BY <1>2, <1>3, <1>4, <1>6, OrderDrop
<1>7. Orderly(Accounted, saved, disk.queue, tl, Len(tl) + 1) BY <1>6 DEF Kept, InOrder
<1>8. Orderly(Cmds \ Uuids(queue), saved, disk.queue, tl, Len(tl) + 1)
    BY <1>2, <1>6 DEF Kept, NotAhead, InOrder
<1>9. up = "up" /\ ~Reading BY <1>1, <1>2 DEF Asleep, DeviceTyped
<1>10. saved \subseteq Uuids(queue) \cup Accounted /\ HoldsOnly(tl, Uuids(queue) \cup Accounted)
    BY <1>2, <1>3, <1>9, HoldsTail DEF Kept, InMemory
<1>11. ASSUME NEW n \in Nat PROVE ~Notice(tl, n)
  <2>1. \A m \in Nat : ~Notice(writes, m) BY <1>2, NoticeOnlyLost
  <2>2. n + 1 \in Nat OBVIOUS
  <2>3. QED BY <1>2, <1>3, <2>1, <2>2, NoticeTail
<1>12. QED BY <1>2, <1>5, <1>7, <1>8, <1>10, <1>11, KeptNext

\* Everybody else's steps.
LEMMA KeptElsewhere ==
    ASSUME Typed, DeviceTyped, Kept, Decided \subseteq Decided',
           UNCHANGED <<process, volatile, disk, writes, saved, discarded>>
    PROVE  Kept'
<1>1. <<>> \in Seq(Writes) /\ DOMAIN <<>> = {} OBVIOUS
<1>2. writes' = writes \o <<>> BY DEF DeviceTyped
<1>3. UNCHANGED <<process, saved, discarded, queue, disk, lane>> BY DEF volatile
<1>4. \A k \in DOMAIN <<>> : <<>>[k].key \notin {"queue", "lossNotice"} BY <1>1
<1>5. QED BY <1>1, <1>2, <1>3, <1>4, KeptQuiet

\* A step of the lane that issues no write, or one of another key.
LEMMA KeptLane ==
    ASSUME Typed, DeviceTyped, Kept, Decided \subseteq Decided',
           UNCHANGED <<process, disk, saved, discarded>>, Uuids(queue') = Uuids(queue),
           lane.job \notin {"lost", "gone"}, lane'.job \notin {"lost", "gone"},
           \/ writes' = writes
           \/ \E w \in Writes : w.key \notin {"queue", "lossNotice"} /\ writes' = writes \o <<w>>
    PROVE  Kept'
<1>1. CASE writes' = writes
  <2>1. <<>> \in Seq(Writes) /\ DOMAIN <<>> = {} OBVIOUS
  <2>2. writes' = writes \o <<>> BY <1>1 DEF DeviceTyped
  <2>3. \A k \in DOMAIN <<>> : <<>>[k].key \notin {"queue", "lossNotice"} BY <2>1
  <2>4. QED BY <2>1, <2>2, <2>3, KeptQuiet
<1>2. ASSUME NEW w \in Writes, w.key \notin {"queue", "lossNotice"}, writes' = writes \o <<w>>
      PROVE  Kept'
  <2>1. <<w>> \in Seq(Writes) /\ \A k \in DOMAIN <<w>> : <<w>>[k].key \notin {"queue", "lossNotice"}
      BY <1>2, OneWrite
  <2>2. QED BY <1>2, <2>1, KeptQuiet
<1>3. QED BY <1>1, <1>2

LEMMA KeptReply ==
    ASSUME Base, Asleep, Kept, ClientNext, NEW s \in Slots, Step(s)
    PROVE  Kept'
<1>1. Typed /\ OkIsApplied /\ DeviceTyped /\ LaneShape BY DEF Base
<1>2. Decided \subseteq Decided' BY <1>1, DecidedGrows
<1>3. lane \in Lane /\ writes \in Seq(Writes) /\ queue \in Queues BY <1>1 DEF DeviceTyped
<1>4. CASE MarkNeedsFullSync(s)
  <2>1. Write("needsFullSync", TRUE) \in Writes /\ Write("needsFullSync", TRUE).key = "needsFullSync"
      BY WriteTypes, KeysOfWrites
  <2>2. writes' = writes \o <<Write("needsFullSync", TRUE)>> BY <1>4 DEF MarkNeedsFullSync, Flag
  <2>3. lane.job = "flush" /\ lane'.job = "flush" BY <1>3, <1>4 DEF MarkNeedsFullSync, Lane
  <2>4. UNCHANGED <<process, queue, disk, saved, discarded>> BY <1>4 DEF MarkNeedsFullSync
  <2>5. QED BY <1>1, <1>2, <2>1, <2>2, <2>3, <2>4, KeptLane
<1>5. CASE ApplyFlush(s) BY <1>5, KeptFlush
<1>6. CASE ApplyPull(s)
  <2>1. Uuids(queue') = Uuids(queue) /\ syncToken' \in Tokens BY <1>1, <1>3, <1>6, ResponseType DEF ApplyPull
  <2> PICK w : w = Write("token", syncToken') OBVIOUS
  <2>2. w \in Writes /\ w.key = "token" BY <2>1, WriteTypes, KeysOfWrites
  <2>3. writes' = writes \o <<w>> BY <1>3, <1>6, <2>2, OneWrite DEF ApplyPull
  <2>4. lane.job \notin {"lost", "gone"} /\ lane'.job \notin {"lost", "gone"} BY <1>3, <1>6 DEF ApplyPull, Lane
  <2>5. UNCHANGED <<process, disk, saved, discarded>> BY <1>6 DEF ApplyPull, history
  <2>6. QED BY <1>1, <1>2, <2>1, <2>2, <2>3, <2>4, <2>5, KeptLane
<1>7. CASE RetryLater(s)
  <2>1. UNCHANGED <<process, queue, disk, writes, saved, discarded>> /\ lane'.job \notin {"lost", "gone"}
      BY <1>7 DEF RetryLater, LeaveLane, Idle, history
  <2>2. lane.job \notin {"lost", "gone"} BY <1>1, <1>7 DEF RetryLater, Replied, LaneShape
  <2>3. QED BY <1>1, <1>2, <2>1, <2>2, KeptLane
<1>8. CASE LoseAccess(s) BY <1>8, KeptLost
<1>9. QED BY <1>4, <1>5, <1>6, <1>7, <1>8 DEF Step

LEMMA KeptRun ==
    ASSUME ~ActsEarly, Base, Asleep, Purged, Kept, ClientNext, Run
    PROVE  Kept'
<1>1. Typed /\ DeviceTyped /\ LaneShape BY DEF Base
<1>2. Decided \subseteq Decided' BY <1>1, DecidedGrows
<1>3. lane \in Lane /\ writes \in Seq(Writes) BY <1>1 DEF DeviceTyped
<1>4. CASE StartFlush \/ SendBatch \/ SendPull \/ EndReply
  <2>1. UNCHANGED <<process, queue, disk, writes, saved, discarded>>
      BY <1>4 DEF StartFlush, SendBatch, SendPull, EndReply, history
  <2>2. lane.job \notin {"lost", "gone"}
      BY <1>1, <1>4 DEF StartFlush, SendBatch, SendPull, EndReply, LaneShape
  <2>3. lane'.job \notin {"lost", "gone"}
    <3>1. CASE SendBatch BY <1>3, <3>1 DEF SendBatch, DoSync, Lane
    <3>2. StartFlush => lane'.job = "flush" BY DEF StartFlush, Idle
    <3>3. SendPull => lane'.job \in {"pull", "recover"} BY DEF SendPull, Idle
    <3>4. EndReply => lane'.job \in {"flush", "recover", "idle"} BY DEF EndReply, LeaveLane, Idle
    <3>5. QED BY <1>4, <3>1, <3>2, <3>3, <3>4
  <2>4. QED BY <1>1, <1>2, <2>1, <2>2, <2>3, KeptLane
<1>5. CASE PersistToken \/ PersistReplica \/ ClearNeedsFullSync
  <2>1. UNCHANGED <<process, queue, disk, saved, discarded>> /\ writes = <<>>
        /\ lane.job \notin {"lost", "gone"}
      BY <1>1, <1>5 DEF PersistToken, PersistReplica, ClearNeedsFullSync, Settled, LaneShape, history
  <2>2. lane'.job = lane.job BY <1>3, <1>5 DEF PersistToken, PersistReplica, ClearNeedsFullSync, Lane
  <2>3. \E w \in Writes : w.key \notin {"queue", "lossNotice"} /\ writes' = <<w>>
    <3>1. CASE PersistToken BY <1>1, <3>1, WriteTypes, KeysOfWrites DEF PersistToken, DeviceTyped
    <3>2. CASE PersistReplica BY <1>1, <3>2, WriteTypes, KeysOfWrites DEF PersistReplica, DeviceTyped
    <3>3. CASE ClearNeedsFullSync BY <3>3, WriteTypes, KeysOfWrites DEF ClearNeedsFullSync
    <3>4. QED BY <1>5, <3>1, <3>2, <3>3
  <2>4. \A w \in Writes : <<>> \o <<w>> = <<w>> OBVIOUS
  <2>5. \E w \in Writes : w.key \notin {"queue", "lossNotice"} /\ writes' = writes \o <<w>>
      BY <2>1, <2>3, <2>4
  <2>6. QED BY <1>1, <1>2, <2>1, <2>2, <2>5, KeptLane
<1>6. QED BY <1>4, <1>5, KeptSettle, KeptReported, KeptWake, KeptHydrated, KeptPurged DEF Run, PurgeSteps

LEMMA KeptStep ==
    ASSUME ~ActsEarly, Base, Asleep, Purged, Kept, ClientNext
    PROVE  Kept'
<1>1. Typed /\ DeviceTyped /\ LaneShape BY DEF Base
<1>2. Decided \subseteq Decided' BY <1>1, DecidedGrows
<1>3. ASSUME UNCHANGED <<process, volatile, disk, writes, saved, discarded>> PROVE Kept'
    BY <1>1, <1>2, <1>3, KeptElsewhere
<1>4. ASSUME NEW c \in Cmds, Mutate(c) PROVE Kept' BY <1>4, KeptMutate
<1>5. ASSUME NEW c \in Cmds, OtherDevice(c) PROVE Kept' BY <1>3, <1>5 DEF OtherDevice, clientVars, history
<1>6. ASSUME NEW s \in Slots, Step(s) PROVE Kept' BY <1>6, KeptReply
<1>7. ASSUME NEW s \in Slots, GiveUp(s) PROVE Kept'
  <2>1. UNCHANGED <<process, queue, disk, writes, saved, discarded>> /\ lane'.job \notin {"lost", "gone"}
      BY <1>7 DEF GiveUp, LeaveLane, Idle, history
  <2>2. lane.job \notin {"lost", "gone"} BY <1>1, <1>7 DEF GiveUp, LaneShape
  <2>3. QED BY <1>1, <1>2, <2>1, <2>2, KeptLane
<1>8. ASSUME NEW s \in Slots, DropOrphan(s) \/ Serving(s) \/ Failing(s) PROVE Kept'
    BY <1>3, <1>8 DEF DropOrphan, Serving, Failing, clientVars, history
<1>9. CASE Run BY <1>9, KeptRun
<1>10. CASE Kill BY <1>10, KeptKill
<1>11. CASE WriteFails BY <1>11, KeptFailed
<1>12. CASE Membership BY <1>3, <1>12 DEF Membership, clientVars, history
<1>13. CASE KillInPurge BY <1>13, KeptPurged DEF PurgeSteps
<1>14. QED BY <1>4, <1>5, <1>6, <1>7, <1>8, <1>9, <1>10, <1>11, <1>12, <1>13 DEF ClientNext

LEMMA CarefulInit == ClientInit => Careful
<1> SUFFICES ASSUME ClientInit PROVE Careful OBVIOUS
<1>1. Base BY BaseInit
<1>2. /\ up = "down" /\ stored = NoAnswer /\ disk = EmptyDisk /\ writes = <<>> /\ queue = <<>>
      /\ replica = NoReplica /\ syncToken = Star /\ needsFullSync = FALSE /\ idAliases = NoReplica
      /\ lane = Idle /\ rejected = {} /\ saved = {} /\ purge = NoPurge
    BY DEF ClientInit
<1>3. Asleep /\ Purged BY <1>2 DEF Asleep, Purged, Reading, Purging
<1>4. \A E, n : Orderly(E, {}, disk.queue, <<>>, n) BY OrderNone
<1>5. Kept BY <1>2, <1>4, NoticeNone DEF Kept, InOrder, InMemory, NotAhead, NoticeFirst, Idle
<1>6. QED BY <1>1, <1>3, <1>5 DEF Careful

LEMMA CarefulStep ==
    ASSUME ~ActsEarly
    PROVE  Careful /\ [ClientNext]_vars => Careful'
<1> SUFFICES ASSUME Careful, [ClientNext]_vars PROVE Careful' OBVIOUS
<1>1. Base' BY BaseStep DEF Careful
<1>2. CASE ClientNext BY <1>1, <1>2, AsleepStep, PurgedStep, KeptStep DEF Careful
<1>3. CASE UNCHANGED vars
  <2>1. UNCHANGED serverVars /\ UNCHANGED clientVars BY <1>3 DEF vars
  <2>2. UNCHANGED <<process, volatile, disk, writes, saved, discarded>> BY <2>1 DEF clientVars, history
  <2>3. Decided \subseteq Decided' BY <2>1 DEF serverVars, clientVars, history, Decided, Applied
  <2>4. Kept' BY <2>2, <2>3, KeptElsewhere DEF Careful, Base
  <2>5. Asleep' BY <2>2 DEF Careful, Asleep, Found, Reading, process, volatile
  <2>6. Purged' BY <2>2 DEF Careful, Purged, Purging, process
  <2>7. QED BY <1>1, <2>4, <2>5, <2>6 DEF Careful
<1>4. QED BY <1>2, <1>3

\* Where the user and the timers wait for the reads of a start, no change that
\* reached the disk is silently gone, through every kill, lost or late reply,
\* failed write, refusal, retry and loss of the workspace, whatever everybody else
\* does (client.ts: mutate, flush, applyResponse, loseAccess, hydrate).
THEOREM NothingSavedIsLost ==
    ASSUME ~ActsEarly
    PROVE  ClientSpec => []SavedNotLost
<1>1. Careful => SavedNotLost BY DEF Careful, Kept, InOrder, Orderly, Accounted, Decided, SavedNotLost
<1>2. Careful /\ [ClientNext]_vars => Careful' BY CarefulStep
<1>3. QED BY <1>1, <1>2, CarefulInit, PTL DEF ClientSpec

-----------------------------------------------------------------------------
(* What the user is told of a lost workspace *)

Lost == Cardinality(discarded \ Applied)
Heard == lossTold + waived + swallowed

NoNotice(ws) == \A k \in DOMAIN ws : ws[k].key # "lossNotice"

\* When the writes have settled, the queue on disk, q0 now, holds just E.
Carries(q0, ws, E) ==
    \/ NoQueue(ws) /\ Uuids(q0) = E
    \/ \E k \in DOMAIN ws :
          /\ ws[k].key = "queue" /\ Uuids(ws[k].value) = E
          /\ \A j \in DOMAIN ws : j > k => ws[j].key # "queue"

\* The running app owes nothing, and what it would find after a kill is no more
\* than what it would lose now, except while an answered batch leaves the disk.
ToldAtWork ==
    up = "up" /\ lane.job \notin {"lost", "gone"} =>
        /\ Lost <= Heard /\ disk.lossNotice = 0 /\ NoNotice(writes)
        /\ ~Reading => Carries(disk.queue, writes, Uuids(queue))
        /\ ~Reading /\ lane.step # "queue" =>
              HoldsOnly(writes, Uuids(queue)) /\ Uuids(disk.queue) \subseteq Uuids(queue)

\* The purge: the notice counts the batch, and one is on its way or on disk.
ToldWhenLost ==
    lane.job = "lost" =>
        /\ Cardinality((discarded \ lane.batch) \ Applied) <= Heard
        /\ lane.batch \subseteq discarded
        /\ HoldsOnly(writes, lane.batch) /\ Uuids(disk.queue) \subseteq lane.batch
        /\ \A k \in DOMAIN writes : writes[k].key = "lossNotice" =>
              /\ disk.lossNotice = 0 /\ writes[k].value = Cardinality(lane.batch)
              /\ \A j \in DOMAIN writes : writes[j].key = "lossNotice" => j = k
        /\ NoNotice(writes) => disk.lossNotice = Cardinality(lane.batch)

\* The loss is reported and the notice about to go.
ToldWhenGone ==
    lane.job = "gone" =>
        /\ Lost <= Heard /\ NoQueue(writes) /\ Uuids(disk.queue) \subseteq discarded
        /\ \A k \in DOMAIN writes : writes[k].key = "lossNotice" => writes[k].value = 0

\* What is owed is in the notice, and what a purge would owe besides is what a
\* start counts.
ToldWhenDown ==
    up = "down" /\ ~Purging =>
        /\ Lost <= Heard + disk.lossNotice
        /\ Cardinality((discarded \cup Uuids(disk.queue)) \ Applied) <= Heard + CountOnDisk

\* A start's purge holds the count in memory; without the queue, the notice tells of
\* the rest as long as both are stored.
ToldWhenPurging ==
    Purging =>
        /\ Lost <= Heard + purge.count
        /\ purge.removed < 4 =>
              Cardinality((discarded \ Uuids(disk.queue)) \ Applied) <= Heard + disk.lossNotice

Told ==
    /\ discarded \subseteq made
    /\ ToldAtWork /\ ToldWhenLost /\ ToldWhenGone /\ ToldWhenDown /\ ToldWhenPurging

LEMMA CarriesNone ==
    ASSUME NEW q0, NEW E
    PROVE  Carries(q0, <<>>, E) <=> Uuids(q0) = E
<1>1. DOMAIN <<>> = {} OBVIOUS
<1>2. QED BY <1>1 DEF Carries, NoQueue

LEMMA CarriesJoin ==
    ASSUME NEW a \in Seq(Writes), NEW b \in Seq(Writes), NoQueue(b), NEW q0, NEW E, Carries(q0, a, E)
    PROVE  Carries(q0, a \o b, E)
<1> PICK all, m : all = a \o b /\ m = Len(a) OBVIOUS
<1>1. /\ m \in Nat /\ DOMAIN a = 1..m /\ DOMAIN b = 1..Len(b) /\ DOMAIN all = 1..(m + Len(b)) /\ Len(b) \in Nat
      /\ \A k \in 1..m : all[k] = a[k]
      /\ \A k \in 1..Len(b) : all[m + k] = b[k]
      /\ \A k \in DOMAIN all : k \in 1..m \/ (k > m /\ \E i \in 1..Len(b) : k = m + i)
    BY JoinIs
<1>2. ASSUME NEW k \in DOMAIN all, all[k].key = "queue" PROVE k \in DOMAIN a /\ a[k] = all[k]
    BY <1>1, <1>2 DEF NoQueue
<1>3. CASE NoQueue(a) /\ Uuids(q0) = E BY <1>2, <1>3 DEF Carries, NoQueue
<1>4. ASSUME NEW k \in DOMAIN a, a[k].key = "queue", Uuids(a[k].value) = E,
             \A j \in DOMAIN a : j > k => a[j].key # "queue"
      PROVE  Carries(q0, all, E)
  <2>1. k \in DOMAIN all /\ all[k] = a[k] BY <1>1
  <2>2. \A j \in DOMAIN all : j > k => all[j].key # "queue" BY <1>2, <1>4
  <2>3. QED BY <1>4, <2>1, <2>2 DEF Carries
<1>5. QED BY <1>3, <1>4 DEF Carries

LEMMA CarriesLast ==
    ASSUME NEW a \in Seq(Writes), NEW b \in Seq(Writes), NEW q0, NEW E,
           NEW i \in DOMAIN b, b[i].key = "queue", Uuids(b[i].value) = E,
           \A k \in DOMAIN b : k > i => b[k].key # "queue"
    PROVE  Carries(q0, a \o b, E)
<1> PICK all, m : all = a \o b /\ m = Len(a) OBVIOUS
<1>1. /\ m \in Nat /\ DOMAIN b = 1..Len(b) /\ DOMAIN all = 1..(m + Len(b)) /\ Len(b) \in Nat
      /\ \A k \in 1..Len(b) : all[m + k] = b[k]
      /\ \A k \in DOMAIN all : k \in 1..m \/ (k > m /\ \E n \in 1..Len(b) : k = m + n)
    BY JoinIs
<1>0. PICK at : at = m + i OBVIOUS
<1>2. at \in DOMAIN all /\ all[at] = b[i] /\ at \in Nat /\ i \in Nat /\ i >= 1 /\ at > m BY <1>0, <1>1
<1>3. ASSUME NEW j \in DOMAIN all, j > at PROVE all[j].key # "queue"
  <2>0. j \in Nat BY <1>1
  <2>1. j > m BY <1>1, <1>2, <1>3, <2>0
  <2>2. PICK n \in 1..Len(b) : j = m + n
    <3>1. j \notin 1..m BY <2>0, <2>1, <1>1
    <3>2. \A k \in DOMAIN all : k \in 1..m \/ (k > m /\ \E x \in 1..Len(b) : k = m + x) BY <1>1
    <3>3. QED BY <3>1, <3>2
  <2>3. n > i BY <1>0, <1>1, <1>2, <1>3, <2>2
  <2>4. all[j] = b[n] BY <1>1, <2>2
  <2>5. QED BY <1>1, <2>3, <2>4
<1>4. QED BY <1>2, <1>3 DEF Carries

LEMMA CarriesTail ==
    ASSUME NEW ws \in Seq(Writes), ws # <<>>, NEW q0, NEW E, Carries(q0, ws, E)
    PROVE  Carries(IF Head(ws).key = "queue" THEN Head(ws).value ELSE q0, Tail(ws), E)
<1> PICK tl, w, n : tl = Tail(ws) /\ w = ws[1] /\ n = Len(ws) OBVIOUS
<1>1. /\ n \in Nat /\ n >= 1 /\ Head(ws) = w /\ DOMAIN ws = 1..n /\ DOMAIN tl = 1..(n - 1)
      /\ \A k \in DOMAIN tl : tl[k] = ws[k + 1]
    OBVIOUS
<1> PICK q1 : q1 = IF w.key = "queue" THEN w.value ELSE q0 OBVIOUS
<1>2. CASE NoQueue(ws) /\ Uuids(q0) = E
  <2>1. w.key # "queue" BY <1>1, <1>2 DEF NoQueue
  <2>2. NoQueue(tl) BY <1>1, <1>2 DEF NoQueue
  <2>3. QED BY <1>1, <1>2, <2>1, <2>2 DEF Carries
<1>3. ASSUME NEW k \in DOMAIN ws, ws[k].key = "queue", Uuids(ws[k].value) = E,
             \A j \in DOMAIN ws : j > k => ws[j].key # "queue"
      PROVE  Carries(q1, tl, E)
  <2>1. CASE k = 1
    <3>1. NoQueue(tl) BY <1>1, <1>3, <2>1 DEF NoQueue
    <3>2. Uuids(q1) = E BY <1>1, <1>3, <2>1
    <3>3. QED BY <3>1, <3>2 DEF Carries
  <2>2. CASE k # 1
    <3> PICK i : i = k - 1 OBVIOUS
    <3>1. i \in DOMAIN tl /\ tl[i] = ws[k] BY <1>1, <2>2
    <3>2. \A j \in DOMAIN tl : j > i => tl[j].key # "queue" BY <1>1, <1>3
    <3>3. QED BY <1>3, <3>1, <3>2 DEF Carries
  <2>3. QED BY <2>1, <2>2
<1>4. QED BY <1>1, <1>2, <1>3 DEF Carries

LEMMA NoNoticeJoin ==
    ASSUME NEW a \in Seq(Writes), NEW b \in Seq(Writes), NoNotice(a), NoNotice(b)
    PROVE  NoNotice(a \o b)
BY JoinIs DEF NoNotice

LEMMA Fewer ==
    ASSUME NEW T, IsFiniteSet(T), NEW S, S \subseteq T
    PROVE  /\ IsFiniteSet(S) /\ Cardinality(S) \in Nat /\ Cardinality(T) \in Nat
           /\ Cardinality(S) <= Cardinality(T)
BY FS_Subset, FS_CardinalityType

LEMMA Together ==
    ASSUME NEW S, IsFiniteSet(S), NEW T, IsFiniteSet(T)
    PROVE  /\ IsFiniteSet(S \cup T) /\ Cardinality(S \cup T) \in Nat
           /\ Cardinality(S) \in Nat /\ Cardinality(T) \in Nat
           /\ Cardinality(S \cup T) <= Cardinality(S) + Cardinality(T)
<1>1. Cardinality(S) \in Nat /\ Cardinality(T) \in Nat BY FS_CardinalityType
<1>2. IsFiniteSet(S \cap T) /\ Cardinality(S \cap T) \in Nat BY FS_Intersection, FS_CardinalityType
<1>3. IsFiniteSet(S \cup T) /\ Cardinality(S \cup T) = Cardinality(S) + Cardinality(T) - Cardinality(S \cap T)
    BY FS_Union
<1>4. Cardinality(S \cup T) \in Nat BY <1>3, FS_CardinalityType
<1>5. \A a, b, c, d \in Nat : d = a + b - c => d <= a + b OBVIOUS
<1>6. Cardinality(S \cup T) <= Cardinality(S) + Cardinality(T) BY <1>1, <1>2, <1>3, <1>4, <1>5
<1>7. QED BY <1>1, <1>3, <1>4, <1>6

LEMMA QueueLength ==
    ASSUME NEW q \in Queues
    PROVE  IsFiniteSet(Uuids(q)) /\ Cardinality(Uuids(q)) \in Nat /\ Cardinality(Uuids(q)) <= Len(q)
<1>1. DOMAIN q = 1..Len(q) /\ Len(q) \in Nat BY DEF Queues
<1> PICK f : f = [k \in 1..Len(q) |-> q[k].uuid] OBVIOUS
<1>2. f \in Surjection(1..Len(q), Uuids(q)) BY <1>1 DEF Surjection, Uuids
<1>3. ExistsSurjection(1..Len(q), Uuids(q)) BY <1>2 DEF ExistsSurjection
<1>4. IsFiniteSet(Uuids(q)) BY <1>1, <1>3, FS_NatSurjection
<1>5. Cardinality(Uuids(q)) <= Len(q) BY <1>1, <1>3, FS_SurjCardinalityBound
<1>6. QED BY <1>4, <1>5, FS_CardinalityType

\* Whatever holds the lane, the app is running and has read the disk.
LEMMA Awake ==
    ASSUME DeviceTyped, Asleep, lane # Idle \/ writes # <<>>
    PROVE  up = "up" /\ ~Reading
BY DEF Asleep, DeviceTyped

\* No more is lost when more has taken effect.
LEMMA NoMoreLost ==
    ASSUME OnlyMade, NEW S, S \subseteq made, NEW T, T \subseteq S, NEW A, NEW B, A \subseteq B
    PROVE  /\ IsFiniteSet(S \ A) /\ Cardinality(S \ A) \in Nat /\ Cardinality(T \ B) \in Nat
           /\ Cardinality(T \ B) <= Cardinality(S \ A)
<1>1. IsFiniteSet(made) /\ S \ A \subseteq made /\ T \ B \subseteq S \ A BY DEF OnlyMade
<1>2. IsFiniteSet(S \ A) BY <1>1, Fewer
<1>3. QED BY <1>1, <1>2, Fewer

LEMMA NotPurging ==
    ASSUME DeviceTyped, up = "up" \/ ~Purging, purge' = purge
    PROVE  ToldWhenPurging'
BY DEF DeviceTyped, ToldWhenPurging, Purging

\* A start counts at least what the queue on disk adds to the losses, D, that the
\* notice tells of.
LEMMA CountEnough ==
    ASSUME DeviceTyped, OnlyMade, NEW D, D \subseteq made, NEW A, NEW h \in Nat,
           Cardinality(D \ A) <= h + disk.lossNotice,
           disk.lossNotice > 0 => Uuids(disk.queue) \subseteq D
    PROVE  Cardinality((D \cup Uuids(disk.queue)) \ A) <= h + CountOnDisk
<1> PICK q, n, m, S, Q : q = disk.queue /\ n = disk.lossNotice /\ m = CountOnDisk /\ S = D \ A /\ Q = Uuids(q)
    OBVIOUS
<1>1. n \in Nat /\ q \in Queues /\ Len(q) \in Nat
  <2>1. n \in Nat /\ q \in Queues BY DEF DeviceTyped, Disk
  <2>2. QED BY <2>1 DEF Queues
<1>2. m \in Nat /\ n <= m /\ Len(q) <= m
  <2>1. m = IF Len(q) > n THEN Len(q) ELSE n BY DEF CountOnDisk
  <2>2. QED BY <1>1, <2>1
<1>3. IsFiniteSet(S) /\ Cardinality(S) \in Nat
  <2>1. IsFiniteSet(made) /\ S \subseteq made BY DEF OnlyMade
  <2>2. QED BY <2>1, Fewer
<1>4. CASE n > 0
  <2>1. (D \cup Q) \ A = S BY <1>4
  <2> PICK x : x = Cardinality(S) OBVIOUS
  <2>2. x \in Nat /\ x <= h + n BY <1>3
  <2>3. x <= h + m BY <1>1, <1>2, <2>2
  <2>4. QED BY <2>1, <2>3
<1>5. CASE ~(n > 0)
  <2>1. n = 0 BY <1>1, <1>5
  <2>2. IsFiniteSet(Q) /\ Cardinality(Q) \in Nat /\ Cardinality(Q) <= Len(q) BY <1>1, QueueLength
  <2>3. /\ IsFiniteSet(S \cup Q) /\ Cardinality(S \cup Q) \in Nat
        /\ Cardinality(S \cup Q) <= Cardinality(S) + Cardinality(Q)
      BY <1>3, <2>2, Together
  <2>4. (D \cup Q) \ A \subseteq S \cup Q OBVIOUS
  <2>5. Cardinality((D \cup Q) \ A) <= Cardinality(S \cup Q) /\ Cardinality((D \cup Q) \ A) \in Nat
      BY <2>3, <2>4, Fewer
  <2>6. Cardinality(S) <= h + n BY DEF Disk
  <2>7. QED BY <1>1, <1>2, <1>3, <2>1, <2>2, <2>3, <2>5, <2>6
<1>6. QED BY <1>4, <1>5

\* A step of the running app, or of its lane.
LEMMA ToldWorks ==
    ASSUME Base, Told, Applied \subseteq Applied', made \subseteq made',
           UNCHANGED <<process, disk, discarded, lossTold, waived, swallowed>>, up = "up", ~Reading,
           lane.job \notin {"lost", "gone"}, lane'.job \notin {"lost", "gone"},
           NEW more \in Seq(Writes), writes' = writes \o more, NoNotice(more),
           Carries(disk.queue, writes', Uuids(queue')),
           lane'.step # "queue" =>
              HoldsOnly(writes', Uuids(queue')) /\ Uuids(disk.queue) \subseteq Uuids(queue')
    PROVE  Told'
<1>1. writes \in Seq(Writes) /\ OnlyMade BY DEF Base, DeviceTyped
<1>2. Lost <= Heard /\ disk.lossNotice = 0 /\ NoNotice(writes) /\ discarded \subseteq made
    BY DEF Told, ToldAtWork
<1> PICK ws : ws = writes' OBVIOUS
<1>3. NoNotice(ws) BY <1>1, <1>2, NoNoticeJoin
<1>4. Lost' <= Heard'
  <2>1. /\ Cardinality(discarded \ Applied') <= Cardinality(discarded \ Applied)
        /\ Cardinality(discarded \ Applied') \in Nat /\ Cardinality(discarded \ Applied) \in Nat
      BY <1>1, <1>2, NoMoreLost
  <2>2. lossTold \in Nat /\ waived \in Nat /\ swallowed \in Nat BY DEF Base, DeviceTyped
  <2>3. QED BY <1>2, <2>1, <2>2 DEF Lost, Heard
<1>5. discarded' \subseteq made' BY <1>2
<1>6. up' = "up" BY DEF process
<1>7. ToldAtWork' BY <1>2, <1>3, <1>4 DEF ToldAtWork
<1>8. ToldWhenLost' /\ ToldWhenGone' /\ ToldWhenDown' BY <1>6 DEF ToldWhenLost, ToldWhenGone, ToldWhenDown
<1>9. ToldWhenPurging' BY NotPurging DEF Base, process
<1>10. QED BY <1>5, <1>7, <1>8, <1>9 DEF Told

\* Such a step that leaves the queue as it is.
LEMMA ToldQuiet ==
    ASSUME Base, Told, Applied \subseteq Applied',
           UNCHANGED <<process, disk, discarded, lossTold, waived, swallowed, made>>, up = "up", ~Reading,
           Uuids(queue') = Uuids(queue),
           lane.job \notin {"lost", "gone"}, lane'.job \notin {"lost", "gone"},
           NEW more \in Seq(Writes), writes' = writes \o more,
           \A k \in DOMAIN more : more[k].key \notin {"queue", "lossNotice"},
           lane'.step = "queue" \/ lane.step # "queue" \/ writes = <<>>
    PROVE  Told'
<1>1. writes \in Seq(Writes) BY DEF Base, DeviceTyped
<1> PICK ws, E : ws = writes' /\ E = Uuids(queue) OBVIOUS
<1>2. NoQueue(more) /\ NoNotice(more) BY DEF NoQueue, NoNotice
<1>3. Carries(disk.queue, writes, E) BY DEF Told, ToldAtWork
<1>4. Carries(disk.queue, ws, E) BY <1>1, <1>2, <1>3, CarriesJoin
<1>5. lane'.step # "queue" => HoldsOnly(ws, E) /\ Uuids(disk.queue) \subseteq E
  <2> SUFFICES ASSUME lane'.step # "queue" PROVE HoldsOnly(ws, E) /\ Uuids(disk.queue) \subseteq E OBVIOUS
  <2>1. HoldsOnly(writes, E) /\ Uuids(disk.queue) \subseteq E
    <3>1. CASE lane.step # "queue" BY <3>1 DEF Told, ToldAtWork
    <3>2. CASE writes = <<>> BY <1>3, <3>2, CarriesNone, HoldsNone
    <3>3. QED BY <3>1, <3>2
  <2>2. HoldsOnly(more, E) BY <1>2, NoQueueHolds
  <2>3. QED BY <1>1, <2>1, <2>2, HoldsJoin
<1>6. QED BY <1>2, <1>4, <1>5, ToldWorks

\* The same with no write, or one of another key.
LEMMA ToldLane ==
    ASSUME Base, Told, Applied \subseteq Applied',
           UNCHANGED <<process, disk, discarded, lossTold, waived, swallowed, made>>, up = "up", ~Reading,
           Uuids(queue') = Uuids(queue),
           lane.job \notin {"lost", "gone"}, lane'.job \notin {"lost", "gone"},
           \/ writes' = writes
           \/ \E w \in Writes : w.key \notin {"queue", "lossNotice"} /\ writes' = writes \o <<w>>,
           lane'.step = "queue" \/ lane.step # "queue" \/ writes = <<>>
    PROVE  Told'
<1>1. CASE writes' = writes
  <2>1. <<>> \in Seq(Writes) /\ DOMAIN <<>> = {} OBVIOUS
  <2>2. writes' = writes \o <<>> BY <1>1 DEF Base, DeviceTyped
  <2>3. \A k \in DOMAIN <<>> : <<>>[k].key \notin {"queue", "lossNotice"} BY <2>1
  <2>4. QED BY <2>1, <2>2, <2>3, ToldQuiet
<1>2. ASSUME NEW w \in Writes, w.key \notin {"queue", "lossNotice"}, writes' = writes \o <<w>>
      PROVE  Told'
  <2>1. <<w>> \in Seq(Writes) /\ \A k \in DOMAIN <<w>> : <<w>>[k].key \notin {"queue", "lossNotice"}
      BY <1>2, OneWrite
  <2>2. QED BY <1>2, <2>1, ToldQuiet
<1>3. QED BY <1>1, <1>2

\* An edit is queued and on its way to the disk.
LEMMA ToldMutate ==
    ASSUME ~ActsEarly, Base, Told, ClientNext, NEW c \in Cmds, Mutate(c)
    PROVE  Told'
<1> PICK more : more = <<Forgotten("queue", queue'), Forgotten("replica", replica')>> OBVIOUS
<1>1. Typed /\ DeviceTyped /\ OnlyMade BY DEF Base
<1>2. /\ \E cmd \in Command : cmd.uuid = c /\ queue' = Append(queue, cmd)
      /\ queue' \in Queues /\ replica' \in Replicas /\ writes' = writes \o more
    BY <1>1, MutateType
<1> PICK q, ws : q = queue' /\ ws = writes' OBVIOUS
<1>3. Uuids(q) = Uuids(queue) \cup {c} BY <1>1, <1>2, UuidsAppend DEF DeviceTyped
<1>4. /\ more \in Seq(Writes) /\ DOMAIN more = {1, 2}
      /\ more[1].key = "queue" /\ more[1].value = q /\ more[2].key = "replica"
  <2>1. queue' \in Queues /\ replica' \in Replicas BY <1>2
  <2>2. QED BY <2>1, EditWrites
<1>5. /\ UNCHANGED <<process, disk, discarded, lossTold, waived, swallowed>> /\ lane' = lane /\ made \subseteq made'
      /\ up = "up" /\ ~Reading /\ lane.job \notin {"lost", "gone"}
    BY DEF Mutate, Active
<1>6. Applied \subseteq Applied' BY <1>1, DecidedGrows
<1>7. NoNotice(more) BY <1>4 DEF NoNotice
<1>8. writes \in Seq(Writes) /\ ws = writes \o more BY <1>1, <1>2 DEF DeviceTyped
<1>9. Carries(disk.queue, ws, Uuids(q))
  <2>1. 1 \in DOMAIN more /\ \A k \in DOMAIN more : k > 1 => more[k].key # "queue" BY <1>4
  <2>2. QED BY <1>4, <1>8, <2>1, CarriesLast
<1>10. lane'.step # "queue" => HoldsOnly(ws, Uuids(q)) /\ Uuids(disk.queue) \subseteq Uuids(q)
  <2> SUFFICES ASSUME lane.step # "queue" PROVE HoldsOnly(ws, Uuids(q)) /\ Uuids(disk.queue) \subseteq Uuids(q)
      BY <1>5
  <2>1. HoldsOnly(writes, Uuids(queue)) /\ Uuids(disk.queue) \subseteq Uuids(queue)
      BY <1>5 DEF Told, ToldAtWork
  <2>2. HoldsOnly(writes, Uuids(q)) BY <1>3, <2>1, HoldsMore
  <2>3. HoldsOnly(more, Uuids(q)) BY <1>4 DEF HoldsOnly
  <2>4. QED BY <1>3, <1>4, <1>8, <2>1, <2>2, <2>3, HoldsJoin
<1>11. QED BY <1>2, <1>4, <1>5, <1>6, <1>7, <1>9, <1>10, ToldWorks

\* A reply to a flush: the shorter queue is on its way to the disk.
LEMMA ToldFlush ==
    ASSUME Base, Asleep, Told, ClientNext, NEW s \in Slots, ApplyFlush(s)
    PROVE  Told'
<1>1. Typed /\ OkIsApplied /\ Answers /\ OurRequest /\ DeviceTyped BY DEF Base
<1> PICK q, ws, w : q = queue' /\ ws = writes' /\ w = Write("queue", queue') OBVIOUS
<1>2. queue \in Queues /\ writes \in Seq(Writes) /\ lane \in Lane BY <1>1 DEF DeviceTyped
<1>3. q \in Queues
  <2>1. StillQueued \in Queues BY <1>2, WithoutKeeps DEF StillQueued
  <2>2. ApplyResponse(s, StillQueued) BY DEF ApplyFlush
  <2>3. queue' \in Queues BY <1>1, <2>1, <2>2, ResponseType
  <2>4. QED BY <2>3
<1>4. w \in Writes /\ w.key = "queue" /\ w.value = q /\ ws = writes \o <<w>>
  <2>1. w \in Writes BY <1>3, WriteTypes
  <2>2. QED BY <1>2, <2>1, KeysOfWrites, OneWrite DEF ApplyFlush
<1>5. /\ UNCHANGED <<process, disk, discarded, lossTold, waived, swallowed, made>>
      /\ lane.job = "flush" /\ lane'.job = "flush" /\ lane'.step = "queue"
    BY <1>2 DEF ApplyFlush, history, Lane
<1>6. up = "up" /\ ~Reading BY <1>1, <1>5, Awake DEF Idle
<1>7. Applied \subseteq Applied' BY <1>1, DecidedGrows
<1>8. <<w>> \in Seq(Writes) /\ DOMAIN <<w>> = {1} /\ <<w>>[1] = w BY <1>4, OneWrite
<1>9. NoNotice(<<w>>) BY <1>4, <1>8 DEF NoNotice
<1>10. Carries(disk.queue, ws, Uuids(q))
  <2>1. 1 \in DOMAIN <<w>> /\ \A k \in DOMAIN <<w>> : k > 1 => <<w>>[k].key # "queue" BY <1>8
  <2>2. <<w>>[1].key = "queue" /\ Uuids(<<w>>[1].value) = Uuids(q) BY <1>4, <1>8
  <2>3. QED BY <1>2, <1>4, <1>8, <2>1, <2>2, CarriesLast
<1>11. made \subseteq made' BY <1>5
<1>12. QED BY <1>4, <1>5, <1>6, <1>7, <1>8, <1>9, <1>10, <1>11, ToldWorks

\* The server refuses the workspace: what is queued or refused is counted, and
\* nothing else is on disk.
LEMMA ToldLost ==
    ASSUME Base, Asleep, Told, ClientNext, NEW s \in Slots, LoseAccess(s)
    PROVE  Told'
<1>1. Typed /\ DeviceTyped /\ OnlyMade /\ LaneShape BY DEF Base
<1> PICK ws, n, p, b : ws = writes' /\ n = Cardinality(Doomed) /\ p = Purge(Cardinality(Doomed)) /\ b = Doomed OBVIOUS
<1>2. /\ UNCHANGED <<process, queue, disk, made, lossTold, waived, swallowed>> /\ discarded' = discarded \cup b
      /\ ws = writes \o p /\ lane'.job = "lost" /\ lane'.batch = b
    BY DEF LoseAccess, Idle, Doomed
<1>3. writes \in Seq(Writes) /\ p \in Seq(Writes) BY <1>1, DoomedType, PurgeType DEF DeviceTyped
<1>4. lane.job \in {"flush", "pull", "recover"} /\ lane.step = "reply"
    BY <1>1 DEF LaneShape, LoseAccess, Replied
<1>5. up = "up" /\ ~Reading BY <1>1, <1>4, Awake DEF Idle
<1>6. /\ Lost <= Heard /\ disk.lossNotice = 0 /\ NoNotice(writes) /\ discarded \subseteq made
      /\ HoldsOnly(writes, Uuids(queue)) /\ Uuids(disk.queue) \subseteq Uuids(queue)
    BY <1>4, <1>5 DEF Told, ToldAtWork
<1>7. b \subseteq made /\ Uuids(queue) \subseteq b BY <1>1 DEF Doomed, OnlyMade
<1>8. Applied \subseteq Applied' BY <1>1, DecidedGrows
<1>9. Cardinality((discarded' \ b) \ Applied') <= Heard
  <2>1. discarded' \ b \subseteq discarded BY <1>2
  <2>2. /\ Cardinality((discarded' \ b) \ Applied') <= Cardinality(discarded \ Applied)
        /\ Cardinality((discarded' \ b) \ Applied') \in Nat /\ Cardinality(discarded \ Applied) \in Nat
      BY <1>1, <1>6, <1>8, <2>1, NoMoreLost
  <2>3. Heard \in Nat BY <1>1 DEF DeviceTyped, Heard
  <2>4. QED BY <1>6, <2>2, <2>3 DEF Lost
<1>10. HoldsOnly(ws, b) /\ Uuids(disk.queue) \subseteq b
  <2>1. HoldsOnly(writes, b) BY <1>6, <1>7, HoldsMore
  <2>2. HoldsOnly(p, b) BY PurgeHolds
  <2>3. QED BY <1>2, <1>3, <1>6, <1>7, <2>1, <2>2, HoldsJoin
<1> PICK m : m = Len(writes) OBVIOUS
<1>11. /\ m \in Nat /\ DOMAIN ws = 1..(m + 5)
       /\ \A k \in DOMAIN ws : ws[k].key = "lossNotice" => k = m + 1
       /\ ws[m + 1].key = "lossNotice" /\ ws[m + 1].value = n
  <2>1. /\ DOMAIN p = 1..5 /\ p[1].key = "lossNotice" /\ p[1].value = n
        /\ \A k \in 2..4 : p[k].key # "lossNotice"
        /\ p[5].key # "lossNotice"
      BY PurgeIs
  <2>2. /\ m \in Nat /\ Len(p) = 5 /\ DOMAIN writes = 1..m /\ DOMAIN ws = 1..(m + 5)
        /\ \A k \in 1..m : ws[k] = writes[k]
        /\ \A k \in 1..5 : ws[m + k] = p[k]
        /\ \A k \in DOMAIN ws : k \in 1..m \/ (k > m /\ \E i \in 1..5 : k = m + i)
    <3>1. Len(p) = 5 BY <1>3, <2>1
    <3>2. /\ m \in Nat /\ DOMAIN writes = 1..m /\ DOMAIN ws = 1..(m + Len(p))
          /\ \A k \in 1..m : ws[k] = writes[k]
          /\ \A k \in 1..Len(p) : ws[m + k] = p[k]
          /\ \A k \in DOMAIN ws : k \in 1..m \/ (k > m /\ \E i \in 1..Len(p) : k = m + i)
        BY <1>2, <1>3, JoinIs
    <3>3. QED BY <3>1, <3>2
  <2>3. ASSUME NEW k \in DOMAIN ws, ws[k].key = "lossNotice" PROVE k = m + 1
    <3>1. k \notin 1..m BY <1>6, <2>2, <2>3 DEF NoNotice
    <3>2. PICK i \in 1..5 : k = m + i BY <2>2, <3>1
    <3>3. ws[k] = p[i] BY <2>2, <3>2
    <3>4. i = 1 \/ i \in 2..4 \/ i = 5 OBVIOUS
    <3>5. i = 1 BY <2>1, <2>3, <3>3, <3>4
    <3>6. QED BY <3>2, <3>5
  <2>4. 1 \in 1..5 OBVIOUS
  <2>5. ws[m + 1] = p[1] BY <2>2, <2>4
  <2>6. QED BY <2>1, <2>2, <2>3, <2>5
<1>12. discarded' \subseteq made' BY <1>2, <1>6, <1>7
<1>13. \A k \in DOMAIN ws : ws[k].key = "lossNotice" =>
          disk.lossNotice = 0 /\ ws[k].value = n /\ \A j \in DOMAIN ws : ws[j].key = "lossNotice" => j = k
    BY <1>6, <1>11
<1>14. ~NoNotice(ws)
  <2>1. m + 1 \in DOMAIN ws BY <1>11
  <2>2. QED BY <1>11, <2>1 DEF NoNotice
<1>15. ToldWhenLost'
  <2>1. lane'.batch = b /\ disk' = disk /\ Heard' = Heard /\ b \subseteq discarded' BY <1>2 DEF Heard
  <2>2. QED BY <1>9, <1>10, <1>13, <1>14, <2>1 DEF ToldWhenLost
<1>16. up' = "up" /\ lane'.job = "lost" BY <1>2, <1>5 DEF process
<1>17. ToldAtWork' /\ ToldWhenGone' /\ ToldWhenDown' BY <1>16 DEF ToldAtWork, ToldWhenGone, ToldWhenDown
<1>18. ToldWhenPurging' BY <1>1, <1>2, <1>5, NotPurging DEF process
<1>19. QED BY <1>12, <1>15, <1>17, <1>18 DEF Told

\* The user hears of the whole batch.
LEMMA ToldReported ==
    ASSUME Base, Asleep, Told, ClientNext, ReportLoss
    PROVE  Told'
<1>1. Typed /\ DeviceTyped /\ OnlyMade BY DEF Base
<1>2. /\ lane.job = "lost" /\ writes = <<>> /\ writes' = <<Write("lossNotice", 0)>> /\ lane'.job = "gone"
      /\ lossTold' = lossTold + Cardinality(lane.batch)
      /\ UNCHANGED <<process, disk, discarded, waived, swallowed, made>>
    BY DEF ReportLoss, Settled, Idle
<1> PICK w, b : w = Write("lossNotice", 0) /\ b = lane.batch OBVIOUS
<1>3. w \in Writes /\ w.key = "lossNotice" /\ w.value = 0 BY WriteTypes, KeysOfWrites
<1>4. DOMAIN <<w>> = {1} /\ <<w>>[1] = w BY <1>3, OneWrite
<1>5. up = "up" /\ ~Reading BY <1>1, <1>2, Awake DEF Idle
<1>6. /\ Cardinality((discarded \ b) \ Applied) <= Heard /\ b \subseteq discarded
      /\ Uuids(disk.queue) \subseteq b /\ discarded \subseteq made
    BY <1>2 DEF Told, ToldWhenLost
<1>7. Applied \subseteq Applied' BY <1>1, DecidedGrows
<1>8. Lost' <= Heard'
  <2> PICK rest : rest = (discarded \ b) \ Applied OBVIOUS
  <2>1. IsFiniteSet(made) /\ rest \subseteq made /\ b \subseteq made BY <1>1, <1>6 DEF OnlyMade
  <2>2. IsFiniteSet(rest) /\ IsFiniteSet(b) BY <2>1, Fewer
  <2>3. /\ IsFiniteSet(rest \cup b) /\ Cardinality(rest \cup b) <= Cardinality(rest) + Cardinality(b)
        /\ Cardinality(rest) \in Nat /\ Cardinality(b) \in Nat /\ Cardinality(rest \cup b) \in Nat
      BY <2>2, Together
  <2>4. discarded \ Applied' \subseteq rest \cup b BY <1>7
  <2>5. Cardinality(discarded \ Applied') <= Cardinality(rest \cup b) /\ Cardinality(discarded \ Applied') \in Nat
      BY <2>3, <2>4, Fewer
  <2>6. lossTold \in Nat /\ waived \in Nat /\ swallowed \in Nat BY <1>1 DEF DeviceTyped
  <2>7. Lost' = Cardinality(discarded \ Applied') /\ Heard' = Heard + Cardinality(b)
    <3>1. Heard' = lossTold + Cardinality(b) + waived + swallowed BY <1>2 DEF Heard
    <3>2. QED BY <1>2, <2>3, <2>6, <3>1 DEF Lost, Heard
  <2>8. Heard \in Nat BY <2>6 DEF Heard
  <2>9. QED BY <1>6, <2>3, <2>5, <2>7, <2>8
<1>9. discarded' \subseteq made' BY <1>2, <1>6
<1>10. ToldWhenGone'
  <2>1. NoQueue(<<w>>) /\ \A k \in DOMAIN <<w>> : <<w>>[k].key = "lossNotice" => <<w>>[k].value = 0
      BY <1>3, <1>4 DEF NoQueue
  <2>2. Uuids(disk.queue) \subseteq discarded' BY <1>2, <1>6
  <2>3. disk' = disk /\ writes' = <<w>> BY <1>2
  <2>4. QED BY <1>8, <2>1, <2>2, <2>3 DEF ToldWhenGone
<1>11. up' = "up" BY <1>2, <1>5 DEF process
<1>12. ToldAtWork' /\ ToldWhenLost' /\ ToldWhenDown' BY <1>2, <1>11 DEF ToldAtWork, ToldWhenLost, ToldWhenDown
<1>13. ToldWhenPurging' BY <1>1, <1>2, <1>5, NotPurging DEF process
<1>14. QED BY <1>9, <1>10, <1>12, <1>13 DEF Told

LEMMA HeadOfNotices ==
    ASSUME NEW ws \in Seq(Writes), ws # <<>>, NoNotice(ws)
    PROVE  Head(ws).key # "lossNotice" /\ NoNotice(Tail(ws))
BY TailIs DEF NoNotice

\* A write reaches the disk.
LEMMA ToldSettle ==
    ASSUME Base, Asleep, Told, ClientNext, Settle
    PROVE  Told'
<1>1. Typed /\ DeviceTyped BY DEF Base
<1> PICK w, tl, d : w = Head(writes) /\ tl = Tail(writes) /\ d = disk' OBVIOUS
<1>2. /\ writes # <<>> /\ writes' = tl /\ d = [disk EXCEPT ![w.key] = w.value]
      /\ UNCHANGED <<serverVars, process, volatile, made, discarded, lossTold, waived, swallowed>>
    BY DEF Settle, Settled
<1>3. writes \in Seq(Writes) /\ disk \in Disk BY <1>1 DEF DeviceTyped
<1>4. /\ tl \in Seq(Writes) /\ w \in Writes /\ w = writes[1] /\ 1 \in DOMAIN writes
      /\ \A k \in DOMAIN tl : k \in Nat /\ k >= 1 /\ k + 1 \in DOMAIN writes /\ tl[k] = writes[k + 1]
    BY <1>2, <1>3, TailIs
<1>5. /\ d.queue = IF w.key = "queue" THEN w.value ELSE disk.queue
      /\ d.lossNotice = IF w.key = "lossNotice" THEN w.value ELSE disk.lossNotice
  <2>1. w.key \in {"queue", "replica", "token", "needsFullSync", "lossNotice"} BY <1>4, WriteKeys
  <2>2. QED BY <1>2, <1>3, <2>1 DEF Disk
<1>6. up = "up" /\ ~Reading BY <1>1, <1>2, Awake
<1>7. UNCHANGED <<Lost, Heard, queue, lane, up, stored>>
    BY <1>2 DEF Lost, Heard, Applied, serverVars, volatile, process
<1>8. ToldAtWork'
  <2> SUFFICES ASSUME lane.job \notin {"lost", "gone"}
               PROVE  /\ Lost <= Heard /\ d.lossNotice = 0 /\ NoNotice(tl)
                      /\ Carries(d.queue, tl, Uuids(queue))
                      /\ lane.step # "queue" =>
                            HoldsOnly(tl, Uuids(queue)) /\ Uuids(d.queue) \subseteq Uuids(queue)
      BY <1>2, <1>7 DEF ToldAtWork
  <2>1. /\ Lost <= Heard /\ disk.lossNotice = 0 /\ NoNotice(writes)
        /\ Carries(disk.queue, writes, Uuids(queue))
        /\ lane.step # "queue" =>
              HoldsOnly(writes, Uuids(queue)) /\ Uuids(disk.queue) \subseteq Uuids(queue)
      BY <1>6 DEF Told, ToldAtWork
  <2>2. d.lossNotice = 0 /\ NoNotice(tl) BY <1>2, <1>3, <1>5, <2>1, HeadOfNotices
  <2>3. Carries(d.queue, tl, Uuids(queue)) BY <1>2, <1>3, <1>5, <2>1, CarriesTail
  <2>4. lane.step # "queue" => HoldsOnly(tl, Uuids(queue)) /\ Uuids(d.queue) \subseteq Uuids(queue)
      BY <1>2, <1>3, <1>5, <2>1, HoldsTail
  <2>5. QED BY <2>1, <2>2, <2>3, <2>4
<1>9. ToldWhenLost'
  <2> PICK b : b = lane.batch OBVIOUS
  <2> SUFFICES ASSUME lane.job = "lost"
               PROVE  /\ Cardinality((discarded \ b) \ Applied) <= Heard /\ b \subseteq discarded
                      /\ HoldsOnly(tl, b) /\ Uuids(d.queue) \subseteq b
                      /\ \A k \in DOMAIN tl : tl[k].key = "lossNotice" =>
                            /\ d.lossNotice = 0 /\ tl[k].value = Cardinality(b)
                            /\ \A j \in DOMAIN tl : tl[j].key = "lossNotice" => j = k
                      /\ NoNotice(tl) => d.lossNotice = Cardinality(b)
    <3>1. Applied' = Applied /\ discarded' = discarded BY <1>2 DEF Applied, serverVars
    <3>2. QED BY <1>2, <1>7, <3>1 DEF ToldWhenLost
  <2>1. /\ Cardinality((discarded \ b) \ Applied) <= Heard /\ b \subseteq discarded
        /\ HoldsOnly(writes, b) /\ Uuids(disk.queue) \subseteq b
        /\ \A k \in DOMAIN writes : writes[k].key = "lossNotice" =>
              /\ disk.lossNotice = 0 /\ writes[k].value = Cardinality(b)
              /\ \A j \in DOMAIN writes : writes[j].key = "lossNotice" => j = k
        /\ NoNotice(writes) => disk.lossNotice = Cardinality(b)
      BY DEF Told, ToldWhenLost
  <2>2. HoldsOnly(tl, b) /\ Uuids(d.queue) \subseteq b BY <1>2, <1>3, <1>5, <2>1, HoldsTail
  <2>3. CASE w.key = "lossNotice"
    <3>1. ASSUME NEW k \in DOMAIN tl PROVE tl[k].key # "lossNotice"
      <4>1. k + 1 \in DOMAIN writes /\ k + 1 # 1 /\ tl[k] = writes[k + 1] BY <1>4
      <4>2. QED BY <1>4, <2>1, <2>3, <4>1
    <3>2. d.lossNotice = Cardinality(b) BY <1>4, <1>5, <2>1, <2>3
    <3>3. QED BY <2>1, <2>2, <3>1, <3>2
  <2>4. CASE w.key # "lossNotice"
    <3>1. d.lossNotice = disk.lossNotice BY <1>5, <2>4
    <3>2. ASSUME NEW k \in DOMAIN tl, tl[k].key = "lossNotice"
          PROVE  /\ d.lossNotice = 0 /\ tl[k].value = Cardinality(b)
                 /\ \A j \in DOMAIN tl : tl[j].key = "lossNotice" => j = k
      <4>1. k + 1 \in DOMAIN writes /\ writes[k + 1].key = "lossNotice" /\ tl[k] = writes[k + 1] BY <1>4, <3>2
      <4>2. ASSUME NEW j \in DOMAIN tl, tl[j].key = "lossNotice" PROVE j = k
        <5>1. j + 1 \in DOMAIN writes /\ writes[j + 1].key = "lossNotice" /\ j \in Nat /\ k \in Nat BY <1>4, <4>2
        <5>2. j + 1 = k + 1 BY <2>1, <4>1, <5>1
        <5>3. QED BY <5>1, <5>2
      <4>3. QED BY <2>1, <3>1, <4>1, <4>2
    <3>3. ASSUME NoNotice(tl) PROVE NoNotice(writes)
      <4>1. ASSUME NEW k \in DOMAIN writes, k # 1 PROVE writes[k].key # "lossNotice"
        <5>1. k - 1 \in DOMAIN tl /\ tl[k - 1] = writes[k] BY <1>2, <1>3, <4>1
        <5>2. QED BY <3>3, <5>1 DEF NoNotice
      <4>2. QED BY <1>4, <2>4, <4>1 DEF NoNotice
    <3>4. QED BY <2>1, <2>2, <3>1, <3>2, <3>3
  <2>5. QED BY <2>3, <2>4
<1>10. ToldWhenGone'
  <2> SUFFICES ASSUME lane.job = "gone"
               PROVE  /\ Lost <= Heard /\ NoQueue(tl) /\ Uuids(d.queue) \subseteq discarded
                      /\ \A k \in DOMAIN tl : tl[k].key = "lossNotice" => tl[k].value = 0
      BY <1>2, <1>7 DEF ToldWhenGone
  <2>1. /\ Lost <= Heard /\ NoQueue(writes) /\ Uuids(disk.queue) \subseteq discarded
        /\ \A k \in DOMAIN writes : writes[k].key = "lossNotice" => writes[k].value = 0
      BY DEF Told, ToldWhenGone
  <2>2. NoQueue(tl) /\ w.key # "queue" BY <1>4, <2>1 DEF NoQueue
  <2>3. \A k \in DOMAIN tl : tl[k].key = "lossNotice" => tl[k].value = 0 BY <1>4, <2>1
  <2>4. QED BY <1>5, <2>1, <2>2, <2>3
<1>11. ToldWhenDown' BY <1>6, <1>7 DEF ToldWhenDown
<1>12. discarded' \subseteq made' BY <1>2 DEF Told
<1>13. ToldWhenPurging' BY <1>1, <1>2, <1>6, NotPurging DEF process
<1>14. QED BY <1>8, <1>9, <1>10, <1>11, <1>12, <1>13 DEF Told

\* The process dies.  A purge whose notice was still on its way had not begun.
LEMMA ToldKill ==
    ASSUME Base, Asleep, Told, ClientNext, Kill
    PROVE  Told'
<1>1. Typed /\ DeviceTyped /\ OnlyMade BY DEF Base
<1>2. /\ writes' = <<>> /\ up' = "down" /\ lane'.job = "idle" /\ up = "up"
      /\ discarded' = IF NoticePending THEN discarded \ lane.batch ELSE discarded
      /\ UNCHANGED <<serverVars, purge, disk, made, lossTold, waived, swallowed>>
    BY DEF Kill, Forget, Idle
<1>3. UNCHANGED <<Applied, Heard>> BY <1>2 DEF Applied, Heard, serverVars
<1>4. /\ disk.lossNotice \in Nat /\ Heard \in Nat /\ discarded \subseteq made
      /\ Cardinality(discarded \ Applied) \in Nat
  <2>1. disk.lossNotice \in Nat /\ Heard \in Nat BY <1>1 DEF DeviceTyped, Disk, Heard
  <2>2. discarded \subseteq made BY DEF Told
  <2>3. QED BY <1>1, <2>1, <2>2, NoMoreLost
<1>5. /\ Cardinality(discarded' \ Applied) <= Heard + disk.lossNotice
      /\ disk.lossNotice > 0 => Uuids(disk.queue) \subseteq discarded'
  <2>1. CASE lane.job \notin {"lost", "gone"}
    <3>1. Lost <= Heard /\ disk.lossNotice = 0 /\ NoNotice(writes) BY <1>2, <2>1 DEF Told, ToldAtWork
    <3>2. ~NoticePending BY <3>1 DEF NoticePending, NoNotice
    <3>3. QED BY <1>2, <1>4, <3>1, <3>2 DEF Lost
  <2>2. CASE lane.job = "lost"
    <3> PICK b : b = lane.batch OBVIOUS
    <3>1. /\ Cardinality((discarded \ b) \ Applied) <= Heard /\ b \subseteq discarded
          /\ Uuids(disk.queue) \subseteq b
          /\ \A k \in DOMAIN writes : writes[k].key = "lossNotice" =>
                disk.lossNotice = 0 /\ writes[k].value = Cardinality(b)
          /\ NoNotice(writes) => disk.lossNotice = Cardinality(b)
        BY <2>2 DEF Told, ToldWhenLost
    <3>2. b \subseteq made /\ IsFiniteSet(made) /\ (discarded \ b) \ Applied \subseteq made BY <1>1, <1>4, <3>1 DEF OnlyMade
    <3>3. IsFiniteSet(b) /\ IsFiniteSet((discarded \ b) \ Applied) BY <3>2, Fewer
    <3>4. CASE NoticePending
      <4>1. disk.lossNotice = 0 BY <3>1, <3>4 DEF NoticePending
      <4>2. discarded' = discarded \ b BY <1>2, <3>4
      <4>3. QED BY <1>4, <3>1, <4>1, <4>2
    <3>5. CASE ~NoticePending
      <4>1. disk.lossNotice = Cardinality(b) \/ Cardinality(b) = 0
        <5>1. CASE NoNotice(writes) BY <3>1, <5>1
        <5>2. CASE ~NoNotice(writes)
          <6>1. PICK k \in DOMAIN writes : writes[k].key = "lossNotice" BY <5>2 DEF NoNotice
          <6>2. ~(writes[k].value > 0) BY <3>5, <6>1 DEF NoticePending
          <6>3. Cardinality(b) \in Nat /\ writes[k].value = Cardinality(b) BY <3>1, <3>3, <6>1, FS_CardinalityType
          <6>4. QED BY <6>2, <6>3
        <5>3. QED BY <5>1, <5>2
      <4> PICK rest : rest = (discarded \ b) \ Applied OBVIOUS
      <4>2. /\ IsFiniteSet(rest \cup b) /\ Cardinality(rest \cup b) <= Cardinality(rest) + Cardinality(b)
            /\ Cardinality(rest) \in Nat /\ Cardinality(b) \in Nat /\ Cardinality(rest \cup b) \in Nat
          BY <3>3, Together
      <4>3. discarded \ Applied \subseteq rest \cup b OBVIOUS
      <4>4. Cardinality(discarded \ Applied) <= Cardinality(rest \cup b) BY <4>2, <4>3, Fewer
      <4>5. Cardinality(rest) <= Heard BY <3>1
      <4>6. Cardinality(discarded \ Applied) <= Heard + disk.lossNotice BY <1>4, <4>1, <4>2, <4>4, <4>5
      <4>7. discarded' = discarded BY <1>2, <3>5
      <4>8. QED BY <3>1, <4>6, <4>7
    <3>6. QED BY <3>4, <3>5
  <2>3. CASE lane.job = "gone"
    <3>1. /\ Lost <= Heard /\ Uuids(disk.queue) \subseteq discarded
          /\ \A k \in DOMAIN writes : writes[k].key = "lossNotice" => writes[k].value = 0
        BY <2>3 DEF Told, ToldWhenGone
    <3>2. ~NoticePending
      <4>1. ASSUME NEW k \in DOMAIN writes, writes[k].key = "lossNotice" PROVE ~(writes[k].value > 0)
        <5>1. writes[k].value = 0 BY <3>1, <4>1
        <5>2. QED BY <5>1
      <4>2. QED BY <4>1 DEF NoticePending
    <3>3. QED BY <1>2, <1>4, <3>1, <3>2 DEF Lost
  <2>4. QED BY <2>1, <2>2, <2>3
<1>6. discarded' \subseteq made' BY <1>2, <1>4
<1>7. ToldWhenDown'
  <2>1. discarded' \subseteq made BY <1>2, <1>6
  <2>2. Cardinality((discarded' \cup Uuids(disk.queue)) \ Applied) <= Heard + CountOnDisk
      BY <1>1, <1>4, <1>5, <2>1, CountEnough
  <2>3. CountOnDisk' = CountOnDisk BY <1>2 DEF CountOnDisk
  <2>4. QED BY <1>2, <1>3, <1>5, <2>2, <2>3 DEF ToldWhenDown, Lost
<1>8. ToldAtWork' /\ ToldWhenLost' /\ ToldWhenGone' BY <1>2 DEF ToldAtWork, ToldWhenLost, ToldWhenGone
<1>9. ToldWhenPurging' BY <1>1, <1>2, NotPurging
<1>10. QED BY <1>6, <1>7, <1>8, <1>9 DEF Told

\* The workspace is back, and the notice an interrupted purge left is waived.
LEMMA ToldBoot ==
    ASSUME Base, Asleep, Told, ClientNext, Boot
    PROVE  Told'
<1>1. Typed /\ DeviceTyped BY DEF Base
<1>2. /\ up = "down" /\ up' = "up" /\ stored' = Found /\ disk' = [disk EXCEPT !.lossNotice = 0]
      /\ waived' = waived + disk.lossNotice
      /\ ~Purging /\ UNCHANGED <<serverVars, purge, volatile, writes, made, discarded, lossTold, swallowed>>
    BY DEF Boot, Hydrate
<1>3. writes = <<>> /\ lane = Idle BY <1>2 DEF Asleep
<1>4. lane'.job = "idle" /\ writes' = <<>> BY <1>2, <1>3 DEF volatile, Idle
<1>5. disk'.lossNotice = 0 /\ disk.lossNotice \in Nat /\ lossTold \in Nat /\ waived \in Nat /\ swallowed \in Nat
    BY <1>1, <1>2 DEF DeviceTyped, Disk
<1>6. Lost' <= Heard'
  <2>1. Lost <= Heard + disk.lossNotice BY <1>2 DEF Told, ToldWhenDown
  <2>2. Lost' = Lost BY <1>2 DEF Lost, Applied, serverVars
  <2>3. Heard + disk.lossNotice = Heard' BY <1>2, <1>5 DEF Heard
  <2>4. QED BY <2>1, <2>2, <2>3
<1>7. NoNotice(<<>>)
  <2>1. DOMAIN <<>> = {} OBVIOUS
  <2>2. QED BY <2>1 DEF NoNotice
<1>8. stored' # NoAnswer BY <1>2 DEF Found, NoAnswer
<1>9. ToldAtWork' BY <1>4, <1>5, <1>6, <1>7, <1>8 DEF ToldAtWork, Reading
<1>10. ToldWhenLost' /\ ToldWhenGone' /\ ToldWhenDown' BY <1>2, <1>4 DEF ToldWhenLost, ToldWhenGone, ToldWhenDown
<1>11. discarded' \subseteq made' BY <1>2 DEF Told
<1>12. ToldWhenPurging' BY <1>1, <1>2, NotPurging
<1>13. QED BY <1>9, <1>10, <1>11, <1>12 DEF Told

\* Memory is what the disk holds.
LEMMA ToldHydrated ==
    ASSUME Base, Asleep, Told, ClientNext, Hydrated
    PROVE  Told'
<1>1. Typed /\ DeviceTyped BY DEF Base
<1>2. /\ Reading /\ stored' = NoAnswer /\ UNCHANGED <<serverVars, up, purge, lane, disk, writes, history>>
      /\ queue' = IF stored.queue = <<>> /\ ~stored.edited THEN queue ELSE stored.queue
    BY DEF Hydrated, Fill
<1>3. writes = <<>> /\ queue = <<>> /\ lane = Idle /\ stored.queue = disk.queue /\ up = "up"
    BY <1>2 DEF Asleep, Found
<1>4. queue' = disk.queue /\ lane.job = "idle" BY <1>2, <1>3 DEF Idle
<1>5. Lost <= Heard /\ disk.lossNotice = 0 /\ NoNotice(writes) BY <1>3, <1>4 DEF Told, ToldAtWork
<1>6. UNCHANGED <<Lost, Heard, lane, disk, writes, up, discarded, made>>
    BY <1>2 DEF Lost, Heard, Applied, serverVars, history
<1> PICK q : q = disk.queue OBVIOUS
<1>7. Carries(q, <<>>, Uuids(q)) /\ HoldsOnly(<<>>, Uuids(q)) BY CarriesNone, HoldsNone
<1>8. ToldAtWork' BY <1>3, <1>4, <1>5, <1>6, <1>7 DEF ToldAtWork
<1>9. ToldWhenLost' /\ ToldWhenGone' /\ ToldWhenDown'
    BY <1>3, <1>4, <1>6 DEF ToldWhenLost, ToldWhenGone, ToldWhenDown
<1>10. discarded' \subseteq made' BY <1>6 DEF Told
<1>11. ToldWhenPurging' BY <1>1, <1>2, <1>3, NotPurging
<1>12. QED BY <1>8, <1>9, <1>10, <1>11 DEF Told

\* A start finds the workspace gone, and counts.
LEMMA ToldCounted ==
    ASSUME Base, Told, BootPurges
    PROVE  /\ discarded' \subseteq made' /\ Lost' <= Heard' + purge'.count
           /\ Cardinality((discarded' \ Uuids(disk'.queue)) \ Applied') <= Heard' + disk'.lossNotice
<1>1. DeviceTyped /\ OnlyMade BY DEF Base
<1> PICK Q, D, A : Q = Uuids(disk.queue) /\ D = discarded /\ A = Applied OBVIOUS
<1>2. /\ up = "down" /\ ~Purging /\ disk' = disk /\ discarded' = D \cup Q /\ purge'.count = CountOnDisk
      /\ UNCHANGED <<serverVars, made, lossTold, waived, swallowed>>
    BY DEF BootPurges
<1>3. Applied' = A /\ Heard' = Heard BY <1>2 DEF Applied, serverVars, Heard
<1>4. Cardinality(D \ A) <= Heard + disk.lossNotice /\ Cardinality((D \cup Q) \ A) <= Heard + CountOnDisk
    BY <1>2 DEF Told, ToldWhenDown, Lost
<1>5. D \cup Q \subseteq made BY <1>1 DEF Told, OnlyMade
<1>6. Lost' = Cardinality((D \cup Q) \ A) BY <1>2, <1>3 DEF Lost
<1>7. Cardinality(((D \cup Q) \ Q) \ A) <= Heard + disk.lossNotice
  <2>1. (D \cup Q) \ Q \subseteq D /\ D \subseteq made BY <1>5
  <2>2. /\ Cardinality(((D \cup Q) \ Q) \ A) <= Cardinality(D \ A) /\ Cardinality(D \ A) \in Nat
        /\ Cardinality(((D \cup Q) \ Q) \ A) \in Nat
      BY <1>1, <2>1, NoMoreLost
  <2>3. disk.lossNotice \in Nat /\ Heard \in Nat BY <1>1 DEF DeviceTyped, Disk, Heard
  <2>4. QED BY <1>4, <2>2, <2>3
<1>8. QED BY <1>2, <1>3, <1>4, <1>5, <1>6, <1>7

\* A key goes: the count stays, and so do queue and notice until the queue goes.
LEMMA ToldRemoved ==
    ASSUME Base, Told, RemoveKey
    PROVE  ToldWhenPurging'
<1>1. DeviceTyped BY DEF Base
<1>2. /\ Purging /\ purge.removed \in 0..4 /\ Removes(disk, disk', purge.removed + 1)
      /\ purge'.removed = purge.removed + 1 /\ purge'.count = purge.count
      /\ UNCHANGED <<discarded, lossTold, waived, swallowed>>
    BY <1>1, RemoveKeyIs
<1>3. UNCHANGED <<Applied, Lost, Heard>> BY <1>2 DEF RemoveKey, Applied, Lost, Heard, serverVars
<1>4. purge'.removed < 4 => /\ disk'.queue = disk.queue /\ disk'.lossNotice = disk.lossNotice
                            /\ purge.removed < 4
    BY <1>2 DEF Removes
<1>5. QED BY <1>2, <1>3, <1>4 DEF Told, ToldWhenPurging

\* The purge is over: the user hears of all that was counted.
LEMMA ToldAtStart ==
    ASSUME Base, Purged, Told, BootReports
    PROVE  ToldWhenDown'
<1>1. DeviceTyped /\ OnlyMade BY DEF Base
<1> PICK Q, D, A, c : Q = Uuids(disk.queue) /\ D = discarded /\ A = Applied /\ c = purge.count OBVIOUS
<1>2. /\ Purging /\ lossTold' = lossTold + c
      /\ UNCHANGED <<serverVars, disk, discarded, waived, swallowed>>
    BY DEF BootReports
<1>3. /\ lossTold \in Nat /\ waived \in Nat /\ swallowed \in Nat /\ c \in Nat /\ disk.lossNotice \in Nat
      /\ CountOnDisk \in Nat /\ CountOnDisk' = CountOnDisk
    BY <1>1, <1>2, CountType DEF DeviceTyped, Disk, Purges, CountOnDisk
<1>4. Applied' = A /\ Heard' = Heard + c /\ Heard' \in Nat BY <1>2, <1>3 DEF Applied, serverVars, Heard
<1>5. Cardinality(D \ A) <= Heard' BY <1>2, <1>4 DEF Told, ToldWhenPurging, Lost
<1>6. D \cup Q = D BY <1>2 DEF Purged
<1>7. Cardinality(D \ A) \in Nat BY <1>1, NoMoreLost DEF Told
<1>8. Cardinality(D \ A) <= Heard' + disk.lossNotice /\ Cardinality((D \cup Q) \ A) <= Heard' + CountOnDisk
    BY <1>3, <1>4, <1>5, <1>6, <1>7
<1>9. QED BY <1>2, <1>3, <1>4, <1>8 DEF ToldWhenDown, Lost

\* The app is killed in the purge: what it had counted beyond what a start would
\* count again is swallowed.
LEMMA ToldSwallowed ==
    ASSUME Base, Purged, Told, KillInPurge
    PROVE  ToldWhenDown'
<1>1. DeviceTyped /\ OnlyMade BY DEF Base
<1> PICK q, Q, D, A, c, n, m, h : /\ q = disk.queue /\ Q = Uuids(q) /\ D = discarded /\ A = Applied
                                  /\ c = purge.count /\ n = disk.lossNotice /\ m = CountOnDisk /\ h = Heard
    OBVIOUS
<1>2. /\ Purging /\ discarded' = D \ Q /\ swallowed' = swallowed + IF c > m THEN c - m ELSE 0
      /\ UNCHANGED <<serverVars, disk, lossTold, waived>>
    BY DEF KillInPurge
<1>3. /\ lossTold \in Nat /\ waived \in Nat /\ swallowed \in Nat /\ c \in Nat /\ n \in Nat
      /\ m \in Nat /\ q \in Queues
    BY <1>1, CountType DEF DeviceTyped, Disk, Purges
<1>4. Applied' = A /\ disk' = disk /\ CountOnDisk' = m BY <1>2 DEF Applied, serverVars, CountOnDisk
<1>5. h \in Nat /\ Heard' \in Nat /\ h <= Heard' /\ h + c <= Heard' + m
  <2> PICK k : k = IF c > m THEN c - m ELSE 0 OBVIOUS
  <2>1. k \in Nat /\ c <= k + m BY <1>3
  <2>2. Heard' = h + k /\ h \in Nat
    <3>1. swallowed' = swallowed + k /\ h = lossTold + waived + swallowed BY <1>2 DEF Heard
    <3>2. Heard' = lossTold + waived + (swallowed + k) BY <1>2, <3>1 DEF Heard
    <3>3. QED BY <1>3, <2>1, <3>1, <3>2
  <2> PICK g : g = Heard' OBVIOUS
  <2>3. g \in Nat /\ h <= g /\ h + c <= g + m BY <1>3, <2>1, <2>2
  <2>4. QED BY <2>2, <2>3
<1>6. /\ Q \subseteq D /\ D \subseteq made /\ Cardinality(D \ A) <= h + c
      /\ purge.removed >= 4 => q = <<>>
      /\ purge.removed < 4 => Cardinality((D \ Q) \ A) <= h + n
    BY <1>2 DEF Purged, Told, ToldWhenPurging, Lost
<1>7. Cardinality(D \ A) \in Nat /\ Cardinality((D \ Q) \ A) \in Nat BY <1>1, <1>6, NoMoreLost
<1>8. Cardinality(((D \ Q) \cup Q) \ A) <= Heard' + m
  <2> PICK x, g : x = Cardinality(D \ A) /\ g = Heard' OBVIOUS
  <2>1. x <= g + m BY <1>3, <1>5, <1>6, <1>7
  <2>2. (D \ Q) \cup Q = D BY <1>6
  <2>3. QED BY <2>1, <2>2
<1>9. Cardinality((D \ Q) \ A) <= Heard' + n
  <2>1. CASE purge.removed < 4 BY <1>3, <1>5, <1>6, <1>7, <2>1
  <2>2. CASE q = <<>>
    <3>1. Q = {} /\ D \ Q = D BY <2>2, UuidsNone
    <3>2. m = n
      <4>1. Len(q) = 0 BY <2>2
      <4>2. m = IF Len(q) > n THEN Len(q) ELSE n BY DEF CountOnDisk
      <4>3. QED BY <1>3, <4>1, <4>2
    <3>3. QED BY <1>3, <1>5, <1>6, <1>7, <3>1, <3>2
  <2>3. purge.removed \in Nat BY <1>1 DEF DeviceTyped, Purges
  <2>4. QED BY <1>6, <2>1, <2>2, <2>3
<1>10. QED BY <1>2, <1>4, <1>8, <1>9 DEF ToldWhenDown, Lost

LEMMA ToldPurged ==
    ASSUME Base, Asleep, Purged, Told, PurgeSteps
    PROVE  Told'
<1>1. DeviceTyped BY DEF Base
<1>2. up = "down" /\ UNCHANGED <<serverVars, up, lane, made>> BY <1>1, PurgeKeeps DEF volatile
<1>3. lane.job = "idle" BY <1>2 DEF Asleep, Idle
<1>4. ToldAtWork' /\ ToldWhenLost' /\ ToldWhenGone' BY <1>2, <1>3 DEF ToldAtWork, ToldWhenLost, ToldWhenGone
<1>5. CASE BootPurges
  <2>1. Purging' BY <1>5 DEF BootPurges, Purging, NoPurge
  <2>2. ToldWhenDown' BY <2>1 DEF ToldWhenDown
  <2>3. ToldWhenPurging' BY <1>5, ToldCounted DEF ToldWhenPurging
  <2>4. QED BY <1>4, <1>5, <2>2, <2>3, ToldCounted DEF Told
<1>6. CASE RemoveKey
  <2>1. Purging' BY <1>1, <1>6, RemoveKeyIs DEF Purging, NoPurge, Purges
  <2>2. ToldWhenDown' BY <2>1 DEF ToldWhenDown
  <2>3. discarded' \subseteq made' BY <1>1, <1>2, <1>6, RemoveKeyIs DEF Told
  <2>4. QED BY <1>4, <1>6, <2>2, <2>3, ToldRemoved DEF Told
<1>7. CASE BootReports
  <2>1. ~Purging' BY <1>7 DEF BootReports, Purging
  <2>2. discarded' \subseteq made' BY <1>2, <1>7 DEF BootReports, Told
  <2>3. QED BY <1>4, <1>7, <2>1, <2>2, ToldAtStart DEF Told, ToldWhenPurging
<1>8. CASE KillInPurge
  <2>1. ~Purging' BY <1>8 DEF KillInPurge, Purging
  <2>2. discarded' \subseteq made' BY <1>2, <1>8 DEF KillInPurge, Told
  <2>3. QED BY <1>4, <1>8, <2>1, <2>2, ToldSwallowed DEF Told, ToldWhenPurging
<1>9. QED BY <1>5, <1>6, <1>7, <1>8 DEF PurgeSteps

\* Everybody else's steps.
LEMMA ToldElsewhere ==
    ASSUME Base, Told, Applied \subseteq Applied',
           UNCHANGED <<process, volatile, disk, writes, made, discarded, lossTold, waived, swallowed>>
    PROVE  Told'
<1>1. OnlyMade /\ DeviceTyped BY DEF Base
<1>2. /\ UNCHANGED <<process, disk, writes, made, discarded, lossTold, waived, swallowed, queue, lane, up, stored>>
      /\ Heard' = Heard /\ Heard \in Nat
    BY <1>1 DEF process, volatile, Heard, DeviceTyped
<1>3. discarded \subseteq made BY DEF Told
<1>4. ASSUME NEW T, T \subseteq discarded
      PROVE  /\ Cardinality(T \ Applied') <= Cardinality(T \ Applied)
             /\ Cardinality(T \ Applied) \in Nat /\ Cardinality(T \ Applied') \in Nat
  <2>1. T \subseteq made BY <1>3, <1>4
  <2>2. QED BY <1>1, <2>1, NoMoreLost
<1>5. Lost' <= Lost /\ Lost \in Nat /\ Lost' \in Nat BY <1>2, <1>4 DEF Lost
<1>6. disk.lossNotice \in Nat BY <1>1 DEF DeviceTyped, Disk
<1>7. ToldAtWork'
  <2>1. Lost <= Heard => Lost' <= Heard' BY <1>2, <1>5
  <2>2. QED BY <1>2, <2>1 DEF Told, ToldAtWork, Reading
<1>8. ToldWhenLost'
  <2> SUFFICES ASSUME lane.job = "lost" PROVE ToldWhenLost' BY <1>2 DEF ToldWhenLost
  <2> PICK T : T = discarded \ lane.batch OBVIOUS
  <2>1. /\ Cardinality(T \ Applied') <= Cardinality(T \ Applied)
        /\ Cardinality(T \ Applied) \in Nat /\ Cardinality(T \ Applied') \in Nat
      BY <1>4
  <2>2. Cardinality(T \ Applied) <= Heard BY DEF Told, ToldWhenLost
  <2>3. Cardinality(T \ Applied') <= Heard BY <1>2, <2>1, <2>2
  <2>4. QED BY <1>2, <2>3 DEF Told, ToldWhenLost
<1>9. ToldWhenGone'
  <2>1. Lost <= Heard => Lost' <= Heard' BY <1>2, <1>5
  <2>2. QED BY <1>2, <2>1 DEF Told, ToldWhenGone
<1>10. ToldWhenDown'
  <2> PICK T : T = discarded \cup Uuids(disk.queue) OBVIOUS
  <2>1. Lost <= Heard + disk.lossNotice => Lost' <= Heard' + disk.lossNotice BY <1>2, <1>5, <1>6
  <2>2. T \subseteq made BY <1>1, <1>3 DEF OnlyMade
  <2>3. /\ Cardinality(T \ Applied') <= Cardinality(T \ Applied)
        /\ Cardinality(T \ Applied) \in Nat /\ Cardinality(T \ Applied') \in Nat
      BY <1>1, <2>2, NoMoreLost
  <2>4. CountOnDisk' = CountOnDisk /\ CountOnDisk \in Nat BY <1>1, <1>2, CountType DEF CountOnDisk
  <2>5. Cardinality(T \ Applied) <= Heard + CountOnDisk => Cardinality(T \ Applied') <= Heard' + CountOnDisk'
      BY <1>2, <2>3, <2>4
  <2>6. purge' = purge BY DEF process
  <2>7. QED BY <1>2, <2>1, <2>5, <2>6 DEF Told, ToldWhenDown, Purging
<1>11. ToldWhenPurging'
  <2> SUFFICES ASSUME Purging PROVE ToldWhenPurging' BY DEF ToldWhenPurging, Purging, process
  <2> PICK T : T = discarded \ Uuids(disk.queue) OBVIOUS
  <2>1. purge' = purge /\ purge.count \in Nat BY <1>1 DEF process, DeviceTyped, Purges
  <2>2. Lost' <= Heard' + purge.count BY <1>2, <1>5, <2>1 DEF Told, ToldWhenPurging
  <2>3. /\ Cardinality(T \ Applied') <= Cardinality(T \ Applied)
        /\ Cardinality(T \ Applied) \in Nat /\ Cardinality(T \ Applied') \in Nat
      BY <1>4
  <2>4. purge.removed < 4 => Cardinality(T \ Applied') <= Heard' + disk.lossNotice
      BY <1>2, <1>6, <2>3 DEF Told, ToldWhenPurging
  <2>5. QED BY <1>2, <2>1, <2>2, <2>4 DEF ToldWhenPurging
<1>12. QED BY <1>2, <1>3, <1>7, <1>8, <1>9, <1>10, <1>11 DEF Told

LEMMA ToldReply ==
    ASSUME Base, Asleep, Told, ClientNext, NEW s \in Slots, Step(s)
    PROVE  Told'
<1>1. Typed /\ OkIsApplied /\ DeviceTyped /\ LaneShape BY DEF Base
<1>2. Applied \subseteq Applied' BY <1>1, DecidedGrows
<1>3. lane \in Lane /\ writes \in Seq(Writes) /\ queue \in Queues BY <1>1 DEF DeviceTyped
<1>4. CASE MarkNeedsFullSync(s)
  <2>1. Write("needsFullSync", TRUE) \in Writes /\ Write("needsFullSync", TRUE).key = "needsFullSync"
      BY WriteTypes, KeysOfWrites
  <2>2. writes' = writes \o <<Write("needsFullSync", TRUE)>> BY <1>4 DEF MarkNeedsFullSync, Flag
  <2>3. lane.job = "flush" /\ lane'.job = "flush" /\ lane.step = "reply"
      BY <1>3, <1>4 DEF MarkNeedsFullSync, Lane, Replied
  <2>4. UNCHANGED <<process, queue, disk, discarded, lossTold, waived, swallowed, made>> BY <1>4 DEF MarkNeedsFullSync
  <2>5. up = "up" /\ ~Reading BY <1>1, <2>3, Awake DEF Idle
  <2>6. QED BY <1>2, <2>1, <2>2, <2>3, <2>4, <2>5, ToldLane
<1>5. CASE ApplyFlush(s) BY <1>5, ToldFlush
<1>6. CASE ApplyPull(s)
  <2>1. Uuids(queue') = Uuids(queue) /\ syncToken' \in Tokens BY <1>1, <1>3, <1>6, ResponseType DEF ApplyPull
  <2> PICK w : w = Write("token", syncToken') OBVIOUS
  <2>2. w \in Writes /\ w.key = "token" BY <2>1, WriteTypes, KeysOfWrites
  <2>3. writes' = writes \o <<w>> BY <1>3, <1>6, <2>2, OneWrite DEF ApplyPull
  <2>4. lane.job \notin {"lost", "gone"} /\ lane'.job \notin {"lost", "gone"} /\ lane.step = "reply"
      BY <1>3, <1>6 DEF ApplyPull, Lane, Replied
  <2>5. UNCHANGED <<process, disk, discarded, lossTold, waived, swallowed, made>> BY <1>6 DEF ApplyPull, history
  <2>6. up = "up" /\ ~Reading BY <1>1, <2>4, Awake DEF Idle
  <2>7. QED BY <1>2, <2>1, <2>2, <2>3, <2>4, <2>5, <2>6, ToldLane
<1>7. CASE RetryLater(s)
  <2>1. /\ UNCHANGED <<process, queue, disk, writes, discarded, lossTold, waived, swallowed, made>>
        /\ lane'.job \notin {"lost", "gone"}
      BY <1>7 DEF RetryLater, LeaveLane, Idle, history
  <2>2. lane.job \notin {"lost", "gone"} /\ lane.step = "reply"
      BY <1>1, <1>7 DEF RetryLater, Replied, LaneShape
  <2>3. up = "up" /\ ~Reading BY <1>1, <2>2, Awake DEF Idle
  <2>4. QED BY <1>2, <2>1, <2>2, <2>3, ToldLane
<1>8. CASE LoseAccess(s) BY <1>8, ToldLost
<1>9. QED BY <1>4, <1>5, <1>6, <1>7, <1>8 DEF Step

LEMMA ToldRun ==
    ASSUME ~ActsEarly, ~CachedBoot, Base, Asleep, Purged, Told, ClientNext, Run
    PROVE  Told'
<1>1. Typed /\ DeviceTyped /\ LaneShape BY DEF Base
<1>2. Applied \subseteq Applied' BY <1>1, DecidedGrows
<1>3. lane \in Lane /\ writes \in Seq(Writes) BY <1>1 DEF DeviceTyped
<1>4. CASE StartFlush \/ SendBatch \/ SendPull \/ EndReply
  <2>1. UNCHANGED <<process, queue, disk, writes, discarded, lossTold, waived, swallowed, made>>
      BY <1>4 DEF StartFlush, SendBatch, SendPull, EndReply, history
  <2>2. lane.job \notin {"lost", "gone"}
      BY <1>1, <1>4 DEF StartFlush, SendBatch, SendPull, EndReply, LaneShape
  <2>3. lane'.job \notin {"lost", "gone"}
    <3>1. CASE SendBatch BY <1>3, <3>1 DEF SendBatch, DoSync, Lane
    <3>2. StartFlush => lane'.job = "flush" BY DEF StartFlush, Idle
    <3>3. SendPull => lane'.job \in {"pull", "recover"} BY DEF SendPull, Idle
    <3>4. EndReply => lane'.job \in {"flush", "recover", "idle"} BY DEF EndReply, LeaveLane, Idle
    <3>5. QED BY <1>4, <3>1, <3>2, <3>3, <3>4
  <2>4. up = "up" /\ ~Reading
    <3>1. CASE SendBatch BY <1>1, <3>1, Awake DEF SendBatch, Idle
    <3>2. CASE StartFlush BY <3>2 DEF StartFlush, Active
    <3>3. CASE SendPull
      <4>1. CASE Active BY <4>1 DEF Active
      <4>2. CASE lane.job = "recover" BY <1>1, <4>2, Awake DEF Idle
      <4>3. QED BY <3>3, <4>1, <4>2 DEF SendPull
    <3>4. CASE EndReply BY <1>1, <3>4, Awake DEF EndReply, Idle
    <3>5. QED BY <1>4, <3>1, <3>2, <3>3, <3>4
  <2>5. lane.step # "queue"
    <3>1. CASE SendBatch BY <3>1 DEF SendBatch
    <3>2. CASE StartFlush BY <1>1, <3>2 DEF StartFlush, LaneShape
    <3>3. CASE SendPull BY <1>1, <3>3 DEF SendPull, LaneShape
    <3>4. CASE EndReply BY <3>4 DEF EndReply
    <3>5. QED BY <1>4, <3>1, <3>2, <3>3, <3>4
  <2>6. QED BY <1>2, <2>1, <2>2, <2>3, <2>4, <2>5, ToldLane
<1>5. CASE PersistToken \/ PersistReplica \/ ClearNeedsFullSync
  <2>1. /\ UNCHANGED <<process, queue, disk, discarded, lossTold, waived, swallowed, made>> /\ writes = <<>>
        /\ lane.job \notin {"lost", "gone"} /\ lane.step # "start"
      BY <1>1, <1>5 DEF PersistToken, PersistReplica, ClearNeedsFullSync, Settled, LaneShape, history
  <2>2. lane'.job = lane.job BY <1>3, <1>5 DEF PersistToken, PersistReplica, ClearNeedsFullSync, Lane
  <2>3. \E w \in Writes : w.key \notin {"queue", "lossNotice"} /\ writes' = <<w>>
    <3>1. CASE PersistToken BY <1>1, <3>1, WriteTypes, KeysOfWrites DEF PersistToken, DeviceTyped
    <3>2. CASE PersistReplica BY <1>1, <3>2, WriteTypes, KeysOfWrites DEF PersistReplica, DeviceTyped
    <3>3. CASE ClearNeedsFullSync BY <3>3, WriteTypes, KeysOfWrites DEF ClearNeedsFullSync
    <3>4. QED BY <1>5, <3>1, <3>2, <3>3
  <2>4. \A w \in Writes : <<>> \o <<w>> = <<w>> OBVIOUS
  <2>5. \E w \in Writes : w.key \notin {"queue", "lossNotice"} /\ writes' = writes \o <<w>>
      BY <2>1, <2>3, <2>4
  <2>6. up = "up" /\ ~Reading BY <1>1, <2>1, Awake DEF Idle
  <2>7. QED BY <1>2, <2>1, <2>2, <2>5, <2>6, ToldLane
<1>6. ~BootFromCache BY DEF BootFromCache
<1>7. QED BY <1>4, <1>5, <1>6, ToldSettle, ToldReported, ToldBoot, ToldHydrated, ToldPurged DEF Run, PurgeSteps

LEMMA ToldStep ==
    ASSUME ~ActsEarly, ~CachedBoot, ~WritesFail, Base, Asleep, Purged, Told, ClientNext
    PROVE  Told'
<1>1. Typed /\ DeviceTyped /\ LaneShape BY DEF Base
<1>2. Applied \subseteq Applied' BY <1>1, DecidedGrows
<1>3. ASSUME UNCHANGED <<process, volatile, disk, writes, made, discarded, lossTold, waived, swallowed>> PROVE Told'
    BY <1>2, <1>3, ToldElsewhere
<1>4. ASSUME NEW c \in Cmds, Mutate(c) PROVE Told' BY <1>4, ToldMutate
<1>5. ASSUME NEW c \in Cmds, OtherDevice(c) PROVE Told' BY <1>3, <1>5 DEF OtherDevice, clientVars, history
<1>6. ASSUME NEW s \in Slots, Step(s) PROVE Told' BY <1>6, ToldReply
<1>7. ASSUME NEW s \in Slots, GiveUp(s) PROVE Told'
  <2>1. /\ UNCHANGED <<process, queue, disk, writes, discarded, lossTold, waived, swallowed, made>>
        /\ lane'.job \notin {"lost", "gone"}
      BY <1>7 DEF GiveUp, LeaveLane, Idle, history
  <2>2. lane.job \notin {"lost", "gone"} /\ lane.step = "reply" BY <1>1, <1>7 DEF GiveUp, LaneShape
  <2>3. up = "up" /\ ~Reading BY <1>1, <2>2, Awake DEF Idle
  <2>4. QED BY <1>2, <2>1, <2>2, <2>3, ToldLane
<1>8. ASSUME NEW s \in Slots, DropOrphan(s) \/ Serving(s) \/ Failing(s) PROVE Told'
    BY <1>3, <1>8 DEF DropOrphan, Serving, Failing, clientVars, history
<1>9. CASE Run BY <1>9, ToldRun
<1>10. CASE Kill BY <1>10, ToldKill
<1>11. ~WriteFails BY DEF WriteFails
<1>12. CASE Membership BY <1>3, <1>12 DEF Membership, clientVars, history
<1>13. CASE KillInPurge BY <1>13, ToldPurged DEF PurgeSteps
<1>14. QED BY <1>4, <1>5, <1>6, <1>7, <1>8, <1>9, <1>10, <1>11, <1>12, <1>13 DEF ClientNext

LEMMA ToldInit == ClientInit => Told
<1> SUFFICES ASSUME ClientInit PROVE Told OBVIOUS
<1>1. /\ up = "down" /\ disk = EmptyDisk /\ lane = Idle /\ purge = NoPurge
      /\ discarded = {} /\ lossTold = 0 /\ waived = 0 /\ swallowed = 0
    BY DEF ClientInit
<1>2. disk.lossNotice = 0 /\ disk.queue = <<>> BY <1>1 DEF EmptyDisk
<1>3. Lost = 0 /\ Cardinality((discarded \cup Uuids(disk.queue)) \ Applied) = 0
  <2>1. {} \ Applied = {} /\ ({} \cup {}) \ Applied = {} OBVIOUS
  <2>2. Uuids(disk.queue) = {} BY <1>2, UuidsNone
  <2>3. QED BY <1>1, <2>1, <2>2, FS_EmptySet DEF Lost
<1>4. Heard = 0 /\ CountOnDisk = 0
  <2>1. Len(<<>>) = 0 OBVIOUS
  <2>2. QED BY <1>1, <1>2, <2>1 DEF Heard, CountOnDisk
<1>5. ToldWhenDown BY <1>2, <1>3, <1>4 DEF ToldWhenDown
<1>6. ToldAtWork /\ ToldWhenLost /\ ToldWhenGone /\ ToldWhenPurging
    BY <1>1 DEF ToldAtWork, ToldWhenLost, ToldWhenGone, ToldWhenPurging, Purging, Idle
<1>7. QED BY <1>1, <1>5, <1>6 DEF Told

\* When the purge of a lost workspace is over, in the running app or at a later
\* start, the user has heard of at least as many discarded changes as were lost,
\* wherever the app was killed in between, except for those that a start's own
\* purge had counted and taken off the disk when it was killed: where storage takes
\* its writes and a start asks the server who is signed in and waits for what it
\* reads (client.ts: loseAccess, purgeWorkspaceData, clearLossNotice; boot.ts:
\* discardLostWorkspaces).
THEOREM NoLossUntold ==
    ASSUME ~ActsEarly, ~CachedBoot, ~WritesFail
    PROVE  ClientSpec => []LossIsKnown
<1>1. Careful /\ Told => LossIsKnown
  <2> SUFFICES ASSUME Careful, Told, PurgeOver
               PROVE  Lost <= Heard
      BY DEF LossIsKnown, Lost, Heard
  <2>1. CASE lane.job = "gone" BY <2>1 DEF Told, ToldWhenGone
  <2>2. CASE up = "down" /\ ~Purging /\ disk = EmptyDisk
    <3>1. Lost <= Heard + 0 BY <2>2 DEF Told, ToldWhenDown, EmptyDisk
    <3>2. Heard \in Nat BY DEF Careful, Base, DeviceTyped, Heard
    <3>3. QED BY <3>1, <3>2
  <2>3. QED BY <2>1, <2>2 DEF PurgeOver
<1>2. Careful /\ Told /\ [ClientNext]_vars => (Careful /\ Told)'
  <2> SUFFICES ASSUME Careful, Told, [ClientNext]_vars PROVE Careful' /\ Told' OBVIOUS
  <2>1. Careful' BY CarefulStep
  <2>2. CASE ClientNext BY <2>1, <2>2, ToldStep DEF Careful
  <2>3. CASE UNCHANGED vars
    <3>1. UNCHANGED serverVars /\ UNCHANGED clientVars BY <2>3 DEF vars
    <3>2. UNCHANGED <<process, volatile, disk, writes, made, discarded, lossTold, waived, swallowed>>
        BY <3>1 DEF clientVars, history
    <3>3. Applied \subseteq Applied' BY <3>1 DEF serverVars, Applied
    <3>4. QED BY <2>1, <3>2, <3>3, ToldElsewhere DEF Careful
  <2>4. QED BY <2>2, <2>3
<1>3. QED BY <1>1, <1>2, CarefulInit, ToldInit, PTL DEF ClientSpec

-----------------------------------------------------------------------------
(* What a refused command leaves on the stored screen *)

\* The contents the server holds: commands that took effect, and roles of members.
Known == Applied \cup Roles
Grounded ==
    /\ \A id \in DOMAIN rows : rows[id].content \in Known
    /\ \A s \in Slots : \A c \in req[s].got : c.row.content \in Known

\* The commands a replica shows the effect of, and the writes under way.
Drawn(rep) == {rep[x].content : x \in DOMAIN rep}
Issued(ws) == {ws[k] : k \in DOMAIN ws}

\* The flag is on disk, and nothing is about to take it off.
Clears(w) == w.key = "needsFullSync" /\ ~w.value
Marked(d, ws) == d.needsFullSync /\ \A w \in Issued(ws) : ~Clears(w)

\* Of the commands R, saved and refused, the stored replicas show only those that
\* K excuses, being queued or having taken effect after all.
Spared(rep, R, K) == Drawn(rep) \cap R \subseteq K
AllSpared(d, ws, R, K) ==
    Spared(d.replica, R, K) /\ \A w \in Issued(ws) : w.key = "replica" => Spared(w.value, R, K)
Clean(rep, K) == Drawn(rep) \subseteq K \cup Roles

\* What the lane's step says of the flag and of a full reply: the flag is on disk
\* before a refusal is dealt with, and comes off only when the replica that a
\* full reply replaced is there.  U are the commands queued.
FlagFirst(ln, d, ws, rep, U, K) ==
    /\ ln.job = "flush" /\ ln.step \in {"reply", "flag"} => ln.batch \subseteq U
    /\ ln.step = "flag" => d.needsFullSync \/ Write("needsFullSync", TRUE) \in Issued(ws)
    /\ \A k \in DOMAIN ws : Clears(ws[k]) => ln.step = "clear" /\ k = 1
    /\ ln.full /\ ln.step \in {"queue", "token", "replica"} => Clean(rep, K)
    /\ ln.full /\ ln.step = "replica" =>
          /\ \A w \in Issued(ws) : w.key = "replica" => Clean(w.value, K)
          /\ Clean(d.replica, K) \/ \E w \in Issued(ws) : w.key = "replica" /\ w.awaited

Healing(ln, d, ws, rep, U, R, K) ==
    /\ Marked(d, ws) \/ (Spared(rep, R, K) /\ AllSpared(d, ws, R, K))
    /\ HoldsOnly(ws, K)
    /\ FlagFirst(ln, d, ws, rep, U, K)

\* A purge has emptied the stored replica, or will before it takes off the flag
\* or the queue.
Blank(d, ws) == Drawn(d.replica) = {} /\ \A w \in Issued(ws) : w.key = "replica" => Drawn(w.value) = {}
Empties(d, ws, U, sv, R, K) ==
    /\ d.needsFullSync \/ AllSpared(d, ws, R, K)
    /\ HoldsOnly(ws, K)
    /\ \E p \in DOMAIN ws :
          /\ ws[p].key = "replica" /\ ws[p].value = NoReplica
          /\ \A k \in DOMAIN ws : (k > p => ws[k].key # "replica") /\ (k < p => ~Clears(ws[k]))
          /\ Orderly(Cmds \ U, sv, d.queue, ws, p)

Unheeded == refused \cap saved
Backed == Applied \cup Uuids(queue)

HealsAtWork ==
    up = "up" /\ ~Reading /\ lane.job \notin {"lost", "gone"} =>
        Healing(lane, disk, writes, replica, Uuids(queue), Unheeded, Backed)
HealsWhenLost ==
    /\ lane.job = "lost" => Blank(disk, writes) \/ Empties(disk, writes, Uuids(queue), saved, Unheeded, Backed)
    /\ lane.job = "gone" => Blank(disk, writes)
HealsAtRest ==
    up = "down" \/ Reading =>
        disk.needsFullSync \/ Spared(disk.replica, Unheeded, Applied \cup Uuids(disk.queue))

Heals == Grounded /\ HealsAtWork /\ HealsWhenLost /\ HealsAtRest

\* What the server holds stays founded in what took effect.
LEMMA GroundedStep ==
    ASSUME Typed, Grounded, ServerStep
    PROVE  Grounded'
<1> PICK K, L : K = Known /\ L = Known' OBVIOUS
<1>1. K \subseteq L BY AppliedGrows DEF Known
<1>2. /\ \A id \in DOMAIN rows : rows[id].content \in K
      /\ \A s \in Slots : \A c \in req[s].got : c.row.content \in K
    BY DEF Grounded
<1>3. \A id \in DOMAIN rows' : rows'[id].content \in L
  <2>1. CASE Quiet BY <1>1, <1>2, <2>1 DEF Quiet
  <2>2. ASSUME NEW u \in Users, NEW c \in Command, Commits(u, c)
        PROVE  \A id \in DOMAIN rows' : rows'[id].content \in L
    <3>1. PICK id, r : rows' = Put(rows, id, r) /\ r.content = c.uuid BY <2>2 DEF Commits, Commit
    <3>2. c.uuid \in L
      <4>1. PICK e : ledger' = Append(ledger, e) /\ e.cmd = c.uuid BY <2>2 DEF Commits, Commit
      <4>2. PICK n : n = Len(ledger) + 1 OBVIOUS
      <4>3. DOMAIN ledger' = DOMAIN ledger \cup {n} /\ ledger'[n] = e BY <4>1, <4>2, LedgerGrows
      <4>4. c.uuid # NoCmd BY ServerConstants DEF Command
      <4>5. QED BY <4>1, <4>3, <4>4 DEF Known, Applied
    <3>3. QED BY <1>1, <1>2, <3>1, <3>2 DEF Put
  <2>3. CASE Stamps
    <3>1. PICK u \in Users, role \in Roles, removed \in BOOLEAN : StampMember(u, role, removed) BY <2>3 DEF Stamps
    <3>2. PICK r : rows' = Put(rows, u, r) /\ r.content = role BY <3>1 DEF StampMember
    <3>3. role \in L BY <3>1 DEF Known
    <3>4. QED BY <1>1, <1>2, <3>2, <3>3 DEF Put
  <2>4. CASE DeleteWorkspace
    <3>1. DOMAIN <<>> = {} OBVIOUS
    <3>2. QED BY <2>4, <3>1 DEF DeleteWorkspace
  <2>5. QED BY <2>1, <2>2, <2>3, <2>4, DataStep
<1>4. ASSUME NEW s \in Slots PROVE \A c \in req'[s].got : c.row.content \in L
  <2>1. ASSUME NEW t \in Slots, NEW r, req' = [req EXCEPT ![t] = r],
               r.got \subseteq req[t].got \cup {[id |-> id, row |-> rows[id]] : id \in DOMAIN rows}
        PROVE  \A c \in req'[s].got : c.row.content \in L
    <3>1. \A c \in r.got : c.row.content \in L BY <1>1, <1>2, <2>1
    <3>2. req'[s] = IF s = t THEN r ELSE req[s] BY <2>1 DEF Typed, TypeOK
    <3>3. QED BY <1>1, <1>2, <3>1, <3>2
  <2>2. Free.got = {} BY DEF Free
  <2>3. CASE UNCHANGED req BY <1>1, <1>2, <2>3
  <2>4. ASSUME NEW t \in Slots, FreeSlot(t) PROVE \A c \in req'[s].got : c.row.content \in L
      BY <2>1, <2>2, <2>4 DEF FreeSlot
  <2>5. ASSUME NEW t \in Slots, NEW cs, NEW tok, Send(t, Device, cs, tok) PROVE \A c \in req'[s].got : c.row.content \in L
    <3> DEFINE r == [Free EXCEPT !.pc = "sent", !.user = Device, !.cmds = cs, !.token = tok]
    <3>1. r.got = {} /\ req' = [req EXCEPT ![t] = r] BY <2>5 DEF Send, Free
    <3> HIDE DEF r
    <3>2. QED BY <2>1, <3>1
  <2>6. ASSUME NEW t \in Slots, Unavailable(t) PROVE \A c \in req'[s].got : c.row.content \in L
    <3> DEFINE r == [Free EXCEPT !.pc = "done", !.code = "unavailable"]
    <3>1. r.got = {} /\ req' = [req EXCEPT ![t] = r] BY <2>6 DEF Unavailable, Free
    <3> HIDE DEF r
    <3>2. QED BY <2>1, <3>1
  <2>7. ASSUME NEW t \in Slots, Collect(t) PROVE \A c \in req'[s].got : c.row.content \in L
    <3> PICK q, g : q = req[t] /\ g = Fetch(AllTables[req[t].k], req[t].token, req[t].upper) OBVIOUS
    <3> DEFINE r == [q EXCEPT !.got = q.got \cup g, !.k = q.k + 1, !.pc = IF q.k = Len(AllTables) THEN "done" ELSE "collect"]
    <3>1. q \in Request BY DEF Typed, TypeOK
    <3>2. r.got = q.got \cup g BY <3>1 DEF Request
    <3>3. req' = [req EXCEPT ![t] = r] BY <2>7 DEF Collect
    <3>4. g \subseteq {[id |-> id, row |-> rows[id]] : id \in DOMAIN rows} BY DEF Fetch
    <3> HIDE DEF r
    <3>5. QED BY <2>1, <3>2, <3>3, <3>4
  <2>8. ASSUME NEW t \in Slots, Admit(t) \/ CheckLog(t) \/ RefuseViewer(t) \/ Apply(t) \/ ReadVersion(t)
        PROVE  \A c \in req'[s].got : c.row.content \in L
    <3>1. req[s] \in Request /\ req[t] \in Request /\ DOMAIN req = Slots BY DEF Typed, TypeOK
    <3>2. req'[s].got = req[s].got
      <4>1. Admit(t) => req'[s].got = req[s].got BY <3>1 DEF Admit, Request
      <4>2. \A v : Report(t, v) => req'[s].got = req[s].got BY <3>1 DEF Report, Request
      <4>3. CheckLog(t) \/ RefuseViewer(t) \/ Apply(t) => req'[s].got = req[s].got
          BY <3>1, <4>2 DEF CheckLog, RefuseViewer, Apply, Request
      <4>4. ReadVersion(t) => req'[s].got = req[s].got BY <3>1 DEF ReadVersion, Request
      <4>5. QED BY <2>8, <4>1, <4>3, <4>4
    <3>3. QED BY <1>1, <1>2, <3>2
  <2>9. QED BY <2>3, <2>4, <2>5, <2>6, <2>7, <2>8 DEF ServerStep, Serve, serverVars, Stamps, StampMember, DeleteWorkspace
<1>5. Grounded' BY <1>3, <1>4 DEF Grounded
<1>6. QED BY <1>5

\* What is drawn by the operators of the device.
LEMMA DrawnPut ==
    ASSUME NEW rep, NEW x, NEW e
    PROVE  Drawn(Put(rep, x, e)) \subseteq Drawn(rep) \cup {e.content}
BY DEF Drawn, Put

LEMMA DrawnApply ==
    ASSUME NEW rep, NEW c
    PROVE  Drawn(ApplyCommand(rep, c)) \subseteq Drawn(rep) \cup {c.uuid}
<1>1. CASE c.uuid \in Adds
  <2> PICK e : e = [content |-> c.uuid, is_deleted |-> FALSE] OBVIOUS
  <2>1. e.content = c.uuid OBVIOUS
  <2>2. ApplyCommand(rep, c) = Put(rep, c.uuid, e) BY <1>1 DEF ApplyCommand
  <2>3. QED BY <2>1, <2>2, DrawnPut
<1>2. CASE c.uuid \notin Adds /\ c.ref \in DOMAIN rep
  <2> PICK e : e = [content |-> c.uuid, is_deleted |-> rep[c.ref].is_deleted \/ c.uuid \in Deletes] OBVIOUS
  <2>1. e.content = c.uuid OBVIOUS
  <2>2. ApplyCommand(rep, c) = Put(rep, c.ref, e) BY <1>2 DEF ApplyCommand
  <2>3. QED BY <2>1, <2>2, DrawnPut
<1>3. CASE c.uuid \notin Adds /\ c.ref \notin DOMAIN rep BY <1>3 DEF ApplyCommand
<1>4. QED BY <1>1, <1>2, <1>3

LEMMA DrawnDraw ==
    ASSUME NEW base, NEW q \in Queues
    PROVE  Drawn(FoldLeft(ApplyCommand, base, q)) \subseteq Drawn(base) \cup Uuids(q)
<1> PICK E, r : E = Drawn(base) \cup Uuids(q) /\ r = FoldOf(Draw, base, q) OBVIOUS
<1>1. PICK f : Leads(f, Draw, base, q) BY FoldSteps
<1>2. /\ f[0] = base /\ f[Len(q)] = r
      /\ \A k \in 1..Len(q) : f[k] = ApplyCommand(f[k - 1], q[k])
    BY <1>1 DEF Leads, Fold, Draw
<1>3. DOMAIN q = 1..Len(q) /\ Len(q) \in Nat BY DEF Queues
<1> DEFINE T == {n \in Nat : n <= Len(q) => Drawn(f[n]) \subseteq E}
<1>4. 0 \in T BY <1>2
<1>5. ASSUME NEW n \in Nat, n \in T PROVE n + 1 \in T
  <2>1. CASE n + 1 <= Len(q)
    <3> PICK m : m = n + 1 OBVIOUS
    <3>1. m \in DOMAIN q /\ m - 1 = n /\ Drawn(f[n]) \subseteq E BY <1>3, <1>5, <2>1
    <3>2. f[m] = ApplyCommand(f[n], q[m]) BY <1>2, <1>3, <3>1
    <3>3. q[m].uuid \in E BY <3>1 DEF Uuids
    <3>4. Drawn(f[m]) \subseteq E BY <3>1, <3>2, <3>3, DrawnApply
    <3>5. QED BY <3>4
  <2>2. CASE ~(n + 1 <= Len(q)) BY <2>2
  <2>3. QED BY <2>1, <2>2
<1>6. Nat \subseteq T
  <2> HIDE DEF T
  <2>1. QED BY <1>4, <1>5, Induction
<1>7. Drawn(r) \subseteq E BY <1>2, <1>3, <1>6
<1>8. QED BY <1>7, DrawIs

LEMMA DrawnRow ==
    ASSUME NEW got, NEW K, \A c \in got : c.row.content \in K, NEW id \in {c.id : c \in LiveCopies(got)}
    PROVE  EntryOf(RowOf(got, id)).content \in K
<1>1. PICK c \in got : c.id = id BY DEF LiveCopies
<1> PICK d : d = CHOOSE x \in got : x.id = id OBVIOUS
<1>2. d \in got BY <1>1
<1>3. RowOf(got, id) = d.row BY DEF RowOf
<1>4. EntryOf(d.row).content = d.row.content BY DEF EntryOf
<1>5. QED BY <1>2, <1>3, <1>4

\* A reply draws what the server holds and what is queued, and leaves of the
\* replica before it nothing when it is a full one.
LEMMA DrawnReply ==
    ASSUME Typed, OkIsApplied, DeviceTyped, Grounded, NEW s \in Slots, NEW rest \in Queues,
           ApplyResponse(s, rest)
    PROVE  Drawn(replica') \subseteq Known \cup Uuids(rest) \cup (IF req[s].token = Star THEN {} ELSE Drawn(replica))
<1> PICK m, got, rep2 : m = Mapping(s) /\ got = req[s].got /\ rep2 = replica' OBVIOUS
<1> PICK q : q = RewriteRefs(rest, m) OBVIOUS
<1>1. DOMAIN m \subseteq Adds /\ \A t \in DOMAIN m : m[t] \in Nat BY MappingType
<1>2. q \in Queues /\ Uuids(q) = Uuids(rest) BY <1>1, RewriteKeeps
<1>3. \A c \in got : c.row.content \in Known BY DEF Grounded
<1> DEFINE live == {c.id : c \in LiveCopies(got)}
           gone == {c.id : c \in got \ LiveCopies(got)}
<1>4. \A id \in live : EntryOf(RowOf(got, id)).content \in Known BY <1>3, DrawnRow
<1>5. rep2 = IF req[s].token = Star THEN Replaced(got, q) ELSE Merged(replica, m, got) BY DEF ApplyResponse
<1>6. CASE req[s].token = Star
  <2> DEFINE base == [id \in live |-> EntryOf(RowOf(got, id))]
  <2>1. Drawn(base) \subseteq Known
    <3> HIDE DEF live
    <3>1. QED BY <1>4 DEF Drawn
  <2>2. rep2 = FoldLeft(ApplyCommand, base, q) BY <1>5, <1>6 DEF Replaced
  <2> HIDE DEF base
  <2>3. Drawn(rep2) \subseteq Drawn(base) \cup Uuids(q) BY <1>2, <2>2, DrawnDraw
  <2>4. QED BY <1>2, <2>1, <2>3
<1>7. CASE req[s].token # Star
  <2>1. rep2 = [id \in ((DOMAIN replica \ DOMAIN m) \ gone) \cup live |->
                  IF id \in live THEN EntryOf(RowOf(got, id)) ELSE replica[id]]
      BY <1>5, <1>7 DEF Merged
  <2> HIDE DEF live, gone
  <2>2. PICK S, rep : S = (DOMAIN replica \ DOMAIN m) \ gone /\ rep = replica OBVIOUS
  <2>3. rep2 = [id \in S \cup live |-> IF id \in live THEN EntryOf(RowOf(got, id)) ELSE rep[id]] BY <2>1, <2>2
  <2>4. ASSUME NEW id \in DOMAIN rep2 PROVE rep2[id].content \in Known \cup Drawn(rep)
    <3>1. id \in S \cup live /\ rep2[id] = IF id \in live THEN EntryOf(RowOf(got, id)) ELSE rep[id] BY <2>3
    <3>2. CASE id \in live BY <1>4, <3>1, <3>2
    <3>3. CASE id \notin live
      <4>1. id \in DOMAIN rep /\ rep2[id] = rep[id] BY <2>2, <3>1, <3>3
      <4>2. QED BY <4>1 DEF Drawn
    <3>4. QED BY <3>2, <3>3
  <2>5. Drawn(rep2) \subseteq Known \cup Drawn(rep) BY <2>4 DEF Drawn
  <2>6. QED BY <1>7, <2>2, <2>5
<1>8. QED BY <1>6, <1>7

\* The writes under way, as a set.
LEMMA IssuedJoin ==
    ASSUME NEW a \in Seq(Writes), NEW b \in Seq(Writes)
    PROVE  Issued(a \o b) = Issued(a) \cup Issued(b)
<1> PICK all : all = a \o b OBVIOUS
<1>1. /\ Len(a) \in Nat /\ Len(b) \in Nat /\ DOMAIN a = 1..Len(a) /\ DOMAIN b = 1..Len(b)
      /\ DOMAIN all = 1..(Len(a) + Len(b))
      /\ \A k \in 1..Len(a) : all[k] = a[k]
      /\ \A k \in 1..Len(b) : all[Len(a) + k] = b[k]
      /\ \A k \in DOMAIN all : k \in 1..Len(a) \/ (k > Len(a) /\ \E i \in 1..Len(b) : k = Len(a) + i)
    BY JoinIs
<1>2. Issued(all) \subseteq Issued(a) \cup Issued(b) BY <1>1 DEF Issued
<1>3. \A k \in DOMAIN a : k \in DOMAIN all BY <1>1
<1>4. \A k \in DOMAIN b : Len(a) + k \in DOMAIN all BY <1>1
<1>5. Issued(a) \subseteq Issued(all)
  <2>1. ASSUME NEW k \in DOMAIN a PROVE a[k] \in Issued(all)
    <3>1. k \in DOMAIN all /\ all[k] = a[k] BY <1>1, <1>3, <2>1
    <3>2. QED BY <3>1 DEF Issued
  <2>2. QED BY <2>1 DEF Issued
<1>6. Issued(b) \subseteq Issued(all)
  <2>1. ASSUME NEW k \in DOMAIN b PROVE b[k] \in Issued(all)
    <3>1. PICK j : j = Len(a) + k OBVIOUS
    <3>2. j \in DOMAIN all /\ all[j] = b[k] BY <1>1, <1>4, <2>1, <3>1
    <3>3. QED BY <3>2 DEF Issued
  <2>2. QED BY <2>1 DEF Issued
<1>7. QED BY <1>2, <1>5, <1>6

LEMMA IssuedTail ==
    ASSUME NEW a \in Seq(Writes), a # <<>>
    PROVE  Issued(Tail(a)) \subseteq Issued(a) /\ Issued(a) \subseteq Issued(Tail(a)) \cup {Head(a)} /\ Head(a) \in Issued(a)
<1> PICK tl, w : tl = Tail(a) /\ w = Head(a) OBVIOUS
<1>1. /\ w = a[1] /\ 1 \in DOMAIN a
      /\ \A k \in DOMAIN tl : k + 1 \in DOMAIN a /\ tl[k] = a[k + 1]
    BY TailIs
<1>2. \A k \in DOMAIN a : k = 1 \/ (k - 1 \in DOMAIN tl /\ (k - 1) + 1 = k)
  <2>1. DOMAIN a = 1..Len(a) /\ DOMAIN tl = 1..Len(tl) /\ Len(a) = Len(tl) + 1 /\ Len(tl) \in Nat BY TailIs
  <2>2. QED BY <2>1
<1>3. Issued(tl) \subseteq Issued(a) BY <1>1 DEF Issued
<1>4. ASSUME NEW k \in DOMAIN a, k # 1 PROVE a[k] \in Issued(tl)
  <2> PICK j : j = k - 1 OBVIOUS
  <2>1. j \in DOMAIN tl /\ j + 1 = k BY <1>2, <1>4
  <2>2. tl[j] = a[k] BY <1>1, <2>1
  <2>3. QED BY <2>1, <2>2 DEF Issued
<1>5. Issued(a) \subseteq Issued(tl) \cup {w} BY <1>1, <1>4 DEF Issued
<1>6. w \in Issued(a) BY <1>1 DEF Issued
<1>7. QED BY <1>3, <1>5, <1>6

LEMMA IssuedFew ==
    /\ Issued(<<>>) = {}
    /\ \A w \in Writes : Issued(<<w>>) = {w}
    /\ \A v, w \in Writes : Issued(<<v, w>>) = {v, w} /\ <<v, w>> \in Seq(Writes)
    /\ \A ws \in Seq(Writes) : Issued(ws) \subseteq Writes
<1>1. DOMAIN <<>> = {} OBVIOUS
<1>2. \A w \in Writes : DOMAIN <<w>> = {1} /\ <<w>>[1] = w OBVIOUS
<1>3. \A v, w \in Writes : DOMAIN <<v, w>> = {1, 2} /\ <<v, w>>[1] = v /\ <<v, w>>[2] = w /\ <<v, w>> \in Seq(Writes) OBVIOUS
<1>4. QED BY <1>1, <1>2, <1>3 DEF Issued

LEMMA HoldsIssued ==
    ASSUME NEW ws, NEW E
    PROVE  HoldsOnly(ws, E) <=> \A w \in Issued(ws) : w.key = "queue" => Uuids(w.value) \subseteq E
BY DEF HoldsOnly, Issued

\* No write but the first takes the flag off.
LEMMA TailKeepsFlag ==
    ASSUME NEW ws \in Seq(Writes), ws # <<>>, \A k \in DOMAIN ws : Clears(ws[k]) => k = 1
    PROVE  \A w \in Issued(Tail(ws)) : ~Clears(w)
<1> PICK tl : tl = Tail(ws) OBVIOUS
<1>1. \A k \in DOMAIN tl : k \in Nat /\ k >= 1 /\ k + 1 \in DOMAIN ws /\ tl[k] = ws[k + 1] BY TailIs
<1>2. \A k \in DOMAIN tl : k + 1 # 1 BY <1>1
<1>3. QED BY <1>1, <1>2 DEF Issued

-----------------------------------------------------------------------------
(* How the device's steps keep it *)

\* More is queued or has taken effect, and what else is refused was queued.
LEMMA SparedMore ==
    ASSUME NEW rep, NEW R, NEW K, Spared(rep, R, K), NEW K2, K \subseteq K2, NEW R2, R2 \subseteq R \cup K2
    PROVE  Spared(rep, R2, K2)
BY DEF Spared

LEMMA AllSparedMore ==
    ASSUME NEW d, NEW ws, NEW R, NEW K, AllSpared(d, ws, R, K),
           NEW K2, K \subseteq K2, NEW R2, R2 \subseteq R \cup K2
    PROVE  AllSpared(d, ws, R2, K2)
BY SparedMore DEF AllSpared

LEMMA HealingMore ==
    ASSUME NEW ln, NEW d, NEW ws, NEW rep, NEW U, NEW R, NEW K, Healing(ln, d, ws, rep, U, R, K),
           NEW U2, U \subseteq U2, NEW K2, K \subseteq K2, NEW R2, R2 \subseteq R \cup K2
    PROVE  Healing(ln, d, ws, rep, U2, R2, K2)
<1>1. Marked(d, ws) \/ (Spared(rep, R2, K2) /\ AllSpared(d, ws, R2, K2))
    BY SparedMore, AllSparedMore DEF Healing
<1>2. HoldsOnly(ws, K2) BY HoldsMore DEF Healing
<1>3. \A r : Clean(r, K) => Clean(r, K2) BY DEF Clean
<1>4. FlagFirst(ln, d, ws, rep, U, K) BY DEF Healing
<1>5. FlagFirst(ln, d, ws, rep, U2, K2) BY <1>3, <1>4 DEF FlagFirst
<1>6. QED BY <1>1, <1>2, <1>5 DEF Healing

\* The screen shows no more than before, except what K excuses and roles.
LEMMA HealingDraw ==
    ASSUME NEW ln, NEW d, NEW ws, NEW rep, NEW U, NEW R, NEW K, Healing(ln, d, ws, rep, U, R, K),
           R \cap Roles = {}, NEW rep2, Drawn(rep2) \subseteq Drawn(rep) \cup K \cup Roles
    PROVE  Healing(ln, d, ws, rep2, U, R, K)
<1>1. Spared(rep, R, K) => Spared(rep2, R, K) BY DEF Spared
<1>2. Clean(rep, K) => Clean(rep2, K) BY DEF Clean
<1>3. FlagFirst(ln, d, ws, rep, U, K) BY DEF Healing
<1>4. FlagFirst(ln, d, ws, rep2, U, K) BY <1>2, <1>3 DEF FlagFirst
<1>5. QED BY <1>1, <1>4 DEF Healing

\* More is written: what is queued, what the screen shows, never the flag's end.
LEMMA HealingJoin ==
    ASSUME NEW ln, NEW d, NEW ws \in Seq(Writes), NEW rep, NEW U, NEW R, NEW K, Healing(ln, d, ws, rep, U, R, K),
           NEW more \in Seq(Writes), HoldsOnly(more, K),
           \A w \in Issued(more) : ~Clears(w) /\ (w.key = "replica" => Drawn(w.value) \subseteq Drawn(rep))
    PROVE  Healing(ln, d, ws \o more, rep, U, R, K)
<1> PICK all : all = ws \o more OBVIOUS
<1>1. Issued(all) = Issued(ws) \cup Issued(more) BY IssuedJoin
<1>2. Marked(d, ws) => Marked(d, all) BY <1>1 DEF Marked
<1>3. Spared(rep, R, K) /\ AllSpared(d, ws, R, K) => AllSpared(d, all, R, K) BY <1>1 DEF AllSpared, Spared
<1>4. HoldsOnly(all, K) BY HoldsJoin DEF Healing
<1>5. FlagFirst(ln, d, ws, rep, U, K) BY DEF Healing
<1>6. \A k \in DOMAIN all : Clears(all[k]) => ln.step = "clear" /\ k = 1
  <2>1. ASSUME NEW k \in DOMAIN all, Clears(all[k]) PROVE ln.step = "clear" /\ k = 1
    <3>1. CASE k \in 1..Len(ws)
      <4>1. k \in DOMAIN ws /\ all[k] = ws[k] BY <3>1, JoinIs
      <4>2. QED BY <1>5, <2>1, <4>1 DEF FlagFirst
    <3>2. CASE \E i \in 1..Len(more) : k = Len(ws) + i
      <4>1. PICK i \in 1..Len(more) : k = Len(ws) + i BY <3>2
      <4>2. i \in DOMAIN more /\ all[k] = more[i] BY <4>1, JoinIs
      <4>3. all[k] \in Issued(more) BY <4>2 DEF Issued
      <4>4. QED BY <2>1, <4>3
    <3>3. QED BY <3>1, <3>2, JoinIs
  <2>2. QED BY <2>1
<1>7. Clean(rep, K) => \A w \in Issued(more) : w.key = "replica" => Clean(w.value, K) BY DEF Clean
<1>8. FlagFirst(ln, d, all, rep, U, K) BY <1>1, <1>5, <1>6, <1>7 DEF FlagFirst
<1>9. QED BY <1>2, <1>3, <1>4, <1>8 DEF Healing

\* The lane goes on from ln to ln2: it starts, sends or flags a refusal.
GoesOn(ln, ln2, ws, U) ==
    /\ ln.step # "clear" \/ ws = <<>>
    /\ ln2.step \in {"start", "reply", "flag"}
    /\ ln2.job = "flush" /\ ln2.step \in {"reply", "flag"} => ln2.batch \subseteq U
    /\ ln2.step = "flag" => Write("needsFullSync", TRUE) \in Issued(ws)

LEMMA HealingLane ==
    ASSUME NEW ln, NEW d, NEW ws, NEW rep, NEW U, NEW R, NEW K, Healing(ln, d, ws, rep, U, R, K),
           NEW ln2, GoesOn(ln, ln2, ws, U)
    PROVE  Healing(ln2, d, ws, rep, U, R, K)
<1>1. \A k \in DOMAIN ws : ~Clears(ws[k])
  <2>1. DOMAIN <<>> = {} OBVIOUS
  <2>2. QED BY <2>1 DEF Healing, FlagFirst, GoesOn
<1>2. FlagFirst(ln2, d, ws, rep, U, K) BY <1>1 DEF FlagFirst, GoesOn
<1>3. QED BY <1>2 DEF Healing

\* A reply is folded in: after one with refusals the flag is on disk and all is
\* settled, after any other all that left the queue took effect.
FoldsIn(ln, ln2, d, ws, w, rep, rep2, K, K2) ==
    /\ ln.step # "clear" /\ ln2.step \in {"queue", "token"}
    /\ w.key \in {"queue", "token"} /\ (w.key = "queue" => Uuids(w.value) \subseteq K2)
    /\ K2 = K \/ (ws = <<>> /\ d.needsFullSync)
    /\ Drawn(rep2) \subseteq K2 \cup Roles \cup (IF ln2.full THEN {} ELSE Drawn(rep))

LEMMA HealingReply ==
    ASSUME NEW ln, NEW d, NEW ws \in Seq(Writes), NEW rep, NEW U, NEW R, NEW K, Healing(ln, d, ws, rep, U, R, K),
           R \cap Roles = {}, NEW w \in Writes, NEW K2, NEW rep2, NEW ln2,
           FoldsIn(ln, ln2, d, ws, w, rep, rep2, K, K2), NEW U2
    PROVE  Healing(ln2, d, Append(ws, w), rep2, U2, R, K2)
<1>0. /\ ln.step # "clear" /\ ln2.step \in {"queue", "token"}
      /\ w.key \in {"queue", "token"} /\ (w.key = "queue" => Uuids(w.value) \subseteq K2)
      /\ K2 = K \/ (ws = <<>> /\ d.needsFullSync)
      /\ Drawn(rep2) \subseteq K2 \cup Roles \cup (IF ln2.full THEN {} ELSE Drawn(rep))
    BY DEF FoldsIn
<1> PICK all, one : all = Append(ws, w) /\ one = <<w>> OBVIOUS
<1>1. one \in Seq(Writes) /\ all = ws \o one BY OneWrite
<1>2. Issued(one) = {w} /\ Issued(all) = Issued(ws) \cup Issued(one) BY <1>1, IssuedFew, IssuedJoin
<1>3. Issued(all) = Issued(ws) \cup {w} BY <1>2
<1>4. ~Clears(w) /\ w.key # "replica" BY <1>0 DEF Clears
<1>5. \A v \in Issued(ws) : ~Clears(v) BY <1>0 DEF Healing, FlagFirst, Issued
<1>6. \A v \in Issued(all) : ~Clears(v) BY <1>3, <1>4, <1>5
<1>7. HoldsOnly(all, K2)
  <2>1. HoldsOnly(ws, K2)
    <3>1. HoldsOnly(<<>>, K2) BY HoldsNone
    <3>2. QED BY <1>0, <3>1 DEF Healing
  <2>2. QED BY <1>0, <2>1, HoldsAppend
<1>8. Marked(d, all) \/ (Spared(rep2, R, K2) /\ AllSpared(d, all, R, K2))
  <2>1. CASE d.needsFullSync BY <1>6, <2>1 DEF Marked
  <2>2. CASE ~d.needsFullSync
    <3>1. K2 = K /\ Spared(rep, R, K) /\ AllSpared(d, ws, R, K) BY <1>0, <2>2 DEF Healing, Marked
    <3>2. Spared(rep2, R, K2) BY <1>0, <3>1 DEF Spared
    <3>3. AllSpared(d, all, R, K2) BY <1>3, <1>4, <3>1 DEF AllSpared
    <3>4. QED BY <3>2, <3>3
  <2>3. QED BY <2>1, <2>2
<1>9. FlagFirst(ln2, d, all, rep2, U2, K2)
  <2>1. ln2.full => Clean(rep2, K2) BY <1>0 DEF Clean
  <2>2. \A k \in DOMAIN all : ~Clears(all[k]) BY <1>6 DEF Issued
  <2>3. QED BY <1>0, <2>1, <2>2 DEF FlagFirst
<1>10. QED BY <1>7, <1>8, <1>9 DEF Healing

\* The steps that put a reply on disk, each once the one before has settled.
Goes(ln, ln2, from, to) == ln.step = from /\ ln2.step = to /\ ln2.full = ln.full

LEMMA HealingToken ==
    ASSUME NEW ln, NEW d, NEW rep, NEW U, NEW R, NEW K, Healing(ln, d, <<>>, rep, U, R, K),
           NEW ln2, Goes(ln, ln2, "queue", "token"),
           NEW tok \in Tokens, NEW ws, ws = <<Write("token", tok)>>
    PROVE  Healing(ln2, d, ws, rep, U, R, K)
<1> PICK w : w = Write("token", tok) /\ ws = <<w>> OBVIOUS
<1>1. w \in Writes /\ w.key = "token" BY WriteTypes, KeysOfWrites
<1>2. Issued(ws) = {w} /\ HoldsOnly(ws, K) BY <1>1, IssuedFew DEF HoldsOnly
<1>3. \A v \in Issued(ws) : ~Clears(v) /\ v.key # "replica" BY <1>1, <1>2 DEF Clears
<1>4. Marked(d, ws) \/ (Spared(rep, R, K) /\ AllSpared(d, ws, R, K)) BY <1>3 DEF Healing, Marked, AllSpared
<1>5. FlagFirst(ln2, d, ws, rep, U, K) BY <1>3 DEF Healing, FlagFirst, Issued, Goes
<1>6. QED BY <1>2, <1>4, <1>5 DEF Healing

LEMMA HealingReplica ==
    ASSUME NEW ln, NEW d, NEW rep \in Replicas, NEW U, NEW R, NEW K, Healing(ln, d, <<>>, rep, U, R, K),
           NEW ln2, Goes(ln, ln2, "token", "replica"), NEW ws, ws = <<Write("replica", rep)>>
    PROVE  Healing(ln2, d, ws, rep, U, R, K)
<1> PICK w : w = Write("replica", rep) /\ ws = <<w>> OBVIOUS
<1>1. w \in Writes /\ w.key = "replica" /\ w.value = rep /\ w.awaited BY WriteTypes, KeysOfWrites DEF Write
<1>2. Issued(ws) = {w} /\ HoldsOnly(ws, K) BY <1>1, IssuedFew DEF HoldsOnly
<1>3. \A v \in Issued(ws) : ~Clears(v) /\ v.value = rep /\ v.key = "replica" /\ v.awaited BY <1>1, <1>2 DEF Clears
<1>4. Marked(d, ws) \/ (Spared(rep, R, K) /\ AllSpared(d, ws, R, K)) BY <1>3 DEF Healing, Marked, AllSpared
<1>5. \E v \in Issued(ws) : v.key = "replica" /\ v.awaited BY <1>2, <1>3
<1>6. ln2.full => Clean(rep, K) BY DEF Healing, FlagFirst, Goes
<1>7. FlagFirst(ln2, d, ws, rep, U, K) BY <1>3, <1>5, <1>6 DEF FlagFirst, Issued, Goes
<1>8. QED BY <1>2, <1>4, <1>7 DEF Healing

LEMMA HealingClear ==
    ASSUME NEW ln, NEW d, NEW rep, NEW U, NEW R, NEW K, Healing(ln, d, <<>>, rep, U, R, K), R \cap Roles = {},
           ln.full, NEW ln2, Goes(ln, ln2, "replica", "clear"), NEW ws, ws = <<Write("needsFullSync", FALSE)>>
    PROVE  Healing(ln2, d, ws, rep, U, R, K)
<1> PICK w : w = Write("needsFullSync", FALSE) /\ ws = <<w>> OBVIOUS
<1>1. w \in Writes /\ w.key = "needsFullSync" BY WriteTypes, KeysOfWrites
<1>2. Issued(ws) = {w} /\ HoldsOnly(ws, K) /\ DOMAIN ws = {1}
  <2>1. DOMAIN ws = {1} /\ ws[1] = w BY <1>1, OneWrite
  <2>2. QED BY <1>1, <2>1, IssuedFew DEF HoldsOnly
<1>3. Clean(rep, K) BY DEF Healing, FlagFirst, Goes
<1>4. Clean(d.replica, K) BY IssuedFew DEF Healing, FlagFirst, Goes
<1>5. Spared(rep, R, K) /\ AllSpared(d, ws, R, K) BY <1>1, <1>2, <1>3, <1>4 DEF Clean, Spared, AllSpared
<1>6. FlagFirst(ln2, d, ws, rep, U, K) BY <1>2 DEF FlagFirst, Goes
<1>7. QED BY <1>2, <1>5, <1>6 DEF Healing

\* A write reaches the disk.
LEMMA DiskKeys ==
    ASSUME NEW d \in Disk, NEW w \in Writes, NEW d2, d2 = [d EXCEPT ![w.key] = w.value]
    PROVE  /\ d2.queue = IF w.key = "queue" THEN w.value ELSE d.queue
           /\ d2.replica = IF w.key = "replica" THEN w.value ELSE d.replica
           /\ d2.needsFullSync = IF w.key = "needsFullSync" THEN w.value ELSE d.needsFullSync
BY WriteKeys DEF Disk

LEMMA AllSparedSettles ==
    ASSUME NEW d \in Disk, NEW ws \in Seq(Writes), ws # <<>>, NEW R, NEW K, AllSpared(d, ws, R, K),
           NEW d2, d2 = [d EXCEPT ![Head(ws).key] = Head(ws).value]
    PROVE  AllSpared(d2, Tail(ws), R, K)
<1> PICK w, tl : w = Head(ws) /\ tl = Tail(ws) OBVIOUS
<1>1. Issued(tl) \subseteq Issued(ws) /\ w \in Issued(ws) BY IssuedTail
<1>2. w \in Writes BY TailIs
<1>3. d2.replica = IF w.key = "replica" THEN w.value ELSE d.replica BY <1>2, DiskKeys
<1>4. QED BY <1>1, <1>3 DEF AllSpared

LEMMA HealingSettle ==
    ASSUME NEW d \in Disk, NEW ws \in Seq(Writes), ws # <<>>,
           NEW ln, NEW rep, NEW U, NEW R, NEW K, Healing(ln, d, ws, rep, U, R, K),
           NEW d2, d2 = [d EXCEPT ![Head(ws).key] = Head(ws).value]
    PROVE  Healing(ln, d2, Tail(ws), rep, U, R, K)
<1> PICK w, tl : w = Head(ws) /\ tl = Tail(ws) OBVIOUS
<1>1. Issued(tl) \subseteq Issued(ws) /\ Issued(ws) \subseteq Issued(tl) \cup {w} /\ w \in Issued(ws) BY IssuedTail
<1>2. w \in Writes /\ w = ws[1] /\ 1 \in DOMAIN ws BY TailIs
<1>3. /\ d2.replica = IF w.key = "replica" THEN w.value ELSE d.replica
      /\ d2.needsFullSync = IF w.key = "needsFullSync" THEN w.value ELSE d.needsFullSync
    BY <1>2, DiskKeys
<1>4. d.needsFullSync \in BOOLEAN /\ (w.key = "needsFullSync" => w.value \in BOOLEAN) BY <1>2, WriteKeys DEF Disk
<1>5. FlagFirst(ln, d, ws, rep, U, K) BY DEF Healing
<1>6. \A v \in Issued(tl) : ~Clears(v) BY <1>5, TailKeepsFlag DEF FlagFirst
<1>7. Clears(w) => ln.step = "clear" BY <1>2, <1>5 DEF FlagFirst
<1>8. ~Clears(w) /\ d.needsFullSync => d2.needsFullSync BY <1>3, <1>4 DEF Clears
<1>9. Marked(d2, tl) \/ (Spared(rep, R, K) /\ AllSpared(d2, tl, R, K))
  <2>1. CASE Marked(d, ws)
    <3>1. ~Clears(w) /\ d.needsFullSync BY <1>1, <2>1 DEF Marked
    <3>2. QED BY <1>6, <1>8, <3>1 DEF Marked
  <2>2. CASE Spared(rep, R, K) /\ AllSpared(d, ws, R, K) BY <2>2, AllSparedSettles
  <2>3. QED BY <2>1, <2>2 DEF Healing
<1>10. HoldsOnly(tl, K) BY HoldsTail DEF Healing
<1>11. FlagFirst(ln, d2, tl, rep, U, K)
  <2>1. ln.step = "flag" => d2.needsFullSync \/ Write("needsFullSync", TRUE) \in Issued(tl)
    <3> SUFFICES ASSUME ln.step = "flag" PROVE d2.needsFullSync \/ Write("needsFullSync", TRUE) \in Issued(tl) OBVIOUS
    <3>1. CASE d.needsFullSync BY <1>7, <1>8, <3>1
    <3>2. CASE Write("needsFullSync", TRUE) \in Issued(tl) BY <3>2
    <3>3. CASE Write("needsFullSync", TRUE) = w
      <4>1. w = [key |-> "needsFullSync", value |-> TRUE, awaited |-> TRUE] BY <3>3 DEF Write
      <4>2. w.key = "needsFullSync" /\ w.value BY <4>1
      <4>3. QED BY <1>3, <4>2
    <3>4. QED BY <1>1, <1>5, <3>1, <3>2, <3>3 DEF FlagFirst
  <2>2. \A k \in DOMAIN tl : ~Clears(tl[k]) BY <1>6 DEF Issued
  <2>3. ln.full /\ ln.step = "replica" =>
          /\ \A v \in Issued(tl) : v.key = "replica" => Clean(v.value, K)
          /\ Clean(d2.replica, K) \/ \E v \in Issued(tl) : v.key = "replica" /\ v.awaited
    <3> SUFFICES ASSUME ln.full, ln.step = "replica"
                 PROVE  /\ \A v \in Issued(tl) : v.key = "replica" => Clean(v.value, K)
                        /\ Clean(d2.replica, K) \/ \E v \in Issued(tl) : v.key = "replica" /\ v.awaited
        OBVIOUS
    <3>1. \A v \in Issued(ws) : v.key = "replica" => Clean(v.value, K) BY <1>5 DEF FlagFirst
    <3>2. CASE w.key = "replica" BY <1>1, <1>3, <3>1, <3>2
    <3>3. CASE w.key # "replica"
      <4>1. d2.replica = d.replica BY <1>3, <3>3
      <4>2. Clean(d.replica, K) \/ \E v \in Issued(ws) : v.key = "replica" /\ v.awaited BY <1>5 DEF FlagFirst
      <4>3. (\E v \in Issued(ws) : v.key = "replica" /\ v.awaited) =>
              \E v \in Issued(tl) : v.key = "replica" /\ v.awaited
          BY <1>1, <3>3
      <4>4. QED BY <1>1, <3>1, <4>1, <4>2, <4>3
    <3>4. QED BY <3>2, <3>3
  <2>4. QED BY <1>5, <2>1, <2>2, <2>3 DEF FlagFirst
<1>12. QED BY <1>9, <1>10, <1>11 DEF Healing

\* Storage refuses a write: an awaited one takes the job off the lane.
LEMMA HealingFails ==
    ASSUME NEW d, NEW ws \in Seq(Writes), ws # <<>>,
           NEW ln, NEW rep, NEW U, NEW R, NEW K, Healing(ln, d, ws, rep, U, R, K),
           NEW ln2, IF Head(ws).awaited THEN ln2.step = "start" ELSE ln2 = ln
    PROVE  Healing(ln2, d, Tail(ws), rep, U, R, K)
<1> PICK w, tl : w = Head(ws) /\ tl = Tail(ws) OBVIOUS
<1>1. Issued(tl) \subseteq Issued(ws) /\ Issued(ws) \subseteq Issued(tl) \cup {w} BY IssuedTail
<1>2. FlagFirst(ln, d, ws, rep, U, K) BY DEF Healing
<1>3. \A v \in Issued(tl) : ~Clears(v) BY <1>2, TailKeepsFlag DEF FlagFirst
<1>4. Marked(d, tl) \/ (Spared(rep, R, K) /\ AllSpared(d, tl, R, K)) BY <1>1 DEF Healing, Marked, AllSpared
<1>5. HoldsOnly(tl, K) BY HoldsTail DEF Healing
<1>6. \A k \in DOMAIN tl : ~Clears(tl[k]) BY <1>3 DEF Issued
<1>7. FlagFirst(ln2, d, tl, rep, U, K)
  <2>1. CASE w.awaited BY <1>6, <2>1 DEF FlagFirst
  <2>2. CASE ~w.awaited
    <3>1. ln2 = ln BY <2>2
    <3>2. Write("needsFullSync", TRUE).awaited BY DEF Write
    <3>3. \A v \in Issued(ws) : v.awaited => v \in Issued(tl) BY <1>1, <2>2
    <3>4. ln.step = "flag" => d.needsFullSync \/ Write("needsFullSync", TRUE) \in Issued(tl) BY <1>2, <3>2, <3>3 DEF FlagFirst
    <3>5. ln.full /\ ln.step = "replica" =>
            /\ \A v \in Issued(tl) : v.key = "replica" => Clean(v.value, K)
            /\ Clean(d.replica, K) \/ \E v \in Issued(tl) : v.key = "replica" /\ v.awaited
        BY <1>1, <1>2, <3>3 DEF FlagFirst
    <3>6. QED BY <1>2, <1>6, <3>1, <3>4, <3>5 DEF FlagFirst
  <2>3. QED BY <2>1, <2>2
<1>8. QED BY <1>4, <1>5, <1>7 DEF Healing

\* The purge: it is issued, settles, and has nothing left to empty.
LEMMA OrderSkip ==
    ASSUME NEW E, NEW sv, NEW q0, NEW ws \in Seq(Writes), NEW n \in Nat, Orderly(E, sv, q0, ws, n), ws[n].key # "queue"
    PROVE  Orderly(E, sv, q0, ws, n + 1)
<1>1. \A k \in DOMAIN ws : k \in Nat OBVIOUS
<1>2. \A k \in DOMAIN ws : ws[k].key = "queue" /\ k < n + 1 => k < n BY <1>1
<1>3. QED BY <1>2 DEF Orderly

LEMMA PurgeEmpties ==
    ASSUME NEW n
    PROVE  /\ Purge(n)[2].key = "replica" /\ Purge(n)[2].value = NoReplica
           /\ \A k \in 3..5 : Purge(n)[k].key # "replica"
           /\ ~Clears(Purge(n)[1])
<1>1. DOMAIN Purge(n) = 1..5 /\ Purge(n)[5].key = "queue" /\ Purge(n)[1].key = "lossNotice" BY PurgeIs
<1>2. Purge(n)[2] = Write("replica", NoReplica) /\ Purge(n)[3] = Write("token", Star)
      /\ Purge(n)[4] = Write("needsFullSync", FALSE)
    BY DEF Purge
<1>3. /\ Write("replica", NoReplica).key = "replica" /\ Write("replica", NoReplica).value = NoReplica
      /\ Write("token", Star).key = "token" /\ Write("needsFullSync", FALSE).key = "needsFullSync"
    BY DEF Write
<1> PICK pu : pu = Purge(n) OBVIOUS
<1>4. pu[2].key = "replica" /\ pu[2].value = NoReplica BY <1>2, <1>3
<1>5. pu[3].key # "replica" /\ pu[4].key # "replica" /\ pu[5].key # "replica" BY <1>1, <1>2, <1>3
<1>6. \A k \in 3..5 : k = 3 \/ k = 4 \/ k = 5 OBVIOUS
<1>7. \A k \in 3..5 : pu[k].key # "replica" BY <1>5, <1>6
<1>8. ~Clears(pu[1]) BY <1>1 DEF Clears
<1>9. QED BY <1>4, <1>7, <1>8

LEMMA EmptiesPurge ==
    ASSUME NEW ln, NEW d, NEW ws \in Seq(Writes), NEW rep, NEW U, NEW R, NEW K, Healing(ln, d, ws, rep, U, R, K),
           ln.step = "reply", NEW sv, Orderly(Cmds \ U, sv, d.queue, ws, Len(ws) + 1), NEW m \in Nat
    PROVE  Empties(d, ws \o Purge(m), U, sv, R, K)
<1> PICK pu, all, p : pu = Purge(m) /\ all = ws \o pu /\ p = Len(ws) + 2 OBVIOUS
<1>1. pu \in Seq(Writes) /\ DOMAIN pu = 1..5 /\ pu[1].key = "lossNotice" BY PurgeType, PurgeIs
<1>2. pu[2].key = "replica" /\ pu[2].value = NoReplica /\ ~Clears(pu[1]) /\ \A k \in 3..5 : pu[k].key # "replica" BY PurgeEmpties
<1>3. /\ Len(ws) \in Nat /\ DOMAIN ws = 1..Len(ws) /\ Len(pu) = 5 /\ DOMAIN all = 1..(Len(ws) + 5) /\ all \in Seq(Writes)
      /\ \A k \in 1..Len(ws) : all[k] = ws[k]
      /\ all[Len(ws) + 1] = pu[1] /\ all[p] = pu[2]
      /\ \A k \in 3..5 : all[Len(ws) + k] = pu[k]
  <2>1. /\ Len(ws) \in Nat /\ DOMAIN ws = 1..Len(ws) /\ Len(pu) \in Nat /\ DOMAIN pu = 1..Len(pu)
        /\ DOMAIN all = 1..(Len(ws) + Len(pu)) /\ all \in Seq(Writes)
        /\ \A k \in 1..Len(ws) : all[k] = ws[k]
        /\ \A k \in 1..Len(pu) : all[Len(ws) + k] = pu[k]
      BY <1>1, JoinIs
  <2>2. Len(pu) = 5 BY <1>1, <2>1
  <2>3. 1 \in 1..5 /\ 2 \in 1..5 /\ \A k \in 3..5 : k \in 1..5 OBVIOUS
  <2>4. QED BY <2>1, <2>2, <2>3
<1>4. p \in DOMAIN all /\ all[p].key = "replica" /\ all[p].value = NoReplica BY <1>2, <1>3
<1>5. ASSUME NEW k \in DOMAIN all, k > p PROVE all[k].key # "replica"
  <2> PICK i : i = k - Len(ws) OBVIOUS
  <2>1. i \in 3..5 /\ k = Len(ws) + i BY <1>3, <1>5
  <2>2. QED BY <1>2, <1>3, <2>1
<1>6. ASSUME NEW k \in DOMAIN all, k < p PROVE ~Clears(all[k])
  <2>1. CASE k \in 1..Len(ws)
    <3>1. k \in DOMAIN ws /\ all[k] = ws[k] BY <1>3, <2>1
    <3>2. QED BY <3>1 DEF Healing, FlagFirst
  <2>2. CASE k = Len(ws) + 1 BY <1>2, <1>3, <2>2
  <2>3. QED BY <1>3, <1>6, <2>1, <2>2
<1>7. Orderly(Cmds \ U, sv, d.queue, all, p)
  <2> PICK n : n = Len(ws) + 1 OBVIOUS
  <2>1. n \in Nat /\ n <= Len(ws) + 1 BY <1>3
  <2>2. Orderly(Cmds \ U, sv, d.queue, all, n) BY <1>1, <2>1, OrderBefore
  <2>3. all[n].key # "queue" /\ n + 1 = p BY <1>1, <1>3
  <2>4. Orderly(Cmds \ U, sv, d.queue, all, n + 1) BY <1>3, <2>1, <2>2, <2>3, OrderSkip
  <2>5. QED BY <2>3, <2>4
<1>8. d.needsFullSync \/ AllSpared(d, all, R, K)
  <2>1. CASE AllSpared(d, ws, R, K)
    <3>1. \A w \in Issued(pu) : w.key = "replica" => w.value = NoReplica
      <4>1. \A k \in 1..5 : k = 1 \/ k = 2 \/ k \in 3..5 OBVIOUS
      <4>2. QED BY <1>1, <1>2, <4>1 DEF Issued
    <3>2. Spared(NoReplica, R, K)
      <4>1. DOMAIN NoReplica = {} BY DEF NoReplica
      <4>2. QED BY <4>1 DEF Spared, Drawn
    <3>3. Issued(all) = Issued(ws) \cup Issued(pu) BY <1>1, IssuedJoin
    <3>4. QED BY <2>1, <3>1, <3>2, <3>3 DEF AllSpared
  <2>2. QED BY <2>1 DEF Healing, Marked
<1>9. HoldsOnly(all, K) BY <1>1, PurgeHolds, HoldsJoin DEF Healing
<1>10. QED BY <1>4, <1>5, <1>6, <1>7, <1>8, <1>9 DEF Empties

LEMMA BlankSettle ==
    ASSUME NEW d \in Disk, NEW ws \in Seq(Writes), ws # <<>>, Blank(d, ws),
           NEW d2, d2 = [d EXCEPT ![Head(ws).key] = Head(ws).value]
    PROVE  Blank(d2, Tail(ws))
<1> PICK w, tl : w = Head(ws) /\ tl = Tail(ws) OBVIOUS
<1>1. Issued(tl) \subseteq Issued(ws) /\ w \in Issued(ws) BY IssuedTail
<1>2. w \in Writes BY TailIs
<1>3. d2.replica = IF w.key = "replica" THEN w.value ELSE d.replica BY <1>2, DiskKeys
<1>4. QED BY <1>1, <1>3 DEF Blank

LEMMA EmptiesSettle ==
    ASSUME NEW d \in Disk, NEW ws \in Seq(Writes), ws # <<>>,
           NEW U, NEW sv, NEW R, NEW K, Empties(d, ws, U, sv, R, K),
           NEW d2, d2 = [d EXCEPT ![Head(ws).key] = Head(ws).value],
           NEW sv2, sv2 = IF Head(ws).key = "queue" THEN sv \cup Uuids(Head(ws).value) ELSE sv
    PROVE  Blank(d2, Tail(ws)) \/ Empties(d2, Tail(ws), U, sv2, R, K)
<1> PICK w, tl : w = Head(ws) /\ tl = Tail(ws) OBVIOUS
<1>1. /\ tl \in Seq(Writes) /\ w \in Writes /\ w = ws[1] /\ 1 \in DOMAIN ws
      /\ Len(ws) \in Nat /\ Len(tl) \in Nat /\ Len(ws) = Len(tl) + 1
      /\ DOMAIN ws = 1..Len(ws) /\ DOMAIN tl = 1..Len(tl)
      /\ \A k \in DOMAIN tl : k + 1 \in DOMAIN ws /\ tl[k] = ws[k + 1]
    BY TailIs
<1>2. /\ d2.queue = IF w.key = "queue" THEN w.value ELSE d.queue
      /\ d2.replica = IF w.key = "replica" THEN w.value ELSE d.replica
      /\ d2.needsFullSync = IF w.key = "needsFullSync" THEN w.value ELSE d.needsFullSync
    BY <1>1, DiskKeys
<1>3. PICK p \in DOMAIN ws :
        /\ ws[p].key = "replica" /\ ws[p].value = NoReplica
        /\ \A k \in DOMAIN ws : (k > p => ws[k].key # "replica") /\ (k < p => ~Clears(ws[k]))
        /\ Orderly(Cmds \ U, sv, d.queue, ws, p)
    BY DEF Empties
<1>4. CASE p = 1
  <2>1. DOMAIN NoReplica = {} BY DEF NoReplica
  <2>2. Drawn(d2.replica) = {} BY <1>1, <1>2, <1>3, <1>4, <2>1 DEF Drawn
  <2>3. ASSUME NEW k \in DOMAIN tl PROVE tl[k].key # "replica"
    <3> PICK j : j = k + 1 OBVIOUS
    <3>1. j \in DOMAIN ws /\ j > p /\ tl[k] = ws[j] BY <1>1, <1>4, <2>3
    <3>2. QED BY <1>3, <3>1
  <2>4. Blank(d2, tl) BY <2>2, <2>3 DEF Blank, Issued
  <2>5. QED BY <2>4
<1>5. CASE p # 1
  <2> PICK n : n = p - 1 OBVIOUS
  <2>1. n \in Nat /\ n >= 1 /\ n + 1 = p /\ n \in DOMAIN tl /\ tl[n] = ws[p] BY <1>1, <1>3, <1>5
  <2>2. Orderly(Cmds \ U, sv2, d2.queue, tl, n)
    <3>1. Orderly(Cmds \ U, sv, d.queue, ws, n + 1) BY <1>3, <2>1
    <3>2. IF w.key = "queue" THEN Orderly(Cmds \ U, sv \cup Uuids(w.value), w.value, tl, n)
                             ELSE Orderly(Cmds \ U, sv, d.queue, tl, n)
        BY <2>1, <3>1, OrderSettle
    <3>3. QED BY <1>2, <3>2
  <2>3. ASSUME NEW k \in DOMAIN tl PROVE (k > n => tl[k].key # "replica") /\ (k < n => ~Clears(tl[k]))
    <3> PICK j : j = k + 1 OBVIOUS
    <3>1. j \in DOMAIN ws /\ tl[k] = ws[j] /\ (k > n => j > p) /\ (k < n => j < p) BY <1>1, <2>1, <2>3
    <3>2. QED BY <1>3, <3>1
  <2>4. d2.needsFullSync \/ AllSpared(d2, tl, R, K)
    <3>1. CASE d.needsFullSync
      <4>1. 1 < p /\ ~Clears(w) BY <1>1, <1>3, <1>5
      <4>2. w.key = "needsFullSync" => w.value BY <4>1 DEF Clears
      <4>3. QED BY <1>2, <3>1, <4>2
    <3>2. CASE AllSpared(d, ws, R, K) BY <3>2, AllSparedSettles
    <3>3. QED BY <3>1, <3>2 DEF Empties
  <2>5. HoldsOnly(tl, K) BY HoldsTail DEF Empties
  <2>6. QED BY <1>3, <2>1, <2>2, <2>3, <2>4, <2>5 DEF Empties
<1>6. QED BY <1>4, <1>5

LEMMA EmptiesMore ==
    ASSUME NEW d, NEW ws, NEW U, NEW sv, NEW R, NEW K, Empties(d, ws, U, sv, R, K),
           NEW K2, K \subseteq K2, NEW R2, R2 \subseteq R \cup K2
    PROVE  Empties(d, ws, U, sv, R2, K2)
<1>1. d.needsFullSync \/ AllSpared(d, ws, R2, K2) BY AllSparedMore DEF Empties
<1>2. HoldsOnly(ws, K2) BY HoldsMore DEF Empties
<1>3. QED BY <1>1, <1>2 DEF Empties

-----------------------------------------------------------------------------
(* Every step keeps it *)

LEMMA UnheededType ==
    ASSUME DeviceTyped
    PROVE  Unheeded \cap Roles = {}
<1>1. refused \subseteq Cmds BY DEF DeviceTyped
<1>2. Cmds \cap Roles = {} BY ServerConstants DEF Roles
<1>3. QED BY <1>1, <1>2 DEF Unheeded

LEMMA HealsNext ==
    ASSUME Grounded',
           up' = "up" /\ stored' = NoAnswer /\ lane'.job \notin {"lost", "gone"} =>
               Healing(lane', disk', writes', replica', Uuids(queue'), Unheeded', Applied' \cup Uuids(queue')),
           lane'.job = "lost" =>
               \/ Blank(disk', writes')
               \/ Empties(disk', writes', Uuids(queue'), saved', Unheeded', Applied' \cup Uuids(queue')),
           lane'.job = "gone" => Blank(disk', writes'),
           up' = "down" \/ stored' # NoAnswer =>
               disk'.needsFullSync \/ Spared(disk'.replica, Unheeded', Applied' \cup Uuids(disk'.queue))
    PROVE  Heals'
<1>1. HealsAtWork' BY DEF HealsAtWork, Reading, Backed
<1>2. HealsWhenLost' BY DEF HealsWhenLost, Backed
<1>3. HealsAtRest' BY DEF HealsAtRest, Reading
<1>4. QED BY <1>1, <1>2, <1>3 DEF Heals

LEMMA HealsWorks ==
    ASSUME Grounded', up' = "up", stored' = NoAnswer, lane'.job \notin {"lost", "gone"},
           Healing(lane', disk', writes', replica', Uuids(queue'), Unheeded', Applied' \cup Uuids(queue'))
    PROVE  Heals'
BY HealsNext

\* What holds while the device works.
LEMMA WorksNow ==
    ASSUME Heals, up = "up", ~Reading, lane.job \notin {"lost", "gone"},
           NEW U, U = Uuids(queue), NEW R, R = Unheeded, NEW K, K = Applied \cup U
    PROVE  Healing(lane, disk, writes, replica, U, R, K)
BY DEF Heals, HealsAtWork, Backed

\* Everybody else's steps.
LEMMA HealsElsewhere ==
    ASSUME Heals, Grounded', Applied \subseteq Applied', UNCHANGED <<process, volatile, disk, writes, saved, refused>>
    PROVE  Heals'
<1>1. UNCHANGED <<up, stored, lane, queue, replica>> BY DEF process, volatile
<1> PICK A, A2, U, Q, R, K, K2 :
      /\ A = Applied /\ A2 = Applied' /\ U = Uuids(queue) /\ Q = Uuids(disk.queue) /\ R = Unheeded
      /\ K = Applied \cup Uuids(queue) /\ K2 = Applied' \cup Uuids(queue)
    OBVIOUS
<1>2. Unheeded' = R BY DEF Unheeded
<1>3. K \subseteq K2 /\ A \subseteq A2 OBVIOUS
<1>4. up = "up" /\ stored = NoAnswer /\ lane.job \notin {"lost", "gone"} => Healing(lane, disk, writes, replica, U, R, K2)
  <2> SUFFICES ASSUME up = "up", stored = NoAnswer, lane.job \notin {"lost", "gone"}
               PROVE  Healing(lane, disk, writes, replica, U, R, K2)
      OBVIOUS
  <2>1. Healing(lane, disk, writes, replica, U, R, K) BY WorksNow DEF Reading
  <2>2. U \subseteq U /\ R \subseteq R \cup K2 OBVIOUS
  <2>3. QED BY <1>3, <2>1, <2>2, HealingMore
<1>5. lane.job = "lost" => Blank(disk, writes) \/ Empties(disk, writes, U, saved, R, K2)
  <2> SUFFICES ASSUME lane.job = "lost" PROVE Blank(disk, writes) \/ Empties(disk, writes, U, saved, R, K2) OBVIOUS
  <2>1. Blank(disk, writes) \/ Empties(disk, writes, U, saved, R, K) BY DEF Heals, HealsWhenLost, Backed
  <2>2. R \subseteq R \cup K2 OBVIOUS
  <2>3. QED BY <1>3, <2>1, <2>2, EmptiesMore
<1>6. lane.job = "gone" => Blank(disk, writes) BY DEF Heals, HealsWhenLost
<1>7. up = "down" \/ stored # NoAnswer => disk.needsFullSync \/ Spared(disk.replica, R, A2 \cup Q)
  <2> SUFFICES ASSUME up = "down" \/ stored # NoAnswer PROVE disk.needsFullSync \/ Spared(disk.replica, R, A2 \cup Q) OBVIOUS
  <2>1. disk.needsFullSync \/ Spared(disk.replica, R, A \cup Q) BY DEF Heals, HealsAtRest, Reading
  <2>2. QED BY <1>3, <2>1 DEF Spared
<1>8. QED BY <1>1, <1>2, <1>4, <1>5, <1>6, <1>7, HealsNext

\* An edit shows, and is queued.
LEMMA EditDraws ==
    ASSUME NEW c, Mutate(c)
    PROVE  Drawn(replica') \subseteq Drawn(replica) \cup {c}
<1> PICK rep2 : rep2 = replica' OBVIOUS
<1>1. PICK x : rep2 = ApplyCommand(replica, RewriteRefs(<<[uuid |-> c, ref |-> x]>>, idAliases)[1]) BY DEF Mutate
<1> PICK one, q, r : one = [uuid |-> c, ref |-> x] /\ q = <<one>> /\ r = RewriteRefs(q, idAliases) OBVIOUS
<1>2. DOMAIN q = {1} /\ q[1] = one OBVIOUS
<1>3. r = [k \in DOMAIN q |-> [q[k] EXCEPT !.ref = IF @ \in DOMAIN idAliases THEN idAliases[@] ELSE @]] BY DEF RewriteRefs
<1>4. r[1] = [one EXCEPT !.ref = IF @ \in DOMAIN idAliases THEN idAliases[@] ELSE @] BY <1>2, <1>3
<1>5. r[1].uuid = c BY <1>4
<1>6. rep2 = ApplyCommand(replica, r[1]) BY <1>1
<1>7. QED BY <1>5, <1>6, DrawnApply

LEMMA HealsMutate ==
    ASSUME ~ActsEarly, Careful, Heals, Grounded', ClientNext, NEW c \in Cmds, Mutate(c)
    PROVE  Heals'
<1>1. Typed /\ DeviceTyped BY DEF Careful, Base
<1>2. /\ \E cmd \in Command : cmd.uuid = c /\ queue' = Append(queue, cmd)
      /\ queue' \in Queues /\ replica' \in Replicas
      /\ writes' = writes \o <<Forgotten("queue", queue'), Forgotten("replica", replica')>>
    BY <1>1, MutateType
<1> PICK q, rep2, w1, w2, more, A2 :
      /\ q = queue' /\ rep2 = replica' /\ w1 = Forgotten("queue", queue') /\ w2 = Forgotten("replica", replica')
      /\ more = <<w1, w2>> /\ A2 = Applied'
    OBVIOUS
<1>3. Uuids(q) = Uuids(queue) \cup {c} BY <1>1, <1>2, UuidsAppend DEF DeviceTyped
<1>4. /\ UNCHANGED <<process, lane, disk, saved, refused>> /\ up = "up" /\ ~Reading /\ lane.job \notin {"lost", "gone"}
    BY DEF Mutate, Active
<1>5. writes \in Seq(Writes) /\ writes' = writes \o more BY <1>1, <1>2 DEF DeviceTyped
<1> PICK U, R, K, U2, K2 : /\ U = Uuids(queue) /\ R = Unheeded /\ K = Applied \cup U /\ U2 = Uuids(q) /\ K2 = A2 \cup U2
    OBVIOUS
<1>6. Applied \subseteq A2 BY <1>1, DecidedGrows
<1>7. R \cap Roles = {} /\ Unheeded' = R BY <1>1, <1>4, UnheededType DEF Unheeded
<1>8. Healing(lane, disk, writes, replica, U2, R, K2)
  <2>1. Healing(lane, disk, writes, replica, U, R, K) BY <1>4, WorksNow
  <2>2. U \subseteq U2 /\ K \subseteq K2 /\ R \subseteq R \cup K2 BY <1>3, <1>6
  <2>3. QED BY <2>1, <2>2, HealingMore
<1>9. Healing(lane, disk, writes, rep2, U2, R, K2)
  <2>1. Drawn(rep2) \subseteq Drawn(replica) \cup {c} BY EditDraws
  <2>2. Drawn(rep2) \subseteq Drawn(replica) \cup K2 \cup Roles BY <1>3, <2>1
  <2>3. QED BY <1>7, <1>8, <2>2, HealingDraw
<1>10. /\ w1 \in Writes /\ w1.key = "queue" /\ w1.value = q
       /\ w2 \in Writes /\ w2.key = "replica" /\ w2.value = rep2
    BY <1>2, WriteTypes, KeysOfWrites
<1>11. Issued(more) = {w1, w2} /\ more \in Seq(Writes) BY <1>10, IssuedFew
<1>12. HoldsOnly(more, K2) BY <1>10, <1>11, HoldsIssued
<1>13. \A w \in Issued(more) : ~Clears(w) /\ (w.key = "replica" => Drawn(w.value) \subseteq Drawn(rep2))
    BY <1>10, <1>11 DEF Clears
<1>14. Healing(lane, disk, writes \o more, rep2, U2, R, K2) BY <1>5, <1>9, <1>11, <1>12, <1>13, HealingJoin
<1>15. up' = "up" /\ stored' = NoAnswer /\ lane' = lane /\ disk' = disk BY <1>4 DEF process, Reading
<1>16. QED BY <1>4, <1>5, <1>7, <1>14, <1>15, HealsWorks

\* The lane's job starts, asks, or ends.
LEMMA HealsLane ==
    ASSUME Careful, Heals, Grounded', Applied \subseteq Applied',
           UNCHANGED <<process, queue, replica, disk, writes, saved, refused>>, up = "up", ~Reading,
           lane.job \notin {"lost", "gone"}, lane'.job \notin {"lost", "gone"},
           lane.step # "clear" \/ writes = <<>>, lane'.step \in {"start", "reply"},
           lane'.job = "flush" /\ lane'.step = "reply" => lane'.batch \subseteq Uuids(queue)
    PROVE  Heals'
<1> PICK ln2, U, R, K, K2 : /\ ln2 = lane' /\ U = Uuids(queue) /\ R = Unheeded /\ K = Applied \cup U
                            /\ K2 = Applied' \cup U
    OBVIOUS
<1>1. Unheeded' = R BY DEF Unheeded
<1>2. Healing(lane, disk, writes, replica, U, R, K2)
  <2>1. Healing(lane, disk, writes, replica, U, R, K) BY WorksNow
  <2>2. U \subseteq U /\ K \subseteq K2 /\ R \subseteq R \cup K2 OBVIOUS
  <2>3. QED BY <2>1, <2>2, HealingMore
<1>3. GoesOn(lane, ln2, writes, U) BY DEF GoesOn
<1>4. Healing(ln2, disk, writes, replica, U, R, K2) BY <1>2, <1>3, HealingLane
<1>5. up' = "up" /\ stored' = NoAnswer /\ disk' = disk /\ writes' = writes /\ replica' = replica /\ queue' = queue
    BY DEF process, Reading
<1>6. QED BY <1>1, <1>4, <1>5, HealsWorks

LEMMA LeaveIs ==
    ASSUME LeaveLane
    PROVE  lane'.job \in {"idle", "recover"} /\ lane'.step = "start"
BY DEF LeaveLane, Idle

LEMMA FlagIsSet == ~Clears(Write("needsFullSync", TRUE))
BY DEF Clears, Write

\* The batch had refusals: all of it is still queued, and the flag is on its way.
LEMMA HealsMark ==
    ASSUME Careful, Heals, Grounded', ClientNext, NEW s \in Slots, MarkNeedsFullSync(s)
    PROVE  Heals'
<1>1. Typed /\ DeviceTyped /\ Asleep BY DEF Careful, Base
<1>2. lane \in Lane /\ writes \in Seq(Writes) BY <1>1 DEF DeviceTyped
<1>3. /\ lane.job = "flush" /\ lane.step = "reply" /\ UNCHANGED <<process, queue, replica, disk, saved>>
      /\ refused' = refused \cup Refusals(s) /\ writes' = writes \o Flag /\ lane' = [lane EXCEPT !.step = "flag"]
    BY DEF MarkNeedsFullSync, Replied
<1>4. up = "up" /\ ~Reading BY <1>1, <1>3, Awake DEF Idle
<1> PICK w, ln2, U, R, K, R2, K2 :
      /\ w = Write("needsFullSync", TRUE) /\ ln2 = lane' /\ U = Uuids(queue) /\ R = Unheeded /\ K = Applied \cup U
      /\ R2 = Unheeded' /\ K2 = Applied' \cup U
    OBVIOUS
<1>5. Healing(lane, disk, writes, replica, U, R, K) BY <1>3, <1>4, WorksNow
<1>6. lane.batch \subseteq U BY <1>3, <1>5 DEF Healing, FlagFirst
<1>7. R2 \subseteq R \cup K2 BY <1>3, <1>6 DEF Unheeded, Refusals
<1>8. U \subseteq U /\ K \subseteq K2 BY <1>1, DecidedGrows
<1>9. Healing(lane, disk, writes, replica, U, R2, K2) BY <1>5, <1>7, <1>8, HealingMore
<1>10. w \in Writes /\ w.key = "needsFullSync" BY WriteTypes, KeysOfWrites
<1>11. ~Clears(w) BY FlagIsSet
<1>12. Flag = <<w>> /\ <<w>> \in Seq(Writes) /\ Issued(<<w>>) = {w} BY <1>10, OneWrite, IssuedFew DEF Flag
<1>13. HoldsOnly(<<w>>, K2) BY <1>10, <1>12, HoldsIssued
<1>14. Healing(lane, disk, writes \o <<w>>, replica, U, R2, K2)
    BY <1>2, <1>9, <1>10, <1>11, <1>12, <1>13, HealingJoin
<1> PICK ws : ws = writes \o <<w>> OBVIOUS
<1>15. w \in Issued(ws)
  <2> PICK one : one = <<w>> OBVIOUS
  <2>1. Issued(one) = {w} /\ one \in Seq(Writes) /\ ws = writes \o one BY <1>12
  <2>2. Issued(ws) = Issued(writes) \cup Issued(one) BY <1>2, <2>1, IssuedJoin
  <2>3. QED BY <2>1, <2>2
<1>16. ln2.step = "flag" /\ ln2.job = "flush" /\ ln2.batch = lane.batch BY <1>2, <1>3 DEF Lane
<1>17. Healing(ln2, disk, ws, replica, U, R2, K2)
  <2>1. Healing(lane, disk, ws, replica, U, R2, K2) BY <1>14
  <2>2. GoesOn(lane, ln2, ws, U) BY <1>3, <1>6, <1>15, <1>16 DEF GoesOn
  <2>3. QED BY <2>1, <2>2, HealingLane
<1>18. up' = "up" /\ stored' = NoAnswer /\ disk' = disk /\ writes' = ws /\ replica' = replica /\ queue' = queue
    BY <1>3, <1>4, <1>12 DEF process, Reading
<1>19. QED BY <1>16, <1>17, <1>18, HealsWorks

\* A reply to a flush: the batch took effect, or the flag is on disk.
LEMMA HealsFlush ==
    ASSUME Careful, Heals, Grounded', ClientNext, NEW s \in Slots, ApplyFlush(s)
    PROVE  Heals'
<1>1. Typed /\ OkIsApplied /\ Answers /\ OurRequest /\ DeviceTyped /\ LaneShape /\ Asleep BY DEF Careful, Base
<1>2. queue \in Queues /\ writes \in Seq(Writes) /\ lane \in Lane BY <1>1 DEF DeviceTyped
<1>3. /\ s \in lane.slots /\ req[s].pc = "done" /\ req[s].code = "ok" /\ lane.job = "flush"
      /\ (lane.step = "reply" /\ Refusals(s) = {}) \/ (lane.step = "flag" /\ writes = <<>>)
      /\ ApplyResponse(s, StillQueued) /\ writes' = Append(writes, Write("queue", queue'))
      /\ lane' = [lane EXCEPT !.step = "queue", !.slots = {}, !.full = req[s].token = Star]
      /\ UNCHANGED <<process, disk, saved, refused, ledger>>
    BY DEF ApplyFlush, Settled, history, dataVars
<1>4. up = "up" /\ ~Reading BY <1>1, <1>3, Awake DEF Idle
<1> PICK q, w, ln2, rep2, U, R, K, U2, K2 :
      /\ q = queue' /\ w = Write("queue", queue') /\ ln2 = lane' /\ rep2 = replica'
      /\ U = Uuids(queue) /\ R = Unheeded /\ K = Applied \cup U /\ U2 = Uuids(queue) \ lane.batch /\ K2 = Applied \cup U2
    OBVIOUS
<1>5. StillQueued \in Queues /\ Uuids(StillQueued) = U2 BY <1>2, WithoutKeeps DEF StillQueued
<1>6. q \in Queues /\ Uuids(q) = U2 BY <1>1, <1>3, <1>5, ResponseType
<1>7. Applied' = Applied /\ Unheeded' = R BY <1>3 DEF Applied, Unheeded
<1>8. Healing(lane, disk, writes, replica, U, R, K) BY <1>3, <1>4, WorksNow
<1>9. R \cap Roles = {} BY <1>1, UnheededType
<1>10. w \in Writes /\ w.key = "queue" /\ w.value = q BY <1>6, WriteTypes, KeysOfWrites
<1>11. K2 = K \/ (writes = <<>> /\ disk.needsFullSync)
  <2>1. CASE Refusals(s) = {}
    <3>1. lane.batch \subseteq Applied BY <1>1, <1>3, <2>1, RefusedOrApplied
    <3>2. QED BY <3>1
  <2>2. CASE lane.step = "flag" /\ writes = <<>>
    <3>1. Issued(writes) = {} BY <2>2, IssuedFew
    <3>2. disk.needsFullSync BY <1>8, <2>2, <3>1 DEF Healing, FlagFirst
    <3>3. QED BY <2>2, <3>2
  <2>3. QED BY <1>3, <2>1, <2>2
<1>12. ln2.step = "queue" /\ ln2.job = "flush" /\ ln2.full = (req[s].token = Star) BY <1>2, <1>3 DEF Lane
<1>13. Drawn(rep2) \subseteq K2 \cup Roles \cup (IF ln2.full THEN {} ELSE Drawn(replica))
  <2>1. Drawn(rep2) \subseteq Known \cup Uuids(StillQueued) \cup (IF req[s].token = Star THEN {} ELSE Drawn(replica))
      BY <1>1, <1>3, <1>5, DrawnReply DEF Heals
  <2>2. QED BY <1>5, <1>12, <2>1 DEF Known
<1>14. Healing(ln2, disk, Append(writes, w), rep2, U2, R, K2)
  <2>1. FoldsIn(lane, ln2, disk, writes, w, replica, rep2, K, K2)
      BY <1>3, <1>6, <1>10, <1>11, <1>12, <1>13 DEF FoldsIn
  <2>2. QED BY <1>2, <1>8, <1>9, <1>10, <2>1, HealingReply
<1>15. /\ up' = "up" /\ stored' = NoAnswer /\ disk' = disk /\ writes' = Append(writes, w)
       /\ lane'.job = "flush"
    BY <1>3, <1>4, <1>12 DEF process, Reading
<1>16. QED BY <1>6, <1>7, <1>14, <1>15, HealsWorks

LEMMA HealsPull ==
    ASSUME Careful, Heals, Grounded', ClientNext, NEW s \in Slots, ApplyPull(s)
    PROVE  Heals'
<1>1. Typed /\ OkIsApplied /\ DeviceTyped /\ LaneShape /\ Asleep BY DEF Careful, Base
<1>2. queue \in Queues /\ writes \in Seq(Writes) /\ lane \in Lane BY <1>1 DEF DeviceTyped
<1>3. /\ lane.job \in {"pull", "recover"} /\ lane.step = "reply"
      /\ ApplyResponse(s, queue) /\ writes' = Append(writes, Write("token", syncToken'))
      /\ lane' = [lane EXCEPT !.step = "token", !.slots = {}, !.full = req[s].token = Star]
      /\ UNCHANGED <<process, disk, saved, refused, ledger>>
    BY DEF ApplyPull, Replied, history, dataVars
<1>4. up = "up" /\ ~Reading BY <1>1, <1>3, Awake DEF Idle
<1> PICK w, ln2, rep2, U, R, K :
      /\ w = Write("token", syncToken') /\ ln2 = lane' /\ rep2 = replica'
      /\ U = Uuids(queue) /\ R = Unheeded /\ K = Applied \cup U
    OBVIOUS
<1>5. Uuids(queue') = U /\ syncToken' \in Tokens BY <1>1, <1>2, <1>3, ResponseType
<1>6. Applied' = Applied /\ Unheeded' = R BY <1>3 DEF Applied, Unheeded
<1>7. Healing(lane, disk, writes, replica, U, R, K) BY <1>3, <1>4, WorksNow
<1>8. R \cap Roles = {} BY <1>1, UnheededType
<1>9. w \in Writes /\ w.key = "token" BY <1>5, WriteTypes, KeysOfWrites
<1>10. ln2.step = "token" /\ ln2.job = lane.job /\ ln2.full = (req[s].token = Star) BY <1>2, <1>3 DEF Lane
<1>11. Drawn(rep2) \subseteq K \cup Roles \cup (IF ln2.full THEN {} ELSE Drawn(replica))
  <2>1. Drawn(rep2) \subseteq Known \cup Uuids(queue) \cup (IF req[s].token = Star THEN {} ELSE Drawn(replica))
      BY <1>1, <1>2, <1>3, DrawnReply DEF Heals
  <2>2. QED BY <1>10, <2>1 DEF Known
<1>12. Healing(ln2, disk, Append(writes, w), rep2, U, R, K)
  <2>1. FoldsIn(lane, ln2, disk, writes, w, replica, rep2, K, K) BY <1>3, <1>9, <1>10, <1>11 DEF FoldsIn
  <2>2. QED BY <1>2, <1>7, <1>8, <1>9, <2>1, HealingReply
<1>13. /\ up' = "up" /\ stored' = NoAnswer /\ disk' = disk /\ writes' = Append(writes, w)
       /\ lane'.job \notin {"lost", "gone"}
    BY <1>3, <1>4, <1>10 DEF process, Reading
<1>14. QED BY <1>5, <1>6, <1>12, <1>13, HealsWorks

\* The reply is put on disk, key by key.
LEMMA HealsPersist ==
    ASSUME Careful, Heals, Grounded', ClientNext, PersistToken \/ PersistReplica \/ ClearNeedsFullSync
    PROVE  Heals'
<1>1. Typed /\ DeviceTyped /\ LaneShape /\ Asleep BY DEF Careful, Base
<1>2. replica \in Replicas /\ syncToken \in Tokens /\ lane \in Lane BY <1>1 DEF DeviceTyped
<1>3. /\ UNCHANGED <<process, queue, replica, disk, saved, refused, ledger>> /\ writes = <<>>
      /\ lane.step # "start"
    BY DEF PersistToken, PersistReplica, ClearNeedsFullSync, Settled, history, serverVars
<1>4. lane.job \in {"flush", "pull", "recover"} BY <1>1, <1>3 DEF LaneShape
<1>5. up = "up" /\ ~Reading BY <1>1, <1>3, Awake DEF Idle
<1> PICK ln2, ws, U, R, K : ln2 = lane' /\ ws = writes' /\ U = Uuids(queue) /\ R = Unheeded /\ K = Applied \cup U OBVIOUS
<1>6. Applied' = Applied /\ Unheeded' = R BY <1>3 DEF Applied, Unheeded
<1>7. Healing(lane, disk, <<>>, replica, U, R, K) BY <1>3, <1>4, <1>5, WorksNow
<1>8. R \cap Roles = {} BY <1>1, UnheededType
<1>9. ln2.job = lane.job /\ Healing(ln2, disk, ws, replica, U, R, K)
  <2>1. CASE PersistToken
    <3>1. lane.step = "queue" /\ ws = <<Write("token", syncToken)>> /\ ln2 = [lane EXCEPT !.step = "token"]
        BY <2>1 DEF PersistToken
    <3>2. Goes(lane, ln2, "queue", "token") /\ ln2.job = lane.job BY <1>2, <3>1 DEF Lane, Goes
    <3>3. QED BY <1>2, <1>7, <3>1, <3>2, HealingToken
  <2>2. CASE PersistReplica
    <3>1. lane.step = "token" /\ ws = <<Write("replica", replica)>> /\ ln2 = [lane EXCEPT !.step = "replica"]
        BY <2>2 DEF PersistReplica
    <3>2. Goes(lane, ln2, "token", "replica") /\ ln2.job = lane.job BY <1>2, <3>1 DEF Lane, Goes
    <3>3. QED BY <1>2, <1>7, <3>1, <3>2, HealingReplica
  <2>3. CASE ClearNeedsFullSync
    <3>1. /\ lane.step = "replica" /\ lane.full /\ ws = <<Write("needsFullSync", FALSE)>>
          /\ ln2 = [lane EXCEPT !.step = "clear"]
        BY <2>3 DEF ClearNeedsFullSync
    <3>2. Goes(lane, ln2, "replica", "clear") /\ ln2.job = lane.job BY <1>2, <3>1 DEF Lane, Goes
    <3>3. QED BY <1>7, <1>8, <3>1, <3>2, HealingClear
  <2>4. QED BY <2>1, <2>2, <2>3
<1>10. up' = "up" /\ stored' = NoAnswer /\ disk' = disk /\ replica' = replica /\ queue' = queue
    BY <1>3, <1>5 DEF process, Reading
<1>11. lane'.job \notin {"lost", "gone"} BY <1>4, <1>9
<1>12. QED BY <1>6, <1>9, <1>10, <1>11, HealsWorks

\* What the invariant says of the disk as it is.
SparedNow == disk.needsFullSync \/ Spared(disk.replica, Unheeded, Applied \cup Uuids(disk.queue))

LEMMA HealsNow == ASSUME Careful, Heals PROVE SparedNow
<1>1. DeviceTyped BY DEF Careful, Base
<1> PICK U, Q, R, K : U = Uuids(queue) /\ Q = Uuids(disk.queue) /\ R = Unheeded /\ K = Applied \cup U OBVIOUS
<1>2. R \subseteq saved BY DEF Unheeded
<1>3. CASE up = "down" \/ Reading BY <1>3 DEF Heals, HealsAtRest, SparedNow
<1>4. ASSUME saved \subseteq Q \cup (Cmds \ U), Spared(disk.replica, R, K)
      PROVE  Spared(disk.replica, R, Applied \cup Q)
  <2>1. R \cap K \subseteq Applied \cup Q BY <1>2, <1>4
  <2>2. QED BY <1>4, <2>1 DEF Spared
<1>5. CASE up = "up" /\ ~Reading /\ lane.job \notin {"lost", "gone"}
  <2>1. Healing(lane, disk, writes, replica, U, R, K) BY <1>5, WorksNow
  <2>2. CASE disk.needsFullSync BY <2>2 DEF SparedNow
  <2>3. CASE ~disk.needsFullSync
    <3>1. Spared(disk.replica, R, K) BY <2>1, <2>3 DEF Healing, Marked, AllSpared
    <3>2. saved \subseteq Q \cup (Cmds \ U) BY <1>5 DEF Careful, Kept, NotAhead, InOrder, Orderly
    <3>3. QED BY <1>4, <3>1, <3>2 DEF SparedNow
  <2>4. QED BY <2>2, <2>3
<1>6. CASE Blank(disk, writes) BY <1>6 DEF Blank, Spared, SparedNow
<1>7. CASE Empties(disk, writes, U, saved, R, K)
  <2>1. CASE disk.needsFullSync BY <2>1 DEF SparedNow
  <2>2. CASE ~disk.needsFullSync
    <3>1. Spared(disk.replica, R, K) BY <1>7, <2>2 DEF Empties, AllSpared
    <3>2. saved \subseteq Q \cup (Cmds \ U) BY <1>7 DEF Empties, Orderly
    <3>3. QED BY <1>4, <3>1, <3>2 DEF SparedNow
  <2>3. QED BY <2>1, <2>2
<1>8. lane.job \in {"lost", "gone"} => Blank(disk, writes) \/ Empties(disk, writes, U, saved, R, K)
    BY DEF Heals, HealsWhenLost, Backed
<1>9. QED BY <1>1, <1>3, <1>5, <1>6, <1>7, <1>8 DEF DeviceTyped

\* A write reaches the disk; the queue among them had only what K excuses.
LEMMA HealsSettle ==
    ASSUME Careful, Heals, Grounded', ClientNext, Settle
    PROVE  Heals'
<1>1. DeviceTyped /\ Asleep BY DEF Careful, Base
<1> PICK w, tl, d2, sv2, R2 : w = Head(writes) /\ tl = Tail(writes) /\ d2 = disk' /\ sv2 = saved' /\ R2 = Unheeded' OBVIOUS
<1>2. /\ writes # <<>> /\ writes' = tl /\ d2 = [disk EXCEPT ![w.key] = w.value]
      /\ sv2 = IF w.key = "queue" THEN saved \cup Uuids(w.value) ELSE saved
      /\ UNCHANGED <<ledger, process, volatile, refused>>
    BY DEF Settle, Settled, serverVars
<1>3. writes \in Seq(Writes) /\ disk \in Disk BY <1>1 DEF DeviceTyped
<1>4. up = "up" /\ ~Reading BY <1>1, <1>2, Awake
<1>5. /\ up' = "up" /\ stored' = NoAnswer /\ lane' = lane /\ queue' = queue /\ replica' = replica
      /\ Applied' = Applied
    BY <1>2, <1>4 DEF process, volatile, Reading, Applied
<1> PICK U, R, K : U = Uuids(queue) /\ R = Unheeded /\ K = Applied \cup U OBVIOUS
<1>6. ASSUME HoldsOnly(writes, K) PROVE R2 \subseteq R \cup K
  <2>1. w.key = "queue" => Uuids(w.value) \subseteq K BY <1>2, <1>3, <1>6, HoldsTail
  <2>2. R2 = refused \cap sv2 BY <1>2 DEF Unheeded
  <2>3. QED BY <1>2, <2>1, <2>2 DEF Unheeded
<1>7. CASE lane.job \notin {"lost", "gone"}
  <2>1. Healing(lane, disk, writes, replica, U, R, K) BY <1>4, <1>7, WorksNow
  <2>2. Healing(lane, d2, tl, replica, U, R, K) BY <1>2, <1>3, <2>1, HealingSettle
  <2>3. R2 \subseteq R \cup K /\ U \subseteq U /\ K \subseteq K BY <1>6, <2>1 DEF Healing
  <2>4. Healing(lane, d2, tl, replica, U, R2, K) BY <2>2, <2>3, HealingMore
  <2>5. QED BY <1>2, <1>5, <1>7, <2>4, HealsWorks
<1>8. CASE lane.job = "gone"
  <2>1. Blank(disk, writes) BY <1>8 DEF Heals, HealsWhenLost
  <2>2. Blank(d2, tl) BY <1>2, <1>3, <2>1, BlankSettle
  <2>3. QED BY <1>2, <1>5, <1>8, <2>2, HealsNext
<1>9. CASE lane.job = "lost"
  <2>1. Blank(disk, writes) \/ Empties(disk, writes, U, saved, R, K) BY <1>9 DEF Heals, HealsWhenLost, Backed
  <2>2. Blank(d2, tl) \/ Empties(d2, tl, U, sv2, R2, K)
    <3>1. CASE Blank(disk, writes) BY <1>2, <1>3, <3>1, BlankSettle
    <3>2. CASE Empties(disk, writes, U, saved, R, K)
      <4>1. Blank(d2, tl) \/ Empties(d2, tl, U, sv2, R, K) BY <1>2, <1>3, <3>2, EmptiesSettle
      <4>2. R2 \subseteq R \cup K /\ K \subseteq K BY <1>6, <3>2 DEF Empties
      <4>3. QED BY <4>1, <4>2, EmptiesMore
    <3>3. QED BY <2>1, <3>1, <3>2
  <2>3. QED BY <1>2, <1>5, <1>9, <2>2, HealsNext
<1>10. QED BY <1>7, <1>8, <1>9

LEMMA HealsFails ==
    ASSUME Careful, Heals, Grounded', ClientNext, WriteFails
    PROVE  Heals'
<1>1. DeviceTyped /\ Asleep BY DEF Careful, Base
<1> PICK tl, ln2 : tl = Tail(writes) /\ ln2 = lane' OBVIOUS
<1>2. /\ writes # <<>> /\ writes' = tl /\ lane.job \notin {"lost", "gone"}
      /\ IF Head(writes).awaited THEN LeaveLane ELSE lane' = lane
      /\ UNCHANGED <<ledger, process, queue, replica, disk, saved, refused>>
    BY DEF WriteFails, Settled, serverVars, history
<1>3. writes \in Seq(Writes) BY <1>1 DEF DeviceTyped
<1>4. up = "up" /\ ~Reading BY <1>1, <1>2, Awake
<1>5. ln2.job \notin {"lost", "gone"} /\ IF Head(writes).awaited THEN ln2.step = "start" ELSE ln2 = lane
    BY <1>2, LeaveIs
<1> PICK U, R, K : U = Uuids(queue) /\ R = Unheeded /\ K = Applied \cup U OBVIOUS
<1>6. Applied' = Applied /\ Unheeded' = R BY <1>2 DEF Applied, Unheeded
<1>7. Healing(lane, disk, writes, replica, U, R, K) BY <1>2, <1>4, WorksNow
<1>8. Healing(ln2, disk, tl, replica, U, R, K) BY <1>2, <1>3, <1>5, <1>7, HealingFails
<1>9. up' = "up" /\ stored' = NoAnswer /\ disk' = disk /\ replica' = replica /\ queue' = queue
    BY <1>2, <1>4 DEF process, Reading
<1>10. QED BY <1>2, <1>5, <1>6, <1>8, <1>9, HealsWorks

\* Access is lost, and later reported.
LEMMA HealsLost ==
    ASSUME Careful, Heals, Grounded', ClientNext, NEW s \in Slots, LoseAccess(s)
    PROVE  Heals'
<1>1. DeviceTyped /\ OnlyMade /\ LaneShape /\ Asleep BY DEF Careful, Base
<1> PICK m, ws : m = Cardinality(Doomed) /\ ws = writes' OBVIOUS
<1>2. /\ ws = writes \o Purge(m) /\ lane'.job = "lost" /\ lane.step = "reply"
      /\ UNCHANGED <<ledger, process, queue, disk, saved, refused>>
    BY DEF LoseAccess, Replied, Idle, dataVars
<1>3. lane.job \in {"flush", "pull", "recover"} BY <1>1, <1>2 DEF LaneShape
<1>4. up = "up" /\ ~Reading BY <1>1, <1>2, Awake DEF Idle
<1>5. writes \in Seq(Writes) /\ m \in Nat BY <1>1, DoomedType DEF DeviceTyped
<1> PICK U, R, K : U = Uuids(queue) /\ R = Unheeded /\ K = Applied \cup U OBVIOUS
<1>6. Applied' = Applied /\ Unheeded' = R BY <1>2 DEF Applied, Unheeded
<1>7. Healing(lane, disk, writes, replica, U, R, K) BY <1>3, <1>4, WorksNow
<1>8. Orderly(Cmds \ U, saved, disk.queue, writes, Len(writes) + 1) BY <1>3 DEF Careful, Kept, NotAhead, InOrder
<1>9. Empties(disk, ws, U, saved, R, K)
  <2> PICK ln, d, old, rep : ln = lane /\ d = disk /\ old = writes /\ rep = replica OBVIOUS
  <2>1. Healing(ln, d, old, rep, U, R, K) /\ ln.step = "reply" /\ old \in Seq(Writes) BY <1>2, <1>5, <1>7
  <2>2. Orderly(Cmds \ U, saved, d.queue, old, Len(old) + 1) BY <1>8
  <2>3. Empties(d, old \o Purge(m), U, saved, R, K) BY <1>5, <2>1, <2>2, EmptiesPurge
  <2>4. QED BY <1>2, <2>3
<1>10. up' = "up" /\ stored' = NoAnswer /\ disk' = disk /\ queue' = queue /\ saved' = saved
    BY <1>2, <1>4 DEF process, Reading
<1>11. QED BY <1>2, <1>6, <1>9, <1>10, HealsNext

LEMMA HealsReported ==
    ASSUME Careful, Heals, Grounded', ClientNext, ReportLoss
    PROVE  Heals'
<1>1. DeviceTyped /\ Asleep BY DEF Careful, Base
<1> PICK w, ws : w = Write("lossNotice", 0) /\ ws = <<w>> OBVIOUS
<1>2. /\ lane.job = "lost" /\ writes = <<>> /\ writes' = ws /\ lane'.job = "gone" /\ UNCHANGED <<process, disk>>
    BY DEF ReportLoss, Settled, Idle
<1>3. up = "up" /\ ~Reading BY <1>1, <1>2, Awake DEF Idle
<1>4. Blank(disk, writes)
  <2>1. DOMAIN writes = {} BY <1>2
  <2>2. QED BY <1>2, <2>1 DEF Heals, HealsWhenLost, Empties
<1>5. w \in Writes /\ w.key = "lossNotice" BY WriteTypes, KeysOfWrites
<1>6. Issued(ws) = {w} BY <1>5, IssuedFew
<1>7. Blank(disk, ws) BY <1>4, <1>5, <1>6 DEF Blank
<1>8. up' = "up" /\ stored' = NoAnswer /\ disk' = disk BY <1>2, <1>3 DEF process, Reading
<1>9. QED BY <1>2, <1>7, <1>8, HealsNext

\* The process dies: what is on disk is spared.
LEMMA HealsKill ==
    ASSUME Careful, Heals, Grounded', ClientNext, Kill
    PROVE  Heals'
<1>1. SparedNow BY HealsNow
<1>2. up' = "down" /\ lane'.job = "idle" /\ UNCHANGED <<ledger, disk, saved, refused>>
    BY DEF Kill, Forget, Idle, serverVars
<1>3. Applied' = Applied /\ Unheeded' = Unheeded /\ disk' = disk BY <1>2 DEF Applied, Unheeded
<1>4. QED BY <1>1, <1>2, <1>3, HealsNext DEF SparedNow

\* A start reads the disk, after which the memory is what was stored.
LEMMA HealsWake ==
    ASSUME Careful, Heals, Grounded', ClientNext, Boot \/ BootFromCache
    PROVE  Heals'
<1>1. DeviceTyped /\ Asleep BY DEF Careful, Base
<1>2. up = "down" /\ stored' = Found /\ UNCHANGED <<ledger, lane, saved, refused>>
    BY DEF Boot, BootFromCache, Hydrate, serverVars, volatile
<1>3. /\ disk'.queue = disk.queue /\ disk'.replica = disk.replica /\ disk'.needsFullSync = disk.needsFullSync
    BY <1>1 DEF Boot, BootFromCache, DeviceTyped, Disk
<1>4. stored' # NoAnswer BY <1>2 DEF Found, NoAnswer
<1>5. lane.job = "idle" BY <1>1, <1>2 DEF Asleep, Idle
<1>6. Applied' = Applied /\ Unheeded' = Unheeded BY <1>2 DEF Applied, Unheeded
<1>7. SparedNow BY HealsNow
<1>8. QED BY <1>2, <1>3, <1>4, <1>5, <1>6, <1>7, HealsNext DEF SparedNow

LEMMA HealsHydrated ==
    ASSUME Careful, Heals, Grounded', ClientNext, Hydrated
    PROVE  Heals'
<1>1. DeviceTyped /\ Asleep BY DEF Careful, Base
<1>2. /\ Reading /\ stored' = NoAnswer /\ UNCHANGED <<ledger, up, lane, disk, writes, saved, refused>>
      /\ queue' = IF stored.queue = <<>> /\ ~stored.edited THEN queue ELSE stored.queue
      /\ replica' = IF stored.replica = NoReplica THEN replica ELSE stored.replica
    BY DEF Hydrated, Fill, history, serverVars
<1>3. /\ writes = <<>> /\ queue = <<>> /\ replica = NoReplica /\ lane = Idle /\ up = "up"
      /\ stored.queue = disk.queue /\ stored.replica = disk.replica
    BY <1>1, <1>2 DEF Asleep, Found
<1>4. queue' = disk.queue /\ replica' = disk.replica BY <1>2, <1>3
<1>5. Applied' = Applied /\ Unheeded' = Unheeded BY <1>2 DEF Applied, Unheeded
<1> PICK U, R, K, d : U = Uuids(disk.queue) /\ R = Unheeded /\ K = Applied \cup U /\ d = disk OBVIOUS
<1>6. d.needsFullSync \/ Spared(d.replica, R, K) BY HealsNow DEF SparedNow
<1>7. Healing(Idle, d, <<>>, d.replica, U, R, K)
  <2>1. Issued(<<>>) = {} /\ HoldsOnly(<<>>, K) BY IssuedFew, HoldsNone
  <2>2. Marked(d, <<>>) \/ (Spared(d.replica, R, K) /\ AllSpared(d, <<>>, R, K))
      BY <1>6, <2>1 DEF Marked, AllSpared
  <2>3. FlagFirst(Idle, d, <<>>, d.replica, U, K)
    <3>1. DOMAIN <<>> = {} /\ Idle.job = "idle" /\ Idle.step = "start" BY DEF Idle
    <3>2. QED BY <3>1 DEF FlagFirst
  <2>4. QED BY <2>1, <2>2, <2>3 DEF Healing
<1>8. lane'.job = "idle" BY <1>2, <1>3 DEF Idle
<1>9. QED BY <1>2, <1>3, <1>4, <1>5, <1>7, <1>8, HealsWorks

\* A start's purge removes the replica first.
LEMMA HealsPurged ==
    ASSUME Careful, Heals, Grounded', ClientNext, PurgeSteps
    PROVE  Heals'
<1>1. DeviceTyped BY DEF Careful, Base
<1>2. up = "down" /\ UNCHANGED <<serverVars, up, stored, lane, saved, refused>> BY <1>1, PurgeKeeps DEF volatile
<1>3. lane.job = "idle" BY <1>2 DEF Careful, Asleep, Idle
<1>4. disk'.needsFullSync \/ Spared(disk'.replica, Unheeded', Applied' \cup Uuids(disk'.queue))
  <2>1. CASE RemoveKey
    <3>1. Purging /\ purge.removed \in 0..4 /\ Removes(disk, disk', purge.removed + 1) BY <1>1, <2>1, RemoveKeyIs
    <3>2. disk'.replica = NoReplica BY <3>1 DEF Careful, Purged, Removes
    <3>3. DOMAIN NoReplica = {} BY DEF NoReplica
    <3>4. QED BY <3>2, <3>3 DEF Spared, Drawn
  <2>2. CASE ~RemoveKey
    <3>1. disk' = disk BY <1>1, <2>2, PurgeKeeps
    <3>2. Applied' = Applied /\ Unheeded' = Unheeded BY <1>2 DEF Applied, Unheeded, serverVars
    <3>3. QED BY <3>1, <3>2, HealsNow DEF SparedNow
  <2>3. QED BY <2>1, <2>2
<1>5. QED BY <1>2, <1>3, <1>4, HealsNext

LEMMA HealsReply ==
    ASSUME Careful, Heals, Grounded', ClientNext, NEW s \in Slots, Step(s)
    PROVE  Heals'
<1>1. Typed /\ DeviceTyped /\ LaneShape /\ Asleep BY DEF Careful, Base
<1>2. CASE RetryLater(s)
  <2>1. Applied \subseteq Applied' BY <1>1, DecidedGrows
  <2>2. /\ UNCHANGED <<process, queue, replica, disk, writes, saved, refused>> /\ LeaveLane /\ lane.step = "reply"
      BY <1>2 DEF RetryLater, Replied, history
  <2>3. lane.job \notin {"lost", "gone"} BY <1>1, <2>2 DEF LaneShape
  <2>4. up = "up" /\ ~Reading BY <1>1, <2>2, Awake DEF Idle
  <2>5. lane'.job \notin {"lost", "gone"} /\ lane'.job # "flush" /\ lane'.step = "start" BY <2>2, LeaveIs
  <2>6. QED BY <2>1, <2>2, <2>3, <2>4, <2>5, HealsLane
<1>3. QED BY <1>2, HealsMark, HealsFlush, HealsPull, HealsLost DEF Step

LEMMA HealsRun ==
    ASSUME ~ActsEarly, Careful, Heals, Grounded', ClientNext, Run
    PROVE  Heals'
<1>1. Typed /\ DeviceTyped /\ LaneShape /\ Asleep BY DEF Careful, Base
<1>2. Applied \subseteq Applied' BY <1>1, DecidedGrows
<1>3. lane \in Lane BY <1>1 DEF DeviceTyped
<1>4. CASE StartFlush \/ SendBatch \/ SendPull \/ EndReply
  <2>1. UNCHANGED <<process, queue, replica, disk, writes, saved, refused>>
      BY <1>4 DEF StartFlush, SendBatch, SendPull, EndReply, history
  <2>2. lane.job \notin {"lost", "gone"}
      BY <1>1, <1>4 DEF StartFlush, SendBatch, SendPull, EndReply, LaneShape
  <2>3. /\ lane'.job \notin {"lost", "gone"} /\ lane'.step \in {"start", "reply"}
        /\ lane'.job = "flush" /\ lane'.step = "reply" => lane'.batch \subseteq Uuids(queue)
    <3>1. CASE SendBatch
      <4>1. PICK t : lane' = [lane EXCEPT !.step = "reply", !.slots = {t}, !.batch = Uuids(BatchNow)]
          BY <3>1 DEF SendBatch, DoSync, BatchNow
      <4>2. lane.job = "flush" BY <3>1 DEF SendBatch
      <4>3. lane'.job = "flush" /\ lane'.step = "reply" /\ lane'.batch = Uuids(BatchNow) BY <1>3, <4>1, <4>2 DEF Lane
      <4>4. QED BY <1>1, <4>3, BatchNowType
    <3>2. CASE StartFlush BY <3>2 DEF StartFlush, Idle
    <3>3. CASE SendPull
      <4>1. lane'.job \in {"pull", "recover"} /\ lane'.step = "reply" BY <3>3 DEF SendPull, Idle
      <4>2. QED BY <4>1
    <3>4. CASE EndReply
      <4>1. lane'.job \in {"flush", "recover", "idle"} /\ lane'.step = "start" BY <3>4 DEF EndReply, LeaveLane, Idle
      <4>2. QED BY <4>1
    <3>5. QED BY <1>4, <3>1, <3>2, <3>3, <3>4
  <2>4. up = "up" /\ ~Reading
    <3>1. CASE SendBatch BY <1>1, <3>1, Awake DEF SendBatch, Idle
    <3>2. CASE StartFlush BY <3>2 DEF StartFlush, Active
    <3>3. CASE SendPull
      <4>1. CASE Active BY <4>1 DEF Active
      <4>2. CASE lane.job = "recover" BY <1>1, <4>2, Awake DEF Idle
      <4>3. QED BY <3>3, <4>1, <4>2 DEF SendPull
    <3>4. CASE EndReply BY <1>1, <3>4, Awake DEF EndReply, Idle
    <3>5. QED BY <1>4, <3>1, <3>2, <3>3, <3>4
  <2>5. lane.step # "clear" \/ writes = <<>>
    <3>1. CASE SendBatch BY <3>1 DEF SendBatch
    <3>2. CASE StartFlush BY <1>1, <3>2 DEF StartFlush, LaneShape
    <3>3. CASE SendPull BY <1>1, <3>3 DEF SendPull, LaneShape
    <3>4. CASE EndReply BY <3>4 DEF EndReply, Settled
    <3>5. QED BY <1>4, <3>1, <3>2, <3>3, <3>4
  <2>6. QED BY <1>2, <2>1, <2>2, <2>3, <2>4, <2>5, HealsLane
<1>5. QED BY <1>4, HealsPersist, HealsSettle, HealsReported, HealsWake, HealsHydrated, HealsPurged DEF Run, PurgeSteps

LEMMA HealsStep ==
    ASSUME ~ActsEarly, Careful, Heals, ClientNext
    PROVE  Heals'
<1>1. Typed /\ DeviceTyped /\ LaneShape /\ Asleep BY DEF Careful, Base
<1>2. Grounded' BY <1>1, DeviceServerStep, GroundedStep DEF Heals
<1>3. Applied \subseteq Applied' BY <1>1, DecidedGrows
<1>4. ASSUME UNCHANGED <<process, volatile, disk, writes, saved, refused>> PROVE Heals'
    BY <1>2, <1>3, <1>4, HealsElsewhere
<1>5. ASSUME NEW c \in Cmds, Mutate(c) PROVE Heals' BY <1>2, <1>5, HealsMutate
<1>6. ASSUME NEW c \in Cmds, OtherDevice(c) PROVE Heals' BY <1>4, <1>6 DEF OtherDevice, clientVars, history
<1>7. ASSUME NEW s \in Slots, Step(s) PROVE Heals' BY <1>2, <1>7, HealsReply
<1>8. ASSUME NEW s \in Slots, GiveUp(s) PROVE Heals'
  <2>1. /\ UNCHANGED <<process, queue, replica, disk, writes, saved, refused>> /\ LeaveLane /\ lane.step = "reply"
      BY <1>8 DEF GiveUp, history
  <2>2. lane.job \notin {"lost", "gone"} BY <1>1, <2>1 DEF LaneShape
  <2>3. up = "up" /\ ~Reading BY <1>1, <2>1, Awake DEF Idle
  <2>4. lane'.job \notin {"lost", "gone"} /\ lane'.job # "flush" /\ lane'.step = "start" BY <2>1, LeaveIs
  <2>5. QED BY <1>2, <1>3, <2>1, <2>2, <2>3, <2>4, HealsLane
<1>9. ASSUME NEW s \in Slots, DropOrphan(s) \/ Serving(s) \/ Failing(s) PROVE Heals'
    BY <1>4, <1>9 DEF DropOrphan, Serving, Failing, clientVars, history
<1>10. CASE Run BY <1>2, <1>10, HealsRun
<1>11. CASE Kill BY <1>2, <1>11, HealsKill
<1>12. CASE WriteFails BY <1>2, <1>12, HealsFails
<1>13. CASE Membership BY <1>4, <1>13 DEF Membership, clientVars, history
<1>14. CASE KillInPurge BY <1>2, <1>14, HealsPurged DEF PurgeSteps
<1>15. QED BY <1>5, <1>6, <1>7, <1>8, <1>9, <1>10, <1>11, <1>12, <1>13, <1>14 DEF ClientNext

LEMMA HealsInit == ClientInit => Heals
<1> SUFFICES ASSUME ClientInit PROVE Heals OBVIOUS
<1>1. Init /\ up = "down" /\ disk = EmptyDisk /\ lane = Idle BY DEF ClientInit
<1>2. Grounded
  <2>1. \A id \in DOMAIN rows : rows[id].content \in Known
    <3>1. \A id \in DOMAIN rows : rows[id].content = "member" BY <1>1 DEF Init
    <3>2. "member" \in Known BY DEF Known, Roles
    <3>3. QED BY <3>1, <3>2
  <2>2. \A s \in Slots : req[s].got = {} BY <1>1 DEF Init, Free
  <2>3. QED BY <2>1, <2>2 DEF Grounded
<1>3. HealsAtWork /\ HealsWhenLost BY <1>1 DEF HealsAtWork, HealsWhenLost, Idle
<1>4. HealsAtRest
  <2>1. DOMAIN NoReplica = {} /\ disk.replica = NoReplica BY <1>1 DEF NoReplica, EmptyDisk
  <2>2. QED BY <2>1 DEF HealsAtRest, Spared, Drawn
<1>5. QED BY <1>2, <1>3, <1>4 DEF Heals

\* Where the user and the timers wait for the reads of a start, what a refused
\* command drew on the stored screen is never stranded: at every moment a restart
\* would either find the command still queued, or the flag that makes it ask for
\* everything (client.ts: markNeedsFullSync, clearNeedsFullSync, purgeWorkspaceData),
\* wherever the app is killed or a write fails.
THEOREM RefusalsHeal ==
    ASSUME ~ActsEarly
    PROVE  ClientSpec => []RefusalRecoverable
<1>1. Careful /\ Heals => RefusalRecoverable
  <2> SUFFICES ASSUME Careful, Heals, NEW id \in DOMAIN disk.replica,
                      disk.replica[id].content \in (refused \cap saved) \ Applied
               PROVE  disk.needsFullSync \/ disk.replica[id].content \in Uuids(disk.queue)
      BY DEF RefusalRecoverable
  <2>1. SparedNow BY HealsNow
  <2>2. disk.replica[id].content \in Drawn(disk.replica) BY DEF Drawn
  <2>3. QED BY <2>1, <2>2 DEF SparedNow, Spared, Unheeded
<1>2. Careful /\ Heals /\ [ClientNext]_vars => (Careful /\ Heals)'
  <2> SUFFICES ASSUME Careful, Heals, [ClientNext]_vars PROVE Careful' /\ Heals' OBVIOUS
  <2>1. Careful' BY CarefulStep
  <2>2. CASE ClientNext BY <2>1, <2>2, HealsStep
  <2>3. CASE UNCHANGED vars
    <3>1. UNCHANGED serverVars /\ UNCHANGED clientVars BY <2>3 DEF vars
    <3>2. UNCHANGED <<process, volatile, disk, writes, saved, refused>> BY <3>1 DEF clientVars, history
    <3>3. Applied \subseteq Applied' BY <3>1 DEF serverVars, Applied
    <3>4. Grounded' BY <3>1, GroundedStep DEF ServerStep, Heals, Careful, Base
    <3>5. QED BY <2>1, <3>2, <3>3, <3>4, HealsElsewhere
  <2>4. QED BY <2>2, <2>3
<1>3. QED BY <1>1, <1>2, CarefulInit, HealsInit, PTL DEF ClientSpec

-----------------------------------------------------------------------------
(* What the disk will hold once every write under way has settled *)

\* The last write under a key, or what the disk holds if none is under way.
NoWrite(ws, key) == \A k \in DOMAIN ws : ws[k].key # key
LastWrite(ws, key, v) ==
    \E k \in DOMAIN ws : /\ ws[k].key = key /\ ws[k].value = v
                         /\ \A j \in DOMAIN ws : j > k => ws[j].key # key
Latest(d, ws, key, v) == (NoWrite(ws, key) /\ d[key] = v) \/ LastWrite(ws, key, v)

\* A reply is written down key by key, the queue first, then the token, then the
\* replica: by the lane's step, these keys are on their way to what the memory holds.
Settles(d, ws, step, q, rep, tok, nfs) ==
    /\ Latest(d, ws, "queue", q) /\ Latest(d, ws, "needsFullSync", nfs)
    /\ step # "queue" => Latest(d, ws, "token", tok)
    /\ step \notin {"queue", "token"} => Latest(d, ws, "replica", rep)

Emptied(d, ws) == Settles(d, ws, "start", <<>>, NoReplica, Star, FALSE)

\* The disk is all there is, or the local data is going with the lost workspace.
Rests == up = "down" \/ Reading
Lacks == lane.job \in {"lost", "gone"}

Writing ==
    ~Rests => IF Lacks THEN Emptied(disk, writes)
              ELSE Settles(disk, writes, lane.step, queue, replica, syncToken, needsFullSync)

\* A request is answered only for what it asked, and a pull asks nothing.
Asked == \A s \in Slots : DOMAIN req[s].status \subseteq Uuids(req[s].cmds)
PullsAsk == lane.job \in {"pull", "recover"} => lane.batch = {}

Settling == Writing /\ Asked /\ PullsAsk

LEMMA LatestJoin ==
    ASSUME NEW d, NEW a \in Seq(Writes), NEW b \in Seq(Writes), NEW key, NEW v,
           (NoWrite(b, key) /\ Latest(d, a, key, v)) \/ LastWrite(b, key, v)
    PROVE  Latest(d, a \o b, key, v)
<1> PICK c : c = a \o b OBVIOUS
<1>1. /\ Len(a) \in Nat /\ Len(b) \in Nat /\ DOMAIN a = 1..Len(a) /\ DOMAIN b = 1..Len(b)
      /\ DOMAIN c = 1..(Len(a) + Len(b))
      /\ \A k \in 1..Len(a) : c[k] = a[k]
      /\ \A k \in 1..Len(b) : c[Len(a) + k] = b[k]
      /\ \A k \in DOMAIN c : k \in 1..Len(a) \/ (k > Len(a) /\ \E i \in 1..Len(b) : k = Len(a) + i)
    BY JoinIs
<1>2. CASE NoWrite(b, key) /\ NoWrite(a, key) /\ d[key] = v
  <2>1. NoWrite(c, key) BY <1>1, <1>2 DEF NoWrite
  <2>2. QED BY <1>2, <2>1 DEF Latest
<1>3. CASE NoWrite(b, key) /\ LastWrite(a, key, v)
  <2>1. PICK k \in DOMAIN a : /\ a[k].key = key /\ a[k].value = v
                              /\ \A j \in DOMAIN a : j > k => a[j].key # key
      BY <1>3 DEF LastWrite
  <2>2. k \in DOMAIN c /\ c[k] = a[k] BY <1>1
  <2>3. \A j \in DOMAIN c : j > k => c[j].key # key BY <1>1, <1>3, <2>1 DEF NoWrite
  <2>4. LastWrite(c, key, v) BY <2>1, <2>2, <2>3 DEF LastWrite
  <2>5. QED BY <2>4 DEF Latest
<1>4. CASE LastWrite(b, key, v)
  <2>1. PICK k \in DOMAIN b : /\ b[k].key = key /\ b[k].value = v
                              /\ \A j \in DOMAIN b : j > k => b[j].key # key
      BY <1>4 DEF LastWrite
  <2> PICK n : n = Len(a) + k OBVIOUS
  <2>2. n \in DOMAIN c /\ c[n] = b[k] BY <1>1
  <2>3. \A j \in DOMAIN c : j > n => c[j].key # key
    <3> SUFFICES ASSUME NEW j \in DOMAIN c, j > n PROVE c[j].key # key OBVIOUS
    <3> PICK i : i = j - Len(a) OBVIOUS
    <3>1. i \in 1..Len(b) /\ i > k /\ j = Len(a) + i BY <1>1
    <3>2. i \in DOMAIN b /\ c[j] = b[i] BY <1>1, <3>1
    <3>3. QED BY <2>1, <3>1, <3>2
  <2>4. LastWrite(c, key, v) BY <2>1, <2>2, <2>3 DEF LastWrite
  <2>5. QED BY <2>4 DEF Latest
<1>5. QED BY <1>2, <1>3, <1>4 DEF Latest

StoredKeys == {"queue", "replica", "token", "needsFullSync"}

LEMMA LatestTail ==
    ASSUME NEW d \in Disk, NEW ws \in Seq(Writes), ws # <<>>, NEW key \in StoredKeys, NEW v,
           Latest(d, ws, key, v)
    PROVE  Latest([d EXCEPT ![Head(ws).key] = Head(ws).value], Tail(ws), key, v)
<1> PICK w, tl, d2 : w = Head(ws) /\ tl = Tail(ws) /\ d2 = [d EXCEPT ![w.key] = w.value] OBVIOUS
<1>1. /\ w \in Writes /\ w = ws[1] /\ 1 \in DOMAIN ws /\ Len(ws) = Len(tl) + 1 /\ Len(tl) \in Nat
      /\ \A k \in DOMAIN tl : k \in Nat /\ k >= 1 /\ k + 1 \in DOMAIN ws /\ tl[k] = ws[k + 1]
      /\ \A k \in DOMAIN ws : k \in Nat /\ k >= 1
      /\ DOMAIN ws = 1..Len(ws) /\ DOMAIN tl = 1..Len(tl)
    BY TailIs
<1>2. d2[key] = IF w.key = key THEN w.value ELSE d[key]
  <2>1. DOMAIN d = {"queue", "token", "replica", "needsFullSync", "lossNotice"} BY DEF Disk
  <2>2. QED BY <2>1 DEF StoredKeys
<1>3. CASE NoWrite(ws, key) /\ d[key] = v
  <2>1. NoWrite(tl, key) BY <1>1, <1>3 DEF NoWrite
  <2>2. w.key # key BY <1>1, <1>3 DEF NoWrite
  <2>3. QED BY <1>2, <1>3, <2>1, <2>2 DEF Latest
<1>4. CASE LastWrite(ws, key, v)
  <2>1. PICK k \in DOMAIN ws : /\ ws[k].key = key /\ ws[k].value = v
                               /\ \A j \in DOMAIN ws : j > k => ws[j].key # key
      BY <1>4 DEF LastWrite
  <2>2. CASE k = 1
    <3>1. NoWrite(tl, key)
      <4> SUFFICES ASSUME NEW j \in DOMAIN tl PROVE tl[j].key # key BY DEF NoWrite
      <4>1. j + 1 \in DOMAIN ws /\ tl[j] = ws[j + 1] /\ j + 1 > 1 BY <1>1
      <4>2. QED BY <2>1, <2>2, <4>1
    <3>2. d2[key] = v BY <1>1, <1>2, <2>1, <2>2
    <3>3. QED BY <3>1, <3>2 DEF Latest
  <2>3. CASE k # 1
    <3> PICK n : n = k - 1 OBVIOUS
    <3>1. n \in DOMAIN tl /\ n + 1 = k BY <1>1, <2>3
    <3>2. tl[n] = ws[k] BY <1>1, <3>1
    <3>3. \A j \in DOMAIN tl : j > n => tl[j].key # key
      <4> SUFFICES ASSUME NEW j \in DOMAIN tl, j > n PROVE tl[j].key # key OBVIOUS
      <4>1. j + 1 \in DOMAIN ws /\ tl[j] = ws[j + 1] /\ j + 1 > k BY <1>1, <3>1
      <4>2. QED BY <2>1, <4>1
    <3>4. LastWrite(tl, key, v) BY <2>1, <3>1, <3>2, <3>3 DEF LastWrite
    <3>5. QED BY <3>4 DEF Latest
  <2>4. QED BY <2>2, <2>3
<1>5. QED BY <1>3, <1>4 DEF Latest

LEMMA LatestDone ==
    ASSUME NEW d, NEW key, NEW v
    PROVE  Latest(d, <<>>, key, v) <=> d[key] = v
<1>1. DOMAIN <<>> = {} OBVIOUS
<1>2. QED BY <1>1 DEF Latest, NoWrite, LastWrite

LEMMA OneLast ==
    ASSUME NEW w \in Writes
    PROVE  /\ <<w>> \in Seq(Writes) /\ LastWrite(<<w>>, w.key, w.value)
           /\ \A key : key # w.key => NoWrite(<<w>>, key)
<1>1. <<w>> \in Seq(Writes) /\ DOMAIN <<w>> = {1} /\ <<w>>[1] = w BY OneWrite
<1>2. QED BY <1>1 DEF LastWrite, NoWrite

\* Appending one write changes what is on its way under its own key only.
LEMMA LatestAppend ==
    ASSUME NEW d, NEW ws \in Seq(Writes), NEW w \in Writes
    PROVE  /\ Latest(d, Append(ws, w), w.key, w.value)
           /\ \A key, v : key # w.key /\ Latest(d, ws, key, v) => Latest(d, Append(ws, w), key, v)
<1> PICK one : one = <<w>> OBVIOUS
<1>1. /\ one \in Seq(Writes) /\ LastWrite(one, w.key, w.value)
      /\ \A key : key # w.key => NoWrite(one, key)
    BY OneLast
<1>2. Append(ws, w) = ws \o one BY OneWrite
<1>3. Latest(d, ws \o one, w.key, w.value) BY <1>1, LatestJoin
<1>4. ASSUME NEW key, NEW v, key # w.key, Latest(d, ws, key, v) PROVE Latest(d, ws \o one, key, v)
    BY <1>1, <1>4, LatestJoin
<1>5. QED BY <1>2, <1>3, <1>4


-----------------------------------------------------------------------------
(* A request is answered for what it asked *)

AskedFor(r) == DOMAIN r.status \subseteq Uuids(r.cmds)

LEMMA AskedPut ==
    ASSUME Typed, Asked, NEW t \in Slots, NEW r, AskedFor(r), req' = [req EXCEPT ![t] = r]
    PROVE  Asked'
<1>1. \A s \in Slots : req'[s] = IF s = t THEN r ELSE req[s] BY DEF Typed, TypeOK
<1>2. \A s \in Slots : AskedFor(req'[s]) BY <1>1 DEF Asked, AskedFor
<1>3. QED BY <1>2 DEF Asked, AskedFor

LEMMA AskedReport ==
    ASSUME Typed, Asked, NEW t \in Slots, AtCommand(t), NEW v, Report(t, v)
    PROVE  Asked'
<1> PICK q, c : q = req[t] /\ c = q.cmds[q.i].uuid OBVIOUS
<1>1. q \in Request BY DEF Typed, TypeOK
<1>2. Current(t).uuid = c BY DEF Current
<1> PICK st : st = Put(q.status, c, v) OBVIOUS
<1> DEFINE r == [q EXCEPT !.pc = "command", !.i = q.i + 1, !.status = st]
<1>3. req' = [req EXCEPT ![t] = r] BY <1>2 DEF Report
<1>4. r.cmds = q.cmds /\ r.status = st BY <1>1 DEF Request
<1>5. DOMAIN st = DOMAIN q.status \cup {c} BY DEF Put
<1>6. c \in Uuids(q.cmds) BY DEF AtCommand, Uuids
<1>7. DOMAIN q.status \subseteq Uuids(q.cmds) BY DEF Asked
<1> HIDE DEF r
<1>8. AskedFor(r) BY <1>4, <1>5, <1>6, <1>7 DEF AskedFor
<1>9. QED BY <1>3, <1>8, AskedPut

LEMMA AskedStep ==
    ASSUME Typed, Asked, ServerStep
    PROVE  Asked'
<1>1. DOMAIN <<>> = {} OBVIOUS
<1>2. ASSUME NEW t \in Slots, NEW r, r.status = <<>>, req' = [req EXCEPT ![t] = r] PROVE Asked'
  <2>1. AskedFor(r) BY <1>1, <1>2 DEF AskedFor
  <2>2. QED BY <1>2, <2>1, AskedPut
<1>3. ASSUME NEW t \in Slots, NEW r, r.status = req[t].status, r.cmds = req[t].cmds,
             req' = [req EXCEPT ![t] = r]
      PROVE  Asked'
  <2>1. AskedFor(r) BY <1>3 DEF AskedFor, Asked
  <2>2. QED BY <1>3, <2>1, AskedPut
<1>4. ASSUME NEW t \in Slots, Serve(t) \/ Unavailable(t) PROVE Asked'
  <2> PICK q : q = req[t] OBVIOUS
  <2>1. q \in Request /\ (q.pc = "lock" => AtCommand(t)) BY DEF Typed, TypeOK, AtTheLock
  <2>2. CASE Unavailable(t)
    <3>1. [Free EXCEPT !.pc = "done", !.code = "unavailable"].status = <<>> BY DEF Free
    <3>2. QED BY <1>2, <2>2, <3>1 DEF Unavailable
  <2>3. CASE CheckLog(t)
    <3>1. CASE Report(t, "ok") BY <2>3, <3>1, AskedReport DEF CheckLog
    <3>2. CASE req' = [req EXCEPT ![t].pc = "lock"]
      <4> DEFINE r == [q EXCEPT !.pc = "lock"]
      <4>1. r.status = q.status /\ r.cmds = q.cmds BY <2>1 DEF Request
      <4>2. req' = [req EXCEPT ![t] = r] BY <3>2
      <4> HIDE DEF r
      <4>3. QED BY <1>3, <4>1, <4>2
    <3>3. QED BY <2>3, <3>1, <3>2 DEF CheckLog
  <2>4. CASE RefuseViewer(t) BY <2>1, <2>4, AskedReport DEF RefuseViewer
  <2>5. CASE Apply(t) BY <2>1, <2>5, AskedReport DEF Apply
  <2>6. CASE Admit(t)
    <3>1. ASSUME NEW code, req' = [req EXCEPT ![t].pc = "done", ![t].code = code] PROVE Asked'
      <4> DEFINE r == [q EXCEPT !.pc = "done", !.code = code]
      <4>1. r.status = q.status /\ r.cmds = q.cmds BY <2>1 DEF Request
      <4>2. req' = [req EXCEPT ![t] = r] BY <3>1
      <4> HIDE DEF r
      <4>3. QED BY <1>3, <4>1, <4>2
    <3>2. ASSUME NEW role, req' = [req EXCEPT ![t].pc = "command", ![t].role = role] PROVE Asked'
      <4> DEFINE r == [q EXCEPT !.pc = "command", !.role = role]
      <4>1. r.status = q.status /\ r.cmds = q.cmds BY <2>1 DEF Request
      <4>2. req' = [req EXCEPT ![t] = r] BY <3>2
      <4> HIDE DEF r
      <4>3. QED BY <1>3, <4>1, <4>2
    <3>3. QED BY <2>6, <3>1, <3>2 DEF Admit
  <2>7. CASE ReadVersion(t)
    <3>1. ASSUME NEW v, req' = [req EXCEPT ![t].pc = "collect", ![t].upper = v] PROVE Asked'
      <4> DEFINE r == [q EXCEPT !.pc = "collect", !.upper = v]
      <4>1. r.status = q.status /\ r.cmds = q.cmds BY <2>1 DEF Request
      <4>2. req' = [req EXCEPT ![t] = r] BY <3>1
      <4> HIDE DEF r
      <4>3. QED BY <1>3, <4>1, <4>2
    <3>2. QED BY <2>7, <3>1 DEF ReadVersion
  <2>8. CASE Collect(t)
    <3>1. ASSUME NEW g, NEW k, NEW pc, req' = [req EXCEPT ![t].got = g, ![t].k = k, ![t].pc = pc]
          PROVE  Asked'
      <4> DEFINE r == [q EXCEPT !.got = g, !.k = k, !.pc = pc]
      <4>1. r.status = q.status /\ r.cmds = q.cmds BY <2>1 DEF Request
      <4>2. req' = [req EXCEPT ![t] = r] BY <3>1
      <4> HIDE DEF r
      <4>3. QED BY <1>3, <4>1, <4>2
    <3>2. QED BY <2>8, <3>1 DEF Collect
  <2>9. QED BY <1>4, <2>2, <2>3, <2>4, <2>5, <2>6, <2>7, <2>8 DEF Serve
<1>5. ASSUME NEW t \in Slots, FreeSlot(t) PROVE Asked'
  <2>1. Free.status = <<>> BY DEF Free
  <2>2. QED BY <1>2, <1>5, <2>1 DEF FreeSlot
<1>6. ASSUME NEW t \in Slots, NEW cs \in Queues, NEW tok, Send(t, Device, cs, tok) PROVE Asked'
  <2>1. [Free EXCEPT !.pc = "sent", !.user = Device, !.cmds = cs, !.token = tok].status = <<>> BY DEF Free
  <2>2. QED BY <1>2, <1>6, <2>1 DEF Send
<1>7. ASSUME UNCHANGED req PROVE Asked' BY <1>7 DEF Asked
<1>8. CASE Stamps BY <1>7, <1>8 DEF Stamps, StampMember
<1>9. CASE DeleteWorkspace BY <1>7, <1>9 DEF DeleteWorkspace
<1>10. QED BY <1>4, <1>5, <1>6, <1>7, <1>8, <1>9 DEF ServerStep, serverVars

LEMMA PullsAskStep ==
    ASSUME DeviceTyped, PullsAsk, ClientNext
    PROVE  PullsAsk'
<1>1. lane \in Lane BY DEF DeviceTyped
<1>2. ASSUME lane'.batch = {} \/ lane'.job \notin {"pull", "recover"} PROVE PullsAsk' BY <1>2 DEF PullsAsk
<1>3. ASSUME lane'.job = lane.job, lane'.batch = lane.batch PROVE PullsAsk' BY <1>3 DEF PullsAsk
<1>4. UNCHANGED lane => PullsAsk' BY DEF PullsAsk
<1>5. LeaveLane => PullsAsk' BY <1>2 DEF LeaveLane, Idle
<1>6. ASSUME NEW s \in Slots, Step(s) PROVE PullsAsk'
  <2>1. MarkNeedsFullSync(s) => PullsAsk' BY <1>1, <1>3 DEF MarkNeedsFullSync, Lane
  <2>2. ApplyFlush(s) \/ ApplyPull(s) => PullsAsk' BY <1>1, <1>3 DEF ApplyFlush, ApplyPull, Lane
  <2>3. LoseAccess(s) => PullsAsk' BY <1>2 DEF LoseAccess, Idle
  <2>4. RetryLater(s) => PullsAsk' BY <1>5 DEF RetryLater
  <2>5. QED BY <1>6, <2>1, <2>2, <2>3, <2>4 DEF Step
<1>7. CASE Run
  <2>1. Settle \/ Boot \/ BootFromCache \/ Hydrated => PullsAsk'
      BY <1>4 DEF Settle, Boot, BootFromCache, Hydrated, Hydrate, volatile
  <2>2. StartFlush \/ ReportLoss => PullsAsk' BY <1>2 DEF StartFlush, ReportLoss, Idle
  <2>3. CASE SendBatch
    <3>1. PICK s, b : lane' = [lane EXCEPT !.step = "reply", !.slots = {s}, !.batch = b]
        BY <2>3 DEF SendBatch, DoSync
    <3>2. lane'.job = "flush" BY <1>1, <2>3, <3>1 DEF SendBatch, Lane
    <3>3. QED BY <1>2, <3>2
  <2>4. SendPull => PullsAsk' BY <1>2 DEF SendPull, Idle
  <2>5. PersistToken \/ PersistReplica \/ ClearNeedsFullSync => PullsAsk'
      BY <1>1, <1>3 DEF PersistToken, PersistReplica, ClearNeedsFullSync, Lane
  <2>6. EndReply => PullsAsk' BY <1>2, <1>5 DEF EndReply, Idle
  <2>7. PurgeSteps => PullsAsk' BY <1>4, PurgeKeeps DEF volatile
  <2>8. QED BY <1>7, <2>1, <2>2, <2>3, <2>4, <2>5, <2>6, <2>7 DEF Run, PurgeSteps
<1>8. ASSUME NEW c \in Cmds, Mutate(c) \/ OtherDevice(c) PROVE PullsAsk'
    BY <1>4, <1>8 DEF Mutate, OtherDevice, clientVars, volatile
<1>9. ASSUME NEW s \in Slots, DropOrphan(s) \/ Serving(s) \/ Failing(s) \/ GiveUp(s) PROVE PullsAsk'
    BY <1>4, <1>5, <1>9 DEF DropOrphan, Serving, Failing, GiveUp, clientVars, volatile
<1>10. Kill => PullsAsk' BY <1>2 DEF Kill, Forget, Idle
<1>11. WriteFails => PullsAsk' BY <1>4, <1>5 DEF WriteFails
<1>12. Membership => PullsAsk' BY <1>4 DEF Membership, clientVars, volatile
<1>13. KillInPurge => PullsAsk' BY <1>4 DEF KillInPurge, volatile
<1>14. QED BY <1>6, <1>7, <1>8, <1>9, <1>10, <1>11, <1>12, <1>13 DEF ClientNext

LEMMA RewriteNothing ==
    ASSUME NEW q \in Queues, NEW mapping, DOMAIN mapping = {}
    PROVE  RewriteRefs(q, mapping) = q
<1>1. \A k \in DOMAIN q : q[k] \in Command BY DEF Queues
<1>2. \A c \in Command : [c EXCEPT !.ref = IF @ \in DOMAIN mapping THEN mapping[@] ELSE @] = c
    BY DEF Command
<1>3. q = [k \in DOMAIN q |-> q[k]] BY DEF Queues
<1>4. \A k \in DOMAIN q : [q[k] EXCEPT !.ref = IF @ \in DOMAIN mapping THEN mapping[@] ELSE @] = q[k]
    BY <1>1, <1>2
<1>5. QED BY <1>3, <1>4 DEF RewriteRefs

\* A pull leaves the queue as it is.
LEMMA PullMaps ==
    ASSUME Base, Asked, PullsAsk, NEW s \in Slots, ApplyPull(s)
    PROVE  queue' = queue /\ DOMAIN Mapping(s) = {}
<1>1. Typed /\ OurRequest /\ DeviceTyped BY DEF Base
<1>2. /\ lane.job \in {"pull", "recover"} /\ s \in lane.slots /\ req[s].code = "ok" /\ ApplyResponse(s, queue)
    BY DEF ApplyPull, Replied
<1>3. lane.batch = {} BY <1>2 DEF PullsAsk
<1>4. Uuids(req[s].cmds) = {} BY <1>1, <1>2, <1>3 DEF OurRequest
<1>5. DOMAIN req[s].status = {} BY <1>4 DEF Asked
<1> PICK m : m = Mapping(s) OBVIOUS
<1>6. DOMAIN m = {} BY <1>5 DEF Mapping
<1>7. queue' = RewriteRefs(queue, m) BY <1>2 DEF ApplyResponse
<1>8. QED BY <1>1, <1>6, <1>7, RewriteNothing DEF DeviceTyped

-----------------------------------------------------------------------------
(* What is on its way to the disk: the steps *)

LEMMA WritesOn ==
    ASSUME lane'.job \notin {"lost", "gone"},
           Settles(disk', writes', lane'.step, queue', replica', syncToken', needsFullSync')
    PROVE  Writing'
BY DEF Writing, Lacks

LEMMA WritesGone ==
    ASSUME lane'.job \in {"lost", "gone"}, Emptied(disk', writes')
    PROVE  Writing'
BY DEF Writing, Lacks

LEMMA WrittenNow ==
    ASSUME Writing, up = "up", ~Reading, lane.job \notin {"lost", "gone"}
    PROVE  Settles(disk, writes, lane.step, queue, replica, syncToken, needsFullSync)
BY DEF Writing, Rests, Lacks

LEMMA SettlesTail ==
    ASSUME NEW d \in Disk, NEW ws \in Seq(Writes), ws # <<>>, NEW step, NEW q, NEW rep, NEW tok, NEW nfs,
           Settles(d, ws, step, q, rep, tok, nfs)
    PROVE  Settles([d EXCEPT ![Head(ws).key] = Head(ws).value], Tail(ws), step, q, rep, tok, nfs)
<1> PICK d2, tl : d2 = [d EXCEPT ![Head(ws).key] = Head(ws).value] /\ tl = Tail(ws) OBVIOUS
<1>1. ASSUME NEW key \in StoredKeys, NEW v, Latest(d, ws, key, v) PROVE Latest(d2, tl, key, v)
    BY <1>1, LatestTail
<1>2. /\ "queue" \in StoredKeys /\ "needsFullSync" \in StoredKeys /\ "token" \in StoredKeys
      /\ "replica" \in StoredKeys
    BY DEF StoredKeys
<1>3. QED BY <1>1, <1>2 DEF Settles

\* The lane only changes hands: nothing is left to write down.
LEMMA WritingLane ==
    ASSUME Writing, up = "up", ~Reading, lane.job \notin {"lost", "gone"}, lane'.job \notin {"lost", "gone"},
           lane.step \notin {"queue", "token"},
           UNCHANGED <<disk, writes, queue, replica, syncToken, needsFullSync>>
    PROVE  Writing'
<1>1. Settles(disk, writes, lane.step, queue, replica, syncToken, needsFullSync) BY WrittenNow
<1> PICK step : step = lane'.step OBVIOUS
<1>2. Settles(disk, writes, step, queue, replica, syncToken, needsFullSync) BY <1>1 DEF Settles
<1>3. QED BY <1>2, WritesOn

LEMMA WritingMutate ==
    ASSUME Base, Writing, NEW c \in Cmds, Mutate(c)
    PROVE  Writing'
<1>1. Typed /\ DeviceTyped BY DEF Base
<1>2. /\ up = "up" /\ lane.job \notin {"lost", "gone"} /\ c \in Mine
      /\ UNCHANGED <<process, syncToken, needsFullSync, lane, disk>>
    BY DEF Mutate, Active
<1>3. /\ queue' \in Queues /\ replica' \in Replicas
      /\ writes' = writes \o <<Forgotten("queue", queue'), Forgotten("replica", replica')>>
    BY <1>1, MutateType
<1> PICK q, rep, w1, w2, more : /\ q = queue' /\ rep = replica' /\ w1 = Forgotten("queue", queue')
                                /\ w2 = Forgotten("replica", replica') /\ more = <<w1, w2>>
    OBVIOUS
<1>4. /\ w1 \in Writes /\ w1.key = "queue" /\ w1.value = q
      /\ w2 \in Writes /\ w2.key = "replica" /\ w2.value = rep
    BY <1>3, WriteTypes, KeysOfWrites
<1>5. more \in Seq(Writes) /\ DOMAIN more = {1, 2} /\ more[1] = w1 /\ more[2] = w2 BY <1>4
<1>6. /\ LastWrite(more, "queue", q) /\ LastWrite(more, "replica", rep)
      /\ NoWrite(more, "token") /\ NoWrite(more, "needsFullSync")
    BY <1>4, <1>5 DEF LastWrite, NoWrite
<1>7. CASE Reading
  <2>1. ~Rests' => ~Reading' BY DEF Rests
  <2>2. Reading' BY <1>2, <1>7 DEF process, Reading
  <2>3. QED BY <2>1, <2>2 DEF Writing
<1>8. CASE ~Reading
  <2>1. Settles(disk, writes, lane.step, queue, replica, syncToken, needsFullSync) BY <1>2, <1>8, WrittenNow
  <2> PICK ws : ws = writes \o more OBVIOUS
  <2>2. writes \in Seq(Writes) BY <1>1 DEF DeviceTyped
  <2>3. \A key, v : LastWrite(more, key, v) => Latest(disk, ws, key, v) BY <1>5, <2>2, LatestJoin
  <2>4. \A key, v : NoWrite(more, key) /\ Latest(disk, writes, key, v) => Latest(disk, ws, key, v)
      BY <1>5, <2>2, LatestJoin
  <2>5. Latest(disk, ws, "queue", q) /\ Latest(disk, ws, "replica", rep) BY <1>6, <2>3
  <2>6. Latest(disk, ws, "needsFullSync", needsFullSync) BY <1>6, <2>1, <2>4 DEF Settles
  <2>7. lane.step # "queue" => Latest(disk, ws, "token", syncToken) BY <1>6, <2>1, <2>4 DEF Settles
  <2>8. Settles(disk, ws, lane.step, q, rep, syncToken, needsFullSync) BY <2>5, <2>6, <2>7 DEF Settles
  <2>9. writes' = ws /\ disk' = disk /\ lane' = lane BY <1>2, <1>3
  <2>10. QED BY <1>2, <2>8, <2>9, WritesOn
<1>9. QED BY <1>7, <1>8

\* A write is issued, and what it does not hold is on its way already.
Puts(w) ==
    /\ writes' = Append(writes, w) /\ UNCHANGED disk
    /\ (w.key = "queue" /\ w.value = queue') \/ (w.key # "queue" /\ UNCHANGED queue)
    /\ (w.key = "needsFullSync" /\ w.value = needsFullSync') \/ (w.key # "needsFullSync" /\ UNCHANGED needsFullSync)
    /\ lane'.step # "queue" =>
          \/ w.key = "token" /\ w.value = syncToken'
          \/ w.key # "token" /\ UNCHANGED syncToken /\ lane.step # "queue"
    /\ lane'.step \notin {"queue", "token"} =>
          \/ w.key = "replica" /\ w.value = replica'
          \/ w.key # "replica" /\ UNCHANGED replica /\ lane.step \notin {"queue", "token"}

LEMMA WritingAppend ==
    ASSUME Base, Writing, up = "up", ~Reading, lane.job \notin {"lost", "gone"}, lane'.job \notin {"lost", "gone"},
           NEW w \in Writes, Puts(w)
    PROVE  Writing'
<1>1. Settles(disk, writes, lane.step, queue, replica, syncToken, needsFullSync) BY WrittenNow
<1>2. writes \in Seq(Writes) BY DEF Base, DeviceTyped
<1> PICK ws : ws = Append(writes, w) OBVIOUS
<1>3. /\ Latest(disk, ws, w.key, w.value)
      /\ \A key, v : key # w.key /\ Latest(disk, writes, key, v) => Latest(disk, ws, key, v)
    BY <1>2, LatestAppend
<1> PICK q, rep, tok, nfs, step : /\ q = queue' /\ rep = replica' /\ tok = syncToken' /\ nfs = needsFullSync'
                                  /\ step = lane'.step
    OBVIOUS
<1>4. Latest(disk, ws, "queue", q) BY <1>1, <1>3 DEF Settles, Puts
<1>5. Latest(disk, ws, "needsFullSync", nfs) BY <1>1, <1>3 DEF Settles, Puts
<1>6. step # "queue" => Latest(disk, ws, "token", tok) BY <1>1, <1>3 DEF Settles, Puts
<1>7. step \notin {"queue", "token"} => Latest(disk, ws, "replica", rep) BY <1>1, <1>3 DEF Settles, Puts
<1>8. Settles(disk, ws, step, q, rep, tok, nfs) BY <1>4, <1>5, <1>6, <1>7 DEF Settles
<1>9. writes' = ws /\ disk' = disk BY DEF Puts
<1>10. QED BY <1>8, <1>9, WritesOn

LEMMA WritingReply ==
    ASSUME Careful, Settling, NEW s \in Slots, Step(s)
    PROVE  Writing'
<1>1. Base /\ Typed /\ OkIsApplied /\ DeviceTyped /\ OnlyMade /\ LaneShape /\ Asleep /\ Writing /\ Asked /\ PullsAsk
    BY DEF Careful, Base, Settling
<1>2. lane \in Lane /\ writes \in Seq(Writes) /\ queue \in Queues BY <1>1 DEF DeviceTyped
<1>3. lane.step \in {"reply", "flag"}
    BY DEF Step, MarkNeedsFullSync, ApplyFlush, ApplyPull, RetryLater, LoseAccess, Replied
<1>4. lane.job \in {"flush", "pull", "recover"} BY <1>1, <1>3 DEF LaneShape
<1>5. up = "up" /\ ~Reading BY <1>1, <1>3, Awake DEF Idle
<1>6. CASE MarkNeedsFullSync(s)
  <2> PICK w : w = Write("needsFullSync", TRUE) OBVIOUS
  <2>1. w \in Writes /\ w.key = "needsFullSync" /\ w.value = TRUE BY WriteTypes, KeysOfWrites
  <2>2. /\ UNCHANGED <<queue, replica, syncToken, disk>> /\ needsFullSync' = TRUE /\ lane.step = "reply"
        /\ writes' = writes \o <<w>> /\ lane' = [lane EXCEPT !.step = "flag"]
      BY <1>6 DEF MarkNeedsFullSync, Flag, Replied
  <2>3. writes' = Append(writes, w) BY <1>2, <2>1, <2>2, OneWrite
  <2>4. lane'.job = lane.job /\ lane'.step = "flag" BY <1>2, <2>2 DEF Lane
  <2>5. w.key # "queue" /\ w.key # "token" /\ w.key # "replica" BY <2>1
  <2>6. Puts(w) BY <1>3, <2>1, <2>2, <2>3, <2>4, <2>5 DEF Puts
  <2>7. QED BY <1>1, <1>4, <1>5, <2>1, <2>4, <2>6, WritingAppend
<1>7. CASE ApplyFlush(s)
  <2> PICK w : w = Write("queue", queue') OBVIOUS
  <2>1. /\ ApplyResponse(s, StillQueued) /\ writes' = Append(writes, w) /\ UNCHANGED <<disk, needsFullSync>>
        /\ lane' = [lane EXCEPT !.step = "queue", !.slots = {}, !.full = req[s].token = Star]
      BY <1>7 DEF ApplyFlush
  <2>2. StillQueued \in Queues BY <1>2, WithoutKeeps DEF StillQueued
  <2>3. queue' \in Queues BY <1>1, <2>1, <2>2, ResponseType
  <2>4. w \in Writes /\ w.key = "queue" /\ w.value = queue' BY <2>3, WriteTypes, KeysOfWrites
  <2>5. lane'.job = lane.job /\ lane'.step = "queue" BY <1>2, <2>1 DEF Lane
  <2>6. Puts(w) BY <2>1, <2>4, <2>5 DEF Puts
  <2>7. QED BY <1>1, <1>4, <1>5, <2>4, <2>5, <2>6, WritingAppend
<1>8. CASE ApplyPull(s)
  <2> PICK w : w = Write("token", syncToken') OBVIOUS
  <2>1. /\ ApplyResponse(s, queue) /\ writes' = Append(writes, w) /\ UNCHANGED <<disk, needsFullSync>>
        /\ lane' = [lane EXCEPT !.step = "token", !.slots = {}, !.full = req[s].token = Star]
      BY <1>8 DEF ApplyPull
  <2>2. queue' = queue BY <1>1, <1>8, PullMaps
  <2>3. syncToken' \in Tokens BY <1>1, <1>2, <2>1, ResponseType
  <2>4. w \in Writes /\ w.key = "token" /\ w.value = syncToken' BY <2>3, WriteTypes, KeysOfWrites
  <2>5. lane'.job = lane.job /\ lane'.step = "token" BY <1>2, <2>1 DEF Lane
  <2>6. w.key # "queue" /\ w.key # "needsFullSync" BY <2>4
  <2>7. Puts(w) BY <2>1, <2>2, <2>4, <2>5, <2>6 DEF Puts
  <2>8. QED BY <1>1, <1>4, <1>5, <2>4, <2>5, <2>7, WritingAppend
<1>9. CASE RetryLater(s)
  <2>1. UNCHANGED <<queue, replica, syncToken, needsFullSync, disk, writes>> /\ LeaveLane BY <1>9 DEF RetryLater
  <2>2. lane'.job \notin {"lost", "gone"} BY <2>1, LeaveIs
  <2>3. QED BY <1>1, <1>3, <1>4, <1>5, <2>1, <2>2, WritingLane
<1>10. CASE LoseAccess(s)
  <2> PICK n, p, w1, w2, w3, w4, w5 :
        /\ n = Cardinality(Doomed) /\ p = Purge(n)
        /\ w1 = Write("lossNotice", n) /\ w2 = Write("replica", NoReplica) /\ w3 = Write("token", Star)
        /\ w4 = Write("needsFullSync", FALSE) /\ w5 = Write("queue", <<>>)
      OBVIOUS
  <2>1. writes' = writes \o p /\ UNCHANGED disk /\ lane'.job = "lost" BY <1>10 DEF LoseAccess, Idle
  <2>2. p \in Seq(Writes) BY <1>1, DoomedType, PurgeType
  <2>3. /\ w1.key = "lossNotice" /\ w2.key = "replica" /\ w2.value = NoReplica /\ w3.key = "token" /\ w3.value = Star
        /\ w4.key = "needsFullSync" /\ w4.value = FALSE /\ w5.key = "queue" /\ w5.value = <<>>
      BY KeysOfWrites
  <2>4. p = <<w1, w2, w3, w4, w5>> BY DEF Purge
  <2>5. DOMAIN p = 1..5 /\ p[1] = w1 /\ p[2] = w2 /\ p[3] = w3 /\ p[4] = w4 /\ p[5] = w5 BY <2>4
  <2>7. LastWrite(p, "queue", <<>>)
    <3>1. \A k \in DOMAIN p : ~(k > 5) BY <2>5
    <3>2. 5 \in DOMAIN p /\ p[5].key = "queue" /\ p[5].value = <<>> BY <2>3, <2>5
    <3>3. QED BY <3>1, <3>2 DEF LastWrite
  <2>8. LastWrite(p, "needsFullSync", FALSE)
    <3>1. \A k \in DOMAIN p : k > 4 => k = 5 BY <2>5
    <3>2. \A k \in DOMAIN p : k > 4 => p[k].key # "needsFullSync" BY <2>3, <2>5, <3>1
    <3>3. 4 \in DOMAIN p /\ p[4] = w4 BY <2>5
    <3>4. p[4].key = "needsFullSync" /\ p[4].value = FALSE BY <2>3, <3>3
    <3>5. QED BY <3>2, <3>3, <3>4 DEF LastWrite
  <2>9. LastWrite(p, "token", Star)
    <3>1. \A k \in DOMAIN p : k > 3 => k = 4 \/ k = 5 BY <2>5
    <3>2. \A k \in DOMAIN p : k > 3 => p[k].key # "token" BY <2>3, <2>5, <3>1
    <3>3. 3 \in DOMAIN p /\ p[3].key = "token" /\ p[3].value = Star BY <2>3, <2>5
    <3>4. QED BY <3>2, <3>3 DEF LastWrite
  <2>10. LastWrite(p, "replica", NoReplica)
    <3>1. \A k \in DOMAIN p : k > 2 => k = 3 \/ k = 4 \/ k = 5 BY <2>5
    <3>2. \A k \in DOMAIN p : k > 2 => p[k].key # "replica" BY <2>3, <2>5, <3>1
    <3>3. 2 \in DOMAIN p /\ p[2].key = "replica" /\ p[2].value = NoReplica BY <2>3, <2>5
    <3>4. QED BY <3>2, <3>3 DEF LastWrite
  <2>11. \A key, v : LastWrite(p, key, v) => Latest(disk, writes \o p, key, v) BY <1>2, <2>2, LatestJoin
  <2>12. Emptied(disk, writes \o p) BY <2>7, <2>8, <2>9, <2>10, <2>11 DEF Emptied, Settles
  <2>13. Emptied(disk', writes') BY <2>1, <2>12
  <2>14. QED BY <2>1, <2>13, WritesGone
<1>11. QED BY <1>6, <1>7, <1>8, <1>9, <1>10 DEF Step

LEMMA WritingSettle ==
    ASSUME Careful, Writing, Settle
    PROVE  Writing'
<1>1. DeviceTyped /\ Asleep BY DEF Careful, Base
<1>2. /\ writes # <<>> /\ ~Reading /\ writes' = Tail(writes) /\ UNCHANGED <<process, volatile>>
      /\ disk' = [disk EXCEPT ![Head(writes).key] = Head(writes).value]
    BY DEF Settle, Settled
<1>3. writes \in Seq(Writes) /\ disk \in Disk BY <1>1 DEF DeviceTyped
<1>4. up = "up" /\ ~Reading BY <1>1, <1>2, Awake
<1>5. UNCHANGED <<lane, queue, replica, syncToken, needsFullSync>> BY <1>2 DEF volatile
<1>6. CASE lane.job \in {"lost", "gone"}
  <2>1. Emptied(disk, writes) BY <1>4, <1>6 DEF Writing, Rests, Lacks
  <2>2. Emptied([disk EXCEPT ![Head(writes).key] = Head(writes).value], Tail(writes))
      BY <1>2, <1>3, <2>1, SettlesTail DEF Emptied
  <2>3. Emptied(disk', writes') BY <1>2, <2>2
  <2>4. QED BY <1>5, <1>6, <2>3, WritesGone
<1>7. CASE lane.job \notin {"lost", "gone"}
  <2>1. Settles(disk, writes, lane.step, queue, replica, syncToken, needsFullSync) BY <1>4, <1>7, WrittenNow
  <2>2. Settles([disk EXCEPT ![Head(writes).key] = Head(writes).value], Tail(writes), lane.step, queue, replica, syncToken, needsFullSync)
      BY <1>2, <1>3, <2>1, SettlesTail
  <2>3. Settles(disk', writes', lane'.step, queue', replica', syncToken', needsFullSync') BY <1>2, <1>5, <2>2
  <2>4. QED BY <1>5, <1>7, <2>3, WritesOn
<1>8. QED BY <1>6, <1>7

LEMMA WritingPersist ==
    ASSUME Careful, Writing, PersistToken \/ PersistReplica \/ ClearNeedsFullSync
    PROVE  Writing'
<1>1. Base /\ DeviceTyped /\ LaneShape /\ Asleep BY DEF Careful, Base
<1>2. replica \in Replicas /\ syncToken \in Tokens /\ lane \in Lane BY <1>1 DEF DeviceTyped
<1>3. UNCHANGED <<queue, replica, syncToken, disk>> /\ writes = <<>> /\ lane.step # "start"
    BY DEF PersistToken, PersistReplica, ClearNeedsFullSync, Settled
<1>4. lane.job \in {"flush", "pull", "recover"} BY <1>1, <1>3 DEF LaneShape
<1>5. up = "up" /\ ~Reading BY <1>1, <1>3, Awake DEF Idle
<1>6. \A w \in Writes : Append(<<>>, w) = <<w>> OBVIOUS
<1>7. CASE PersistToken
  <2> PICK w : w = Write("token", syncToken) OBVIOUS
  <2>1. /\ lane.step = "queue" /\ writes' = <<w>> /\ lane' = [lane EXCEPT !.step = "token"]
        /\ UNCHANGED needsFullSync
      BY <1>7 DEF PersistToken
  <2>2. w \in Writes /\ w.key = "token" /\ w.value = syncToken' BY <1>2, <1>3, WriteTypes, KeysOfWrites
  <2>3. lane'.job = lane.job /\ lane'.step = "token" /\ writes' = Append(writes, w)
      BY <1>2, <1>3, <1>6, <2>1, <2>2 DEF Lane
  <2>4. w.key # "queue" /\ w.key # "needsFullSync" BY <2>2
  <2>5. Puts(w) BY <1>3, <2>1, <2>2, <2>3, <2>4 DEF Puts
  <2>6. QED BY <1>1, <1>4, <1>5, <2>2, <2>3, <2>5, WritingAppend
<1>8. CASE PersistReplica
  <2> PICK w : w = Write("replica", replica) OBVIOUS
  <2>1. /\ lane.step = "token" /\ writes' = <<w>> /\ lane' = [lane EXCEPT !.step = "replica"]
        /\ UNCHANGED needsFullSync
      BY <1>8 DEF PersistReplica
  <2>2. w \in Writes /\ w.key = "replica" /\ w.value = replica' BY <1>2, <1>3, WriteTypes, KeysOfWrites
  <2>3. lane'.job = lane.job /\ lane'.step = "replica" /\ writes' = Append(writes, w)
      BY <1>2, <1>3, <1>6, <2>1, <2>2 DEF Lane
  <2>4. w.key # "queue" /\ w.key # "needsFullSync" /\ w.key # "token" BY <2>2
  <2>5. Puts(w) BY <1>3, <2>1, <2>2, <2>3, <2>4 DEF Puts
  <2>6. QED BY <1>1, <1>4, <1>5, <2>2, <2>3, <2>5, WritingAppend
<1>9. CASE ClearNeedsFullSync
  <2> PICK w : w = Write("needsFullSync", FALSE) OBVIOUS
  <2>1. /\ lane.step = "replica" /\ writes' = <<w>> /\ lane' = [lane EXCEPT !.step = "clear"]
        /\ needsFullSync' = FALSE
      BY <1>9 DEF ClearNeedsFullSync
  <2>2. w \in Writes /\ w.key = "needsFullSync" /\ w.value = FALSE BY WriteTypes, KeysOfWrites
  <2>3. lane'.job = lane.job /\ lane'.step = "clear" /\ writes' = Append(writes, w)
      BY <1>2, <1>3, <1>6, <2>1, <2>2 DEF Lane
  <2>4. w.key # "queue" /\ w.key # "replica" /\ w.key # "token" BY <2>2
  <2>5. Puts(w) BY <1>3, <2>1, <2>2, <2>3, <2>4 DEF Puts
  <2>6. QED BY <1>1, <1>4, <1>5, <2>2, <2>3, <2>5, WritingAppend
<1>10. QED BY <1>7, <1>8, <1>9

LEMMA WritingReported ==
    ASSUME Careful, Writing, ReportLoss
    PROVE  Writing'
<1>1. DeviceTyped /\ Asleep BY DEF Careful, Base
<1> PICK w, ws : w = Write("lossNotice", 0) /\ ws = <<w>> OBVIOUS
<1>2. lane.job = "lost" /\ writes = <<>> /\ writes' = ws /\ lane'.job = "gone" /\ UNCHANGED disk
    BY DEF ReportLoss, Settled, Idle
<1>3. up = "up" /\ ~Reading BY <1>1, <1>2, Awake DEF Idle
<1>4. Emptied(disk, <<>>) BY <1>2, <1>3 DEF Writing, Rests, Lacks
<1>5. w \in Writes /\ w.key = "lossNotice" BY WriteTypes, KeysOfWrites
<1>6. <<>> \in Seq(Writes) /\ Append(<<>>, w) = ws OBVIOUS
<1>7. \A key, v : key # w.key /\ Latest(disk, <<>>, key, v) => Latest(disk, ws, key, v)
    BY <1>5, <1>6, LatestAppend
<1>8. Emptied(disk, ws) BY <1>4, <1>5, <1>7 DEF Emptied, Settles
<1>9. Emptied(disk', writes') BY <1>2, <1>8
<1>10. QED BY <1>2, <1>9, WritesGone

LEMMA WritingHydrated ==
    ASSUME Careful, Hydrated
    PROVE  Writing'
<1>1. Asleep BY DEF Careful
<1>2. /\ Reading /\ Fill(stored) /\ UNCHANGED <<lane, disk, writes>> BY DEF Hydrated
<1>3. /\ writes = <<>> /\ queue = <<>> /\ replica = NoReplica /\ syncToken = Star /\ lane = Idle
      /\ stored = Found
    BY <1>1, <1>2 DEF Asleep
<1>4. /\ stored.queue = disk.queue /\ stored.replica = disk.replica /\ stored.token = disk.token
      /\ stored.needsFullSync = disk.needsFullSync
    BY <1>3 DEF Found
<1>5. /\ queue' = disk.queue /\ replica' = disk.replica /\ syncToken' = disk.token
      /\ needsFullSync' = disk.needsFullSync
    BY <1>2, <1>3, <1>4 DEF Fill
<1>6. Settles(disk, <<>>, lane.step, disk.queue, disk.replica, disk.token, disk.needsFullSync)
    BY LatestDone DEF Settles
<1>7. lane'.job \notin {"lost", "gone"} BY <1>2, <1>3 DEF Idle
<1>8. Settles(disk', writes', lane'.step, queue', replica', syncToken', needsFullSync')
    BY <1>2, <1>3, <1>5, <1>6
<1>9. QED BY <1>7, <1>8, WritesOn

LEMMA WritingPurge ==
    ASSUME DeviceTyped, PurgeSteps
    PROVE  Writing'
<1>1. up' = "down" BY PurgeKeeps
<1>2. QED BY <1>1 DEF Writing, Rests

LEMMA WritingRun ==
    ASSUME ~ActsEarly, Careful, Settling, Run
    PROVE  Writing'
<1>1. Base /\ DeviceTyped /\ LaneShape /\ Asleep /\ Writing BY DEF Careful, Base, Settling
<1>2. lane \in Lane BY <1>1 DEF DeviceTyped
<1>3. CASE StartFlush \/ SendBatch \/ SendPull \/ EndReply
  <2>1. UNCHANGED <<disk, writes, queue, replica, syncToken, needsFullSync>>
      BY <1>3 DEF StartFlush, SendBatch, SendPull, EndReply
  <2>2. lane.job \notin {"lost", "gone"} /\ lane.step \notin {"queue", "token"}
    <3>1. CASE StartFlush BY <1>1, <3>1 DEF StartFlush, LaneShape
    <3>2. CASE SendBatch BY <3>2 DEF SendBatch
    <3>3. CASE SendPull BY <1>1, <3>3 DEF SendPull, LaneShape
    <3>4. CASE EndReply BY <1>1, <3>4 DEF EndReply, LaneShape
    <3>5. QED BY <1>3, <3>1, <3>2, <3>3, <3>4
  <2>3. lane'.job \notin {"lost", "gone"}
    <3>1. CASE StartFlush BY <3>1 DEF StartFlush, Idle
    <3>2. CASE SendBatch
      <4>1. PICK t, b : lane' = [lane EXCEPT !.step = "reply", !.slots = {t}, !.batch = b]
          BY <3>2 DEF SendBatch, DoSync
      <4>2. QED BY <1>2, <2>2, <4>1 DEF Lane
    <3>3. CASE SendPull
      <4>1. lane'.job \in {"pull", "recover"} BY <3>3 DEF SendPull, Idle
      <4>2. QED BY <4>1
    <3>4. CASE EndReply
      <4>1. lane'.job \in {"flush", "recover", "idle"} BY <3>4 DEF EndReply, LeaveLane, Idle
      <4>2. QED BY <4>1
    <3>5. QED BY <1>3, <3>1, <3>2, <3>3, <3>4
  <2>4. up = "up" /\ ~Reading
    <3>1. CASE SendBatch BY <1>1, <3>1, Awake DEF SendBatch, Idle
    <3>2. CASE StartFlush BY <3>2 DEF StartFlush, Active
    <3>3. CASE SendPull
      <4>1. CASE Active BY <4>1 DEF Active
      <4>2. CASE lane.job = "recover" BY <1>1, <4>2, Awake DEF Idle
      <4>3. QED BY <3>3, <4>1, <4>2 DEF SendPull
    <3>4. CASE EndReply BY <1>1, <3>4, Awake DEF EndReply, Idle
    <3>5. QED BY <1>3, <3>1, <3>2, <3>3, <3>4
  <2>5. QED BY <1>1, <2>1, <2>2, <2>3, <2>4, WritingLane
<1>4. CASE Boot \/ BootFromCache
  <2>1. stored' = Found BY <1>4 DEF Boot, BootFromCache, Hydrate
  <2>2. stored' # NoAnswer BY <2>1 DEF Found, NoAnswer
  <2>3. QED BY <2>2 DEF Writing, Rests, Reading
<1>5. PurgeSteps => Writing' BY <1>1, WritingPurge
<1>6. QED BY <1>1, <1>3, <1>4, <1>5, WritingSettle, WritingPersist, WritingReported, WritingHydrated
         DEF Run, PurgeSteps, Careful

LEMMA SettlingInit == ClientInit => Settling
<1> SUFFICES ASSUME ClientInit PROVE Settling OBVIOUS
<1>1. Init /\ up = "down" /\ lane = Idle BY DEF ClientInit
<1>2. Asked
  <2>1. \A s \in Slots : req[s] = Free BY <1>1 DEF Init
  <2>2. Free.status = <<>> /\ DOMAIN <<>> = {} BY DEF Free
  <2>3. QED BY <2>1, <2>2 DEF Asked
<1>3. QED BY <1>1, <1>2 DEF Settling, Writing, Rests, PullsAsk, Idle

LEMMA SettlingStep ==
    ASSUME ~ActsEarly, ~WritesFail, Careful, Settling, [ClientNext]_vars
    PROVE  Settling'
<1>1. Base /\ Typed /\ DeviceTyped /\ LaneShape /\ Asleep /\ Writing /\ Asked /\ PullsAsk
    BY DEF Careful, Base, Settling
<1>2. ASSUME UNCHANGED <<process, volatile, disk, writes>> PROVE Writing'
    BY <1>1, <1>2 DEF Writing, Rests, Lacks, Reading, Emptied, process, volatile
<1>3. CASE ClientNext
  <2>1. ServerStep BY <1>1, <1>3, DeviceServerStep
  <2>2. Asked' /\ PullsAsk' BY <1>1, <1>3, <2>1, AskedStep, PullsAskStep
  <2>3. ASSUME NEW c \in Cmds, Mutate(c) PROVE Writing' BY <1>1, <2>3, WritingMutate
  <2>4. ASSUME NEW c \in Cmds, OtherDevice(c) PROVE Writing' BY <1>2, <2>4 DEF OtherDevice, clientVars
  <2>5. ASSUME NEW s \in Slots, Step(s) PROVE Writing' BY <2>5, WritingReply
  <2>6. ASSUME NEW s \in Slots, GiveUp(s) PROVE Writing'
    <3>1. /\ UNCHANGED <<process, queue, replica, syncToken, needsFullSync, disk, writes>> /\ LeaveLane
          /\ lane.step = "reply"
        BY <2>6 DEF GiveUp
    <3>2. lane.job \notin {"lost", "gone"} BY <1>1, <3>1 DEF LaneShape
    <3>3. up = "up" /\ ~Reading BY <1>1, <3>1, Awake DEF Idle
    <3>4. lane'.job \notin {"lost", "gone"} BY <3>1, LeaveIs
    <3>5. QED BY <1>1, <3>1, <3>2, <3>3, <3>4, WritingLane
  <2>7. ASSUME NEW s \in Slots, DropOrphan(s) \/ Serving(s) \/ Failing(s) PROVE Writing'
      BY <1>2, <2>7 DEF DropOrphan, Serving, Failing, clientVars
  <2>8. Run => Writing' BY WritingRun
  <2>9. Kill => Writing' BY DEF Kill, Writing, Rests
  <2>10. ~WriteFails BY DEF WriteFails
  <2>11. Membership => Writing' BY <1>2 DEF Membership, clientVars
  <2>12. KillInPurge => Writing' BY <1>1, WritingPurge DEF PurgeSteps
  <2>13. Writing' BY <1>3, <2>3, <2>4, <2>5, <2>6, <2>7, <2>8, <2>9, <2>10, <2>11, <2>12 DEF ClientNext
  <2>14. QED BY <2>2, <2>13 DEF Settling
<1>4. CASE UNCHANGED vars
  <2>1. UNCHANGED serverVars /\ UNCHANGED clientVars BY <1>4 DEF vars
  <2>2. Asked' BY <1>1, <2>1, AskedStep DEF ServerStep
  <2>3. Writing' /\ PullsAsk' BY <1>1, <1>2, <2>1 DEF clientVars, volatile, PullsAsk
  <2>4. QED BY <2>2, <2>3 DEF Settling
<1>5. QED BY <1>3, <1>4

-----------------------------------------------------------------------------
(* What the device is about to show: its memory, or what a start will find *)

AtWork == ~Rests /\ ~Lacks
Queue == IF Rests THEN disk.queue ELSE IF Lacks THEN <<>> ELSE queue
Screen == IF Rests THEN disk.replica ELSE IF Lacks THEN NoReplica ELSE replica
Token == IF Rests THEN disk.token ELSE IF Lacks THEN Star ELSE syncToken
Repairs == IF Rests THEN disk.needsFullSync ELSE IF Lacks THEN FALSE ELSE needsFullSync

\* Nothing is shown, queued or remembered.
Blanked == Queue = <<>> /\ Screen = NoReplica /\ Token = Star /\ Repairs = FALSE

\* Only these steps change what is shown while the device works.
Turns ==
    /\ AtWork /\ AtWork'
    /\ \/ \E c \in Cmds : Mutate(c)
       \/ \E s \in Slots : MarkNeedsFullSync(s) \/ ApplyFlush(s) \/ ApplyPull(s)
       \/ ClearNeedsFullSync

\* A purge takes away the screen first.
Seen ==
    UNCHANGED <<Queue, Screen, Token, Repairs>> \/ Blanked' \/ (PurgeSteps /\ Screen' = NoReplica) \/ Turns

LEMMA SeenSame ==
    ASSUME UNCHANGED <<process, disk, lane, queue, replica, syncToken, needsFullSync>>
    PROVE  Seen
BY DEF Seen, Queue, Screen, Token, Repairs, Rests, Lacks, Reading, process

\* The memory, as it works before and after the step.
LEMMA SeenWorks ==
    ASSUME AtWork, UNCHANGED <<process, queue, replica, syncToken, needsFullSync>>,
           lane'.job \notin {"lost", "gone"}
    PROVE  Seen
<1>1. AtWork' BY DEF AtWork, Rests, Lacks, Reading, process
<1>2. QED BY <1>1 DEF Seen, Queue, Screen, Token, Repairs, AtWork

LEMMA WorksOn ==
    ASSUME AtWork, UNCHANGED process, lane'.job \notin {"lost", "gone"}
    PROVE  AtWork'
BY DEF AtWork, Rests, Lacks, Reading, process

LEMMA SeenReply ==
    ASSUME Careful, NEW s \in Slots, Step(s)
    PROVE  Seen
<1>1. DeviceTyped /\ LaneShape /\ Asleep BY DEF Careful, Base
<1>2. lane \in Lane BY <1>1 DEF DeviceTyped
<1>3. lane.step \in {"reply", "flag"} /\ UNCHANGED process
    BY DEF Step, MarkNeedsFullSync, ApplyFlush, ApplyPull, RetryLater, LoseAccess, Replied
<1>4. lane.job \in {"flush", "pull", "recover"} BY <1>1, <1>3 DEF LaneShape
<1>5. up = "up" /\ ~Reading BY <1>1, <1>3, Awake DEF Idle
<1>6. AtWork BY <1>4, <1>5 DEF AtWork, Rests, Lacks
<1>7. CASE MarkNeedsFullSync(s) \/ ApplyFlush(s) \/ ApplyPull(s)
  <2>1. lane'.job = lane.job BY <1>2, <1>7 DEF MarkNeedsFullSync, ApplyFlush, ApplyPull, Lane
  <2>2. AtWork' BY <1>3, <1>4, <1>6, <2>1, WorksOn
  <2>3. QED BY <1>6, <1>7, <2>2 DEF Seen, Turns
<1>8. CASE RetryLater(s)
  <2>1. UNCHANGED <<queue, replica, syncToken, needsFullSync>> /\ LeaveLane BY <1>8 DEF RetryLater
  <2>2. lane'.job \notin {"lost", "gone"} BY <2>1, LeaveIs
  <2>3. QED BY <1>3, <1>6, <2>1, <2>2, SeenWorks
<1>9. CASE LoseAccess(s)
  <2>1. lane'.job = "lost" BY <1>9 DEF LoseAccess, Idle
  <2>2. ~Rests' BY <1>3, <1>5 DEF Rests, Reading, process
  <2>3. Blanked' BY <2>1, <2>2 DEF Blanked, Queue, Screen, Token, Repairs, Lacks
  <2>4. QED BY <2>3 DEF Seen
<1>10. QED BY <1>7, <1>8, <1>9 DEF Step

\* A kill between two replies loses nothing: all of the memory is on the disk.
LEMMA SeenKill ==
    ASSUME ~KillAnywhere, Careful, Writing, Kill
    PROVE  Seen
<1>1. DeviceTyped /\ LaneShape /\ Asleep BY DEF Careful, Base
<1>2. /\ up = "up" /\ up' = "down" /\ UNCHANGED disk
      /\ writes = <<>> /\ lane.step \in {"start", "reply"} /\ lane.job # "lost"
    BY DEF Kill, Settled
<1>3. Rests' BY <1>2 DEF Rests
<1>4. Queue' = disk.queue /\ Screen' = disk.replica /\ Token' = disk.token /\ Repairs' = disk.needsFullSync
    BY <1>2, <1>3 DEF Queue, Screen, Token, Repairs
<1>5. CASE Reading
  <2>1. Rests BY <1>5 DEF Rests
  <2>2. QED BY <1>4, <2>1 DEF Seen, Queue, Screen, Token, Repairs
<1>6. CASE ~Reading /\ lane.job = "gone"
  <2>1. Emptied(disk, <<>>) BY <1>2, <1>6 DEF Writing, Rests, Lacks
  <2>2. /\ disk.queue = <<>> /\ disk.replica = NoReplica /\ disk.token = Star /\ disk.needsFullSync = FALSE
      BY <2>1, LatestDone DEF Emptied, Settles
  <2>3. Blanked' BY <1>4, <2>2 DEF Blanked
  <2>4. QED BY <2>3 DEF Seen
<1>7. CASE ~Reading /\ lane.job \notin {"lost", "gone"}
  <2>1. Settles(disk, <<>>, lane.step, queue, replica, syncToken, needsFullSync) BY <1>2, <1>7, WrittenNow
  <2>2. /\ disk.queue = queue /\ disk.replica = replica /\ disk.token = syncToken
        /\ disk.needsFullSync = needsFullSync
      BY <1>2, <2>1, LatestDone DEF Settles
  <2>3. ~Rests /\ ~Lacks BY <1>2, <1>7 DEF Rests, Lacks
  <2>4. QED BY <1>4, <2>2, <2>3 DEF Seen, Queue, Screen, Token, Repairs
<1>8. QED BY <1>2, <1>5, <1>6, <1>7

LEMMA SeenPurge ==
    ASSUME Careful, PurgeSteps
    PROVE  Seen
<1>1. DeviceTyped /\ Purged BY DEF Careful, Base
<1>2. up = "down" /\ up' = up /\ (~RemoveKey => disk' = disk) BY <1>1, PurgeKeeps
<1>3. Rests /\ Rests' BY <1>2 DEF Rests
<1>4. CASE RemoveKey
  <2>1. Purging /\ purge.removed \in 0..4 /\ Removes(disk, disk', purge.removed + 1) BY <1>1, <1>4, RemoveKeyIs
  <2>2. disk'.replica = NoReplica BY <1>1, <2>1 DEF Removes, Purged
  <2>3. QED BY <1>3, <2>2 DEF Seen, Screen
<1>5. CASE ~RemoveKey BY <1>2, <1>3, <1>5 DEF Seen, Queue, Screen, Token, Repairs
<1>6. QED BY <1>4, <1>5

LEMMA SeenRun ==
    ASSUME ~ActsEarly, Careful, Run
    PROVE  Seen
<1>1. DeviceTyped /\ LaneShape /\ Asleep BY DEF Careful, Base
<1>2. lane \in Lane BY <1>1 DEF DeviceTyped
<1>3. CASE Settle
  <2>1. writes # <<>> /\ UNCHANGED <<process, volatile>> BY <1>3 DEF Settle, Settled
  <2>2. ~Rests BY <1>1, <2>1, Awake DEF Rests
  <2>3. UNCHANGED <<lane, queue, replica, syncToken, needsFullSync>> BY <2>1 DEF volatile
  <2>4. ~Rests' BY <2>1, <2>2 DEF Rests, Reading, process
  <2>5. QED BY <2>2, <2>3, <2>4 DEF Seen, Queue, Screen, Token, Repairs, Lacks
<1>4. CASE StartFlush \/ SendBatch \/ SendPull \/ EndReply \/ PersistToken \/ PersistReplica
  <2>1. UNCHANGED <<process, queue, replica, syncToken, needsFullSync>>
      BY <1>4 DEF StartFlush, SendBatch, SendPull, EndReply, PersistToken, PersistReplica
  <2>2. lane.job \notin {"lost", "gone"}
    <3>1. StartFlush \/ SendBatch \/ SendPull => lane.job \notin {"lost", "gone"}
        BY DEF StartFlush, SendBatch, SendPull
    <3>2. EndReply \/ PersistToken \/ PersistReplica => lane.job \notin {"lost", "gone"}
        BY <1>1 DEF EndReply, PersistToken, PersistReplica, LaneShape
    <3>3. QED BY <1>4, <3>1, <3>2
  <2>3. lane'.job \notin {"lost", "gone"}
    <3>1. StartFlush => lane'.job = "flush" BY DEF StartFlush, Idle
    <3>2. CASE SendBatch
      <4>1. PICK t, b : lane' = [lane EXCEPT !.step = "reply", !.slots = {t}, !.batch = b]
          BY <3>2 DEF SendBatch, DoSync
      <4>2. QED BY <1>2, <2>2, <4>1 DEF Lane
    <3>3. SendPull => lane'.job \in {"pull", "recover"} BY DEF SendPull, Idle
    <3>4. EndReply => lane'.job \in {"flush", "recover", "idle"} BY DEF EndReply, LeaveLane, Idle
    <3>5. PersistToken \/ PersistReplica => lane'.job = lane.job BY <1>2 DEF PersistToken, PersistReplica, Lane
    <3>6. QED BY <1>4, <2>2, <3>1, <3>2, <3>3, <3>4, <3>5
  <2>4. up = "up" /\ ~Reading
    <3>1. CASE SendBatch BY <1>1, <3>1, Awake DEF SendBatch, Idle
    <3>2. CASE StartFlush BY <3>2 DEF StartFlush, Active
    <3>3. CASE SendPull
      <4>1. CASE Active BY <4>1 DEF Active
      <4>2. CASE lane.job = "recover" BY <1>1, <4>2, Awake DEF Idle
      <4>3. QED BY <3>3, <4>1, <4>2 DEF SendPull
    <3>4. CASE EndReply \/ PersistToken \/ PersistReplica
        BY <1>1, <3>4, Awake DEF EndReply, PersistToken, PersistReplica, Idle
    <3>5. QED BY <1>4, <3>1, <3>2, <3>3, <3>4
  <2>5. AtWork BY <2>2, <2>4 DEF AtWork, Rests, Lacks
  <2>6. QED BY <2>1, <2>3, <2>5, SeenWorks
<1>5. CASE ClearNeedsFullSync
  <2>1. lane.step = "replica" /\ lane' = [lane EXCEPT !.step = "clear"] /\ UNCHANGED process
      BY <1>5 DEF ClearNeedsFullSync
  <2>2. lane.job \in {"flush", "pull", "recover"} /\ lane'.job = lane.job BY <1>1, <1>2, <2>1 DEF LaneShape, Lane
  <2>3. up = "up" /\ ~Reading BY <1>1, <2>1, Awake DEF Idle
  <2>4. AtWork BY <2>2, <2>3 DEF AtWork, Rests, Lacks
  <2>5. AtWork' BY <2>1, <2>2, <2>4, WorksOn
  <2>6. QED BY <1>5, <2>4, <2>5 DEF Seen, Turns
<1>6. CASE ReportLoss
  <2>1. lane.job = "lost" /\ lane'.job = "gone" /\ UNCHANGED process BY <1>6 DEF ReportLoss, Idle
  <2>2. up = "up" /\ ~Reading BY <1>1, <2>1, Awake DEF Idle
  <2>3. ~Rests' BY <2>1, <2>2 DEF Rests, Reading, process
  <2>4. Blanked' BY <2>1, <2>3 DEF Blanked, Queue, Screen, Token, Repairs, Lacks
  <2>5. QED BY <2>4 DEF Seen
<1>7. CASE Boot \/ BootFromCache
  <2>1. up = "down" /\ stored' = Found BY <1>7 DEF Boot, BootFromCache, Hydrate
  <2>2. Rests /\ Rests'
    <3>1. stored' # NoAnswer BY <2>1 DEF Found, NoAnswer
    <3>2. QED BY <2>1, <3>1 DEF Rests, Reading
  <2>3. /\ disk'.queue = disk.queue /\ disk'.replica = disk.replica /\ disk'.token = disk.token
        /\ disk'.needsFullSync = disk.needsFullSync
      BY <1>1, <1>7 DEF Boot, BootFromCache, DeviceTyped, Disk
  <2>4. QED BY <2>2, <2>3 DEF Seen, Queue, Screen, Token, Repairs
<1>8. CASE Hydrated
  <2>1. Reading /\ Fill(stored) /\ stored' = NoAnswer /\ UNCHANGED <<up, lane, disk>> BY <1>8 DEF Hydrated
  <2>2. /\ queue = <<>> /\ replica = NoReplica /\ syncToken = Star /\ lane = Idle /\ stored = Found /\ up = "up"
      BY <1>1, <2>1 DEF Asleep
  <2>3. /\ stored.queue = disk.queue /\ stored.replica = disk.replica /\ stored.token = disk.token
        /\ stored.needsFullSync = disk.needsFullSync
      BY <2>2 DEF Found
  <2>4. /\ queue' = disk.queue /\ replica' = disk.replica /\ syncToken' = disk.token
        /\ needsFullSync' = disk.needsFullSync
      BY <2>1, <2>2, <2>3 DEF Fill
  <2>5. Rests /\ ~Rests' /\ ~Lacks' BY <2>1, <2>2 DEF Rests, Lacks, Reading, Idle
  <2>6. QED BY <2>4, <2>5 DEF Seen, Queue, Screen, Token, Repairs
<1>9. QED BY <1>3, <1>4, <1>5, <1>6, <1>7, <1>8, SeenPurge DEF Run, PurgeSteps

LEMMA SeenStep ==
    ASSUME ~ActsEarly, ~KillAnywhere, ~WritesFail, Careful, Settling, [ClientNext]_vars
    PROVE  Seen
<1>1. Base /\ Typed /\ DeviceTyped /\ LaneShape /\ Asleep /\ Writing BY DEF Careful, Base, Settling
<1>2. UNCHANGED clientVars => Seen BY SeenSame DEF clientVars, volatile
<1>3. ASSUME NEW c \in Cmds, Mutate(c) PROVE Seen
  <2>1. AtWork /\ UNCHANGED <<process, lane>> BY <1>3 DEF Mutate, Active, AtWork, Rests, Lacks
  <2>2. AtWork' BY <2>1, WorksOn DEF AtWork, Lacks
  <2>3. QED BY <1>3, <2>1, <2>2 DEF Seen, Turns
<1>4. ASSUME NEW s \in Slots, GiveUp(s) PROVE Seen
  <2>1. UNCHANGED <<process, queue, replica, syncToken, needsFullSync>> /\ LeaveLane /\ lane.step = "reply"
      BY <1>4 DEF GiveUp
  <2>2. lane.job \notin {"lost", "gone"} BY <1>1, <2>1 DEF LaneShape
  <2>3. up = "up" /\ ~Reading BY <1>1, <2>1, Awake DEF Idle
  <2>4. lane'.job \notin {"lost", "gone"} BY <2>1, LeaveIs
  <2>5. AtWork BY <2>2, <2>3 DEF AtWork, Rests, Lacks
  <2>6. QED BY <2>1, <2>4, <2>5, SeenWorks
<1>5. ASSUME NEW s \in Slots, Failing(s) PROVE Seen BY <1>5, SeenSame DEF Failing, volatile
<1>6. ~WriteFails BY DEF WriteFails
<1>7. ASSUME NEW s \in Slots, Step(s) PROVE Seen BY <1>7, SeenReply
<1>8. ASSUME NEW s \in Slots, DropOrphan(s) \/ Serving(s) PROVE Seen BY <1>2, <1>8 DEF DropOrphan, Serving
<1>9. ASSUME NEW c \in Cmds, OtherDevice(c) PROVE Seen BY <1>2, <1>9 DEF OtherDevice
<1>10. Membership => Seen BY <1>2 DEF Membership
<1>11. UNCHANGED vars => Seen BY <1>2 DEF vars
<1>12. KillInPurge => Seen BY SeenPurge DEF PurgeSteps
<1>13. QED BY <1>1, <1>3, <1>4, <1>5, <1>6, <1>7, <1>8, <1>9, <1>10, <1>11, <1>12, SeenRun, SeenKill DEF ClientNext

-----------------------------------------------------------------------------
(* The temp entries of a replica *)

TempsOf(rep) == DOMAIN rep \cap Adds

LEMMA ApplyTemps ==
    ASSUME NEW rep, NEW c
    PROVE  TempsOf(ApplyCommand(rep, c)) \subseteq TempsOf(rep) \cup {c.uuid}
<1>1. CASE c.uuid \in Adds
  <2> PICK e : e = [content |-> c.uuid, is_deleted |-> FALSE] OBVIOUS
  <2>1. ApplyCommand(rep, c) = Put(rep, c.uuid, e) BY <1>1 DEF ApplyCommand
  <2>2. DOMAIN Put(rep, c.uuid, e) = DOMAIN rep \cup {c.uuid} BY DEF Put
  <2>3. QED BY <2>1, <2>2 DEF TempsOf
<1>2. CASE c.uuid \notin Adds /\ c.ref \in DOMAIN rep
  <2> PICK e : e = [content |-> c.uuid, is_deleted |-> rep[c.ref].is_deleted \/ c.uuid \in Deletes] OBVIOUS
  <2>1. ApplyCommand(rep, c) = Put(rep, c.ref, e) BY <1>2 DEF ApplyCommand
  <2>2. DOMAIN Put(rep, c.ref, e) = DOMAIN rep BY <1>2 DEF Put
  <2>3. QED BY <2>1, <2>2 DEF TempsOf
<1>3. CASE c.uuid \notin Adds /\ c.ref \notin DOMAIN rep BY <1>3 DEF ApplyCommand
<1>4. QED BY <1>1, <1>2, <1>3

LEMMA DrawTemps ==
    ASSUME NEW base, NEW q \in Queues
    PROVE  TempsOf(FoldLeft(ApplyCommand, base, q)) \subseteq TempsOf(base) \cup Uuids(q)
<1> PICK E, r : E = TempsOf(base) \cup Uuids(q) /\ r = FoldOf(Draw, base, q) OBVIOUS
<1>1. PICK f : Leads(f, Draw, base, q) BY FoldSteps
<1>2. /\ f[0] = base /\ f[Len(q)] = r
      /\ \A k \in 1..Len(q) : f[k] = ApplyCommand(f[k - 1], q[k])
    BY <1>1 DEF Leads, Fold, Draw
<1>3. DOMAIN q = 1..Len(q) /\ Len(q) \in Nat BY DEF Queues
<1> DEFINE T == {n \in Nat : n <= Len(q) => TempsOf(f[n]) \subseteq E}
<1>4. 0 \in T BY <1>2
<1>5. ASSUME NEW n \in Nat, n \in T PROVE n + 1 \in T
  <2>1. CASE n + 1 <= Len(q)
    <3> PICK m : m = n + 1 OBVIOUS
    <3>1. m \in DOMAIN q /\ m - 1 = n /\ TempsOf(f[n]) \subseteq E BY <1>3, <1>5, <2>1
    <3>2. f[m] = ApplyCommand(f[n], q[m]) BY <1>2, <1>3, <3>1
    <3>3. q[m].uuid \in E BY <3>1 DEF Uuids
    <3>4. TempsOf(f[m]) \subseteq E BY <3>1, <3>2, <3>3, ApplyTemps
    <3>5. QED BY <3>4
  <2>2. CASE ~(n + 1 <= Len(q)) BY <2>2
  <2>3. QED BY <2>1, <2>2
<1>6. Nat \subseteq T
  <2> HIDE DEF T
  <2>1. QED BY <1>4, <1>5, Induction
<1>7. TempsOf(r) \subseteq E BY <1>2, <1>3, <1>6
<1>8. QED BY <1>7, DrawIs

LEMMA IdsAreNoTemps == Ids \cap Adds = {}
BY ServerConstants DEF Ids

LEMMA ReplacedTemps ==
    ASSUME NEW got \in SUBSET Copy, NEW q \in Queues
    PROVE  TempsOf(Replaced(got, q)) \subseteq Uuids(q)
<1> DEFINE live == {c.id : c \in LiveCopies(got)}
           base == [id \in live |-> EntryOf(RowOf(got, id))]
<1>1. live \subseteq Ids BY DEF LiveCopies, Copy
<1>2. DOMAIN base = live OBVIOUS
<1>3. Replaced(got, q) = FoldLeft(ApplyCommand, base, q) BY DEF Replaced
<1> HIDE DEF base
<1>4. TempsOf(base) = {} BY <1>1, <1>2, IdsAreNoTemps DEF TempsOf
<1>5. QED BY <1>3, <1>4, DrawTemps

LEMMA MergedTemps ==
    ASSUME NEW rep, NEW m, NEW got \in SUBSET Copy
    PROVE  TempsOf(Merged(rep, m, got)) \subseteq TempsOf(rep) \ DOMAIN m
<1> DEFINE live == {c.id : c \in LiveCopies(got)}
           gone == {c.id : c \in got \ LiveCopies(got)}
<1>1. live \subseteq Ids BY DEF LiveCopies, Copy
<1>2. DOMAIN Merged(rep, m, got) = ((DOMAIN rep \ DOMAIN m) \ gone) \cup live BY DEF Merged
<1>3. QED BY <1>1, <1>2, IdsAreNoTemps DEF TempsOf

-----------------------------------------------------------------------------
(* No temp entry outlives the command that made it *)

\* The temp entries of a screen belong to commands queued, or to refused ones that a
\* full reply is due for.
TempsCovered(rep, q, nfs, R) == TempsOf(rep) \subseteq Uuids(q) \cup (IF nfs THEN R ELSE {})

\* A full reply on its way to the disk left none but those queued.
Refilled == lane.full /\ lane.step \in {"queue", "token", "replica"} => TempsOf(replica) \subseteq Uuids(queue)

\* The refusals of the reply in hand are noted before it is folded in.
Flagged ==
    lane.step = "flag" =>
        needsFullSync /\ \A s \in lane.slots : req[s].pc = "done" /\ Refusals(s) \subseteq refused

Tidy == TempsCovered(Screen, Queue, Repairs, refused) /\ Refilled /\ Flagged

LEMMA NoneIsCovered ==
    ASSUME NEW q, NEW nfs, NEW R
    PROVE  TempsCovered(NoReplica, q, nfs, R)
BY DEF TempsCovered, TempsOf, NoReplica

\* An edit shows an object of its own only under a temp id that it queues.
LEMMA EditTemps ==
    ASSUME Typed, DeviceTyped, NEW c \in Cmds, Mutate(c)
    PROVE  /\ TempsOf(replica') \subseteq TempsOf(replica) \cup {c}
           /\ Uuids(queue') = Uuids(queue) \cup {c}
<1> PICK rep2 : rep2 = replica' OBVIOUS
<1>1. PICK x : rep2 = ApplyCommand(replica, RewriteRefs(<<[uuid |-> c, ref |-> x]>>, idAliases)[1]) BY DEF Mutate
<1> PICK one, q, r : one = [uuid |-> c, ref |-> x] /\ q = <<one>> /\ r = RewriteRefs(q, idAliases) OBVIOUS
<1>2. DOMAIN q = {1} /\ q[1] = one OBVIOUS
<1>3. r = [k \in DOMAIN q |-> [q[k] EXCEPT !.ref = IF @ \in DOMAIN idAliases THEN idAliases[@] ELSE @]] BY DEF RewriteRefs
<1>4. r[1] = [one EXCEPT !.ref = IF @ \in DOMAIN idAliases THEN idAliases[@] ELSE @] BY <1>2, <1>3
<1>5. r[1].uuid = c BY <1>4
<1>6. rep2 = ApplyCommand(replica, r[1]) BY <1>1
<1>7. TempsOf(rep2) \subseteq TempsOf(replica) \cup {c} BY <1>5, <1>6, ApplyTemps
<1>8. \E cmd \in Command : cmd.uuid = c /\ queue' = Append(queue, cmd) BY MutateType
<1>9. Uuids(queue') = Uuids(queue) \cup {c} BY <1>8, UuidsAppend DEF DeviceTyped
<1>10. QED BY <1>7, <1>9

\* A full reply leaves the temp entries of what is queued, any other takes away those it maps.
LEMMA ReplyTemps ==
    ASSUME Typed, OkIsApplied, DeviceTyped, NEW s \in Slots, NEW rest \in Queues, ApplyResponse(s, rest)
    PROVE  IF req[s].token = Star THEN TempsOf(replica') \subseteq Uuids(queue')
           ELSE TempsOf(replica') \subseteq TempsOf(replica) \ DOMAIN Mapping(s)
<1> PICK m, got, rep2, q : m = Mapping(s) /\ got = req[s].got /\ rep2 = replica' /\ q = RewriteRefs(rest, m) OBVIOUS
<1>1. DOMAIN m \subseteq Adds /\ \A t \in DOMAIN m : m[t] \in Nat BY MappingType
<1>2. q \in Queues BY <1>1, RewriteKeeps
<1>3. req[s] \in Request BY DEF Typed, TypeOK
<1>4. got \in SUBSET Copy BY <1>3 DEF Request
<1>5. queue' = q BY DEF ApplyResponse
<1>6. rep2 = IF req[s].token = Star THEN Replaced(got, q) ELSE Merged(replica, m, got) BY DEF ApplyResponse
<1>7. TempsOf(Replaced(got, q)) \subseteq Uuids(q) BY <1>2, <1>4, ReplacedTemps
<1>8. TempsOf(Merged(replica, m, got)) \subseteq TempsOf(replica) \ DOMAIN m BY <1>4, MergedTemps
<1>9. CASE req[s].token = Star BY <1>5, <1>6, <1>7, <1>9
<1>10. CASE req[s].token # Star BY <1>6, <1>8, <1>10
<1>11. QED BY <1>9, <1>10

\* The whole batch of a reply to a flush goes: what took effect is mapped.
LEMMA FlushCovered ==
    ASSUME Base, Flagged, TempsCovered(replica, queue, needsFullSync, refused), NEW s \in Slots, ApplyFlush(s)
    PROVE  TempsCovered(replica', queue', needsFullSync', refused')
<1>1. Typed /\ OkIsApplied /\ Answers /\ OurRequest /\ DeviceTyped /\ LaneShape BY DEF Base
<1>2. queue \in Queues BY <1>1 DEF DeviceTyped
<1>3. /\ s \in lane.slots /\ req[s].pc = "done" /\ req[s].code = "ok"
      /\ Refusals(s) = {} \/ lane.step = "flag"
      /\ ApplyResponse(s, StillQueued) /\ UNCHANGED <<needsFullSync, refused>>
    BY DEF ApplyFlush, history
<1>4. StillQueued \in Queues /\ Uuids(StillQueued) = Uuids(queue) \ lane.batch
    BY <1>2, WithoutKeeps DEF StillQueued
<1>5. Uuids(queue') = Uuids(queue) \ lane.batch BY <1>1, <1>3, <1>4, ResponseType
<1>6. CASE req[s].token = Star
  <2>1. TempsOf(replica') \subseteq Uuids(queue') BY <1>1, <1>3, <1>4, <1>6, ReplyTemps
  <2>2. QED BY <2>1 DEF TempsCovered
<1>7. CASE req[s].token # Star
  <2>1. TempsOf(replica') \subseteq TempsOf(replica) \ DOMAIN Mapping(s)
      BY <1>1, <1>3, <1>4, <1>7, ReplyTemps
  <2>2. lane.batch \subseteq DOMAIN req[s].status BY <1>1, <1>3, BatchAnswered
  <2>3. DOMAIN Mapping(s) = {x \in Adds \cap DOMAIN req[s].status : req[s].status[x] = "ok"} BY DEF Mapping
  <2>4. \A t \in lane.batch \cap Adds : t \in DOMAIN Mapping(s) \/ t \in Refusals(s) BY <2>2, <2>3 DEF Refusals
  <2>5. Refusals(s) = {} \/ (needsFullSync /\ Refusals(s) \subseteq refused) BY <1>3 DEF Flagged
  <2>6. ASSUME NEW t \in TempsOf(replica')
        PROVE  t \in Uuids(queue') \cup (IF needsFullSync' THEN refused' ELSE {})
    <3>1. t \in Adds /\ t \in TempsOf(replica) /\ t \notin DOMAIN Mapping(s) BY <2>1 DEF TempsOf
    <3>2. t \in Uuids(queue) \/ (needsFullSync /\ t \in refused) BY <3>1 DEF TempsCovered
    <3>3. CASE t \in lane.batch BY <1>3, <2>4, <2>5, <3>1, <3>3
    <3>4. CASE t \notin lane.batch BY <1>3, <1>5, <3>2, <3>4
    <3>5. QED BY <3>3, <3>4
  <2>7. QED BY <2>6 DEF TempsCovered
<1>8. QED BY <1>6, <1>7

LEMMA PullCovered ==
    ASSUME Base, Settling, TempsCovered(replica, queue, needsFullSync, refused), NEW s \in Slots, ApplyPull(s)
    PROVE  TempsCovered(replica', queue', needsFullSync', refused')
<1>1. Typed /\ OkIsApplied /\ DeviceTyped /\ Asked /\ PullsAsk BY DEF Base, Settling
<1>2. queue \in Queues /\ ApplyResponse(s, queue) /\ UNCHANGED <<needsFullSync, refused>>
    BY <1>1 DEF ApplyPull, DeviceTyped, history
<1>3. queue' = queue BY <1>1, PullMaps
<1>4. CASE req[s].token = Star
  <2>1. TempsOf(replica') \subseteq Uuids(queue') BY <1>1, <1>2, <1>4, ReplyTemps
  <2>2. QED BY <2>1 DEF TempsCovered
<1>5. CASE req[s].token # Star
  <2>1. TempsOf(replica') \subseteq TempsOf(replica) BY <1>1, <1>2, <1>5, ReplyTemps
  <2>2. QED BY <1>2, <1>3, <2>1 DEF TempsCovered
<1>6. QED BY <1>4, <1>5

LEMMA CoveredStep ==
    ASSUME ~ActsEarly, ~KillAnywhere, ~WritesFail, Careful, Settling, Tidy, ClientNext
    PROVE  TempsCovered(Screen, Queue, Repairs, refused)'
<1>1. Base /\ Typed /\ DeviceTyped BY DEF Careful, Base
<1>2. Seen BY SeenStep
<1>3. refused \subseteq refused' BY <1>1, DecidedGrows
<1> PICK q, rep, nfs, R, q2, rep2, nfs2, R2 :
      /\ q = Queue /\ rep = Screen /\ nfs = Repairs /\ R = refused
      /\ q2 = Queue' /\ rep2 = Screen' /\ nfs2 = Repairs' /\ R2 = refused'
    OBVIOUS
<1>4. TempsCovered(rep, q, nfs, R) BY DEF Tidy
<1>5. CASE UNCHANGED <<Queue, Screen, Token, Repairs>>
  <2>1. q2 = q /\ rep2 = rep /\ nfs2 = nfs /\ R \subseteq R2 BY <1>3, <1>5
  <2>2. TempsCovered(rep2, q2, nfs2, R2) BY <1>4, <2>1 DEF TempsCovered
  <2>3. QED BY <2>2
<1>6. CASE Blanked' \/ Screen' = NoReplica
  <2>1. rep2 = NoReplica BY <1>6 DEF Blanked
  <2>2. TempsCovered(rep2, q2, nfs2, R2) BY <2>1, NoneIsCovered
  <2>3. QED BY <2>2
<1>7. CASE Turns
  <2>1. AtWork /\ AtWork' BY <1>7 DEF Turns
  <2>2. q = queue /\ rep = replica /\ nfs = needsFullSync BY <2>1 DEF AtWork, Queue, Screen, Repairs
  <2>3. q2 = queue' /\ rep2 = replica' /\ nfs2 = needsFullSync' BY <2>1 DEF AtWork, Queue, Screen, Repairs
  <2>4. TempsCovered(replica, queue, needsFullSync, refused) BY <1>4, <2>2
  <2>5. ASSUME NEW c \in Cmds, Mutate(c) PROVE TempsCovered(rep2, q2, nfs2, R2)
    <3>1. TempsOf(rep2) \subseteq TempsOf(rep) \cup {c} /\ Uuids(q2) = Uuids(q) \cup {c}
        BY <1>1, <2>2, <2>3, <2>5, EditTemps
    <3>2. nfs2 = nfs BY <2>2, <2>3, <2>5 DEF Mutate
    <3>3. QED BY <1>3, <1>4, <3>1, <3>2 DEF TempsCovered
  <2>6. ASSUME NEW s \in Slots, MarkNeedsFullSync(s) PROVE TempsCovered(rep2, q2, nfs2, R2)
    <3>1. rep2 = rep /\ q2 = q /\ nfs2 = TRUE BY <2>2, <2>3, <2>6 DEF MarkNeedsFullSync
    <3>2. QED BY <1>3, <1>4, <3>1 DEF TempsCovered
  <2>7. ASSUME NEW s \in Slots, ApplyFlush(s) PROVE TempsCovered(rep2, q2, nfs2, R2)
    <3>1. TempsCovered(replica', queue', needsFullSync', refused') BY <1>1, <2>4, <2>7, FlushCovered DEF Tidy
    <3>2. QED BY <2>3, <3>1
  <2>8. ASSUME NEW s \in Slots, ApplyPull(s) PROVE TempsCovered(rep2, q2, nfs2, R2)
    <3>1. TempsCovered(replica', queue', needsFullSync', refused') BY <1>1, <2>4, <2>8, PullCovered
    <3>2. QED BY <2>3, <3>1
  <2>9. CASE ClearNeedsFullSync
    <3>1. lane.full /\ lane.step = "replica" /\ UNCHANGED <<queue, replica>> BY <2>9 DEF ClearNeedsFullSync
    <3>2. TempsOf(replica) \subseteq Uuids(queue) BY <3>1 DEF Tidy, Refilled
    <3>3. rep2 = replica /\ q2 = queue BY <2>3, <3>1
    <3>4. TempsCovered(rep2, q2, nfs2, R2) BY <3>2, <3>3 DEF TempsCovered
    <3>5. QED BY <3>4
  <2>10. QED BY <1>7, <2>5, <2>6, <2>7, <2>8, <2>9 DEF Turns
<1>8. QED BY <1>2, <1>5, <1>6, <1>7 DEF Seen

\* The lane is elsewhere, or stays where it is.
LEMMA LaneElsewhere ==
    ASSUME lane'.step \in {"start", "reply", "clear"}
    PROVE  Refilled' /\ Flagged'
BY DEF Refilled, Flagged

LEMMA LaneStays ==
    ASSUME Refilled, Flagged, UNCHANGED <<lane, queue, replica, needsFullSync>>, refused \subseteq refused',
           lane.step = "flag" => \A s \in lane.slots : req[s].pc = "done" => req'[s] = req[s]
    PROVE  Refilled' /\ Flagged'
<1>1. Refilled' BY DEF Refilled
<1>2. Flagged'
  <2> PICK ln2, r2, R2 : ln2 = lane' /\ r2 = req' /\ R2 = refused' OBVIOUS
  <2>1. lane' = lane /\ needsFullSync' = needsFullSync OBVIOUS
  <2>2. ASSUME lane.step = "flag", NEW s \in lane.slots
        PROVE  r2[s].pc = "done" /\ Refusals(s)' \subseteq R2
    <3>1. req[s].pc = "done" /\ Refusals(s) \subseteq refused BY <2>2 DEF Flagged
    <3>2. r2[s] = req[s] BY <2>2, <3>1
    <3>3. req'[s] = req[s] BY <3>2
    <3>4. Refusals(s)' = Refusals(s) BY <2>1, <3>3 DEF Refusals
    <3>5. QED BY <3>1, <3>2, <3>4
  <2>3. QED BY <2>1, <2>2 DEF Flagged
<1>3. QED BY <1>1, <1>2

\* A request that is done stays as it is until its slot is freed.
LEMMA DoneStays ==
    ASSUME Typed, NEW t \in Slots, Serve(t) \/ Unavailable(t), NEW s \in Slots, req[s].pc = "done"
    PROVE  req'[s] = req[s]
<1>1. req \in [Slots -> Request] BY DEF Typed, TypeOK
<1>2. req[t].pc # "done" BY DEF Serve, Unavailable, Admit, CheckLog, RefuseViewer, Apply, ReadVersion, Collect
<1>3. s # t BY <1>2
<1>4. CASE Unavailable(t) BY <1>1, <1>3, <1>4 DEF Unavailable
<1>5. CASE Admit(t) BY <1>1, <1>3, <1>5 DEF Admit
<1>6. CASE CheckLog(t) BY <1>1, <1>3, <1>6 DEF CheckLog, Report
<1>7. CASE RefuseViewer(t) BY <1>1, <1>3, <1>7 DEF RefuseViewer, Report
<1>8. CASE Apply(t) BY <1>1, <1>3, <1>8 DEF Apply, Report
<1>9. CASE ReadVersion(t) BY <1>1, <1>3, <1>9 DEF ReadVersion
<1>10. CASE Collect(t) BY <1>1, <1>3, <1>10 DEF Collect
<1>11. QED BY <1>4, <1>5, <1>6, <1>7, <1>8, <1>9, <1>10 DEF Serve

LEMMA TidyReply ==
    ASSUME Careful, Settling, Refilled, Flagged, refused \subseteq refused', NEW s \in Slots, Step(s)
    PROVE  Refilled' /\ Flagged'
<1>1. Base /\ Typed /\ OkIsApplied /\ DeviceTyped /\ LaneShape /\ Asked /\ PullsAsk
    BY DEF Careful, Base, Settling
<1>2. lane \in Lane /\ queue \in Queues BY <1>1 DEF DeviceTyped
<1>3. CASE MarkNeedsFullSync(s)
  <2>1. /\ s \in lane.slots /\ req[s].pc = "done" /\ needsFullSync' = TRUE /\ refused' = refused \cup Refusals(s)
        /\ lane' = [lane EXCEPT !.step = "flag"] /\ UNCHANGED req
      BY <1>3 DEF MarkNeedsFullSync, Replied, serverVars
  <2>2. lane'.step = "flag" /\ lane'.batch = lane.batch /\ lane'.slots = lane.slots BY <1>2, <2>1 DEF Lane
  <2>3. \A t \in lane.slots : t = s BY <1>1, <2>1 DEF LaneShape
  <2>4. Refusals(s)' = Refusals(s) BY <2>1, <2>2 DEF Refusals
  <2> PICK bad, r2, R2 : bad = Refusals(s) /\ r2 = req' /\ R2 = refused' OBVIOUS
  <2>5. r2[s].pc = "done" /\ bad \subseteq R2 BY <2>1
  <2>6. Flagged' BY <2>1, <2>2, <2>3, <2>4, <2>5 DEF Flagged
  <2>7. Refilled' BY <2>2 DEF Refilled
  <2>8. QED BY <2>6, <2>7
<1>4. CASE ApplyFlush(s)
  <2>1. /\ ApplyResponse(s, StillQueued)
        /\ lane' = [lane EXCEPT !.step = "queue", !.slots = {}, !.full = req[s].token = Star]
      BY <1>4 DEF ApplyFlush
  <2>2. lane'.step = "queue" /\ lane'.full = (req[s].token = Star) BY <1>2, <2>1 DEF Lane
  <2>3. StillQueued \in Queues BY <1>2, WithoutKeeps DEF StillQueued
  <2>4. req[s].token = Star => TempsOf(replica') \subseteq Uuids(queue') BY <1>1, <2>1, <2>3, ReplyTemps
  <2> PICK T, U : T = TempsOf(replica') /\ U = Uuids(queue') OBVIOUS
  <2>5. lane'.full => T \subseteq U BY <2>2, <2>4
  <2>6. QED BY <2>2, <2>5 DEF Refilled, Flagged
<1>5. CASE ApplyPull(s)
  <2>1. /\ ApplyResponse(s, queue)
        /\ lane' = [lane EXCEPT !.step = "token", !.slots = {}, !.full = req[s].token = Star]
      BY <1>5 DEF ApplyPull
  <2>2. lane'.step = "token" /\ lane'.full = (req[s].token = Star) BY <1>2, <2>1 DEF Lane
  <2>3. req[s].token = Star => TempsOf(replica') \subseteq Uuids(queue') BY <1>1, <1>2, <2>1, ReplyTemps
  <2> PICK T, U : T = TempsOf(replica') /\ U = Uuids(queue') OBVIOUS
  <2>4. lane'.full => T \subseteq U BY <2>2, <2>3
  <2>5. QED BY <2>2, <2>4 DEF Refilled, Flagged
<1>6. CASE RetryLater(s)
  <2>1. lane'.step = "start" BY <1>6, LeaveIs DEF RetryLater
  <2>2. QED BY <2>1, LaneElsewhere
<1>7. CASE LoseAccess(s)
  <2>1. lane'.step = "start" BY <1>7 DEF LoseAccess, Idle
  <2>2. QED BY <2>1, LaneElsewhere
<1>8. QED BY <1>3, <1>4, <1>5, <1>6, <1>7 DEF Step

LEMMA TidyRun ==
    ASSUME Careful, Refilled, Flagged, refused \subseteq refused', Run
    PROVE  Refilled' /\ Flagged'
<1>1. DeviceTyped /\ LaneShape /\ Asleep BY DEF Careful, Base
<1>2. lane \in Lane BY <1>1 DEF DeviceTyped
<1>3. CASE StartFlush \/ SendBatch \/ SendPull \/ EndReply \/ ReportLoss \/ ClearNeedsFullSync
  <2>1. StartFlush => lane'.step = "start" BY DEF StartFlush, Idle
  <2>2. CASE SendBatch
    <3>1. PICK t, b : lane' = [lane EXCEPT !.step = "reply", !.slots = {t}, !.batch = b]
        BY <2>2 DEF SendBatch, DoSync
    <3>2. lane'.step = "reply" BY <1>2, <3>1 DEF Lane
    <3>3. QED BY <3>2, LaneElsewhere
  <2>3. SendPull => lane'.step = "reply"
    <3>1. ASSUME SendPull PROVE lane'.step = "reply"
      <4>1. PICK t, j : lane' = [Idle EXCEPT !.job = j, !.step = "reply", !.slots = {t}] BY <3>1 DEF SendPull
      <4>2. QED BY <4>1 DEF Idle
    <3>2. QED BY <3>1
  <2>4. EndReply => lane'.step = "start" BY LeaveIs DEF EndReply, Idle
  <2>5. ReportLoss => lane'.step = "start" BY DEF ReportLoss, Idle
  <2>6. ClearNeedsFullSync => lane'.step = "clear" BY <1>2 DEF ClearNeedsFullSync, Lane
  <2>7. QED BY <1>3, <2>1, <2>2, <2>3, <2>4, <2>5, <2>6, LaneElsewhere
<1>4. CASE PersistToken \/ PersistReplica
  <2>1. /\ UNCHANGED <<queue, replica>> /\ lane.step \in {"queue", "token"}
        /\ lane' = [lane EXCEPT !.step = "token"] \/ lane' = [lane EXCEPT !.step = "replica"]
      BY <1>4 DEF PersistToken, PersistReplica
  <2>2. lane'.step \in {"token", "replica"} /\ lane'.full = lane.full BY <1>2, <2>1 DEF Lane
  <2>3. QED BY <2>1, <2>2 DEF Refilled, Flagged
<1>5. CASE Settle \/ Boot \/ BootFromCache \/ PurgeSteps
  <2>1. UNCHANGED <<volatile, serverVars>>
      BY <1>1, <1>5, PurgeKeeps DEF Settle, Boot, BootFromCache, Hydrate
  <2>2. UNCHANGED <<lane, queue, replica, needsFullSync, req>> BY <2>1 DEF volatile, serverVars
  <2>3. QED BY <2>2, LaneStays
<1>6. CASE Hydrated
  <2>1. lane.step = "start" /\ lane' = lane BY <1>1, <1>6 DEF Hydrated, Asleep, Idle
  <2>2. QED BY <2>1, LaneElsewhere
<1>7. QED BY <1>3, <1>4, <1>5, <1>6 DEF Run, PurgeSteps

LEMMA TidyStep ==
    ASSUME ~ActsEarly, ~KillAnywhere, ~WritesFail, Careful, Settling, Tidy, [ClientNext]_vars
    PROVE  Tidy'
<1>1. Base /\ Typed /\ DeviceTyped /\ Refilled /\ Flagged BY DEF Careful, Base, Tidy
<1>2. CASE ClientNext
  <2>1. refused \subseteq refused' BY <1>1, <1>2, DecidedGrows
  <2>2. ASSUME NEW c \in Cmds, Mutate(c) PROVE Refilled' /\ Flagged'
    <3>1. UNCHANGED <<lane, needsFullSync, refused, req>> BY <2>2 DEF Mutate, serverVars
    <3>2. TempsOf(replica') \subseteq TempsOf(replica) \cup {c} /\ Uuids(queue') = Uuids(queue) \cup {c}
        BY <1>1, <2>2, EditTemps
    <3> PICK T, U : T = TempsOf(replica') /\ U = Uuids(queue') OBVIOUS
    <3>3. TempsOf(replica) \subseteq Uuids(queue) => T \subseteq U BY <3>2
    <3>4. Refilled' BY <1>1, <3>1, <3>3 DEF Refilled
    <3>5. Flagged' BY <1>1, <3>1 DEF Flagged, Refusals
    <3>6. QED BY <3>4, <3>5
  <2>3. ASSUME NEW c \in Cmds, OtherDevice(c) PROVE Refilled' /\ Flagged'
      BY <1>1, <2>1, <2>3, LaneStays DEF OtherDevice, clientVars, volatile
  <2>4. ASSUME NEW s \in Slots, Step(s) PROVE Refilled' /\ Flagged' BY <1>1, <2>1, <2>4, TidyReply
  <2>5. ASSUME NEW s \in Slots, GiveUp(s) PROVE Refilled' /\ Flagged'
    <3>1. lane'.step = "start" BY <2>5, LeaveIs DEF GiveUp
    <3>2. QED BY <3>1, LaneElsewhere
  <2>6. ASSUME NEW s \in Slots, DropOrphan(s) PROVE Refilled' /\ Flagged'
    <3>1. UNCHANGED <<lane, queue, replica, needsFullSync>> /\ FreeSlot(s) /\ s \notin lane.slots
        BY <2>6 DEF DropOrphan, clientVars, volatile
    <3>2. req \in [Slots -> Request] BY <1>1 DEF Typed, TypeOK
    <3>3. lane.slots \subseteq Slots BY <1>1 DEF DeviceTyped, Lane
    <3>4. \A t \in lane.slots : req'[t] = req[t] BY <3>1, <3>2, <3>3 DEF FreeSlot
    <3>5. QED BY <1>1, <2>1, <3>1, <3>4, LaneStays
  <2>7. ASSUME NEW s \in Slots, Serving(s) \/ Failing(s) PROVE Refilled' /\ Flagged'
    <3>1. UNCHANGED <<lane, queue, replica, needsFullSync>> /\ (Serve(s) \/ Unavailable(s))
        BY <2>7 DEF Serving, Failing, clientVars, volatile
    <3>2. lane.slots \subseteq Slots BY <1>1 DEF DeviceTyped, Lane
    <3>3. \A t \in lane.slots : req[t].pc = "done" => req'[t] = req[t] BY <1>1, <3>1, <3>2, DoneStays
    <3>4. QED BY <1>1, <2>1, <3>1, <3>3, LaneStays
  <2>8. Run => Refilled' /\ Flagged' BY <1>1, <2>1, TidyRun
  <2>9. ASSUME Kill PROVE Refilled' /\ Flagged'
    <3>1. lane'.step = "start" BY <2>9 DEF Kill, Forget, Idle
    <3>2. QED BY <3>1, LaneElsewhere
  <2>10. ~WriteFails BY DEF WriteFails
  <2>11. ASSUME Membership PROVE Refilled' /\ Flagged'
    <3>1. UNCHANGED <<lane, queue, replica, needsFullSync>> BY <2>11 DEF Membership, clientVars, volatile
    <3>2. UNCHANGED req
        BY <2>11 DEF Membership, AcceptInvite, ChangeRole, RemoveMember, DeleteWorkspace, StampMember
    <3>3. QED BY <1>1, <2>1, <3>1, <3>2, LaneStays
  <2>12. ASSUME KillInPurge PROVE Refilled' /\ Flagged'
    <3>1. UNCHANGED <<lane, queue, replica, needsFullSync, req>> BY <2>12 DEF KillInPurge, volatile, serverVars
    <3>2. QED BY <1>1, <2>1, <3>1, LaneStays
  <2>13. Refilled' /\ Flagged'
      BY <1>2, <2>2, <2>3, <2>4, <2>5, <2>6, <2>7, <2>8, <2>9, <2>10, <2>11, <2>12 DEF ClientNext
  <2>14. QED BY <1>2, <2>13, CoveredStep DEF Tidy
<1>3. CASE UNCHANGED vars
  <2>1. UNCHANGED <<process, lane, queue, replica, needsFullSync, refused, disk, req>>
      BY <1>3 DEF vars, clientVars, serverVars, volatile, history
  <2>2. Refilled' /\ Flagged' BY <1>1, <2>1, LaneStays
  <2>3. UNCHANGED <<Screen, Queue, Repairs>> BY <2>1 DEF Screen, Queue, Repairs, Rests, Lacks, Reading, process
  <2>4. TempsCovered(Screen, Queue, Repairs, refused)' BY <2>1, <2>3 DEF Tidy, TempsCovered, TempsOf, Uuids
  <2>5. QED BY <2>2, <2>4 DEF Tidy
<1>4. QED BY <1>2, <1>3

LEMMA TidyInit == ClientInit => Tidy
<1> SUFFICES ASSUME ClientInit PROVE Tidy OBVIOUS
<1>1. up = "down" /\ disk = EmptyDisk /\ lane = Idle BY DEF ClientInit
<1>2. Screen = NoReplica BY <1>1 DEF Screen, Rests, EmptyDisk
<1>3. TempsCovered(Screen, Queue, Repairs, refused) BY <1>2, NoneIsCovered
<1>4. QED BY <1>1, <1>3 DEF Tidy, Refilled, Flagged, Idle

\* An object is on the screen under its temp id only while the command that added it
\* is queued, or was refused and a full reply is due, if no kill falls between the
\* writes of a reply, storage refuses none, and a start waits for its reads
\* (applyResponse, dropMappedTemps, markNeedsFullSync, clearNeedsFullSync).
THEOREM TempsNotStranded ==
    ASSUME ~ActsEarly, ~KillAnywhere, ~WritesFail
    PROVE  ClientSpec => []NoStrandedTemp
<1>1. Careful /\ Settling /\ Tidy => NoStrandedTemp
  <2> SUFFICES ASSUME Tidy, Running PROVE \A t \in DOMAIN replica \cap Adds : t \in Pending
      BY DEF NoStrandedTemp
  <2>1. ~Rests /\ ~Lacks BY DEF Running, Rests, Lacks
  <2>2. Screen = replica /\ Queue = queue /\ Repairs = needsFullSync BY <2>1 DEF Screen, Queue, Repairs
  <2>3. TempsCovered(replica, queue, needsFullSync, refused) BY <2>2 DEF Tidy
  <2>4. QED BY <2>3 DEF TempsCovered, TempsOf, Pending
<1>2. Careful /\ Settling /\ Tidy /\ [ClientNext]_vars => (Careful /\ Settling /\ Tidy)'
  <2> SUFFICES ASSUME Careful, Settling, Tidy, [ClientNext]_vars PROVE Careful' /\ Settling' /\ Tidy' OBVIOUS
  <2>1. Careful' BY CarefulStep
  <2>2. Settling' BY SettlingStep
  <2>3. Tidy' BY TidyStep
  <2>4. QED BY <2>1, <2>2, <2>3
<1>3. ClientInit => Careful /\ Settling /\ Tidy BY CarefulInit, SettlingInit, TidyInit
<1>4. QED BY <1>1, <1>2, <1>3, PTL DEF ClientSpec

=============================================================================
