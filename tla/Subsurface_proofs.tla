------------------------- MODULE Subsurface_proofs -------------------------
(***************************************************************************)
(* Proofs about Subsurface, for any finite set of surfaces and any number  *)
(* of commits: nothing that is committed gets lost in a cache, whatever    *)
(* becomes of the tree; the tree has no cycle, its lists are complete, and *)
(* a synchronised part of it changes as a whole.                           *)
(*                                                                         *)
(* What is above a surface is the smallest set with certain parents: to    *)
(* show where it ends, a set with those parents is named (AboveLeast).     *)
(***************************************************************************)
EXTENDS Subsurface, FiniteSetTheorems, TLAPS

(* A record for each surface.                                              *)
Typed == tree \in [Surfaces -> TreeRec]

(* The types of what the books are kept in; the bounds play no part.       *)
Cur == [n : Nat, buffer : Nat, cbs : SUBSET Nat, fbs : SUBSET Nat]

Cache == [has : BOOLEAN, attached : BOOLEAN, n : Nat, buffer : Nat,
          cbs : SUBSET Nat, fbs : SUBSET Nat]

Sent == [n : Nat, attached : SUBSET Nat]

(* One surface's books balance.  What CommitsAddUp and FeedbackIsCurrent   *)
(* need besides: a cache without data is empty, and one that has a buffer  *)
(* has it from a commit that is not applied yet.                           *)
Balanced(r, c, t) ==
  /\ r.n <= t.n
  /\ t.attached \subseteq 1..t.n
  /\ AddsUp(r, c, t)
  /\ Current(t.attached, r.fbs, r.n)
  /\ Current(t.attached, c.fbs, t.n)
  /\ c.has => r.n < t.n /\ (c.attached => c.buffer > r.n)
  /\ ~c.has => c = EmptyCache

Books(r, c, t) == r \in Cur /\ c \in Cache /\ t \in Sent /\ Balanced(r, c, t)

(* Every surface's books balance.                                          *)
Accounts ==
  /\ cur \in [Surfaces -> Cur]
  /\ cache \in [Surfaces -> Cache]
  /\ sent \in [Surfaces -> Sent]
  /\ \A s \in Surfaces : Balanced(cur[s], cache[s], sent[s])

(* The inductive invariant: the tree only counts with what it consists of. *)
Inv == Typed /\ Accounts

(* The next commit of a surface.                                           *)
NextSent(t, attach) ==
  [n |-> t.n + 1, attached |-> t.attached \cup {m \in {t.n + 1} : attach}]

-----------------------------------------------------------------------------
(* Operations on one surface's books.                                      *)

(* A surface starts with nothing.                                          *)
LEMMA NothingBalanced == Books(InitCur, EmptyCache, NothingSent)
  BY DEF Books, Cur, Cache, Sent, Balanced, AddsUp, LastAttached, Current,
         InitCur, EmptyCache, NothingSent

(* Filling the cache with the next commit keeps the balance.               *)
LEMMA IntoCacheBalanced ==
  ASSUME NEW r, NEW c, NEW t, Books(r, c, t), NEW attach \in BOOLEAN
  PROVE  LET d == IntoCache(c, t.n + 1, attach)
         IN  Books(r, d, NextSent(t, attach)) /\ d.has
<1> DEFINE n == t.n + 1
           d == IntoCache(c, n, attach)
           u == NextSent(t, attach)
<1>1. d \in Cache /\ u \in Sent /\ d.has
  BY DEF Books, Cache, Sent, IntoCache, NextSent
<1>2. r.n < u.n /\ u.attached \subseteq 1..u.n
  BY DEF Books, Balanced, Cur, Sent, NextSent
<1>3. AddsUp(r, d, u)
  <2>1. LastAttached(u.attached, r.n, r.buffer)
    BY DEF Books, Balanced, Cur, Sent, NextSent, AddsUp, LastAttached
  <2>2. r.cbs = 1..r.n /\ d.cbs = (r.n + 1)..u.n
    BY DEF Books, Balanced, Cur, Sent, NextSent, AddsUp, IntoCache
  <2>3. LastAttached(u.attached, u.n, CommitState(r, d).buffer)
    <3>1. CASE attach
      <4>1. CommitState(r, d).buffer = u.n
        BY <3>1 DEF CommitState, IntoCache, NextSent
      <4>2. u.n \in u.attached /\ u.n \in Nat
        BY <3>1 DEF NextSent, Books, Sent
      <4>. QED
        BY <4>1, <4>2 DEF LastAttached
    <3>2. CASE ~attach
      <4>1. u.attached = t.attached
        BY <3>2 DEF NextSent, Books, Sent
      <4>2. LastAttached(t.attached, t.n, CommitState(r, c).buffer)
        BY DEF Books, Balanced, AddsUp, CommitState, EmptyCache
      <4>3. CommitState(r, d).buffer = CommitState(r, c).buffer
        BY <3>2 DEF CommitState, IntoCache
      <4>. QED
        BY <4>1, <4>2, <4>3 DEF LastAttached, NextSent, Books, Balanced, Sent
    <3>. QED
      BY <3>1, <3>2
  <2>. QED
    BY <2>1, <2>2, <2>3, <1>1 DEF AddsUp, IntoCache, NextSent
<1>4. Current(u.attached, r.fbs, r.n)
  BY DEF Books, Balanced, Current, NextSent, Cur, Sent
<1>5. Current(u.attached, d.fbs, u.n)
  <2>1. CASE attach
    BY <2>1 DEF Books, Sent, Current, NextSent, IntoCache
  <2>2. CASE ~attach
    BY <2>2 DEF Books, Balanced, Cache, Sent, Current, NextSent, IntoCache
  <2>. QED
    BY <2>1, <2>2
<1>6. d.attached => d.buffer > r.n
  BY DEF Books, Balanced, Cur, Cache, Sent, IntoCache, EmptyCache
<1>. QED
  BY <1>1, <1>2, <1>3, <1>4, <1>5, <1>6 DEF Books, Balanced, Cur, Sent

(* Applying the cache empties it and keeps the balance.                    *)
LEMMA CommitStateBalanced ==
  ASSUME NEW r, NEW c, NEW t, Books(r, c, t), c.has
  PROVE  Books(CommitState(r, c), EmptyCache, t)
<1> DEFINE q == CommitState(r, c)
<1>1. q \in Cur /\ EmptyCache \in Cache
  BY DEF Books, Cur, Cache, CommitState, EmptyCache
<1>2. q.n = t.n /\ q.cbs = 1..t.n
  BY DEF Books, Balanced, AddsUp, CommitState, Cur, Cache, Sent
<1>3. LastAttached(t.attached, t.n, q.buffer)
  BY DEF Books, Balanced, AddsUp
<1>4. Current(t.attached, q.fbs, q.n)
  <2>1. CASE c.attached
    BY <1>2, <2>1 DEF Books, Balanced, Current, CommitState
  <2>2. CASE ~c.attached
    <3>1. LastAttached(t.attached, t.n, r.buffer) /\ r.buffer \in 0..r.n
      BY <1>3, <2>2 DEF CommitState, Books, Balanced, AddsUp, LastAttached
    <3>2. \A k \in (r.n + 1)..t.n : k \notin t.attached
      BY <3>1 DEF LastAttached, Books, Cur, Sent
    <3>. QED
      BY <1>2, <2>2, <3>2 DEF Books, Balanced, Current, CommitState, Cur, Sent
  <2>. QED
    BY <2>1, <2>2
<1>5. EmptyCache.cbs = {} /\ EmptyCache.fbs = {} /\ ~EmptyCache.has
  BY DEF EmptyCache
<1>. QED
  BY <1>1, <1>2, <1>3, <1>4, <1>5
  DEF Books, Balanced, AddsUp, Current, Sent

(* So does dropping the cache, when the books are cut back to what is shown.*)
LEMMA KeptBalanced ==
  ASSUME NEW r, NEW c, NEW t, Books(r, c, t)
  PROVE  Books(r, EmptyCache, [n |-> r.n, attached |-> t.attached \cap 1..r.n])
  BY DEF Books, Balanced, AddsUp, LastAttached, Current, Cur, Cache, Sent, EmptyCache

-----------------------------------------------------------------------------
(* The invariant.                                                          *)

(* No surface has committed anything at first.                             *)
LEMMA InitAccounts == Init => Accounts
<1>. SUFFICES ASSUME Init PROVE Accounts
  OBVIOUS
<1>1. Books(InitCur, EmptyCache, NothingSent)
  BY NothingBalanced
<1>. QED
  BY <1>1 DEF Init, Accounts, Books

(* A surface that is left alone keeps its books balanced.                  *)
LEMMA BooksOf ==
  ASSUME Accounts, NEW s \in Surfaces
  PROVE  Books(cur[s], cache[s], sent[s])
  BY DEF Accounts, Books

(* Applying the due caches of any set of surfaces keeps the invariant.     *)
LEMMA ApplyAccounts ==
  ASSUME Accounts, NEW caches, NEW S, sent' \in [Surfaces -> Sent],
         Apply(caches, S),
         \A s \in Surfaces : Books(cur[s], caches[s], sent'[s])
  PROVE  Accounts'
<1>1. ASSUME NEW s \in Surfaces
      PROVE  Books(cur'[s], cache'[s], sent'[s])
  <2>1. CASE s \in S /\ caches[s].has
    <3>1. cur'[s] = CommitState(cur[s], caches[s]) /\ cache'[s] = EmptyCache
      BY <2>1 DEF Apply
    <3>. QED
      BY <2>1, <3>1, CommitStateBalanced
  <2>2. CASE ~(s \in S /\ caches[s].has)
    BY <2>2 DEF Apply
  <2>. QED
    BY <2>1, <2>2
<1>2. cur' = [s \in Surfaces |-> cur'[s]] /\ cache' = [s \in Surfaces |-> cache'[s]]
  BY DEF Apply
<1>. QED
  BY <1>1, <1>2 DEF Accounts, Books

(* Every step keeps the books balanced.                                    *)
LEMMA NextAccounts == Accounts /\ [Next]_vars => Accounts'
<1>. SUFFICES ASSUME Accounts, [Next]_vars PROVE Accounts'
  OBVIOUS
<1>1. ASSUME UNCHANGED <<cur, cache, sent>> PROVE Accounts'
  BY <1>1 DEF Accounts
<1>2. ASSUME NEW s \in Surfaces, Commit(s) PROVE Accounts'
  <2>. PICK attach \in BOOLEAN :
         LET n      == sent[s].n + 1
             filled == [cache EXCEPT ![s] = IntoCache(@, n, attach)]
         IN  /\ sent' = [sent EXCEPT ![s] = NextSent(@, attach)]
             /\ \/ cache' = filled /\ UNCHANGED cur
                \/ Apply(filled, {s} \cup Reached(s))
    BY <1>2 DEF Commit, NextSent
  <2> DEFINE filled == [cache EXCEPT ![s] = IntoCache(@, sent[s].n + 1, attach)]
  <2>1. \A t \in Surfaces : Books(cur[t], filled[t], sent'[t])
    <3>1. Books(cur[s], IntoCache(cache[s], sent[s].n + 1, attach), NextSent(sent[s], attach))
      BY BooksOf, IntoCacheBalanced
    <3>2. filled[s] = IntoCache(cache[s], sent[s].n + 1, attach)
          /\ sent'[s] = NextSent(sent[s], attach)
      BY DEF Accounts
    <3>3. \A t \in Surfaces \ {s} : filled[t] = cache[t] /\ sent'[t] = sent[t]
      BY DEF Accounts
    <3>. QED
      BY <3>1, <3>2, <3>3, BooksOf
  <2>2. sent' \in [Surfaces -> Sent]
    <3>1. NextSent(sent[s], attach) \in Sent
      BY DEF NextSent, Sent, Accounts
    <3>. QED
      BY <3>1 DEF Accounts
  <2>3. CASE cache' = filled /\ UNCHANGED cur
    <3>1. filled \in [Surfaces -> Cache]
      <4>1. filled = [t \in Surfaces |-> filled[t]]
        BY DEF Accounts
      <4>. QED
        BY <2>1, <4>1 DEF Books
    <3>. QED
      BY <2>1, <2>2, <2>3, <3>1 DEF Accounts, Books
  <2>4. CASE Apply(filled, {s} \cup Reached(s))
    <3> HIDE DEF filled
    <3>. QED
      BY <2>1, <2>2, <2>4, ApplyAccounts
  <2>. QED
    BY <2>3, <2>4
<1>3. ASSUME NEW s \in Surfaces, SetDesync(s) PROVE Accounts'
  <2>1. sent' = sent
    BY <1>3 DEF SetDesync
  <2>2. CASE UNCHANGED <<cur, cache>>
    BY <1>1, <2>1, <2>2
  <2>3. CASE Apply(cache, {s} \cup Below(s))
    <3>1. sent' \in [Surfaces -> Sent] /\ \A t \in Surfaces : Books(cur[t], cache[t], sent'[t])
      BY <2>1, BooksOf DEF Accounts
    <3>. QED
      BY <2>3, <3>1, ApplyAccounts
  <2>. QED
    BY <1>3, <2>2, <2>3 DEF SetDesync
<1>4. ASSUME NEW s \in Surfaces, DestroySubsurface(s) PROVE Accounts'
  <2>1. Books(cur[s], EmptyCache, Kept(s))
    BY BooksOf, KeptBalanced DEF Kept
  <2>. QED
    BY <1>4, <2>1 DEF DestroySubsurface, Accounts, Books
<1>5. ASSUME NEW s \in Surfaces, DestroySurface(s) PROVE Accounts'
  BY <1>5, NothingBalanced DEF DestroySurface, Accounts, Books
<1>6. CASE \E s \in Surfaces : CreateSurface(s) \/ SetSync(s)
  BY <1>1, <1>6 DEF CreateSurface, SetSync
<1>7. CASE \E s, t \in Surfaces : GetSubsurface(s, t) \/ PlaceAbove(s, t) \/ PlaceBelow(s, t)
  BY <1>1, <1>7 DEF GetSubsurface, Adopt, PlaceAbove, PlaceBelow, Place
<1>8. CASE UNCHANGED vars
  BY <1>1, <1>8 DEF vars
<1>. QED
  BY <1>2, <1>3, <1>4, <1>5, <1>6, <1>7, <1>8 DEF Next

(* The tree keeps its type.                                                *)
LEMMA NextTyped ==
  Typed /\ [Next]_vars => Typed'
<1>. SUFFICES ASSUME Typed, [Next]_vars PROVE Typed'
  OBVIOUS
<1>. USE DEF Typed
<1>1. CASE UNCHANGED tree
  BY <1>1
<1>2. ASSUME NEW s \in Surfaces, CreateSurface(s) \/ SetSync(s) \/ SetDesync(s)
      PROVE  Typed'
  <2>1. CASE CreateSurface(s)
    BY <2>1 DEF CreateSurface, TreeRec
  <2>2. CASE SetSync(s)
    BY <2>2 DEF SetSync, TreeRec
  <2>3. CASE SetDesync(s)
    BY <2>3 DEF SetDesync, TreeRec
  <2>. QED
    BY <1>2, <2>1, <2>2, <2>3
<1>3. ASSUME NEW s \in Surfaces, DestroySubsurface(s) PROVE Typed'
  BY <1>3 DEF DestroySubsurface, NoTree, TreeRec
<1>4. ASSUME NEW s \in Surfaces, DestroySurface(s) PROVE Typed'
  BY <1>4 DEF DestroySurface, NoTree, TreeRec
<1>5. ASSUME NEW s \in Surfaces, NEW p \in Surfaces, GetSubsurface(s, p) PROVE Typed'
  BY <1>5 DEF GetSubsurface, Adopt, TreeRec
<1>. QED
  BY <1>1, <1>2, <1>3, <1>4, <1>5
  DEF Next, vars, Commit, PlaceAbove, PlaceBelow, Place

(* The invariant holds in every state.                                     *)
THEOREM Invariance == Spec => []Inv
<1>1. Init => Inv
  BY InitAccounts DEF Inv, Init, NoTree, TreeRec, Typed
<1>2. Inv /\ [Next]_vars => Inv'
  BY NextAccounts, NextTyped DEF Inv
<1>. QED
  BY <1>1, <1>2, PTL DEF Spec

(* No commit is lost, kept back or applied twice on its way through the    *)
(* caches: for any surfaces, and without a bound on the commits.           *)
THEOREM NothingIsLost == Spec => []CommitsAddUp
<1>1. Inv => CommitsAddUp
  BY DEF Inv, Accounts, Balanced, CommitsAddUp
<1>. QED
  BY <1>1, Invariance, PTL

(* Presentation feedback never outlives the content it was asked for.      *)
THEOREM FeedbackStaysCurrent == Spec => []FeedbackIsCurrent
<1>1. Inv => FeedbackIsCurrent
  BY DEF Inv, Accounts, Balanced, FeedbackIsCurrent
<1>. QED
  BY <1>1, Invariance, PTL

(* A step that changes no tree leaves everybody's mode as it is.           *)
LEMMA SameMode ==
  ASSUME tree' = tree, NEW s \in Surfaces
  PROVE  IsSynchronized(s)' <=> IsSynchronized(s)
  BY DEF IsSynchronized, Above, HasParent

(* What a step does to a synchronised sub-surface that stays synchronised. *)
LEMMA StepFollowsAncestor ==
  ASSUME Inv, [Next]_vars, NEW s \in Surfaces,
         cur'[s].n # cur[s].n, tree'[s].alive, IsSynchronized(s), IsSynchronized(s)'
  PROVE  \E a \in Above(s) : /\ ~IsSynchronized(a)'
                             /\ sent'[a] # sent[a] \/ tree'[a].sync # tree[a].sync
<1>1. ASSUME NEW caches, NEW S, Apply(caches, S) PROVE s \in S
  BY <1>1 DEF Apply
<1>2. ASSUME NEW a \in Surfaces, Commit(a)
      PROVE  \E b \in Above(s) : ~IsSynchronized(b)' /\ sent'[b] # sent[b]
  <2>1. PICK caches : ~IsSynchronized(a) /\ Apply(caches, {a} \cup Reached(a))
    BY <1>2 DEF Commit
  <2>2. tree' = tree /\ ~IsSynchronized(a)'
    BY <1>2, <2>1, SameMode DEF Commit
  <2>3. s \in {a} \cup Reached(a) /\ s # a
    BY <1>1, <2>1
  <2>4. a \in Above(s)
    BY <2>3 DEF Reached, Below
  <2>5. sent'[a].n = sent[a].n + 1 /\ sent[a].n \in Nat
    BY <1>2 DEF Commit, Inv, Accounts, Sent
  <2>6. sent'[a] # sent[a]
    BY <2>5
  <2>. QED
    BY <2>2, <2>4, <2>6
<1>3. ASSUME NEW a \in Surfaces, SetDesync(a)
      PROVE  \E b \in Above(s) : ~IsSynchronized(b)' /\ tree'[b].sync # tree[b].sync
  <2>1. ~IsSynchronized(a)' /\ Apply(cache, {a} \cup Below(a))
    BY <1>3 DEF SetDesync
  <2>2. s \in {a} \cup Below(a) /\ s # a
    BY <1>1, <2>1
  <2>3. a \in Above(s)
    BY <2>2 DEF Below
  <2>4. tree[a].sync /\ ~tree'[a].sync
    BY <1>3 DEF SetDesync, Inv, Typed, TreeRec
  <2>. QED
    BY <2>1, <2>3, <2>4
<1>4. ASSUME NEW a \in Surfaces, DestroySurface(a) PROVE FALSE
  <2>1. s = a
    BY <1>4 DEF DestroySurface, Inv
  <2>2. ~tree'[a].alive
    BY <1>4 DEF DestroySurface, NoTree
  <2>. QED
    BY <2>1, <2>2
<1>5. CASE UNCHANGED cur
  BY <1>5
<1>6. CASE \E a \in Surfaces : CreateSurface(a) \/ SetSync(a) \/ DestroySubsurface(a)
  BY <1>6 DEF CreateSurface, SetSync, DestroySubsurface
<1>7. CASE \E a, b \in Surfaces : GetSubsurface(a, b) \/ PlaceAbove(a, b) \/ PlaceBelow(a, b)
  BY <1>7 DEF GetSubsurface, Adopt, PlaceAbove, PlaceBelow, Place
<1>. QED
  BY <1>2, <1>3, <1>4, <1>5, <1>6, <1>7 DEF Next, vars

(* A synchronised sub-surface gets new state only from an ancestor that is *)
(* not synchronised: for trees of any size and depth.                      *)
THEOREM SyncFollows == Spec => SyncFollowsAncestor
<1>1. Inv /\ [Next]_vars =>
        [\A s \in Surfaces :
           (cur'[s].n # cur[s].n /\ tree'[s].alive /\ IsSynchronized(s) /\ IsSynchronized(s)')
             => \E a \in Above(s) : /\ ~IsSynchronized(a)'
                                    /\ sent'[a] # sent[a] \/ tree'[a].sync # tree[a].sync]_vars
  BY StepFollowsAncestor
<1>. QED
  BY <1>1, Invariance, PTL DEF Spec, SyncFollowsAncestor

-----------------------------------------------------------------------------
(* Sequences as orders: what the stacking requests do to a list.           *)

(* An order is a sequence that lists nobody twice.                         *)
Order == {q \in Seq(Surfaces) : IsInjective(q)}

(* What an order is, position by position.                                 *)
LEMMA OrderPositions ==
  ASSUME NEW q \in Seq(Surfaces), NEW n \in Nat, n = Len(q)
  PROVE  /\ q \in Order <=> \A k, m \in 1..n : q[k] = q[m] => k = m
         /\ \A x : x \in ToSet(q) <=> \E k \in 1..n : q[k] = x
<1>1. DOMAIN q = 1..n
  OBVIOUS
<1>. QED
  BY <1>1 DEF Order, IsInjective, ToSet

(* r is q without its position i, or with s at position i.                 *)
Shorter(r, q, i) ==
  /\ Len(r) = Len(q) - 1
  /\ \A k \in 1..Len(r) : r[k] = IF k < i THEN q[k] ELSE q[k + 1]

Longer(r, q, i, s) ==
  /\ Len(r) = Len(q) + 1
  /\ \A k \in 1..Len(r) : r[k] = IF k < i THEN q[k] ELSE IF k = i THEN s ELSE q[k - 1]

(* A sequence that has lost its position i.                                *)
LEMMA ShorterIsOrder ==
  ASSUME NEW q \in Order, NEW i \in 1..Len(q), NEW r \in Seq(Surfaces), Shorter(r, q, i)
  PROVE  r \in Order /\ ToSet(r) = ToSet(q) \ {q[i]}
<1>. q \in Seq(Surfaces)
  BY DEF Order
<1>. PICK n \in Nat : n = Len(q)
  OBVIOUS
<1>. n - 1 \in Nat /\ i \in 1..n
  OBVIOUS
<1>. Len(r) = n - 1 /\ \A k \in 1..(n - 1) : r[k] = IF k < i THEN q[k] ELSE q[k + 1]
  BY DEF Shorter
<1>1. \A k, m \in 1..n : q[k] = q[m] => k = m
  BY OrderPositions
<1>2. \A k, m \in 1..(n - 1) : r[k] = r[m] => k = m
  <2>. TAKE k, m \in 1..(n - 1)
  <2>1. k + 1 \in 1..n /\ m + 1 \in 1..n /\ k \in 1..n /\ m \in 1..n
    OBVIOUS
  <2>. QED
    BY <1>1, <2>1
<1>3. ASSUME NEW x, \E k \in 1..(n - 1) : r[k] = x PROVE \E k \in 1..n : k # i /\ q[k] = x
  <2>1. PICK k \in 1..(n - 1) : r[k] = x
    BY <1>3
  <2>2. k \in 1..n /\ k + 1 \in 1..n
    OBVIOUS
  <2>. QED
    BY <2>1, <2>2
<1>4. ASSUME NEW x, NEW k \in 1..n, k # i, q[k] = x PROVE \E j \in 1..(n - 1) : r[j] = x
  <2>1. CASE k < i
    BY <1>4, <2>1
  <2>2. CASE k > i
    <3>1. k - 1 \in 1..(n - 1) /\ ~(k - 1 < i) /\ (k - 1) + 1 = k
      BY <2>2
    <3>2. r[k - 1] = q[k]
      BY <3>1
    <3>. QED
      BY <3>1, <3>2, <1>4
  <2>. QED
    BY <1>4, <2>1, <2>2
<1>5. \A x : x \in ToSet(r) <=> \E k \in 1..(n - 1) : r[k] = x
  BY OrderPositions
<1>6. \A x : x \in ToSet(q) <=> \E k \in 1..n : q[k] = x
  BY OrderPositions
<1>7. \A x : x \in ToSet(r) <=> x \in ToSet(q) /\ x # q[i]
  BY <1>1, <1>3, <1>4, <1>5, <1>6
<1>. QED
  BY <1>2, <1>7, OrderPositions

(* A sequence that has gained somebody new at position i.                  *)
LEMMA LongerIsOrder ==
  ASSUME NEW q \in Order, NEW i \in 1..(Len(q) + 1), NEW r \in Seq(Surfaces),
         NEW s, s \notin ToSet(q), Longer(r, q, i, s)
  PROVE  r \in Order /\ ToSet(r) = ToSet(q) \cup {s}
<1>. q \in Seq(Surfaces)
  BY DEF Order
<1>. PICK n \in Nat : n = Len(q)
  OBVIOUS
<1>. i \in 1..(n + 1) /\ Len(r) = n + 1
     /\ \A k \in 1..(n + 1) : r[k] = IF k < i THEN q[k] ELSE IF k = i THEN s ELSE q[k - 1]
  BY DEF Longer
<1>1. \A k, m \in 1..n : q[k] = q[m] => k = m
  BY OrderPositions
<1>5. \A x : x \in ToSet(r) <=> \E k \in 1..(n + 1) : r[k] = x
  BY OrderPositions
<1>6. \A x : x \in ToSet(q) <=> \E k \in 1..n : q[k] = x
  BY OrderPositions
<1>2. \A k, m \in 1..(n + 1) : r[k] = r[m] => k = m
  <2>. TAKE k, m \in 1..(n + 1)
  <2>1. (k < i => k \in 1..n) /\ (m < i => m \in 1..n)
    OBVIOUS
  <2>2. (k > i => k - 1 \in 1..n) /\ (m > i => m - 1 \in 1..n)
    OBVIOUS
  <2>. QED
    BY <1>1, <1>6, <2>1, <2>2
<1>3. ASSUME NEW k \in 1..(n + 1) PROVE r[k] = s \/ \E j \in 1..n : r[k] = q[j]
  <2>1. (k < i => k \in 1..n) /\ (k > i => k - 1 \in 1..n)
    OBVIOUS
  <2>. QED
    BY <2>1
<1>4. ASSUME NEW x, NEW k \in 1..n, q[k] = x PROVE \E j \in 1..(n + 1) : r[j] = x
  <2>1. CASE k < i
    BY <1>4, <2>1
  <2>2. CASE k >= i
    <3>1. k + 1 \in 1..(n + 1) /\ ~(k + 1 < i) /\ k + 1 # i /\ (k + 1) - 1 = k
      BY <2>2
    <3>2. r[k + 1] = q[k]
      BY <3>1
    <3>. QED
      BY <3>1, <3>2, <1>4
  <2>. QED
    BY <1>4, <2>1, <2>2
<1>7. \A x : x \in ToSet(r) <=> x \in ToSet(q) \/ x = s
  BY <1>3, <1>4, <1>5, <1>6
<1>. QED
  BY <1>2, <1>7, OrderPositions

(* Where an order is cut, and what it is joined of.                        *)
LEMMA CutOrder ==
  ASSUME NEW q \in Seq(Surfaces), NEW i \in 1..(Len(q) + 1)
  PROVE  /\ SubSeq(q, 1, i - 1) \in Seq(Surfaces)
         /\ Len(SubSeq(q, 1, i - 1)) = i - 1
         /\ \A k \in 1..(i - 1) : SubSeq(q, 1, i - 1)[k] = q[k]
         /\ SubSeq(q, i, Len(q)) \in Seq(Surfaces)
         /\ Len(SubSeq(q, i, Len(q))) = Len(q) + 1 - i
         /\ \A k \in 1..(Len(q) + 1 - i) : SubSeq(q, i, Len(q))[k] = q[i + k - 1]
  OBVIOUS

(* What two sequences are joined to.                                       *)
LEMMA JoinedPositions ==
  ASSUME NEW a \in Seq(Surfaces), NEW b \in Seq(Surfaces)
  PROVE  /\ a \o b \in Seq(Surfaces)
         /\ Len(a \o b) = Len(a) + Len(b)
         /\ \A k \in 1..Len(a) : (a \o b)[k] = a[k]
         /\ \A k \in 1..Len(b) : (a \o b)[Len(a) + k] = b[k]
  OBVIOUS

(* Taking a surface off a list takes off nobody else.                      *)
LEMMA RemovedIsOrder ==
  ASSUME NEW q \in Order, NEW s
  PROVE  /\ RemoveFirst(q, s) \in Order
         /\ ToSet(RemoveFirst(q, s)) = ToSet(q) \ {s}
<1>1. CASE \A i \in 1..Len(q) : q[i] # s
  <2>1. RemoveFirst(q, s) = q
    BY <1>1 DEF RemoveFirst
  <2>2. s \notin ToSet(q)
    BY <1>1 DEF ToSet, Order
  <2>. QED
    BY <2>1, <2>2
<1>2. ASSUME NEW i \in 1..Len(q), q[i] = s
      PROVE  /\ RemoveFirst(q, s) \in Order
             /\ ToSet(RemoveFirst(q, s)) = ToSet(q) \ {s}
  <2> DEFINE a == SubSeq(q, 1, i - 1)
             b == SubSeq(q, i + 1, Len(q))
             n == Len(q)
             r == a \o b
  <2>1. q \in Seq(Surfaces) /\ n \in Nat /\ i \in 1..n
    BY DEF Order
  <2>2. RemoveFirst(q, s) = r
    <3>1. \A j \in 1..Len(q) : q[j] = s <=> j = i
      BY <1>2 DEF Order, IsInjective
    <3>2. {j \in 1..Len(q) : q[j] = s} = {i}
      BY <3>1
    <3>3. Min({i}) = i
      BY DEF Min
    <3>. QED
      BY <3>2, <3>3, <1>2 DEF RemoveFirst, SelectInSeq, RemoveAt
  <2>3. a \in Seq(Surfaces) /\ Len(a) = i - 1 /\ \A k \in 1..(i - 1) : a[k] = q[k]
    <3>1. i \in 1..(Len(q) + 1)
      BY <2>1
    <3>. QED
      BY <2>1, <3>1, CutOrder
  <2>4. b \in Seq(Surfaces) /\ Len(b) = n - i /\ \A k \in 1..(n - i) : b[k] = q[i + k]
    <3>1. i + 1 \in 1..(Len(q) + 1) /\ Len(q) + 1 - (i + 1) = n - i
      BY <2>1
    <3>2. b \in Seq(Surfaces) /\ Len(b) = n - i
          /\ \A k \in 1..(n - i) : b[k] = q[(i + 1) + k - 1]
      BY <2>1, <3>1, CutOrder
    <3>3. \A k \in 1..(n - i) : (i + 1) + k - 1 = i + k
      BY <2>1
    <3>. QED
      BY <3>2, <3>3
  <2> HIDE DEF a, b, n
  <2>5. /\ r \in Seq(Surfaces) /\ Len(r) = Len(a) + Len(b)
        /\ \A k \in 1..Len(a) : r[k] = a[k]
        /\ \A k \in 1..Len(b) : r[Len(a) + k] = b[k]
    <3>1. a \in Seq(Surfaces) /\ b \in Seq(Surfaces)
      BY <2>3, <2>4
    <3>. QED
      BY <3>1, JoinedPositions
  <2> HIDE DEF r
  <2>6. Len(r) = n - 1
    BY <2>1, <2>3, <2>4, <2>5
  <2>7. \A k \in 1..(n - 1) : r[k] = IF k < i THEN q[k] ELSE q[k + 1]
    <3>. TAKE k \in 1..(n - 1)
    <3>1. CASE k < i
      <4>1. k \in 1..(i - 1)
        BY <2>1, <3>1
      <4>. QED
        BY <3>1, <4>1, <2>3, <2>5
    <3>2. CASE ~(k < i)
      <4>1. k - (i - 1) \in 1..(n - i) /\ (i - 1) + (k - (i - 1)) = k /\ i + (k - (i - 1)) = k + 1
        BY <2>1, <3>2
      <4>2. r[(i - 1) + (k - (i - 1))] = b[k - (i - 1)]
        BY <4>1, <2>3, <2>4, <2>5
      <4>3. b[k - (i - 1)] = q[i + (k - (i - 1))]
        BY <4>1, <2>4
      <4>. QED
        BY <4>1, <4>2, <4>3, <3>2
    <3>. QED
      BY <3>1, <3>2
  <2>8. r \in Order /\ ToSet(r) = ToSet(q) \ {q[i]}
    <3>1. n = Len(q) /\ n \in Nat /\ i \in 1..n /\ r \in Seq(Surfaces)
      BY <2>1, <2>5 DEF n
    <3>2. Shorter(r, q, i)
      BY <3>1, <2>6, <2>7 DEF Shorter
    <3>. QED
      BY <3>1, <3>2, ShorterIsOrder
  <2>. QED
    BY <1>2, <2>2, <2>8
<1>. QED
  BY <1>1, <1>2

(* Putting a new one in, anywhere, keeps all the others.                   *)
LEMMA InsertedIsOrder ==
  ASSUME NEW q \in Order, NEW s \in Surfaces, s \notin ToSet(q), NEW i \in 1..(Len(q) + 1)
  PROVE  /\ InsertAt(q, i, s) \in Order
         /\ ToSet(InsertAt(q, i, s)) = ToSet(q) \cup {s}
<1> DEFINE a == SubSeq(q, 1, i - 1)
           b == SubSeq(q, i, Len(q))
           n == Len(q)
           c == a \o <<s>>
           r == c \o b
<1>1. q \in Seq(Surfaces) /\ n \in Nat /\ i \in 1..(n + 1)
  BY DEF Order
<1>2. r = InsertAt(q, i, s)
  BY DEF InsertAt
<1>3. a \in Seq(Surfaces) /\ Len(a) = i - 1 /\ \A k \in 1..(i - 1) : a[k] = q[k]
  BY <1>1, CutOrder
<1>4. b \in Seq(Surfaces) /\ Len(b) = n + 1 - i /\ \A k \in 1..(n + 1 - i) : b[k] = q[i + k - 1]
  BY <1>1, CutOrder
<1>5. n = Len(q)
  OBVIOUS
<1> HIDE DEF a, b, n
<1>6. /\ c \in Seq(Surfaces) /\ Len(c) = Len(a) + 1
      /\ \A k \in 1..Len(a) : c[k] = a[k]
      /\ c[Len(a) + 1] = s
  <2>1. <<s>> \in Seq(Surfaces) /\ Len(<<s>>) = 1 /\ <<s>>[1] = s /\ 1 \in 1..1
    OBVIOUS
  <2>. QED
    BY <1>3, <2>1, JoinedPositions
<1> HIDE DEF c
<1>7. /\ r \in Seq(Surfaces) /\ Len(r) = Len(c) + Len(b)
      /\ \A k \in 1..Len(c) : r[k] = c[k]
      /\ \A k \in 1..Len(b) : r[Len(c) + k] = b[k]
  <2>1. c \in Seq(Surfaces) /\ b \in Seq(Surfaces)
    BY <1>4, <1>6
  <2>. QED
    BY <2>1, JoinedPositions
<1> HIDE DEF r
<1>8. Len(c) = i /\ Len(r) = n + 1 /\ c[i] = s
  BY <1>1, <1>3, <1>4, <1>6, <1>7
<1>9. \A k \in 1..(n + 1) : r[k] = IF k < i THEN q[k] ELSE IF k = i THEN s ELSE q[k - 1]
  <2>. TAKE k \in 1..(n + 1)
  <2>1. CASE k <= i
    <3>1. k \in 1..i /\ (k # i => k \in 1..(i - 1) /\ k < i)
      BY <2>1, <1>1
    <3>. QED
      BY <3>1, <1>3, <1>6, <1>7, <1>8
  <2>2. CASE k > i
    <3>1. k - i \in 1..(n + 1 - i) /\ i + (k - i) = k /\ i + (k - i) - 1 = k - 1
      BY <2>2, <1>1
    <3>2. r[i + (k - i)] = b[k - i]
      BY <3>1, <1>4, <1>7, <1>8
    <3>3. b[k - i] = q[i + (k - i) - 1]
      BY <3>1, <1>4
    <3>. QED
      BY <3>1, <3>2, <3>3, <2>2, <1>1
  <2>. QED
    BY <1>1, <2>1, <2>2
<1>10. r \in Order /\ ToSet(r) = ToSet(q) \cup {s}
  <2>1. r \in Seq(Surfaces) /\ n \in Nat /\ i \in 1..(n + 1) /\ Len(r) = n + 1
    BY <1>1, <1>7, <1>8
  <2>2. Longer(r, q, i, s)
    BY <2>1, <1>5, <1>9 DEF Longer
  <2>. QED
    BY <2>1, <2>2, <1>5, LongerIsOrder
<1>. QED
  BY <1>2, <1>10

(* A new child goes on top; the first one brings the parent along.         *)
LEMMA ListingIsOrder ==
  ASSUME NEW q \in Order, NEW p \in Surfaces, NEW s \in Surfaces, s # p, s \notin ToSet(q)
  PROVE  /\ Listing(q, p, s) \in Order
         /\ ToSet(Listing(q, p, s)) = {s} \cup (IF ToSet(q) = {} THEN {p} ELSE ToSet(q))
<1>1. ASSUME NEW t \in Order, s \notin ToSet(t)
      PROVE  <<s>> \o t \in Order /\ ToSet(<<s>> \o t) = ToSet(t) \cup {s}
  <2> DEFINE r == <<s>> \o t
  <2>1. t \in Seq(Surfaces) /\ 1 \in 1..(Len(t) + 1)
    BY DEF Order
  <2>2. PICK n \in Nat : n = Len(t)
    BY <2>1
  <2>3. r \in Seq(Surfaces) /\ Len(r) = n + 1 /\ r[1] = s /\ \A k \in 1..n : r[1 + k] = t[k]
    BY <2>1, <2>2
  <2> HIDE DEF r
  <2>4. Longer(r, t, 1, s)
    <3>1. \A k \in 1..(n + 1) : k # 1 => k - 1 \in 1..n /\ 1 + (k - 1) = k /\ ~(k < 1)
      BY <2>2
    <3>2. \A k \in 1..(n + 1) : k # 1 => r[k] = t[k - 1]
      BY <3>1, <2>3
    <3>. QED
      BY <3>1, <3>2, <2>2, <2>3 DEF Longer
  <2>5. r \in Order /\ ToSet(r) = ToSet(t) \cup {s}
    BY <1>1, <2>1, <2>3, <2>4, LongerIsOrder
  <2>. QED
    BY <2>5 DEF r
<1>2. <<p>> \in Order /\ ToSet(<<p>>) = {p}
  BY DEF Order, IsInjective, ToSet
<1>3. ToSet(q) = {} <=> q = <<>>
  <2>1. q \in Seq(Surfaces)
    BY DEF Order
  <2>2. q # <<>> => 1 \in DOMAIN q
    BY <2>1
  <2>. QED
    BY <2>2 DEF ToSet
<1>4. CASE q = <<>>
  <2>1. Listing(q, p, s) = <<s>> \o <<p>>
    BY <1>4 DEF Listing
  <2>2. s \notin ToSet(<<p>>)
    BY <1>2
  <2>. QED
    BY <1>1, <1>2, <1>3, <1>4, <2>1, <2>2
<1>5. CASE q # <<>>
  <2>1. Listing(q, p, s) = <<s>> \o q
    BY <1>5 DEF Listing
  <2>. QED
    BY <1>1, <1>3, <1>5, <2>1
<1>. QED
  BY <1>4, <1>5

-----------------------------------------------------------------------------
(* What is above a surface.                                                *)

(* A surface that is not a sub-surface has no parent.                      *)
Rooted == \A s \in Surfaces : tree[s].sub \/ tree[s].parent = NoSurface

(* What holds of the parents of s and of its members holds of all above s. *)
LEMMA AboveLeast ==
  ASSUME NEW s, NEW A \in SUBSET Surfaces, \A t \in A \cup {s} : HasParent(A, t)
  PROVE  Above(s) \subseteq A
  BY DEF Above

(* The parent is above, and so is the parent of all that is above.         *)
LEMMA AboveCloses ==
  ASSUME Typed, NEW s \in Surfaces, NEW t \in {s} \cup Above(s)
  PROVE  /\ t \in Surfaces
         /\ HasParent(Above(s), t)
<1>1. t \in Surfaces /\ tree[t].parent \in Surfaces \cup {NoSurface}
  BY DEF Above, Typed, TreeRec
<1>2. ASSUME NEW A \in SUBSET Surfaces, \A u \in A \cup {s} : HasParent(A, u)
      PROVE  HasParent(A, t)
  BY <1>2 DEF Above
<1>. QED
  BY <1>1, <1>2 DEF Above, HasParent

(* Those above somebody above s are above s.                               *)
LEMMA AboveTransitive ==
  ASSUME Typed, NEW s \in Surfaces, NEW t \in Above(s)
  PROVE  Above(t) \subseteq Above(s)
<1>1. \A u \in Above(s) \cup {t} : HasParent(Above(s), u)
  BY AboveCloses
<1>2. Above(s) \in SUBSET Surfaces
  BY DEF Above
<1>. QED
  BY <1>1, <1>2, AboveLeast

(* Whatever is above s is its parent, or above its parent.                 *)
LEMMA AboveUnfolds ==
  ASSUME Typed, NEW s \in Surfaces, NEW t \in Above(s)
  PROVE  tree[s].parent \in Surfaces /\ t \in {tree[s].parent} \cup Above(tree[s].parent)
<1>1. CASE tree[s].parent = NoSurface
  <2>1. \A u \in {} \cup {s} : HasParent({}, u)
    BY <1>1 DEF HasParent
  <2>2. Above(s) \subseteq {}
    BY <2>1, AboveLeast
  <2>. QED
    BY <2>2
<1>2. CASE tree[s].parent # NoSurface
  <2>. PICK p \in Surfaces : p = tree[s].parent
    BY <1>2 DEF Typed, TreeRec
  <2> DEFINE A == {p} \cup Above(p)
  <2>1. A \in SUBSET Surfaces
    BY DEF Above
  <2>2. \A u \in A \cup {s} : HasParent(A, u)
    BY AboveCloses DEF HasParent
  <2>. QED
    BY <2>1, <2>2, AboveLeast
<1>. QED
  BY <1>1, <1>2

(* Of two surfaces above the same one, one is above the other.             *)
LEMMA AboveIsChain ==
  ASSUME Typed, NEW s \in Surfaces, NEW a \in {s} \cup Above(s), NEW b \in {s} \cup Above(s)
  PROVE  a = b \/ a \in Above(b) \/ b \in Above(a)
<1> DEFINE A == {t \in Surfaces : t \in {a} \cup Above(a) \/ a \in Above(t)}
<1>1. a \in Surfaces
  BY AboveCloses
<1>2. \A t \in A : HasParent(A, t)
  <2>. TAKE t \in A
  <2>1. CASE t \in {a} \cup Above(a)
    <3>1. HasParent(Above(a), t)
      BY <1>1, <2>1, AboveCloses
    <3>. QED
      BY <3>1 DEF HasParent, Above
  <2>2. CASE a \in Above(t)
    BY <2>2, AboveUnfolds DEF HasParent
  <2>. QED
    BY <2>1, <2>2
<1>3. s \in A
  OBVIOUS
<1>4. Above(s) \subseteq A
  <2>1. A \in SUBSET Surfaces /\ \A t \in A \cup {s} : HasParent(A, t)
    BY <1>2, <1>3
  <2> HIDE DEF A
  <2>. QED
    BY <2>1, AboveLeast
<1>. QED
  BY <1>3, <1>4

(* Where parents are only lost, nobody gets above anybody.                 *)
LEMMA AboveShrinks ==
  ASSUME Typed, \A t \in Surfaces : tree'[t].parent \in {tree[t].parent, NoSurface},
         NEW s \in Surfaces
  PROVE  Above(s)' \subseteq Above(s)
<1>1. Above(s) \in SUBSET Surfaces /\ \A t \in Above(s) \cup {s} : HasParent(Above(s), t)
  BY AboveCloses DEF Above
<1>3. \A t \in Above(s) \cup {s} : tree'[t].parent \in Above(s) \cup {NoSurface}
  BY <1>1 DEF HasParent
<1>4. ASSUME NEW A \in SUBSET Surfaces, \A t \in A \cup {s} : tree'[t].parent \in A \cup {NoSurface}
      PROVE  Above(s)' \subseteq A
  BY <1>4 DEF Above, HasParent
<1>. QED
  BY <1>1, <1>3, <1>4

(* Where they stay as they are, so do those above.                         *)
LEMMA AboveStays ==
  ASSUME \A t \in Surfaces : tree'[t].parent = tree[t].parent, NEW s \in Surfaces
  PROVE  Above(s)' = Above(s)
  BY DEF Above, HasParent

-----------------------------------------------------------------------------
(* The tree has no cycle.  A surface may only become the child of one that *)
(* it is not above: subcompositor_get_subsurface() only looks at the main  *)
(* surface of the new parent, but a surface that has no role yet cannot be *)
(* anywhere else above it.                                                 *)
LEMMA AdoptKeepsAcyclic ==
  ASSUME Typed, Acyclic, Rooted, NEW s \in Surfaces, NEW p \in Surfaces, GetSubsurface(s, p)
  PROVE  Acyclic'
<1>1. /\ tree'[s].parent = p
      /\ \A t \in Surfaces \ {s} : tree'[t].parent = tree[t].parent
      /\ tree[s].parent = NoSurface
      /\ s \notin {p} \cup Above(p)
  BY DEF GetSubsurface, Adopt, MainSurfaceIs, Typed, TreeRec, Rooted
<1>2. ASSUME NEW t \in Surfaces PROVE t \notin Above(t)'
  <2> DEFINE P == {p} \cup Above(p)
             A == Above(t) \cup P
  <2>1. ASSUME NEW B \in SUBSET Surfaces, \A u \in B \cup {t} : tree'[u].parent \in B \cup {NoSurface}
        PROVE  Above(t)' \subseteq B
    BY <2>1 DEF Above, HasParent
  <2>2. \A u \in {t} \cup Above(t) : tree[u].parent \in Above(t) \cup {NoSurface}
    BY AboveCloses DEF HasParent
  <2>3. \A u \in {p} \cup Above(p) : tree[u].parent \in Above(p) \cup {NoSurface}
    BY AboveCloses DEF HasParent
  <2>4. Above(t) \subseteq Surfaces /\ Above(p) \subseteq Surfaces /\ t \notin Above(t)
    BY DEF Above, Acyclic, Below
  <2>5. CASE s \notin {t} \cup Above(t)
    <3>1. \A u \in Above(t) \cup {t} : tree'[u].parent \in Above(t) \cup {NoSurface}
      BY <1>1, <2>2, <2>4, <2>5
    <3>. QED
      BY <2>1, <2>4, <3>1
  <2>6. CASE s = t
    <3>1. P \in SUBSET Surfaces /\ \A u \in P \cup {t} : tree'[u].parent \in P \cup {NoSurface}
      BY <1>1, <2>3, <2>4, <2>6
    <3> HIDE DEF P
    <3>2. Above(t)' \subseteq P
      BY <2>1, <3>1
    <3> USE DEF P
    <3>. QED
      BY <1>1, <2>6, <3>2
  <2>7. CASE s \in Above(t)
    <3>1. A \in SUBSET Surfaces /\ \A u \in A \cup {t} : tree'[u].parent \in A \cup {NoSurface}
      BY <1>1, <2>2, <2>3, <2>4
    <3> HIDE DEF A
    <3>2. Above(t)' \subseteq A
      BY <2>1, <3>1
    <3> USE DEF A
    <3>3. t # p
      BY <1>1, <2>7
    <3>4. t \notin Above(p)
      BY <1>1, <2>7, AboveTransitive
    <3>. QED
      BY <2>4, <3>2, <3>3, <3>4
  <2>. QED
    BY <2>5, <2>6, <2>7
<1>. QED
  BY <1>2 DEF Acyclic, Below

(* What is kept of the tree alone, of the lists, and of both.              *)
Forest == Typed /\ Rooted /\ Acyclic

Stacked == stack \in [Surfaces -> Order] /\ pendingStack \in [Surfaces -> Order]

Linked == Forest /\ Stacked /\ ListsHoldChildren

(* Steps that take no parent, or only drop parents, make no cycle.         *)
LEMMA DroppingKeepsAcyclic ==
  ASSUME Typed, Acyclic, \A t \in Surfaces : tree'[t].parent \in {tree[t].parent, NoSurface}
  PROVE  Acyclic'
  BY AboveShrinks DEF Acyclic, Below

(* The tree stays a forest.                                                *)
LEMMA NextForest ==
  Forest /\ [Next]_vars => Forest'
<1>. SUFFICES ASSUME Forest, [Next]_vars PROVE Rooted' /\ Acyclic'
  BY NextTyped DEF Forest
<1>. USE DEF Forest
<1>1. ASSUME \A t \in Surfaces : tree'[t].sub = tree[t].sub /\ tree'[t].parent = tree[t].parent
      PROVE  Rooted' /\ Acyclic'
  BY <1>1, DroppingKeepsAcyclic DEF Rooted
<1>2. ASSUME NEW s \in Surfaces, CreateSurface(s) \/ SetSync(s) \/ SetDesync(s)
      PROVE  Rooted' /\ Acyclic'
  <2>1. \A t \in Surfaces : tree'[t].sub = tree[t].sub /\ tree'[t].parent = tree[t].parent
    BY <1>2 DEF CreateSurface, SetSync, SetDesync, Typed, TreeRec
  <2>. QED
    BY <1>1, <2>1
<1>3. ASSUME NEW s \in Surfaces, DestroySubsurface(s) PROVE Rooted' /\ Acyclic'
  <2>1. /\ \A t \in Surfaces : tree'[t].parent \in {tree[t].parent, NoSurface}
        /\ \A t \in Surfaces : t = s \/ tree'[t] = tree[t]
        /\ tree'[s].parent = NoSurface
    BY <1>3 DEF DestroySubsurface, NoTree, Typed, TreeRec
  <2>. QED
    BY <2>1, DroppingKeepsAcyclic DEF Rooted
<1>4. ASSUME NEW s \in Surfaces, DestroySurface(s) PROVE Rooted' /\ Acyclic'
  <2>1. \A t \in Surfaces : /\ tree'[t].parent \in {tree[t].parent, NoSurface}
                            /\ tree'[t].parent = NoSurface \/ tree'[t].sub = tree[t].sub
    BY <1>4 DEF DestroySurface, NoTree, Typed, TreeRec
  <2>. QED
    BY <2>1, DroppingKeepsAcyclic DEF Rooted
<1>5. ASSUME NEW s \in Surfaces, NEW p \in Surfaces, GetSubsurface(s, p)
      PROVE  Rooted' /\ Acyclic'
  <2>1. tree'[s].sub /\ \A t \in Surfaces \ {s} : tree'[t] = tree[t]
    BY <1>5 DEF GetSubsurface, Adopt, Typed, TreeRec
  <2>2. Rooted'
    BY <2>1 DEF Rooted
  <2>. QED
    BY <1>5, <2>2, AdoptKeepsAcyclic
<1>6. CASE UNCHANGED tree
  BY <1>1, <1>6
<1>. QED
  BY <1>2, <1>3, <1>4, <1>5, <1>6
  DEF Next, vars, Commit, PlaceAbove, PlaceBelow, Place

-----------------------------------------------------------------------------
(* The two lists of one surface fit its children.                          *)
Fits(q, r, kids, alive, p) ==
  /\ q \in Order /\ r \in Order
  /\ ToSet(q) = ToSet(r)
  /\ kids \subseteq ToSet(q)
  /\ ToSet(q) # {} => alive /\ ToSet(q) = kids \cup {p}

(* So do those of all.                                                     *)
AllFit ==
  \A p \in Surfaces : Fits(stack[p], pendingStack[p], Children(p), tree[p].alive, p)

(* The invariant, surface by surface.                                      *)
LEMMA LinkedFits == Linked => AllFit
  BY DEF Linked, Stacked, ListsHoldChildren, AllFit, Fits

LEMMA FitsLinked ==
  /\ AllFit
  /\ stack = [p \in Surfaces |-> stack[p]]
  /\ pendingStack = [p \in Surfaces |-> pendingStack[p]]
  => Stacked /\ ListsHoldChildren
  BY DEF Stacked, ListsHoldChildren, AllFit, Fits

(* A child is dropped from both lists.                                     *)
LEMMA UnlinkedFits ==
  ASSUME NEW q, NEW r, NEW kids, NEW alive, NEW p, Fits(q, r, kids, alive, p), NEW s, s # p
  PROVE  Fits(RemoveFirst(q, s), RemoveFirst(r, s), kids \ {s}, alive, p)
<1>1. q \in Order /\ r \in Order
  BY DEF Fits
<1>2. /\ RemoveFirst(q, s) \in Order /\ RemoveFirst(r, s) \in Order
      /\ ToSet(RemoveFirst(q, s)) = ToSet(q) \ {s}
      /\ ToSet(RemoveFirst(r, s)) = ToSet(r) \ {s}
  BY <1>1, RemovedIsOrder
<1>. QED
  BY <1>2 DEF Fits

(* A new child is on both lists, and the parent too.                       *)
LEMMA ListedFits ==
  ASSUME NEW q, NEW r, NEW kids, NEW p \in Surfaces, Fits(q, r, kids, TRUE, p),
         NEW s \in Surfaces, s # p, s \notin kids
  PROVE  Fits(Listing(q, p, s), Listing(r, p, s), kids \cup {s}, TRUE, p)
<1>1. q \in Order /\ r \in Order /\ s \notin ToSet(q) /\ s \notin ToSet(r)
  BY DEF Fits
<1>2. /\ Listing(q, p, s) \in Order /\ Listing(r, p, s) \in Order
      /\ ToSet(Listing(q, p, s)) = {s} \cup (IF ToSet(q) = {} THEN {p} ELSE ToSet(q))
      /\ ToSet(Listing(r, p, s)) = {s} \cup (IF ToSet(r) = {} THEN {p} ELSE ToSet(r))
  BY <1>1, ListingIsOrder
<1>. QED
  BY <1>2 DEF Fits

(* A child is moved within the pending order.                              *)
LEMMA PlacedFits ==
  ASSUME NEW q, NEW r, NEW kids, NEW alive, NEW p, Fits(q, r, kids, alive, p),
         NEW s \in kids, s \in Surfaces, NEW i \in 1..(Len(RemoveFirst(r, s)) + 1)
  PROVE  Fits(q, InsertAt(RemoveFirst(r, s), i, s), kids, alive, p)
<1>1. RemoveFirst(r, s) \in Order /\ ToSet(RemoveFirst(r, s)) = ToSet(r) \ {s}
  BY RemovedIsOrder DEF Fits
<1>2. InsertAt(RemoveFirst(r, s), i, s) \in Order
      /\ ToSet(InsertAt(RemoveFirst(r, s), i, s)) = ToSet(RemoveFirst(r, s)) \cup {s}
  BY <1>1, InsertedIsOrder
<1>. QED
  BY <1>1, <1>2 DEF Fits

(* Nobody is its own parent.                                               *)
LEMMA ParentIsOther ==
  ASSUME Forest, NEW s \in Surfaces PROVE tree[s].parent # s
<1>1. s \in Surfaces /\ s # NoSurface /\ s \notin Above(s)
  BY ConfigAssumption DEF Forest, Acyclic, Below
<1>2. HasParent(Above(s), s)
  BY AboveCloses DEF Forest
<1>. QED
  BY <1>1, <1>2 DEF HasParent

-----------------------------------------------------------------------------
(* Every step keeps the lists complete.                                    *)

(* Steps that leave the roles and parents alone.                           *)
LEMMA SameRolesFit ==
  ASSUME Linked,
         \A t \in Surfaces :
           /\ tree'[t].sub = tree[t].sub /\ tree'[t].parent = tree[t].parent
           /\ tree[t].alive => tree'[t].alive
           /\ stack'[t] \in {stack[t], pendingStack[t]}
           /\ pendingStack'[t] = pendingStack[t]
  PROVE  AllFit'
<1>. SUFFICES ASSUME NEW p \in Surfaces
              PROVE  Fits(stack'[p], pendingStack'[p], Children(p)', tree'[p].alive, p)
  BY DEF AllFit
<1>1. Fits(stack[p], pendingStack[p], Children(p), tree[p].alive, p)
  BY LinkedFits DEF AllFit
<1>2. Children(p)' = Children(p)
  BY DEF Children
<1>. QED
  BY <1>1, <1>2 DEF Fits

(* Applying state at most restacks from the pending order.                 *)
LEMMA AppliedStacks ==
  ASSUME NEW caches, NEW S, Apply(caches, S)
  PROVE  /\ stack' = [t \in Surfaces |-> stack'[t]]
         /\ \A t \in Surfaces : stack'[t] \in {stack[t], pendingStack[t]}
  BY DEF Apply

(* subcompositor_get_subsurface().                                         *)
LEMMA AdoptFits ==
  ASSUME Linked, NEW s \in Surfaces, NEW p \in Surfaces, GetSubsurface(s, p)
  PROVE  Stacked' /\ ListsHoldChildren'
<1>1. /\ tree[p].alive /\ s # p /\ ~tree[s].sub
      /\ tree' = [tree EXCEPT ![s].sub = TRUE, ![s].parent = p, ![s].sync = TRUE]
      /\ stack' = [stack EXCEPT ![p] = Listing(@, p, s)]
      /\ pendingStack' = [pendingStack EXCEPT ![p] = Listing(@, p, s)]
  BY DEF GetSubsurface, Adopt
<1>2. stack \in [Surfaces -> Order] /\ pendingStack \in [Surfaces -> Order] /\ Typed
  BY DEF Linked, Stacked, Forest
<1>3. /\ tree'[s].sub /\ tree'[s].parent = p
      /\ \A t \in Surfaces \ {s} : tree'[t] = tree[t]
      /\ tree'[p] = tree[p]
  BY <1>1, <1>2 DEF Typed, TreeRec
<1>4. Children(p)' = Children(p) \cup {s} /\ s \notin Children(p)
  BY <1>1, <1>3 DEF Children
<1>5. \A t \in Surfaces \ {p} : Children(t)' = Children(t)
  BY <1>1, <1>3 DEF Children
<1>6. \A t \in Surfaces : Fits(stack[t], pendingStack[t], Children(t), tree[t].alive, t)
  BY LinkedFits DEF AllFit
<1>7. tree[p].alive = TRUE
  BY <1>1, <1>2 DEF Typed, TreeRec
<1>8. Fits(Listing(stack[p], p, s), Listing(pendingStack[p], p, s), Children(p) \cup {s}, TRUE, p)
  BY <1>1, <1>4, <1>6, <1>7, ListedFits
<1>9. ASSUME NEW t \in Surfaces
      PROVE  Fits(stack'[t], pendingStack'[t], Children(t)', tree'[t].alive, t)
  <2>1. CASE t = p
    <3>1. stack'[p] = Listing(stack[p], p, s) /\ pendingStack'[p] = Listing(pendingStack[p], p, s)
      BY <1>1, <1>2
    <3>2. tree'[p].alive = TRUE
      BY <1>3, <1>7
    <3>. QED
      BY <1>4, <1>8, <2>1, <3>1, <3>2
  <2>2. CASE t = s
    <3>1. stack'[s] = stack[s] /\ pendingStack'[s] = pendingStack[s] /\ tree'[s].alive = tree[s].alive
      BY <1>1, <1>2 DEF Typed, TreeRec
    <3>. QED
      BY <1>1, <1>5, <1>6, <2>2, <3>1
  <2>3. CASE t \notin {s, p}
    <3>1. stack'[t] = stack[t] /\ pendingStack'[t] = pendingStack[t] /\ tree'[t].alive = tree[t].alive
      BY <1>1, <1>2, <1>3, <2>3
    <3>. QED
      BY <1>5, <1>6, <2>3, <3>1
  <2>. QED
    BY <2>1, <2>2, <2>3
<1>10. stack' = [t \in Surfaces |-> stack'[t]] /\ pendingStack' = [t \in Surfaces |-> pendingStack'[t]]
  BY <1>1, <1>2
<1>. QED
  BY <1>9, <1>10, FitsLinked DEF AllFit, Stacked, ListsHoldChildren, Fits

(* The lists of all, without s as a child.                                 *)
LEMMA DroppedFits ==
  ASSUME Linked, NEW s \in Surfaces, NEW t \in Surfaces
  PROVE  Fits(Unlinked(stack, s)[t], Unlinked(pendingStack, s)[t],
              Children(t) \ {s}, tree[t].alive, t)
<1>1. Fits(stack[t], pendingStack[t], Children(t), tree[t].alive, t)
  BY LinkedFits DEF AllFit
<1>2. CASE t = tree[s].parent
  <2>1. s # t
    BY <1>2, ParentIsOther DEF Linked
  <2>2. /\ Unlinked(stack, s)[t] = RemoveFirst(stack[t], s)
        /\ Unlinked(pendingStack, s)[t] = RemoveFirst(pendingStack[t], s)
    BY <1>2 DEF Unlinked
  <2>. QED
    BY <1>1, <2>1, <2>2, UnlinkedFits
<1>3. CASE t # tree[s].parent
  <2>1. Children(t) \ {s} = Children(t)
    BY <1>3 DEF Children
  <2>2. Unlinked(stack, s)[t] = stack[t] /\ Unlinked(pendingStack, s)[t] = pendingStack[t]
    BY <1>3 DEF Unlinked
  <2>. QED
    BY <1>1, <2>1, <2>2
<1>. QED
  BY <1>2, <1>3

(* weston_subsurface_destroy().                                            *)
LEMMA DestroySubsurfaceFits ==
  ASSUME Linked, NEW s \in Surfaces, DestroySubsurface(s)
  PROVE  Stacked' /\ ListsHoldChildren'
<1>1. /\ tree' = [tree EXCEPT ![s] = [NoTree EXCEPT !.alive = TRUE]]
      /\ stack' = Unlinked(stack, s)
      /\ pendingStack' = Unlinked(pendingStack, s)
  BY DEF DestroySubsurface
<1>2. /\ \A t \in Surfaces \ {s} : tree'[t] = tree[t]
      /\ ~tree'[s].sub /\ tree'[s].alive = TRUE
  BY <1>1 DEF NoTree, Linked, Forest, Typed
<1>3. ASSUME NEW t \in Surfaces
      PROVE  Fits(stack'[t], pendingStack'[t], Children(t)', tree'[t].alive, t)
  <2>1. Children(t)' = Children(t) \ {s}
    BY <1>2 DEF Children
  <2>2. Fits(stack'[t], pendingStack'[t], Children(t) \ {s}, tree[t].alive, t)
    BY <1>1, DroppedFits
  <2>3. CASE t = s
    BY <1>2, <2>1, <2>2, <2>3 DEF Fits
  <2>4. CASE t # s
    BY <1>2, <2>1, <2>2, <2>4
  <2>. QED
    BY <2>3, <2>4
<1>4. stack' = [t \in Surfaces |-> stack'[t]] /\ pendingStack' = [t \in Surfaces |-> pendingStack'[t]]
  BY <1>1 DEF Unlinked
<1>. QED
  BY <1>3, <1>4 DEF Stacked, ListsHoldChildren, Fits

(* weston_surface_destroy().                                               *)
LEMMA DestroySurfaceFits ==
  ASSUME Linked, NEW s \in Surfaces, DestroySurface(s)
  PROVE  Stacked' /\ ListsHoldChildren'
<1>1. /\ stack' = [Unlinked(stack, s) EXCEPT ![s] = <<>>]
      /\ pendingStack' = [Unlinked(pendingStack, s) EXCEPT ![s] = <<>>]
  BY DEF DestroySurface
<1>2. /\ tree'[s] = NoTree
      /\ \A t \in Surfaces \ {s} :
           /\ tree'[t].sub = tree[t].sub /\ tree'[t].alive = tree[t].alive
           /\ tree'[t].parent = IF tree[t].sub /\ tree[t].parent = s THEN NoSurface ELSE tree[t].parent
  BY DEF DestroySurface, Children, Linked, Forest, Typed, TreeRec
<1>3. ASSUME NEW t \in Surfaces
      PROVE  Fits(stack'[t], pendingStack'[t], Children(t)', tree'[t].alive, t)
  <2>1. CASE t = s
    <3>1. Children(s)' = {}
      BY <1>2, ConfigAssumption DEF Children, NoTree
    <3>2. stack'[s] = <<>> /\ pendingStack'[s] = <<>>
      BY <1>1 DEF Unlinked
    <3>3. <<>> \in Order /\ ToSet(<<>>) = {}
      BY DEF Order, IsInjective, ToSet
    <3>. QED
      BY <2>1, <3>1, <3>2, <3>3 DEF Fits
  <2>2. CASE t # s
    <3>1. Children(t)' = Children(t) \ {s}
      BY <1>2, <2>2, ConfigAssumption DEF Children, NoTree
    <3>2. stack'[t] = Unlinked(stack, s)[t] /\ pendingStack'[t] = Unlinked(pendingStack, s)[t]
      BY <1>1, <2>2 DEF Unlinked
    <3>3. tree'[t].alive = tree[t].alive
      BY <1>2, <2>2
    <3>. QED
      BY <3>1, <3>2, <3>3, DroppedFits
  <2>. QED
    BY <2>1, <2>2
<1>4. stack' = [t \in Surfaces |-> stack'[t]] /\ pendingStack' = [t \in Surfaces |-> pendingStack'[t]]
  BY <1>1 DEF Unlinked
<1>. QED
  BY <1>3, <1>4 DEF Stacked, ListsHoldChildren, Fits

(* place_above and place_below.                                            *)
LEMMA PlaceFits ==
  ASSUME Linked, NEW s \in Surfaces, NEW t \in Surfaces, NEW shift \in {0, 1}, Place(s, t, shift)
  PROVE  Stacked' /\ ListsHoldChildren'
<1>1. PICK p \in Surfaces : p = tree[s].parent
  BY DEF Place, Linked, Forest, Typed, TreeRec
<1> DEFINE rest == RemoveFirst(pendingStack[p], s)
<1>2. PICK i \in DOMAIN rest :
        pendingStack' = [pendingStack EXCEPT ![p] = InsertAt(rest, i + shift, s)]
  BY <1>1 DEF Place
<1>3. tree[s].sub /\ UNCHANGED <<tree, stack>>
  BY DEF Place
<1>4. stack \in [Surfaces -> Order] /\ pendingStack \in [Surfaces -> Order]
  BY DEF Linked, Stacked
<1>5. \A u \in Surfaces : Fits(stack[u], pendingStack[u], Children(u), tree[u].alive, u)
  BY LinkedFits DEF AllFit
<1>6. s \in Children(p)
  BY <1>1, <1>3 DEF Children
<1>7. i + shift \in 1..(Len(rest) + 1)
  <2>1. rest \in Seq(Surfaces)
    BY <1>4, RemovedIsOrder DEF Order
  <2> HIDE DEF rest
  <2>2. i \in 1..Len(rest) /\ Len(rest) \in Nat
    BY <1>2, <2>1
  <2>. QED
    BY <2>2
<1>8. Fits(stack[p], InsertAt(rest, i + shift, s), Children(p), tree[p].alive, p)
  BY <1>5, <1>6, <1>7, PlacedFits
<1>9. ASSUME NEW u \in Surfaces
      PROVE  Fits(stack'[u], pendingStack'[u], Children(u)', tree'[u].alive, u)
  <2>1. Children(u)' = Children(u)
    BY <1>3 DEF Children
  <2>2. pendingStack'[u] = IF u = p THEN InsertAt(rest, i + shift, s) ELSE pendingStack[u]
    BY <1>2, <1>4
  <2>. QED
    BY <1>3, <1>5, <1>8, <2>1, <2>2
<1>10. pendingStack' = [u \in Surfaces |-> pendingStack'[u]]
  BY <1>2, <1>4
<1>. QED
  BY <1>3, <1>4, <1>9, <1>10 DEF Stacked, ListsHoldChildren, Fits

(* Every step keeps the lists in order.                                    *)
LEMMA NextLinked == Linked /\ [Next]_vars => Linked'
<1>. SUFFICES ASSUME Linked, [Next]_vars PROVE Stacked' /\ ListsHoldChildren'
  BY NextForest DEF Linked
<1>1. stack \in [Surfaces -> Order] /\ pendingStack \in [Surfaces -> Order] /\ Typed
  BY DEF Linked, Stacked, Forest
<1>2. ASSUME /\ \A t \in Surfaces : /\ tree'[t].sub = tree[t].sub
                                    /\ tree'[t].parent = tree[t].parent
                                    /\ tree[t].alive => tree'[t].alive
                                    /\ stack'[t] \in {stack[t], pendingStack[t]}
             /\ stack' = [t \in Surfaces |-> stack'[t]]
             /\ pendingStack' = pendingStack
      PROVE  Stacked' /\ ListsHoldChildren'
  <2>1. AllFit'
    BY <1>2, SameRolesFit
  <2>2. pendingStack' = [t \in Surfaces |-> pendingStack'[t]]
    BY <1>1, <1>2
  <2>. QED
    BY <1>2, <2>1, <2>2 DEF AllFit, Stacked, ListsHoldChildren, Fits
<1>3. ASSUME stack' = stack
      PROVE  /\ \A t \in Surfaces : stack'[t] \in {stack[t], pendingStack[t]}
             /\ stack' = [t \in Surfaces |-> stack'[t]]
  BY <1>1, <1>3
<1>4. ASSUME NEW s \in Surfaces, CreateSurface(s) \/ SetSync(s)
      PROVE  Stacked' /\ ListsHoldChildren'
  <2>1. \A t \in Surfaces : /\ tree'[t].sub = tree[t].sub
                            /\ tree'[t].parent = tree[t].parent
                            /\ tree[t].alive => tree'[t].alive
    BY <1>1, <1>4 DEF CreateSurface, SetSync, Typed, TreeRec
  <2>2. stack' = stack /\ pendingStack' = pendingStack
    BY <1>4 DEF CreateSurface, SetSync
  <2>. QED
    BY <1>2, <1>3, <2>1, <2>2
<1>5. ASSUME NEW s \in Surfaces, Commit(s) PROVE Stacked' /\ ListsHoldChildren'
  <2>1. tree' = tree /\ pendingStack' = pendingStack
    BY <1>5 DEF Commit
  <2>2. /\ \A t \in Surfaces : stack'[t] \in {stack[t], pendingStack[t]}
        /\ stack' = [t \in Surfaces |-> stack'[t]]
    <3>1. (stack' = stack) \/ \E caches, S : Apply(caches, S)
      BY <1>5 DEF Commit
    <3>. QED
      BY <1>3, <3>1, AppliedStacks
  <2>. QED
    BY <1>2, <2>1, <2>2
<1>6. ASSUME NEW s \in Surfaces, SetDesync(s) PROVE Stacked' /\ ListsHoldChildren'
  <2>1. \A t \in Surfaces : /\ tree'[t].sub = tree[t].sub
                            /\ tree'[t].parent = tree[t].parent
                            /\ tree[t].alive => tree'[t].alive
    BY <1>1, <1>6 DEF SetDesync, Typed, TreeRec
  <2>2. /\ \A t \in Surfaces : stack'[t] \in {stack[t], pendingStack[t]}
        /\ stack' = [t \in Surfaces |-> stack'[t]]
    <3>1. (stack' = stack) \/ \E caches, S : Apply(caches, S)
      BY <1>6 DEF SetDesync
    <3>. QED
      BY <1>3, <3>1, AppliedStacks
  <2>3. pendingStack' = pendingStack
    BY <1>6 DEF SetDesync
  <2>. QED
    BY <1>2, <2>1, <2>2, <2>3
<1>7. ASSUME NEW s \in Surfaces, NEW t \in Surfaces, PlaceAbove(s, t) \/ PlaceBelow(s, t)
      PROVE  Stacked' /\ ListsHoldChildren'
  BY <1>7, PlaceFits DEF PlaceAbove, PlaceBelow
<1>8. CASE UNCHANGED vars
  BY <1>2, <1>3, <1>8 DEF vars
<1>. QED
  BY <1>4, <1>5, <1>6, <1>7, <1>8, AdoptFits, DestroySubsurfaceFits, DestroySurfaceFits DEF Next

(* No surface is in a tree at first.                                       *)
LEMMA InitLinked == Init => Linked
<1>. SUFFICES ASSUME Init PROVE Linked
  OBVIOUS
<1>1. /\ \A s \in Surfaces : tree[s] = NoTree
      /\ Typed
  BY DEF Init, Typed, TreeRec, NoTree
<1>2. Rooted
  BY <1>1 DEF Rooted, NoTree
<1>3. Acyclic
  <2>1. ASSUME NEW s \in Surfaces PROVE s \notin Above(s)
    <3>1. \A u \in {} \cup {s} : HasParent({}, u)
      BY <1>1 DEF HasParent, NoTree
    <3>2. Above(s) \subseteq {}
      BY <3>1, AboveLeast
    <3>. QED
      BY <3>2
  <2>. QED
    BY <2>1 DEF Acyclic, Below
<1>4. <<>> \in Order /\ ToSet(<<>>) = {}
  BY DEF Order, IsInjective, ToSet
<1>5. \A s \in Surfaces : Children(s) = {}
  BY <1>1 DEF Children, NoTree
<1>. QED
  BY <1>1, <1>2, <1>3, <1>4, <1>5 DEF Linked, Forest, Stacked, ListsHoldChildren, Init

(* The tree has no cycle, surfaces without the role have no parent, and    *)
(* the lists of every surface are complete, over all orders in which roles *)
(* are given, dropped and given again and surfaces are destroyed.          *)
THEOREM TreeInvariance == Spec => []Linked
  BY InitLinked, NextLinked, PTL DEF Spec

-----------------------------------------------------------------------------
(* Types.                                                                  *)

(* The types of what surfaces and caches hold.                             *)
Bounded ==
  /\ cur \in [Surfaces -> CurRec]
  /\ cache \in [Surfaces -> CacheRec]
  /\ sent \in [Surfaces -> SentRec]

(* While the bound is not reached by all surfaces together, none has       *)
(* reached it alone.                                                       *)
LEMMA CommitHasRoom ==
  ASSUME Bounded, NEW s \in Surfaces, CommitCount < MaxCommits
  PROVE  sent[s].n + 1 \in Commits
<1> DEFINE All == {c \in Surfaces \X Commits : c[2] <= sent[c[1]].n}
           n   == sent[s].n
           f   == [k \in 1..n |-> <<s, k>>]
<1>1. n \in 0..MaxCommits /\ MaxCommits \in Nat
  BY ConfigAssumption DEF Bounded, SentRec
<1>2. IsFiniteSet(All)
  <2>1. IsFiniteSet(Commits)
    BY <1>1, FS_Interval DEF Commits
  <2>2. IsFiniteSet(Surfaces \X Commits)
    BY <2>1, ConfigAssumption, FS_Product
  <2>. QED
    BY <2>2, FS_Subset
<1>3. f \in Injection(1..n, All)
  <2>1. \A k \in 1..n : k \in Commits
    BY <1>1 DEF Commits
  <2>2. \A k \in 1..n : <<s, k>> \in All
    BY <1>1, <2>1
  <2>. QED
    BY <2>2 DEF Injection, IsInjective
<1>4. Cardinality(1..n) = n
  BY <1>1, FS_Interval
<1>5. Cardinality(1..n) <= Cardinality(All)
  BY <1>2, <1>3, FS_Injection
<1>6. Cardinality(All) < MaxCommits
  BY DEF CommitCount
<1>7. Cardinality(All) \in Nat
  BY <1>2, FS_CardinalityType
<1>. QED
  BY <1>1, <1>4, <1>5, <1>6, <1>7 DEF Commits

(* The operations on one surface keep the types.                           *)
LEMMA IntoCacheTyped ==
  ASSUME NEW c \in CacheRec, NEW n \in Commits, NEW attach \in BOOLEAN
  PROVE  IntoCache(c, n, attach) \in CacheRec
  BY ConfigAssumption DEF IntoCache, CacheRec, Commits

LEMMA CommitStateTyped ==
  ASSUME NEW r \in CurRec, NEW c \in CacheRec
  PROVE  CommitState(r, c) \in CurRec
  BY DEF CommitState, CurRec, CacheRec

LEMMA EmptyTyped == EmptyCache \in CacheRec /\ InitCur \in CurRec /\ NothingSent \in SentRec
  BY ConfigAssumption DEF EmptyCache, CacheRec, InitCur, CurRec, NothingSent, SentRec

LEMMA ApplyTyped ==
  ASSUME cur \in [Surfaces -> CurRec], NEW caches \in [Surfaces -> CacheRec], NEW S, Apply(caches, S)
  PROVE  cur' \in [Surfaces -> CurRec] /\ cache' \in [Surfaces -> CacheRec]
  BY CommitStateTyped, EmptyTyped DEF Apply

LEMMA NextBounded == Bounded /\ [Next]_vars => Bounded'
<1>. SUFFICES ASSUME Bounded, [Next]_vars PROVE Bounded'
  OBVIOUS
<1>. USE DEF Bounded
<1>1. CASE UNCHANGED <<cur, cache, sent>>
  BY <1>1
<1>2. ASSUME NEW s \in Surfaces, Commit(s) PROVE Bounded'
  <2>1. PICK attach \in BOOLEAN :
         LET n      == sent[s].n + 1
             filled == [cache EXCEPT ![s] = IntoCache(@, n, attach)]
         IN  /\ sent' = [sent EXCEPT ![s] =
                           [n |-> n, attached |-> @.attached \cup {m \in {n} : attach}]]
             /\ \/ cache' = filled /\ UNCHANGED cur
                \/ Apply(filled, {s} \cup Reached(s))
    BY <1>2 DEF Commit
  <2> DEFINE n == sent[s].n + 1
             filled == [cache EXCEPT ![s] = IntoCache(@, n, attach)]
  <2>2. n \in Commits
    BY <1>2, CommitHasRoom DEF Commit
  <2>3. [n |-> n, attached |-> sent[s].attached \cup {m \in {n} : attach}] \in SentRec
    BY <2>2, ConfigAssumption DEF SentRec, Commits
  <2>4. sent' \in [Surfaces -> SentRec]
    BY <2>1, <2>3
  <2>5. filled \in [Surfaces -> CacheRec]
    BY <2>2, IntoCacheTyped
  <2>6. (cache' = filled /\ UNCHANGED cur) \/ Apply(filled, {s} \cup Reached(s))
    BY <2>1
  <2> HIDE DEF filled
  <2>. QED
    BY <2>4, <2>5, <2>6, ApplyTyped
<1>3. ASSUME NEW s \in Surfaces, SetDesync(s) PROVE Bounded'
  BY <1>3, ApplyTyped DEF SetDesync
<1>4. ASSUME NEW s \in Surfaces, DestroySubsurface(s) PROVE Bounded'
  <2>1. Kept(s) \in SentRec
    BY DEF Kept, SentRec, CurRec
  <2>. QED
    BY <1>4, <2>1, EmptyTyped DEF DestroySubsurface
<1>5. ASSUME NEW s \in Surfaces, DestroySurface(s) PROVE Bounded'
  BY <1>5, EmptyTyped DEF DestroySurface
<1>6. CASE \E s \in Surfaces : CreateSurface(s) \/ SetSync(s)
  BY <1>1, <1>6 DEF CreateSurface, SetSync
<1>7. CASE \E s, t \in Surfaces : GetSubsurface(s, t) \/ PlaceAbove(s, t) \/ PlaceBelow(s, t)
  BY <1>1, <1>7 DEF GetSubsurface, Adopt, PlaceAbove, PlaceBelow, Place
<1>8. CASE UNCHANGED vars
  BY <1>1, <1>8 DEF vars
<1>. QED
  BY <1>2, <1>3, <1>4, <1>5, <1>6, <1>7, <1>8 DEF Next

(* What is shown, cached and sent keeps to the bound on the commits.       *)
THEOREM BoundInvariance == Spec => []Bounded
<1>1. Init => Bounded
  BY EmptyTyped DEF Init, Bounded
<1>. QED
  BY <1>1, NextBounded, PTL DEF Spec

(* Types: for any surfaces and any bound on the commits.                   *)
THEOREM TypeCorrect == Spec => []TypeOK
<1>1. Linked /\ Bounded => TypeOK
  BY DEF Linked, Forest, Typed, Stacked, Order, Bounded, TypeOK
<1>. QED
  BY <1>1, TreeInvariance, BoundInvariance, PTL

(* No sub-surface is below itself: for any number of surfaces and any      *)
(* order in which roles are given, dropped and given again.                *)
THEOREM NoCycle == Spec => []Acyclic
  BY TreeInvariance, PTL DEF Linked, Forest

(* Both lists of a parent hold its children, and restacking loses nobody.  *)
THEOREM ListsAreComplete == Spec => []ListsHoldChildren
  BY TreeInvariance, PTL DEF Linked

-----------------------------------------------------------------------------
(* Synchronised trees.                                                     *)

(* A sub-surface that is synchronised itself.                              *)
Synced(a) == tree[a].sub /\ tree[a].sync

(* The tree that a synchronised sub-surface changes with hangs on r.       *)
IsTop(r, s) ==
  /\ r \in {s} \cup Above(s)
  /\ Synced(r)
  /\ \A b \in Above(r) : ~Synced(b)

(* There is a topmost synchronised sub-surface: the one with the fewest    *)
(* surfaces above it.                                                      *)
LEMMA SyncRootIsTop ==
  ASSUME Forest, NEW s \in Surfaces, IsSynchronized(s)
  PROVE  IsTop(SyncRoot(s), s)
<1> DEFINE C == {a \in {s} \cup Above(s) : Synced(a)}
           T == {Above(a) : a \in C}
<1>1. C # {} /\ C \subseteq Surfaces /\ T # {} /\ T \subseteq SUBSET Surfaces
  <2>1. PICK a \in C : TRUE
    BY DEF IsSynchronized, Synced
  <2>2. Above(a) \in T /\ \A b : Above(b) \subseteq Surfaces
    BY DEF Above
  <2>3. C \subseteq Surfaces
    BY <2>2
  <2>. QED
    BY <2>1, <2>2, <2>3
<1>2. IsWellFoundedOn(StrictSubsetOrdering(Surfaces), SUBSET Surfaces)
  BY ConfigAssumption, FS_FiniteSubsetsOfFinite, FS_StrictSubsetOrderingWellFounded
<1>3. PICK X \in T : \A Y \in T : <<Y, X>> \notin StrictSubsetOrdering(Surfaces)
  <2> HIDE DEF T
  <2>. QED
    BY <1>1, <1>2, WFMin
<1>4. PICK a \in C : X = Above(a)
  BY <1>3
<1>5. ASSUME NEW b \in Above(a), Synced(b) PROVE FALSE
  <2>1. a \in Surfaces /\ b \in Surfaces
    BY <1>1 DEF Above
  <2>2. b \in Above(s)
    BY <2>1, AboveTransitive DEF Forest
  <2>3. Above(b) \in T
    BY <1>5, <2>2
  <2>4. Above(b) \subseteq Above(a) /\ b \notin Above(b)
    BY <2>1, AboveTransitive DEF Forest, Acyclic, Below
  <2>5. <<Above(b), Above(a)>> \in StrictSubsetOrdering(Surfaces)
    BY <2>4 DEF StrictSubsetOrdering, Above
  <2>. QED
    BY <1>3, <1>4, <2>3, <2>5
<1>. QED
  BY <1>4, <1>5 DEF SyncRoot, IsTop, Synced

(* What reaches one surface of a synchronised tree from outside of it, or  *)
(* the surface it hangs on, comes from that surface.                       *)
LEMMA TopIsReached ==
  ASSUME Forest, NEW s \in Surfaces, NEW r, IsTop(r, s),
         NEW a \in Surfaces, ~IsSynchronized(a),
         NEW x \in Surfaces, x \in {r} \cup Below(r) \/ x = tree[r].parent,
         x \in {a} \cup Reached(a)
  PROVE  s \in Reached(a)
<1>. Typed
  BY DEF Forest
<1>1. r \in Surfaces /\ tree[r].sub /\ tree[r].sync
  BY DEF IsTop, Above, Synced
<1>2. ~Synced(a) /\ \A b \in Above(a) : ~Synced(b)
  BY DEF IsSynchronized, Synced
<1>3. tree[r].parent = a
  <2>1. CASE x = tree[r].parent
    <3>1. x \in Above(r) /\ Above(x) \subseteq Above(r)
      <4>1. HasParent(Above(r), r)
        BY <1>1, AboveCloses
      <4>2. x \in Above(r)
        BY <2>1, <4>1, ConfigAssumption DEF HasParent
      <4>. QED
        BY <1>1, <4>2, AboveTransitive
    <3>2. ASSUME x \in Reached(a) PROVE FALSE
      <4>1. PICK c \in Children(a) : tree[c].sync /\ c \in {x} \cup Above(x)
        BY <3>2 DEF Reached
      <4>2. Synced(c) /\ c \in Above(r)
        BY <3>1, <4>1 DEF Children, Synced
      <4>. QED
        BY <4>2 DEF IsTop
    <3>. QED
      BY <2>1, <3>2
  <2>2. CASE x \in {r} \cup Below(r)
    <3>1. r \in {x} \cup Above(x)
      BY <2>2 DEF Below
    <3>2. x # a
      BY <1>2, <3>1 DEF IsTop
    <3>3. PICK c \in Children(a) : tree[c].sync /\ c \in {x} \cup Above(x)
      BY <3>2 DEF Reached
    <3>4. c \in Surfaces /\ Synced(c) /\ tree[c].parent = a
      BY <3>3 DEF Children, Synced
    <3>5. r = c \/ r \in Above(c) \/ c \in Above(r)
      BY <3>1, <3>3, AboveIsChain
    <3>6. c \notin Above(r)
      BY <3>4 DEF IsTop
    <3>7. r \notin Above(c)
      BY <1>2, <3>4, AboveUnfolds DEF IsTop
    <3>. QED
      BY <3>4, <3>5, <3>6, <3>7
  <2>. QED
    BY <2>1, <2>2
<1>4. r \in Children(a) /\ r \in {s} \cup Above(s)
  BY <1>1, <1>3 DEF Children, IsTop
<1>5. a \in Above(s)
  <2>1. HasParent(Above(s), r)
    BY <1>4, AboveCloses
  <2>. QED
    BY <1>3, <2>1, ConfigAssumption DEF HasParent
<1>. QED
  BY <1>1, <1>4, <1>5 DEF Reached, Below

(* A sub-surface under no other synchronised one is the top of its tree.   *)
LEMMA TopIsFlushed ==
  ASSUME Forest, NEW s \in Surfaces, NEW r, IsTop(r, s),
         NEW a \in Surfaces, Synced(a), \A b \in Above(a) : ~Synced(b),
         NEW x \in Surfaces, x \in {r} \cup Below(r) \/ x = tree[r].parent,
         x \in {a} \cup Below(a)
  PROVE  s \in {a} \cup Below(a)
<1>. Typed
  BY DEF Forest
<1>1. r \in Surfaces /\ Synced(r)
  BY DEF IsTop, Above
<1>2. a \in {x} \cup Above(x)
  BY DEF Below
<1>3. CASE x = tree[r].parent
  <2>1. HasParent(Above(r), r)
    BY <1>1, AboveCloses
  <2>2. x \in Above(r)
    BY <1>3, <2>1, ConfigAssumption DEF HasParent
  <2>3. a \in Above(r)
    BY <1>1, <1>2, <2>2, AboveTransitive
  <2>. QED
    BY <2>3 DEF IsTop
<1>4. CASE x \in {r} \cup Below(r)
  <2>1. r \in {x} \cup Above(x)
    BY <1>4 DEF Below
  <2>2. a = r \/ a \in Above(r) \/ r \in Above(a)
    BY <1>2, <2>1, AboveIsChain
  <2>3. a = r
    BY <1>1, <2>2 DEF IsTop
  <2>. QED
    BY <2>3 DEF IsTop, Below
<1>. QED
  BY <1>3, <1>4

(* A step that applies state to any of a synchronised tree, or to what it  *)
(* hangs on, applies what s of that tree has in its cache.                 *)
LEMMA StepIsAtomic ==
  ASSUME Linked, Bounded, [Next]_vars, NEW s \in Surfaces, NEW r, IsTop(r, s),
         NEW x \in Surfaces, x \in {r} \cup Below(r) \/ x = tree[r].parent,
         tree'[x].alive, cur'[x].n # cur[x].n
  PROVE  ~cache'[s].has
<1>. Forest
  BY DEF Linked
<1>1. ASSUME NEW caches, NEW S, Apply(caches, S), x \in S => s \in S
      PROVE  ~cache'[s].has
  <2>1. x \in S
    BY <1>1 DEF Apply
  <2>. QED
    BY <1>1, <2>1 DEF Apply, EmptyCache
<1>2. ASSUME NEW a \in Surfaces, Commit(a) PROVE ~cache'[s].has
  <2>1. PICK caches : ~IsSynchronized(a) /\ Apply(caches, {a} \cup Reached(a))
    BY <1>2 DEF Commit
  <2>. QED
    BY <1>1, <2>1, TopIsReached
<1>3. ASSUME NEW a \in Surfaces, SetDesync(a) PROVE ~cache'[s].has
  <2>1. ~IsSynchronized(a)' /\ Apply(cache, {a} \cup Below(a)) /\ Synced(a)
    BY <1>3 DEF SetDesync, Synced
  <2>2. \A t \in Surfaces \ {a} : tree'[t] = tree[t]
    BY <1>3 DEF SetDesync, Forest, Typed
  <2>3. \A t \in Surfaces : tree'[t].parent = tree[t].parent
    BY <1>3 DEF SetDesync, Forest, Typed, TreeRec
  <2>4. Above(a)' = Above(a)
    BY <2>3, AboveStays
  <2>5. \A b \in Above(a) : b \in Surfaces /\ b # a
    BY DEF Above, Forest, Acyclic, Below
  <2>6. \A b \in Above(a) : ~Synced(b)
    BY <2>1, <2>2, <2>4, <2>5 DEF IsSynchronized, Synced
  <2>. QED
    BY <1>1, <2>1, <2>6, TopIsFlushed
<1>4. ASSUME NEW a \in Surfaces, DestroySurface(a) PROVE FALSE
  <2>1. x = a
    BY <1>4 DEF DestroySurface, Bounded
  <2>2. ~tree'[a].alive
    BY <1>4 DEF DestroySurface, NoTree
  <2>. QED
    BY <2>1, <2>2
<1>5. CASE UNCHANGED cur
  BY <1>5
<1>6. CASE \E a \in Surfaces : CreateSurface(a) \/ SetSync(a) \/ DestroySubsurface(a)
  BY <1>6 DEF CreateSurface, SetSync, DestroySubsurface
<1>7. CASE \E a, b \in Surfaces : GetSubsurface(a, b) \/ PlaceAbove(a, b) \/ PlaceBelow(a, b)
  BY <1>7 DEF GetSubsurface, Adopt, PlaceAbove, PlaceBelow, Place
<1>. QED
  BY <1>2, <1>3, <1>4, <1>5, <1>6, <1>7 DEF Next, vars

(* A synchronised tree changes with the surface it hangs on, and as a      *)
(* whole: for trees of any size and depth.                                 *)
THEOREM TreesChangeAsAWhole == Spec => SyncIsAtomic
<1> DEFINE Whole(r) == {r} \cup Below(r)
           Base(r)  == {p \in Surfaces : p = tree[r].parent}
           Atomic   ==
             \A s \in Surfaces :
               (cur' # cur /\ tree'[s].alive /\ IsSynchronized(s))
                 => LET r     == SyncRoot(s)
                        whole == {r} \cup Below(r)
                        base  == {p \in Surfaces : p = tree[r].parent}
                    IN  (\A p \in base \cup whole : tree'[p].alive) /\ GetsState(base \cup whole)
                          => ~cache'[s].has
<1>1. Linked /\ Bounded /\ [Next]_vars => Atomic
  <2>. SUFFICES ASSUME Linked, Bounded, [Next]_vars, NEW s \in Surfaces, IsSynchronized(s),
                       \A p \in Base(SyncRoot(s)) \cup Whole(SyncRoot(s)) : tree'[p].alive,
                       GetsState(Base(SyncRoot(s)) \cup Whole(SyncRoot(s)))
                PROVE  ~cache'[s].has
    OBVIOUS
  <2>1. PICK r : r = SyncRoot(s)
    OBVIOUS
  <2>2. IsTop(r, s)
    BY <2>1, SyncRootIsTop DEF Linked
  <2>3. PICK x \in Base(r) \cup Whole(r) : cur'[x].n # cur[x].n
    BY <2>1 DEF GetsState
  <2>4. x \in Surfaces /\ tree'[x].alive
    BY <2>1, <2>2, <2>3 DEF IsTop, Above, Below
  <2>. QED
    BY <2>2, <2>3, <2>4, StepIsAtomic
<1>2. Linked /\ Bounded /\ [Next]_vars => [Atomic]_vars
  BY <1>1
<1>. QED
  BY <1>2, TreeInvariance, BoundInvariance, PTL DEF Spec, SyncIsAtomic

-----------------------------------------------------------------------------
(* The model says what the code's loops and recursions over the tree       *)
(* compute; each unfolds as the code does.                                 *)

(* weston_subsurface_is_synchronized() looks at a sub-surface and goes on  *)
(* to its parent.                                                          *)
ModeIsFollowed ==
  \A s \in Surfaces :
    IsSynchronized(s) <=>
      /\ tree[s].sub
      /\ tree[s].sync \/ (tree[s].parent # NoSurface /\ IsSynchronized(tree[s].parent))

(* weston_surface_get_main_surface() stops at a surface without the role.  *)
MainIsFollowed ==
  \A s, m \in Surfaces :
    MainSurfaceIs(s, m) <=>
      IF tree[s].sub THEN tree[s].parent # NoSurface /\ MainSurfaceIs(tree[s].parent, m)
                     ELSE m = s

(* The others on the list of s.                                            *)
Listed(s) == ToSet(stack[s]) \ {s}

(* weston_subsurface_parent_commit() on each that s lists takes those that *)
(* are synchronised, and from then on weston_subsurface_synchronized_commit*)
(* takes all.                                                              *)
CommitIsFollowed ==
  \A s \in Surfaces :
    /\ Below(s) = UNION {{c} \cup Below(c) : c \in Listed(s)}
    /\ Reached(s) = UNION {{c} \cup Below(c) : c \in {d \in Listed(s) : tree[d].sync}}

(* Above a surface are its parent and those above its parent.              *)
LEMMA AboveIsParents ==
  ASSUME Typed, NEW s \in Surfaces
  PROVE  Above(s) = IF tree[s].parent = NoSurface THEN {}
                    ELSE {tree[s].parent} \cup Above(tree[s].parent)
<1>1. ASSUME tree[s].parent # NoSurface
      PROVE  {tree[s].parent} \cup Above(tree[s].parent) \subseteq Above(s)
  <2>1. tree[s].parent \in Above(s)
    BY <1>1, AboveCloses DEF HasParent
  <2>. QED
    BY <2>1, AboveTransitive
<1>2. Above(s) # {} => tree[s].parent \in Surfaces
  BY AboveUnfolds
<1>. QED
  BY <1>1, <1>2, AboveUnfolds, ConfigAssumption

(* Being synchronised follows from one's own mode or the parent's.         *)
LEMMA LinkedModes == Linked => ModeIsFollowed
<1>. SUFFICES ASSUME Linked, NEW s \in Surfaces
              PROVE  IsSynchronized(s) <=>
                       /\ tree[s].sub
                       /\ \/ tree[s].sync
                          \/ tree[s].parent # NoSurface /\ IsSynchronized(tree[s].parent)
  BY DEF ModeIsFollowed
<1>. Typed /\ Rooted
  BY DEF Linked, Forest
<1>1. CASE tree[s].parent = NoSurface
  BY <1>1, AboveIsParents DEF IsSynchronized
<1>2. CASE tree[s].parent # NoSurface
  BY <1>2, AboveIsParents DEF IsSynchronized, Rooted
<1>. QED
  BY <1>1, <1>2

(* The main surface is the parent's, or the surface itself.                *)
LEMMA LinkedMains == Linked => MainIsFollowed
<1>. SUFFICES ASSUME Linked, NEW s \in Surfaces, NEW m \in Surfaces
              PROVE  MainSurfaceIs(s, m) <=>
                       IF tree[s].sub THEN /\ tree[s].parent # NoSurface
                                           /\ MainSurfaceIs(tree[s].parent, m)
                                      ELSE m = s
  BY DEF MainIsFollowed
<1>. Typed /\ Rooted
  BY DEF Linked, Forest
<1>1. CASE tree[s].parent = NoSurface
  BY <1>1, AboveIsParents DEF MainSurfaceIs
<1>2. CASE tree[s].parent # NoSurface
  BY <1>2, AboveIsParents DEF MainSurfaceIs, Rooted
<1>. QED
  BY <1>1, <1>2

(* No surface is its own child: the others on its list are its children.   *)
LEMMA ListedAreChildren ==
  ASSUME Linked, NEW s \in Surfaces
  PROVE  Listed(s) = Children(s)
<1>1. s \notin Children(s)
  BY ParentIsOther DEF Linked, Children
<1>. QED
  BY <1>1 DEF Linked, ListsHoldChildren, Listed

(* Below a surface are its children and those below them.                  *)
LEMMA LinkedCommits == Linked => CommitIsFollowed
<1>. SUFFICES ASSUME Linked, NEW s \in Surfaces
              PROVE  /\ Below(s) = UNION {{c} \cup Below(c) : c \in Children(s)}
                     /\ Reached(s) = UNION {{c} \cup Below(c) :
                                              c \in {d \in Children(s) : tree[d].sync}}
  BY ListedAreChildren DEF CommitIsFollowed
<1>. Typed /\ Rooted
  BY DEF Linked, Forest
<1>1. ASSUME NEW t \in Surfaces, NEW c \in Children(s), c \in {t} \cup Above(t)
      PROVE  s \in Above(t)
  <2>1. HasParent(Above(t), c) /\ tree[c].parent = s
    BY <1>1, AboveCloses DEF Children
  <2>. QED
    BY <2>1, ConfigAssumption DEF HasParent
<1>2. ASSUME NEW t \in Surfaces, s \in Above(t)
      PROVE  \E c \in Children(s) : c \in {t} \cup Above(t)
  <2> DEFINE A == {a \in Above(t) : \E c \in Children(a) : c \in {t} \cup Above(t)}
  <2>1. \A u \in A \cup {t} : HasParent(A, u)
    <3>. TAKE u \in A \cup {t}
    <3>1. u \in {t} \cup Above(t) /\ u \in Surfaces
      BY AboveCloses
    <3>2. HasParent(Above(t), u)
      BY <3>1, AboveCloses
    <3>3. CASE tree[u].parent = NoSurface
      BY <3>3 DEF HasParent
    <3>4. CASE tree[u].parent # NoSurface
      <4>1. u \in Children(tree[u].parent)
        BY <3>1, <3>4 DEF Children, Rooted
      <4>. QED
        BY <3>1, <3>2, <3>4, <4>1 DEF HasParent
    <3>. QED
      BY <3>3, <3>4
  <2>2. A \in SUBSET Surfaces
    BY DEF Above
  <2>3. Above(t) \subseteq A
    <3> HIDE DEF A
    <3>. QED
      BY <2>1, <2>2, AboveLeast
  <2>. QED
    BY <1>2, <2>3
<1>3. \A c \in Children(s) : \A t : t \in {c} \cup Below(c) <=> t \in Surfaces /\ c \in {t} \cup Above(t)
  BY DEF Children, Below
<1>4. \A t : t \in Below(s) <=> t \in Surfaces /\ s \in Above(t)
  BY DEF Below
<1>5. Below(s) = UNION {{c} \cup Below(c) : c \in Children(s)}
  BY <1>1, <1>2, <1>3, <1>4
<1>6. Reached(s) = UNION {{c} \cup Below(c) : c \in {d \in Children(s) : tree[d].sync}}
  BY <1>1, <1>3, <1>4 DEF Reached
<1>. QED
  BY <1>5, <1>6

(* A mode is what walking up finds, the main surface where walking up ends,*)
(* and a commit goes to what walking down the lists visits: so the code's  *)
(* loops over a client's tree end, and do what the model takes them to do. *)
THEOREM WalksAreFollowed == Spec => [](ModeIsFollowed /\ MainIsFollowed /\ CommitIsFollowed)
<1>1. Linked => ModeIsFollowed /\ MainIsFollowed /\ CommitIsFollowed
  BY LinkedModes, LinkedMains, LinkedCommits
<1>. QED
  BY <1>1, TreeInvariance, PTL
=============================================================================
