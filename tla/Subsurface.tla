----------------------------- MODULE Subsurface -----------------------------
(***************************************************************************)
(* Sub-surfaces: what becomes of the state a client commits to a tree of   *)
(* surfaces, and of the stacking order of the tree.  A commit on a         *)
(* sub-surface that is synchronised, itself or through an ancestor, goes   *)
(* to a cache, and is applied when an ancestor's state is.                 *)
(*                                                                         *)
(* A commit of a surface is known by its number.  Each one replaces what   *)
(* every commit replaces (regions, viewport), asks for a frame callback    *)
(* and for presentation feedback, and may attach a buffer.  What answers   *)
(* the callbacks and the feedback of a surface is in RepaintLoop, and the  *)
(* colour space in SubsurfaceColour.                                       *)
(*                                                                         *)
(* Requests that the compositor answers with a protocol error end the      *)
(* client, and are left out.  An operator whose comment begins "Slip:" is  *)
(* a mistaken form of the one below it; no specification uses it.          *)
(***************************************************************************)
EXTENDS Integers, FiniteSets, SequencesExt

CONSTANTS
  Surfaces,     \* wl_surfaces of a client
  NoSurface,    \* the NULL parent
  MaxCommits    \* bound: commits on all surfaces that have not been lost

ASSUME ConfigAssumption ==
  /\ IsFiniteSet(Surfaces)
  /\ NoSurface \notin Surfaces
  /\ MaxCommits \in Nat

VARIABLES
  tree,           \* surfaces: alive, role, parent, synchronized
  stack,          \* subsurface_list, the top one first
  pendingStack,   \* subsurface_list_pending
  cur,            \* the surfaces' current state
  cache,          \* weston_subsurface.cached
  sent            \* what the client has committed, and not lost again

vars == <<tree, stack, pendingStack, cur, cache, sent>>

Commits == 1..MaxCommits

CommitCount == Cardinality({c \in Surfaces \X Commits : c[2] <= sent[c[1]].n})

(* sub: its role is a weston_subsurface.                                   *)
TreeRec ==
  [ alive : BOOLEAN, sub : BOOLEAN, parent : Surfaces \cup {NoSurface}, sync : BOOLEAN ]

(* n: the commit whose state is applied; buffer: the commit that attached  *)
(* buffer_ref; cbs, fbs: commits whose frame callbacks and feedback wait.  *)
CurRec ==
  [ n : 0..MaxCommits, buffer : 0..MaxCommits, cbs : SUBSET Commits,
    fbs : SUBSET Commits ]

(* has: has_cached_data; attached: newly_attached.                         *)
CacheRec ==
  [ has : BOOLEAN, attached : BOOLEAN, n : 0..MaxCommits, buffer : 0..MaxCommits,
    cbs : SUBSET Commits, fbs : SUBSET Commits ]

(* attached: those of its commits that attached a buffer.                  *)
SentRec == [ n : 0..MaxCommits, attached : SUBSET Commits ]

NoTree == [alive |-> FALSE, sub |-> FALSE, parent |-> NoSurface, sync |-> FALSE]

InitCur == [n |-> 0, buffer |-> 0, cbs |-> {}, fbs |-> {}]

EmptyCache ==
  [has |-> FALSE, attached |-> FALSE, n |-> 0, buffer |-> 0, cbs |-> {}, fbs |-> {}]

NothingSent == [n |-> 0, attached |-> {}]

(* What each variable holds; the stacks list a surface at most once.       *)
TypeOK ==
  /\ tree \in [Surfaces -> TreeRec]
  /\ \A s \in Surfaces : /\ stack[s] \in Seq(Surfaces) /\ IsInjective(stack[s])
                         /\ pendingStack[s] \in Seq(Surfaces) /\ IsInjective(pendingStack[s])
  /\ cur \in [Surfaces -> CurRec]
  /\ cache \in [Surfaces -> CacheRec]
  /\ sent \in [Surfaces -> SentRec]

Init ==
  /\ tree = [s \in Surfaces |-> NoTree]
  /\ stack = [s \in Surfaces |-> <<>>]
  /\ pendingStack = [s \in Surfaces |-> <<>>]
  /\ cur = [s \in Surfaces |-> InitCur]
  /\ cache = [s \in Surfaces |-> EmptyCache]
  /\ sent = [s \in Surfaces |-> NothingSent]

-----------------------------------------------------------------------------
(* The tree.                                                               *)

Children(s) == {t \in Surfaces : tree[t].sub /\ tree[t].parent = s}

(* A set with the parent of s, if there is one.                            *)
HasParent(A, s) == tree[s].parent \in A \cup {NoSurface}

(* The parent of s, its parent, and so on: what is in every set with the   *)
(* parent of s and of all its members.  All sub-surfaces below s.          *)
Above(s) ==
  {a \in Surfaces :
     \A A \in SUBSET Surfaces : (\A t \in A \cup {s} : HasParent(A, t)) => a \in A}

Below(s) == {t \in Surfaces : s \in Above(t)}

IsSynchronized(s) ==
  \E a \in {s} \cup Above(s) : tree[a].sub /\ tree[a].sync

(* weston_surface_get_main_surface(surface) = main.                        *)
MainSurfaceIs(s, main) == ~tree[main].sub /\ main \in {s} \cup Above(s)

-----------------------------------------------------------------------------
(* Applying state.                                                         *)

(* Slip: keeps the feedback of the content that is replaced.               *)
IntoCacheKept(c, n, attach) ==
  [ has |-> TRUE, attached |-> c.attached \/ attach, n |-> n,
    buffer |-> IF attach THEN n ELSE c.buffer,
    cbs |-> c.cbs \cup {n}, fbs |-> c.fbs \cup {n} ]

(* weston_subsurface_commit_to_cache() of the commit n.                    *)
IntoCache(c, n, attach) ==
  [ has |-> TRUE, attached |-> c.attached \/ attach, n |-> n,
    buffer |-> IF attach THEN n ELSE c.buffer,
    cbs |-> c.cbs \cup {n}, fbs |-> (IF attach THEN {} ELSE c.fbs) \cup {n} ]

(* Slip: takes only the last commit's callbacks along.                     *)
CommitStateLast(r, state) ==
  [ n |-> state.n, buffer |-> IF state.attached THEN state.buffer ELSE r.buffer,
    cbs |-> {state.n}, fbs |-> (IF state.attached THEN {} ELSE r.fbs) \cup state.fbs ]

(* weston_surface_commit_state().                                          *)
CommitState(r, state) ==
  [ n |-> state.n, buffer |-> IF state.attached THEN state.buffer ELSE r.buffer,
    cbs |-> r.cbs \cup state.cbs,
    fbs |-> (IF state.attached THEN {} ELSE r.fbs) \cup state.fbs ]

(* weston_subsurface_commit_from_cache() on those of S that have cached    *)
(* data, which restacks their children too.                                *)
Apply(caches, S) ==
  LET due == {s \in S : caches[s].has}
  IN  /\ cur' = [s \in Surfaces |-> IF s \in due
                                    THEN CommitState(cur[s], caches[s])
                                    ELSE cur[s]]
      /\ cache' = [s \in Surfaces |-> IF s \in due THEN EmptyCache ELSE caches[s]]
      /\ stack' = [s \in Surfaces |-> IF s \in due THEN pendingStack[s] ELSE stack[s]]

(* Slip: stops at a sub-surface without cached data.                       *)
ReachedCached(s) ==
  {t \in Below(s) : /\ \E c \in Children(s) : tree[c].sync /\ c \in {t} \cup Above(t)
                    /\ \A a \in Below(s) : t \in Below(a) => cache[a].has}

(* weston_subsurface_parent_commit() on each child of s, once the state of *)
(* s has been applied: synchronised children, and all below them.          *)
Reached(s) ==
  {t \in Below(s) : \E c \in Children(s) : tree[c].sync /\ c \in {t} \cup Above(t)}

-----------------------------------------------------------------------------
(* Requests on surfaces.                                                   *)

CreateSurface(s) ==
  /\ ~tree[s].alive
  /\ tree' = [tree EXCEPT ![s].alive = TRUE]
  /\ UNCHANGED <<stack, pendingStack, cur, cache, sent>>

(* surface_commit(), and weston_subsurface_commit() if it is a sub-surface.*)
(* State that is applied at once passes through an empty cache here.       *)
Commit(s) ==
  /\ tree[s].alive /\ CommitCount < MaxCommits
  /\ \E attach \in BOOLEAN :
       LET n      == sent[s].n + 1
           filled == [cache EXCEPT ![s] = IntoCache(@, n, attach)]
       IN  /\ sent' = [sent EXCEPT ![s] =
                         [n |-> n, attached |-> @.attached \cup {m \in {n} : attach}]]
           /\ \/ /\ IsSynchronized(s)
                 /\ cache' = filled
                 /\ UNCHANGED <<cur, stack>>
              \/ /\ ~IsSynchronized(s)
                 /\ Apply(filled, {s} \cup Reached(s))
  /\ UNCHANGED <<tree, pendingStack>>

-----------------------------------------------------------------------------
(* Requests on sub-surfaces.                                               *)

(* The parent lists itself as soon as it has a sub-surface.                *)
Listing(q, parent, s) == <<s>> \o (IF q = <<>> THEN <<parent>> ELSE q)

(* weston_subsurface_create(), synchronised, and linked to its parent.     *)
Adopt(s, p) ==
  /\ tree' = [tree EXCEPT ![s].sub = TRUE, ![s].parent = p, ![s].sync = TRUE]
  /\ stack' = [stack EXCEPT ![p] = Listing(@, p, s)]
  /\ pendingStack' = [pendingStack EXCEPT ![p] = Listing(@, p, s)]
  /\ UNCHANGED <<cur, cache, sent>>

(* Slips: takes one that is a sub-surface already; lets the main surface   *)
(* of the parent become its child.                                         *)
GetSubsurfaceAgain(s, p) ==
  /\ tree[s].alive /\ tree[p].alive /\ s # p
  /\ ~MainSurfaceIs(p, s)
  /\ Adopt(s, p)

GetSubsurfaceOfMain(s, p) ==
  /\ tree[s].alive /\ tree[p].alive /\ s # p
  /\ ~tree[s].sub
  /\ Adopt(s, p)

(* subcompositor_get_subsurface().                                         *)
GetSubsurface(s, p) ==
  /\ tree[s].alive /\ tree[p].alive /\ s # p
  /\ ~tree[s].sub
  /\ ~MainSurfaceIs(p, s)
  /\ Adopt(s, p)

(* The stacks without s as a child of its parent.                          *)
Unlinked(stacks, s) ==
  [p \in Surfaces |-> IF p = tree[s].parent THEN RemoveFirst(stacks[p], s) ELSE stacks[p]]

(* What is left of what the client sent when the cache is dropped.         *)
Kept(s) ==
  [n |-> cur[s].n, attached |-> sent[s].attached \cap 1..cur[s].n]

(* Slip: leaves it in the list of the pending order.                       *)
DestroySubsurfaceListed(s) ==
  /\ tree[s].sub
  /\ tree' = [tree EXCEPT ![s] = [NoTree EXCEPT !.alive = TRUE]]
  /\ stack' = Unlinked(stack, s)
  /\ cache' = [cache EXCEPT ![s] = EmptyCache]
  /\ sent' = [sent EXCEPT ![s] = Kept(s)]
  /\ UNCHANGED <<pendingStack, cur>>

(* wl_subsurface.destroy: weston_subsurface_destroy().                     *)
DestroySubsurface(s) ==
  /\ tree[s].sub
  /\ tree' = [tree EXCEPT ![s] = [NoTree EXCEPT !.alive = TRUE]]
  /\ stack' = Unlinked(stack, s)
  /\ pendingStack' = Unlinked(pendingStack, s)
  /\ cache' = [cache EXCEPT ![s] = EmptyCache]
  /\ sent' = [sent EXCEPT ![s] = Kept(s)]
  /\ UNCHANGED <<cur>>

(* weston_surface_destroy(): its sub-surface role and the entry for itself *)
(* go along, and its children lose their parent.                           *)
DestroySurface(s) ==
  /\ tree[s].alive
  /\ tree' = [t \in Surfaces |-> IF t = s THEN NoTree
                                 ELSE IF t \in Children(s)
                                 THEN [tree[t] EXCEPT !.parent = NoSurface]
                                 ELSE tree[t]]
  /\ stack' = [Unlinked(stack, s) EXCEPT ![s] = <<>>]
  /\ pendingStack' = [Unlinked(pendingStack, s) EXCEPT ![s] = <<>>]
  /\ cur' = [cur EXCEPT ![s] = InitCur]
  /\ cache' = [cache EXCEPT ![s] = EmptyCache]
  /\ sent' = [sent EXCEPT ![s] = NothingSent]

SetSync(s) ==
  /\ tree[s].sub
  /\ tree' = [tree EXCEPT ![s].sync = TRUE]
  /\ UNCHANGED <<stack, pendingStack, cur, cache, sent>>

(* Slip: flushes whether or not an ancestor is synchronised.               *)
SetDesyncAlways(s) ==
  /\ tree[s].sub /\ tree[s].sync
  /\ tree' = [tree EXCEPT ![s].sync = FALSE]
  /\ Apply(cache, {s} \cup Below(s))
  /\ UNCHANGED <<pendingStack, sent>>

(* With no synchronised ancestor left, flush the sub-tree.                 *)
SetDesync(s) ==
  /\ tree[s].sub /\ tree[s].sync
  /\ tree' = [tree EXCEPT ![s].sync = FALSE]
  /\ \/ /\ IsSynchronized(s)'
        /\ UNCHANGED <<cur, cache, stack>>
     \/ /\ ~IsSynchronized(s)'
        /\ Apply(cache, {s} \cup Below(s))
  /\ UNCHANGED <<pendingStack, sent>>

(* Bound: the client restacks once before the order is applied.            *)
OrderIsApplied(p) == pendingStack[p] = stack[p]

(* place_above (shift 0) or place_below (shift 1) of a sibling or parent t.*)
Place(s, t, shift) ==
  /\ tree[s].sub
  /\ LET p    == tree[s].parent
         rest == RemoveFirst(pendingStack[p], s)
     IN  /\ p # NoSurface
         /\ OrderIsApplied(p)
         /\ t \in ToSet(stack[p]) \ {s}
         /\ \E i \in DOMAIN rest :
              /\ rest[i] = t
              /\ pendingStack' = [pendingStack EXCEPT ![p] = InsertAt(rest, i + shift, s)]
  /\ UNCHANGED <<tree, stack, cur, cache, sent>>

PlaceAbove(s, t) == Place(s, t, 0)

PlaceBelow(s, t) == Place(s, t, 1)

-----------------------------------------------------------------------------
Next ==
  \/ \E s \in Surfaces : \/ CreateSurface(s)
                         \/ Commit(s)
                         \/ DestroySubsurface(s)
                         \/ DestroySurface(s)
                         \/ SetSync(s)
                         \/ SetDesync(s)
  \/ \E s, t \in Surfaces : \/ GetSubsurface(s, t)
                            \/ PlaceAbove(s, t)
                            \/ PlaceBelow(s, t)

Spec == Init /\ [][Next]_vars

-----------------------------------------------------------------------------
(* No surface is its own ancestor: the recursions over the tree end.       *)
Acyclic == \A s \in Surfaces : s \notin Below(s)

(* Both lists of a surface hold its children and itself, or nothing when   *)
(* it never had a child: restacking from the pending order loses nobody,   *)
(* and the lists are empty when the surface is freed.                      *)
ListsHoldChildren ==
  \A p \in Surfaces :
    /\ ToSet(stack[p]) = ToSet(pendingStack[p])
    /\ Children(p) \subseteq ToSet(stack[p])
    /\ ToSet(stack[p]) # {} => /\ tree[p].alive
                               /\ ToSet(stack[p]) = Children(p) \cup {p}

(* m is the last of the commits up to n that attached a buffer, if any.    *)
LastAttached(attached, n, m) ==
  /\ m \in 0..n
  /\ m = 0 \/ m \in attached
  /\ \A k \in (m + 1)..n : k \notin attached

(* What a surface shows (r) and what its cache holds (c) add up to what    *)
(* has been committed (t): the state, the buffer and the frame callback of *)
(* every commit are in exactly one of them.                                *)
AddsUp(r, c, t) ==
  /\ LastAttached(t.attached, r.n, r.buffer)
  /\ r.cbs = 1..r.n
  /\ c.cbs = (r.n + 1)..t.n
  /\ \/ c.has /\ c.n = t.n /\ LastAttached(t.attached, t.n, CommitState(r, c).buffer)
     \/ ~c.has /\ r.n = t.n

(* Nothing a client commits to a surface is lost, kept back or applied     *)
(* twice on its way through the cache.                                     *)
CommitsAddUp == \A s \in Surfaces : AddsUp(cur[s], cache[s], sent[s])

(* No commit up to n has replaced the content that the feedback F is for.  *)
Current(attached, F, n) ==
  \A f \in F : f \in 1..n /\ \A k \in (f + 1)..n : k \notin attached

(* Feedback waits for the content it was asked for: none outlives the      *)
(* buffer it was committed with, shown or cached.                          *)
FeedbackIsCurrent ==
  \A s \in Surfaces : /\ Current(sent[s].attached, cur[s].fbs, cur[s].n)
                      /\ Current(sent[s].attached, cache[s].fbs, sent[s].n)

(* A sub-surface that is synchronised and stays so gets new state only     *)
(* when an ancestor that is not synchronised commits or becomes so.        *)
SyncFollowsAncestor ==
  [][\A s \in Surfaces :
       (cur'[s].n # cur[s].n /\ tree'[s].alive /\ IsSynchronized(s) /\ IsSynchronized(s)')
         => \E a \in Above(s) : /\ ~IsSynchronized(a)'
                                /\ sent'[a] # sent[a] \/ tree'[a].sync # tree[a].sync]_vars

(* The sub-surface next below the root of desynchronised ones.             *)
SyncRoot(s) ==
  CHOOSE a \in {s} \cup Above(s) :
    /\ tree[a].sub /\ tree[a].sync
    /\ \A b \in Above(a) : ~(tree[b].sub /\ tree[b].sync)

GetsState(S) == \E s \in S : cur'[s].n # cur[s].n

(* A synchronised tree changes with the surface it hangs on, and as a      *)
(* whole: a step that applies state to that surface, or to one of the      *)
(* tree's sub-surfaces, leaves none of them with state in the cache.       *)
SyncIsAtomic ==
  [][\A s \in Surfaces :
       (cur' # cur /\ tree'[s].alive /\ IsSynchronized(s))
         => LET r     == SyncRoot(s)
                whole == {r} \cup Below(r)
                base  == {p \in Surfaces : p = tree[r].parent}
            IN  (\A p \in base \cup whole : tree'[p].alive) /\ GetsState(base \cup whole)
                  => ~cache'[s].has]_vars
=============================================================================
