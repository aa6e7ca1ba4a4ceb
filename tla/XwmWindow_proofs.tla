-------------------------- MODULE XwmWindow_proofs --------------------------
(***************************************************************************)
(* Theorems about XwmWindow, for any number of windows.                    *)
(*                                                                         *)
(* Whether ids are used again or not: types, and that the focus is never   *)
(* left on a window that is gone, because events are read in the order     *)
(* they were queued in (Ordered).                                          *)
(*                                                                         *)
(* For ids that are not used again: that no window is given a surface      *)
(* realised for another (Inv: queues, unpaired list and surfaces agree on  *)
(* one assignment of ids to windows, which is not written down anywhere),  *)
(* that no assertion about surfaces fails (Named), and that Xwayland does  *)
(* not commit before the role is there (Waiting).  Each of these rests on  *)
(* the ones before it.                                                     *)
(***************************************************************************)
EXTENDS XwmWindow, TLAPS

(* own[i]: the window an id in use has been realised for.                  *)
Agree(own) ==
  /\ \A i \in free : own[i] = None
  /\ \A k \in DOMAIN requests : own[requests[k].id] = requests[k].window
  /\ \A k \in DOMAIN xevents :
       xevents[k].type = "surface_id" => own[xevents[k].id] = xevents[k].window
  /\ \A w \in Windows :
       /\ x[w].id # None => own[x[w].id] = w
       /\ win[w].surface_id # None => own[win[w].surface_id] = w
       /\ win[w].surface # None => own[win[w].surface] = w /\ surface[win[w].surface].live
  /\ \A i \in Ids : surface[i].live => own[i] = surface[i].owner /\ own[i] # None

Owners == [Ids -> Windows \cup {None}]

HasId == \A w \in Windows : x[w].state = "mapped" => x[w].id # None

Inv == TypeOK /\ HasId /\ \E own \in Owners : Agree(own)

LEMMA NothingTyped ==
  /\ NoSurface \in Surface /\ NoSurface.live = FALSE
  /\ NoWindow \in Window /\ NoWindow.surface = None /\ NoWindow.surface_id = None
  BY DEF NoSurface, Surface, NoWindow, Window

LEMMA InitInv == Init => Inv
<1> SUFFICES ASSUME Init PROVE Inv
  OBVIOUS
<1>1. TypeOK
  <2>1. x \in [Windows -> XWindow]
    BY DEF Init, XWindow
  <2>2. /\ surface \in [Ids -> Surface] /\ win \in [Windows -> Window]
        /\ free \subseteq Ids /\ focus \in Windows \cup {None}
    BY NothingTyped DEF Init
  <2>3. xevents \in Seq(XEvents) /\ orders \in Seq(Orders) /\ requests \in Seq(Requests)
    BY DEF Init
  <2> QED
    BY <2>1, <2>2, <2>3 DEF TypeOK
<1> DEFINE own == [i \in Ids |-> None]
<1>2. own \in Owners /\ \A i \in Ids : own[i] = None
  BY DEF Owners
<1>3. Agree(own)
  <2>1. free \subseteq Ids /\ DOMAIN requests = {} /\ DOMAIN xevents = {}
    BY DEF Init
  <2>2. \A w \in Windows : x[w].id = None /\ win[w].surface_id = None /\ win[w].surface = None
    BY DEF Init, NoWindow
  <2>3. \A i \in Ids : ~surface[i].live
    BY DEF Init, NoSurface
  <2> QED
    BY <1>2, <2>1, <2>2, <2>3 DEF Agree
<1>4. HasId
  BY DEF HasId, Init
<1> QED
  BY <1>1, <1>2, <1>3, <1>4 DEF Inv

LEMMA PairedByInv == Inv => PairedRight
<1> SUFFICES ASSUME Inv, NEW w \in Windows, win[w].surface # None
             PROVE  surface[win[w].surface].live /\ surface[win[w].surface].owner = w
  BY DEF PairedRight
<1>1. PICK own \in Owners : Agree(own)
  BY DEF Inv
<1>2. win[w].surface \in Ids
  BY DEF Inv, TypeOK, Window
<1> QED
  BY <1>1, <1>2 DEF Agree

-----------------------------------------------------------------------------
(* The queues.                                                             *)

LEMMA AppendElements ==
  ASSUME NEW S, NEW s \in Seq(S), NEW e \in S
  PROVE  /\ Append(s, e) \in Seq(S)
         /\ \A k \in DOMAIN Append(s, e) : Append(s, e)[k] = e \/ \E j \in DOMAIN s : Append(s, e)[k] = s[j]
<1> DEFINE t == Append(s, e)
<1>1. t \in Seq(S) /\ Len(t) = Len(s) + 1 /\ t[Len(s) + 1] = e
      /\ \A k \in 1..Len(s) : t[k] = s[k]
  OBVIOUS
<1>2. DOMAIN t = 1..(Len(s) + 1) /\ DOMAIN s = 1..Len(s) /\ Len(s) \in Nat
  BY <1>1
<1>3. ASSUME NEW k \in DOMAIN t PROVE t[k] = e \/ \E j \in DOMAIN s : t[k] = s[j]
  <2>1. k = Len(s) + 1 \/ k \in 1..Len(s)
    BY <1>2
  <2> QED
    BY <1>1, <1>2, <2>1
<1> QED
  BY <1>1, <1>3

LEMMA QueuedElements ==
  ASSUME NEW S, NEW s \in Seq(S), NEW e \in S, NEW t, t = s \/ t = Append(s, e)
  PROVE  /\ t \in Seq(S)
         /\ \A k \in DOMAIN t : t[k] = e \/ \E j \in DOMAIN s : t[k] = s[j]
<1>1. CASE t = s
  BY <1>1
<1>2. CASE t = Append(s, e)
  BY <1>2, AppendElements
<1> QED
  BY <1>1, <1>2

LEMMA TailElements ==
  ASSUME NEW S, NEW s \in Seq(S), s # <<>>
  PROVE  /\ Tail(s) \in Seq(S) /\ Head(s) \in S /\ 1 \in DOMAIN s /\ Head(s) = s[1]
         /\ \A k \in DOMAIN Tail(s) : \E j \in DOMAIN s : Tail(s)[k] = s[j]
<1>1. /\ Tail(s) \in Seq(S) /\ Head(s) = s[1] /\ Len(s) \in Nat \ {0} /\ Len(Tail(s)) = Len(s) - 1
      /\ \A k \in 1..(Len(s) - 1) : Tail(s)[k] = s[k + 1]
  OBVIOUS
<1>2. DOMAIN Tail(s) = 1..(Len(s) - 1) /\ DOMAIN s = 1..Len(s)
  BY <1>1
<1>3. ASSUME NEW k \in DOMAIN Tail(s) PROVE \E j \in DOMAIN s : Tail(s)[k] = s[j]
  <2>1. k \in 1..(Len(s) - 1) /\ k + 1 \in 1..Len(s)
    BY <1>1, <1>2
  <2> QED
    BY <1>1, <1>2, <2>1
<1> QED
  BY <1>1, <1>2, <1>3

LEMMA ReadElements ==
  ASSUME NEW S, NEW s \in Seq(S), NEW t, t = s \/ (s # <<>> /\ t = Tail(s))
  PROVE  t \in Seq(S) /\ \A k \in DOMAIN t : \E j \in DOMAIN s : t[k] = s[j]
<1>1. CASE t = s
  BY <1>1
<1>2. CASE s # <<>> /\ t = Tail(s)
  BY <1>2, TailElements
<1> QED
  BY <1>1, <1>2

LEMMA EventHas ==
  /\ \A e \in XEvents :
       /\ e.window \in Windows /\ (e.type = "surface_id" => e.id \in Ids)
       /\ e.type \in {"create", "map_request", "surface_id", "unmap", "destroy"}
  /\ \A r \in Requests : r.id \in Ids /\ r.window \in Windows /\ r.type \in {"create", "commit", "destroy"}
<1>1. ASSUME NEW e \in XEvents
      PROVE  /\ e.window \in Windows /\ (e.type = "surface_id" => e.id \in Ids)
             /\ e.type \in {"create", "map_request", "surface_id", "unmap", "destroy"}
  <2>1. CASE e \in [type : {"create", "map_request", "unmap", "destroy"}, window : Windows, id : {None}]
    BY <2>1
  <2>2. CASE e \in [type : {"surface_id"}, window : Windows, id : Ids]
    BY <2>2
  <2> QED
    BY <2>1, <2>2 DEF XEvents
<1>2. \A r \in Requests : r.id \in Ids /\ r.window \in Windows /\ r.type \in {"create", "commit", "destroy"}
  BY DEF Requests
<1> QED
  BY <1>1, <1>2

LEMMA QueuesHave ==
  ASSUME TypeOK
  PROVE  /\ \A k \in DOMAIN requests : requests[k] \in Requests
         /\ \A k \in DOMAIN xevents : xevents[k] \in XEvents
         /\ \A w \in Windows : /\ x[w] \in XWindow /\ x[w].id \in Ids \cup {None}
                               /\ win[w] \in Window /\ win[w].surface_id \in Ids \cup {None}
                               /\ win[w].surface \in Ids \cup {None}
         /\ \A i \in Ids : surface[i] \in Surface
<1>1. /\ \A k \in DOMAIN requests : requests[k] \in Requests
      /\ \A k \in DOMAIN xevents : xevents[k] \in XEvents
  BY DEF TypeOK
<1>2. \A w \in Windows : x[w] \in XWindow /\ win[w] \in Window
  BY DEF TypeOK
<1> QED
  BY <1>1, <1>2 DEF XWindow, Window, TypeOK

LEMMA EventTyped ==
  ASSUME NEW w \in Windows
  PROVE  /\ \A type \in {"create", "map_request", "unmap", "destroy"} : Event(type, w) \in XEvents
         /\ \A i \in Ids : [type |-> "surface_id", window |-> w, id |-> i] \in XEvents
         /\ \A type \in {"map", "allow", "forbid"} : [type |-> type, window |-> w] \in Orders
         /\ \A i \in Ids, type \in {"create", "commit", "destroy"} :
              [type |-> type, id |-> i, window |-> w] \in Requests
  BY DEF Event, XEvents, Orders, Requests
-----------------------------------------------------------------------------
(* The X server.                                                           *)

(* An id that was free is assigned.                                        *)
LEMMA RealiseKeepsInv ==
  ASSUME Inv, NEW w \in Windows, Realise(w), UNCHANGED <<surface, win, focus>>,
         orders' \in Seq(Orders)
  PROVE  Inv'
<1>1. PICK i \in free :
        /\ x' = [x EXCEPT ![w].state = "mapped", ![w].id = i, ![w].drawn = FALSE]
        /\ free' = free \ {i}
        /\ requests' = Append(requests, [type |-> "create", id |-> i, window |-> w])
        /\ xevents' = Append(xevents, [type |-> "surface_id", window |-> w, id |-> i])
  BY DEF Realise
<1>2. PICK own \in Owners : Agree(own)
  BY DEF Inv
<1> DEFINE now == [own EXCEPT ![i] = w]
<1>3. /\ TypeOK /\ i \in Ids /\ own[i] = None /\ w # None
      /\ now \in Owners /\ now[i] = w /\ \A j \in Ids : j # i => now[j] = own[j]
  BY <1>2, XwmAssumption DEF Inv, TypeOK, Agree, Owners
<1> DEFINE r == [type |-> "create", id |-> i, window |-> w]
           e == [type |-> "surface_id", window |-> w, id |-> i]
<1>4. /\ r \in Requests /\ r.id = i /\ r.window = w
      /\ e \in XEvents /\ e.id = i /\ e.window = w
  BY <1>3, EventTyped
<1>5. /\ x' \in [Windows -> XWindow] /\ x'[w].id = i
      /\ \A v \in Windows : v # w => x'[v] = x[v]
  <2> DEFINE y == [x[w] EXCEPT !.state = "mapped", !.id = i, !.drawn = FALSE]
  <2>1. y \in XWindow /\ y.id = i
    BY <1>3, QueuesHave DEF XWindow
  <2>2. x' = [x EXCEPT ![w] = y]
    BY <1>1, <1>3 DEF TypeOK
  <2> HIDE DEF y
  <2> QED
    BY <1>3, <2>1, <2>2 DEF TypeOK
<1> HIDE DEF now, r, e
<1>6. /\ requests' \in Seq(Requests) /\ xevents' \in Seq(XEvents)
      /\ \A k \in DOMAIN requests' : requests'[k] = r \/ \E j \in DOMAIN requests : requests'[k] = requests[j]
      /\ \A k \in DOMAIN xevents' : xevents'[k] = e \/ \E j \in DOMAIN xevents : xevents'[k] = xevents[j]
  BY <1>1, <1>3, <1>4, AppendElements DEF r, e, TypeOK
<1>7. TypeOK'
  BY <1>1, <1>3, <1>5, <1>6 DEF TypeOK
<1>8. HasId'
  BY <1>3, <1>5, XwmAssumption DEF Inv, HasId
<1>9. ~surface[i].live /\ \A v \in Windows : x[v].id # i /\ win[v].surface_id # i /\ win[v].surface # i
  BY <1>2, <1>3, XwmAssumption DEF Agree
<1>10. /\ \A k \in DOMAIN requests : requests[k].id # i
       /\ \A k \in DOMAIN xevents : xevents[k].type = "surface_id" => xevents[k].id # i
  BY <1>2, <1>3, QueuesHave, EventHas, XwmAssumption DEF Agree
<1>11. /\ \A k \in DOMAIN requests' : now[requests'[k].id] = requests'[k].window
       /\ \A k \in DOMAIN xevents' :
            xevents'[k].type = "surface_id" => now[xevents'[k].id] = xevents'[k].window
  BY <1>2, <1>3, <1>4, <1>6, <1>10, QueuesHave, EventHas DEF Agree
<1>12. /\ \A j \in free' : now[j] = None
       /\ \A v \in Windows :
            /\ x'[v].id # None => now[x'[v].id] = v
            /\ win[v].surface_id # None => now[win[v].surface_id] = v
            /\ win[v].surface # None => now[win[v].surface] = v /\ surface[win[v].surface].live
       /\ \A j \in Ids : surface[j].live => now[j] = surface[j].owner /\ now[j] # None
  <2>1. \A j \in free' : now[j] = None
    <3>1. free' = free \ {i} /\ free \subseteq Ids
      BY <1>1, <1>3 DEF TypeOK
    <3>2. \A j \in free : own[j] = None
      BY <1>2 DEF Agree
    <3> QED
      BY <1>3, <3>1, <3>2
  <2>2. \A v \in Windows : x'[v].id # None => now[x'[v].id] = v
    BY <1>2, <1>3, <1>5, <1>9, QueuesHave DEF Agree
  <2>3. \A v \in Windows :
          /\ win[v].surface_id # None => now[win[v].surface_id] = v
          /\ win[v].surface # None => now[win[v].surface] = v /\ surface[win[v].surface].live
    BY <1>2, <1>3, <1>9, QueuesHave DEF Agree
  <2>4. \A j \in Ids : surface[j].live => now[j] = surface[j].owner /\ now[j] # None
    BY <1>2, <1>3, <1>9 DEF Agree
  <2> QED
    BY <2>1, <2>2, <2>3, <2>4
<1>13. Agree(now)'
  BY <1>11, <1>12 DEF Agree
<1> QED
  BY <1>3, <1>7, <1>8, <1>13 DEF Inv, Owners

(* The other steps give nobody an id; they may queue what concerns one     *)
(* that the window has.                                                    *)
LEMMA QueuedKeepsInv ==
  ASSUME Inv, NEW w \in Windows, NEW y \in XWindow, NEW e \in XEvents, NEW r \in Requests,
         x' = [x EXCEPT ![w] = y], y.id \in {None, x[w].id}, y.state = "mapped" => y.id # None,
         e.type # "surface_id", xevents' = xevents \/ xevents' = Append(xevents, e),
         requests' = Append(requests, r), r.id = x[w].id, r.window = w,
         orders' \in Seq(Orders), UNCHANGED <<free, surface, win, focus>>
  PROVE  Inv'
<1>1. PICK own \in Owners : Agree(own)
  BY DEF Inv
<1>2. TypeOK
  BY DEF Inv
<1>3. /\ x' \in [Windows -> XWindow] /\ x'[w] = y /\ \A v \in Windows : v # w => x'[v] = x[v]
  BY <1>2 DEF TypeOK
<1>4. /\ xevents' \in Seq(XEvents)
      /\ \A k \in DOMAIN xevents' : xevents'[k] = e \/ \E j \in DOMAIN xevents : xevents'[k] = xevents[j]
  BY <1>2, QueuedElements DEF TypeOK
<1>5. /\ requests' \in Seq(Requests)
      /\ \A k \in DOMAIN requests' : requests'[k] = r \/ \E j \in DOMAIN requests : requests'[k] = requests[j]
  BY <1>2, QueuedElements DEF TypeOK
<1>6. Agree(own)'
  <2>1. r.id # None /\ own[r.id] = w
    BY <1>1, EventHas, XwmAssumption DEF Agree
  <2>2. \A k \in DOMAIN requests' : own[requests'[k].id] = requests'[k].window
    BY <1>1, <1>5, <2>1 DEF Agree
  <2>3. \A k \in DOMAIN xevents' :
          xevents'[k].type = "surface_id" => own[xevents'[k].id] = xevents'[k].window
    BY <1>1, <1>4 DEF Agree
  <2>4. \A v \in Windows : x'[v].id # None => own[x'[v].id] = v
    BY <1>1, <1>3 DEF Agree
  <2> QED
    BY <1>1, <2>2, <2>3, <2>4 DEF Agree
<1>7. TypeOK' /\ HasId'
  BY <1>2, <1>3, <1>4, <1>5 DEF TypeOK, Inv, HasId
<1> QED
  BY <1>6, <1>7 DEF Inv, Owners

LEMMA QueuedEventKeepsInv ==
  ASSUME Inv, NEW w \in Windows, NEW y \in XWindow, NEW e \in XEvents,
         x' = [x EXCEPT ![w] = y], y.id \in {None, x[w].id}, y.state = "mapped" => y.id # None,
         e.type # "surface_id", xevents' = xevents \/ xevents' = Append(xevents, e),
         orders' \in Seq(Orders), UNCHANGED <<free, requests, surface, win, focus>>
  PROVE  Inv'
<1>1. PICK own \in Owners : Agree(own)
  BY DEF Inv
<1>2. TypeOK
  BY DEF Inv
<1>3. /\ x' \in [Windows -> XWindow] /\ x'[w] = y /\ \A v \in Windows : v # w => x'[v] = x[v]
  BY <1>2 DEF TypeOK
<1>4. /\ xevents' \in Seq(XEvents)
      /\ \A k \in DOMAIN xevents' : xevents'[k] = e \/ \E j \in DOMAIN xevents : xevents'[k] = xevents[j]
  BY <1>2, QueuedElements DEF TypeOK
<1>5. Agree(own)'
  BY <1>1, <1>3, <1>4 DEF Agree
<1>6. TypeOK' /\ HasId'
  BY <1>2, <1>3, <1>4 DEF TypeOK, Inv, HasId
<1> QED
  BY <1>5, <1>6 DEF Inv, Owners

LEMMA ServerKeepsInv ==
  ASSUME Inv, NEW w \in Windows, XCreate(w) \/ XMap(w) \/ XUnmap(w) \/ XDestroy(w) \/ XCommit(w)
  PROVE  Inv'
<1>1. /\ x \in [Windows -> XWindow] /\ x[w] \in XWindow /\ orders \in Seq(Orders)
      /\ x[w].state = "mapped" => x[w].id # None
      /\ x[w].id \in Ids \cup {None}
  BY QueuesHave DEF Inv, TypeOK, HasId
<1> DEFINE e(type) == Event(type, w)
           r(type) == [type |-> type, id |-> x[w].id, window |-> w]
<1>2. /\ \A type \in {"create", "map_request", "unmap", "destroy"} :
           e(type) \in XEvents /\ e(type).type # "surface_id"
      /\ x[w].state = "mapped" => \A type \in {"commit", "destroy"} :
           r(type) \in Requests /\ r(type).id = x[w].id /\ r(type).window = w
  BY <1>1, EventTyped DEF Event
<1>4. CASE XCreate(w) \/ XDestroy(w) \/ (XMap(w) /\ ~x[w].override)
  <2>1. PICK type \in {"create", "map_request", "unmap", "destroy"}, state \in {"unmapped", "asked", "gone"} :
          /\ x' = [x EXCEPT ![w].state = state] /\ xevents' = Append(xevents, Event(type, w))
          /\ UNCHANGED <<free, orders, requests, surface, win, focus>>
    BY <1>4 DEF XCreate, XDestroy, XMap, XUnchanged
  <2> DEFINE y == [x[w] EXCEPT !.state = state]
  <2>2. y \in XWindow /\ y.id = x[w].id /\ y.state # "mapped" /\ x' = [x EXCEPT ![w] = y]
    BY <1>1, <2>1 DEF XWindow
  <2> HIDE DEF y
  <2> QED
    BY <1>1, <1>2, <2>1, <2>2, QueuedEventKeepsInv
<1>5. CASE XMap(w) /\ x[w].override
  BY <1>1, <1>5, RealiseKeepsInv DEF XMap, XUnchanged
<1>6. CASE XUnmap(w)
  <2> DEFINE y == [x[w] EXCEPT !.state = "unmapped", !.id = None]
  <2>1. /\ y \in XWindow /\ y.id = None /\ y.state # "mapped" /\ x' = [x EXCEPT ![w] = y]
        /\ requests' = Append(requests, r("destroy")) /\ xevents' = Append(xevents, e("unmap"))
        /\ UNCHANGED <<free, orders, surface, win, focus>> /\ x[w].state = "mapped"
    BY <1>1, <1>6 DEF XUnmap, XWindow, XUnchanged
  <2>2. e("unmap") \in XEvents /\ e("unmap").type # "surface_id" /\ r("destroy") \in Requests
        /\ r("destroy").id = x[w].id /\ r("destroy").window = w
    BY <1>2, <2>1
  <2> HIDE DEF y, e, r
  <2> QED
    BY <1>1, <2>1, <2>2, QueuedKeepsInv
<1>7. CASE XCommit(w)
  <2> DEFINE y == [x[w] EXCEPT !.drawn = TRUE]
  <2>1. /\ y \in XWindow /\ y.id = x[w].id /\ y.state = x[w].state /\ x' = [x EXCEPT ![w] = y]
        /\ requests' = Append(requests, r("commit"))
        /\ UNCHANGED <<free, xevents, orders, surface, win, focus>> /\ x[w].state = "mapped"
    BY <1>1, <1>7 DEF XCommit, XWindow, XUnchanged
  <2>2. e("unmap") \in XEvents /\ e("unmap").type # "surface_id" /\ r("commit") \in Requests
        /\ r("commit").id = x[w].id /\ r("commit").window = w
    BY <1>2, <2>1
  <2> HIDE DEF y, e, r
  <2> QED
    BY <1>1, <2>1, <2>2, QueuedKeepsInv
<1> QED
  BY <1>4, <1>5, <1>6, <1>7

LEMMA OrderKeepsInv == ASSUME Inv, XOrder PROVE Inv'
<1> DEFINE o == Head(orders)
<1>1. /\ orders \in Seq(Orders) /\ orders # <<>> /\ orders' = Tail(orders) /\ x \in [Windows -> XWindow]
  BY DEF XOrder, Inv, TypeOK
<1>2. orders' \in Seq(Orders) /\ o \in Orders
  BY <1>1, TailElements
<1>3. o.window \in Windows /\ x[o.window] \in XWindow
  BY <1>1, <1>2 DEF Orders
<1>4. UNCHANGED <<surface, win, focus>>
  BY DEF XOrder, XUnchanged
<1>5. \/ Realise(o.window)
      \/ UNCHANGED <<x, free, xevents, requests>>
      \/ /\ x' = [x EXCEPT ![o.window].allow = o.type = "allow"]
         /\ UNCHANGED <<free, xevents, requests>>
  BY DEF XOrder
<1>6. CASE Realise(o.window)
  BY <1>2, <1>3, <1>4, <1>6, RealiseKeepsInv
<1>7. CASE UNCHANGED <<x, free, xevents, requests>>
  <2>1. PICK own \in Owners : Agree(own)
    BY DEF Inv
  <2>2. Agree(own)'
    BY <1>4, <1>7, <2>1 DEF Agree
  <2>3. TypeOK' /\ HasId'
    BY <1>2, <1>4, <1>7 DEF Inv, TypeOK, HasId
  <2> QED
    BY <2>2, <2>3 DEF Inv, Owners
<1>8. CASE x' = [x EXCEPT ![o.window].allow = o.type = "allow"] /\ UNCHANGED <<free, xevents, requests>>
  <2> DEFINE w == o.window
             y == [x[w] EXCEPT !.allow = o.type = "allow"]
             e == Event("unmap", w)
  <2>1. y \in XWindow /\ y.id = x[w].id /\ y.state = x[w].state
    BY <1>3 DEF XWindow
  <2>2. x' = [x EXCEPT ![w] = y]
    BY <1>1, <1>3, <1>8
  <2>3. e \in XEvents /\ e.type # "surface_id"
    BY <1>3, EventTyped DEF Event
  <2>4. y.state = "mapped" => y.id # None
    BY <1>3, <2>1 DEF Inv, HasId
  <2> HIDE DEF w, y, e
  <2>5. w \in Windows
    BY <1>3 DEF w
  <2> QED
    BY <1>2, <1>4, <1>8, <2>1, <2>2, <2>3, <2>4, <2>5, QueuedEventKeepsInv
<1> QED
  BY <1>5, <1>6, <1>7, <1>8

-----------------------------------------------------------------------------
(* The compositor.                                                         *)

(* Pairing a window with a surface that is live and its own.               *)
LEMMA MapKeepsAgreement ==
  ASSUME Inv, NEW own \in Owners, Agree(own), NEW w \in Windows, NEW i \in Ids,
         NEW s \in [Ids -> Surface], s[i].live, own[i] = w,
         \A j \in Ids : s[j].live => own[j] = s[j].owner /\ own[j] # None,
         \A j \in Ids : surface[j].live => s[j].live,
         MapShellSurface(w, i, s)
  PROVE  /\ win' \in [Windows -> Window] /\ surface' \in [Ids -> Surface] /\ orders' \in Seq(Orders)
         /\ \A v \in Windows :
              /\ win'[v].surface_id # None => own[win'[v].surface_id] = v
              /\ win'[v].surface # None => own[win'[v].surface] = v /\ surface'[win'[v].surface].live
         /\ \A j \in Ids : surface'[j].live => own[j] = surface'[j].owner /\ own[j] # None
<1>1. win \in [Windows -> Window] /\ orders \in Seq(Orders) /\ win[w] \in Window /\ s[i] \in Surface
  BY DEF Inv, TypeOK
<1> DEFINE m == [win[w] EXCEPT !.surface = i, !.surface_id = None, !.shsurf = @ \/ ~s[i].role]
           t == [s[i] EXCEPT !.role = TRUE]
<1>2. m \in Window /\ m.surface = i /\ m.surface_id = None
  BY <1>1 DEF Window
<1>3. t \in Surface /\ t.live /\ t.owner = s[i].owner
  BY <1>1 DEF Surface
<1>4. win' = [win EXCEPT ![w] = m] /\ surface' = [s EXCEPT ![i] = t]
  BY <1>1 DEF MapShellSurface
<1>5. orders' \in Seq(Orders)
  <2>1. [type |-> "allow", window |-> w] \in Orders
    BY EventTyped
  <2> QED
    BY <1>1, <2>1, AppendElements DEF MapShellSurface
<1> HIDE DEF m, t
<1>6. /\ win' \in [Windows -> Window] /\ win'[w] = m /\ \A v \in Windows : v # w => win'[v] = win[v]
      /\ surface' \in [Ids -> Surface] /\ surface'[i] = t /\ \A j \in Ids : j # i => surface'[j] = s[j]
  BY <1>1, <1>2, <1>3, <1>4
<1>7. \A v \in Windows : win[v].surface # None => win[v].surface \in Ids
  BY QueuesHave DEF Inv
<1> QED
  BY <1>2, <1>3, <1>5, <1>6, <1>7 DEF Agree

(* What is left to show of a step that reads one queue and writes no ids.  *)
LEMMA ReadKeepsInv ==
  ASSUME Inv, NEW own \in Owners, Agree(own), UNCHANGED x,
         free' \subseteq free, focus' \in Windows \cup {None}, orders' \in Seq(Orders),
         xevents' = xevents \/ (xevents # <<>> /\ xevents' = Tail(xevents)),
         requests' = requests \/ (requests # <<>> /\ requests' = Tail(requests)),
         win' \in [Windows -> Window], surface' \in [Ids -> Surface],
         \A v \in Windows :
           /\ win'[v].surface_id # None => own[win'[v].surface_id] = v
           /\ win'[v].surface # None => own[win'[v].surface] = v /\ surface'[win'[v].surface].live,
         \A j \in Ids : surface'[j].live => own[j] = surface'[j].owner /\ own[j] # None
  PROVE  Inv'
<1>1. TypeOK /\ HasId
  BY DEF Inv
<1>2. /\ xevents' \in Seq(XEvents)
      /\ \A k \in DOMAIN xevents' : \E j \in DOMAIN xevents : xevents'[k] = xevents[j]
  BY <1>1, ReadElements DEF TypeOK
<1>3. /\ requests' \in Seq(Requests)
      /\ \A k \in DOMAIN requests' : \E j \in DOMAIN requests : requests'[k] = requests[j]
  BY <1>1, ReadElements DEF TypeOK
<1>4. TypeOK' /\ HasId'
  BY <1>1, <1>2, <1>3 DEF TypeOK, HasId
<1>5. \A k \in DOMAIN requests' : own[requests'[k].id] = requests'[k].window
  BY <1>3 DEF Agree
<1>6. \A k \in DOMAIN xevents' :
        xevents'[k].type = "surface_id" => own[xevents'[k].id] = xevents'[k].window
  BY <1>2 DEF Agree
<1>7. Agree(own)'
  BY <1>5, <1>6 DEF Agree
<1> QED
  BY <1>4, <1>7 DEF Inv, Owners

LEMMA EventKeepsInv == ASSUME Inv, HandleEvent PROVE Inv'
<1> DEFINE e == Head(xevents)
           w == e.window
<1>1. PICK own \in Owners : Agree(own)
  BY DEF Inv
<1>2. /\ TypeOK /\ win \in [Windows -> Window] /\ surface \in [Ids -> Surface] /\ orders \in Seq(Orders)
      /\ xevents \in Seq(XEvents) /\ x \in [Windows -> XWindow] /\ focus \in Windows \cup {None}
  BY DEF Inv, TypeOK
<1>3. xevents # <<>> /\ xevents' = Tail(xevents) /\ UNCHANGED <<x, free, requests>>
  BY DEF HandleEvent
<1>4. /\ e \in XEvents /\ w \in Windows /\ (e.type = "surface_id" => e.id \in Ids /\ own[e.id] = w)
      /\ win[w] \in Window /\ x[w] \in XWindow
  <2>1. e \in XEvents /\ 1 \in DOMAIN xevents /\ e = xevents[1]
    BY <1>2, <1>3, TailElements
  <2> QED
    BY <1>1, <1>2, <2>1, EventHas DEF Agree
<1>5. \/ CreateNotify(w) \/ MapRequest(w) \/ UnmapNotify(w) \/ DestroyNotify(w)
      \/ e.type = "surface_id" /\ SurfaceId(w, e.id)
  <2>1. e.type \in {"create", "map_request", "surface_id", "unmap", "destroy"}
    BY <1>4, EventHas
  <2>2. CASE e.type = "create"
    BY <2>2 DEF HandleEvent
  <2>3. CASE e.type = "map_request"
    BY <2>3 DEF HandleEvent
  <2>4. CASE e.type = "surface_id"
    BY <2>4 DEF HandleEvent
  <2>5. CASE e.type = "unmap"
    BY <2>5 DEF HandleEvent
  <2>6. CASE e.type = "destroy"
    BY <2>6 DEF HandleEvent
  <2> QED
    BY <2>1, <2>2, <2>3, <2>4, <2>5, <2>6
<1> HIDE DEF e, w
<1>6. ASSUME NEW m \in Window, win' = [win EXCEPT ![w] = m], UNCHANGED surface,
             m.surface_id = None \/ own[m.surface_id] = w, m.surface \in {None, win[w].surface},
             orders' \in Seq(Orders), focus' \in Windows \cup {None}
      PROVE  Inv'
  <2>1. /\ win' \in [Windows -> Window] /\ win'[w] = m
        /\ \A v \in Windows : v # w => win'[v] = win[v]
    BY <1>2, <1>4, <1>6
  <2>2. \A v \in Windows :
          /\ win'[v].surface_id # None => own[win'[v].surface_id] = v
          /\ win'[v].surface # None => own[win'[v].surface] = v /\ surface'[win'[v].surface].live
    BY <1>1, <1>4, <1>6, <2>1 DEF Agree
  <2>3. \A j \in Ids : surface'[j].live => own[j] = surface'[j].owner /\ own[j] # None
    BY <1>1, <1>6 DEF Agree
  <2> QED
    BY <1>1, <1>2, <1>3, <1>6, <2>1, <2>2, <2>3, ReadKeepsInv
<1>7. CASE CreateNotify(w)
  <2> DEFINE m == [NoWindow EXCEPT !.known = TRUE, !.override = x[w].override]
  <2>1. m \in Window /\ m.surface = None /\ m.surface_id = None
    BY <1>4 DEF NoWindow, Window, XWindow
  <2> QED
    BY <1>2, <1>6, <1>7, <2>1 DEF CreateNotify
<1>8. CASE MapRequest(w)
  <2> DEFINE m == [win[w] EXCEPT !.frame = TRUE]
  <2>1. m \in Window /\ m.surface = win[w].surface /\ m.surface_id = win[w].surface_id
    BY <1>4 DEF Window
  <2>2. win' = [win EXCEPT ![w] = m] /\ UNCHANGED <<surface, focus>>
    BY <1>2, <1>4, <1>8 DEF MapRequest
  <2>3. orders' \in Seq(Orders)
    <3> DEFINE a == [type |-> "forbid", window |-> w]
               b == [type |-> "map", window |-> w]
    <3>1. a \in Orders /\ b \in Orders
      BY <1>4, EventTyped
    <3>2. orders' = orders \o <<a, b>>
      BY <1>8 DEF MapRequest, MapOrders
    <3> HIDE DEF a, b
    <3>3. <<a, b>> \in Seq(Orders)
      BY <3>1
    <3> QED
      BY <1>2, <3>2, <3>3
  <2>4. m.surface_id = None \/ own[m.surface_id] = w
    BY <1>1, <1>4, <2>1 DEF Agree
  <2> QED
    BY <1>2, <1>6, <2>1, <2>2, <2>3, <2>4
<1>9. CASE UnmapNotify(w)
  <2> DEFINE m == [win[w] EXCEPT !.surface_id = None, !.surface = None, !.shsurf = FALSE]
  <2>1. m \in Window /\ m.surface = None /\ m.surface_id = None
    BY <1>4 DEF Window
  <2>2. win' = [win EXCEPT ![w] = m] /\ UNCHANGED <<orders, surface>> /\ focus' \in Windows \cup {None}
    BY <1>2, <1>4, <1>9 DEF UnmapNotify
  <2> QED
    BY <1>2, <1>6, <2>1, <2>2
<1>10. CASE DestroyNotify(w)
  BY <1>2, <1>6, <1>10, NothingTyped DEF DestroyNotify
<1>11. CASE e.type = "surface_id" /\ SurfaceId(w, e.id)
  <2>1. e.id \in Ids /\ own[e.id] = w /\ focus' = focus
    BY <1>4, <1>11 DEF SurfaceId
  <2>2. CASE UNCHANGED <<win, surface, orders>>
    <3>1. \A v \in Windows :
            /\ win'[v].surface_id # None => own[win'[v].surface_id] = v
            /\ win'[v].surface # None => own[win'[v].surface] = v /\ surface'[win'[v].surface].live
      BY <1>1, <2>2 DEF Agree
    <3>2. \A j \in Ids : surface'[j].live => own[j] = surface'[j].owner /\ own[j] # None
      BY <1>1, <2>2 DEF Agree
    <3> QED
      BY <1>1, <1>2, <1>3, <2>1, <2>2, <3>1, <3>2, ReadKeepsInv
  <2>3. CASE surface[e.id].live /\ MapShellSurface(w, e.id, surface)
    <3>1. \A j \in Ids : surface[j].live => own[j] = surface[j].owner /\ own[j] # None
      BY <1>1 DEF Agree
    <3>2. /\ win' \in [Windows -> Window] /\ surface' \in [Ids -> Surface] /\ orders' \in Seq(Orders)
          /\ \A v \in Windows :
               /\ win'[v].surface_id # None => own[win'[v].surface_id] = v
               /\ win'[v].surface # None => own[win'[v].surface] = v /\ surface'[win'[v].surface].live
          /\ \A j \in Ids : surface'[j].live => own[j] = surface'[j].owner /\ own[j] # None
      BY <1>1, <1>2, <1>4, <2>1, <2>3, <3>1, MapKeepsAgreement
    <3> QED
      BY <1>1, <1>2, <1>3, <2>1, <3>2, ReadKeepsInv
  <2>4. CASE win' = [win EXCEPT ![w].surface_id = e.id] /\ UNCHANGED <<surface, orders>>
    <3> DEFINE m == [win[w] EXCEPT !.surface_id = e.id]
    <3>1. m \in Window /\ m.surface = win[w].surface /\ m.surface_id = e.id
      BY <1>4, <2>1 DEF Window
    <3>2. win' = [win EXCEPT ![w] = m]
      BY <1>2, <1>4, <2>4
    <3> QED
      BY <1>2, <1>6, <2>1, <2>4, <3>1, <3>2
  <2> QED
    BY <1>11, <2>2, <2>3, <2>4 DEF SurfaceId
<1> QED
  BY <1>5, <1>7, <1>8, <1>9, <1>10, <1>11

LEMMA DispatchKeepsInv == ASSUME Inv, ~Reuse, Dispatch PROVE Inv'
<1> DEFINE r == Head(requests)
           i == r.id
           w == r.window
<1>1. PICK own \in Owners : Agree(own)
  BY DEF Inv
<1>2. /\ TypeOK /\ win \in [Windows -> Window] /\ surface \in [Ids -> Surface] /\ orders \in Seq(Orders)
      /\ requests \in Seq(Requests) /\ focus \in Windows \cup {None}
  BY DEF Inv, TypeOK
<1>3. requests # <<>> /\ requests' = Tail(requests) /\ UNCHANGED <<x, xevents, focus>>
  BY DEF Dispatch
<1>4. /\ r \in Requests /\ w \in Windows /\ i \in Ids /\ own[i] = w /\ w # None
      /\ r.type \in {"create", "commit", "destroy"} /\ surface[i] \in Surface
  <2>1. r \in Requests /\ 1 \in DOMAIN requests /\ r = requests[1]
    BY <1>2, <1>3, TailElements
  <2> QED
    BY <1>1, <1>2, <2>1, EventHas, XwmAssumption DEF Agree
<1>5. CreateSurface(i, w) \/ CommitSurface(i) \/ DestroySurface(i)
  <2>1. CASE r.type = "create"
    BY <2>1 DEF Dispatch
  <2>2. CASE r.type = "commit"
    BY <2>2 DEF Dispatch
  <2>3. CASE r.type = "destroy"
    BY <2>3 DEF Dispatch
  <2> QED
    BY <1>4, <2>1, <2>2, <2>3
<1> HIDE DEF r, i, w
<1>6. /\ \A v \in Windows :
           /\ win[v].surface_id # None => own[win[v].surface_id] = v
           /\ win[v].surface # None => own[win[v].surface] = v /\ surface[win[v].surface].live
      /\ \A j \in Ids : surface[j].live => own[j] = surface[j].owner /\ own[j] # None
      /\ \A v \in Windows : /\ win[v] \in Window /\ win[v].surface_id \in Ids \cup {None}
                            /\ win[v].surface \in Ids \cup {None}
  BY <1>1, <1>2, QueuesHave DEF Agree
<1>7. CASE CreateSurface(i, w)
  <2> DEFINE fresh == [NoSurface EXCEPT !.live = TRUE, !.owner = w]
             created == [surface EXCEPT ![i] = fresh]
  <2>1. fresh \in Surface /\ fresh.live /\ fresh.owner = w
    BY <1>4 DEF NoSurface, Surface
  <2>2. \/ surface' = created /\ UNCHANGED <<win, orders, free>>
        \/ /\ UNCHANGED free
           /\ \E v \in Unpaired(i) : MapShellSurface(v, i, created)
    BY <1>7 DEF CreateSurface
  <2> HIDE DEF fresh
  <2>3. /\ created \in [Ids -> Surface] /\ created[i] = fresh
        /\ \A j \in Ids : j # i => created[j] = surface[j]
    BY <1>2, <1>4, <2>1
  <2> HIDE DEF created
  <2>4. /\ \A j \in Ids : created[j].live => own[j] = created[j].owner /\ own[j] # None
        /\ \A j \in Ids : surface[j].live => created[j].live
    BY <1>4, <1>6, <2>1, <2>3
  <2>5. CASE surface' = created /\ UNCHANGED <<win, orders, free>>
    <3>1. \A v \in Windows :
            /\ win'[v].surface_id # None => own[win'[v].surface_id] = v
            /\ win'[v].surface # None => own[win'[v].surface] = v /\ surface'[win'[v].surface].live
      BY <1>6, <2>4, <2>5
    <3> QED
      BY <1>1, <1>2, <1>3, <2>3, <2>4, <2>5, <3>1, ReadKeepsInv
  <2>6. ASSUME UNCHANGED free, NEW v \in Unpaired(i), MapShellSurface(v, i, created)
        PROVE  Inv'
    <3>1. v \in Windows /\ own[i] = v
      BY <1>4, <1>6, <2>6, XwmAssumption DEF Unpaired
    <3>2. /\ win' \in [Windows -> Window] /\ surface' \in [Ids -> Surface] /\ orders' \in Seq(Orders)
          /\ \A u \in Windows :
               /\ win'[u].surface_id # None => own[win'[u].surface_id] = u
               /\ win'[u].surface # None => own[win'[u].surface] = u /\ surface'[win'[u].surface].live
          /\ \A j \in Ids : surface'[j].live => own[j] = surface'[j].owner /\ own[j] # None
      BY <1>1, <1>4, <2>1, <2>3, <2>4, <2>6, <3>1, MapKeepsAgreement
    <3> QED
      BY <1>1, <1>2, <1>3, <2>6, <3>2, ReadKeepsInv
  <2> QED
    BY <2>2, <2>5, <2>6
<1>8. CASE CommitSurface(i)
  <2> DEFINE t == [surface[i] EXCEPT !.shown = @ \/ surface[i].role, !.early = @ \/ ~surface[i].role]
  <2>1. t \in Surface /\ t.live = surface[i].live /\ t.owner = surface[i].owner
    BY <1>4 DEF Surface
  <2>2. surface' = [surface EXCEPT ![i] = t] /\ UNCHANGED <<win, orders, free>>
    BY <1>2, <1>4, <1>8 DEF CommitSurface
  <2> HIDE DEF t
  <2>3. /\ surface' \in [Ids -> Surface]
        /\ \A j \in Ids : surface'[j].live = surface[j].live /\ surface'[j].owner = surface[j].owner
    BY <1>2, <1>4, <2>1, <2>2
  <2>4. \A v \in Windows :
          /\ win'[v].surface_id # None => own[win'[v].surface_id] = v
          /\ win'[v].surface # None => own[win'[v].surface] = v /\ surface'[win'[v].surface].live
    BY <1>6, <2>2, <2>3
  <2>5. \A j \in Ids : surface'[j].live => own[j] = surface'[j].owner /\ own[j] # None
    BY <1>6, <2>3
  <2> QED
    BY <1>1, <1>2, <1>3, <2>2, <2>3, <2>4, <2>5, ReadKeepsInv
<1>9. CASE DestroySurface(i)
  <2> DEFINE left(v) == [win[v] EXCEPT !.surface = None, !.shsurf = FALSE]
  <2>1. \A v \in Windows :
          left(v) \in Window /\ left(v).surface = None /\ left(v).surface_id = win[v].surface_id
    BY <1>6 DEF Window
  <2>2. /\ surface' = [surface EXCEPT ![i] = NoSurface] /\ UNCHANGED <<free, orders>>
        /\ win' = [v \in Windows |-> IF win[v].surface = i THEN left(v) ELSE win[v]]
    BY <1>9 DEF DestroySurface
  <2> HIDE DEF left
  <2>3. /\ surface' \in [Ids -> Surface] /\ surface'[i].live = FALSE
        /\ \A j \in Ids : j # i => surface'[j] = surface[j]
    BY <1>2, <1>4, <2>2, NothingTyped
  <2>4. win' \in [Windows -> Window]
    BY <1>6, <2>1, <2>2
  <2>5. \A v \in Windows :
          /\ win'[v].surface_id # None => own[win'[v].surface_id] = v
          /\ win'[v].surface # None => own[win'[v].surface] = v /\ surface'[win'[v].surface].live
    BY <1>6, <2>1, <2>2, <2>3
  <2>6. \A j \in Ids : surface'[j].live => own[j] = surface'[j].owner /\ own[j] # None
    BY <1>6, <2>3
  <2> QED
    BY <1>1, <1>2, <1>3, <2>2, <2>3, <2>4, <2>5, <2>6, ReadKeepsInv
<1> QED
  BY <1>5, <1>7, <1>8, <1>9

LEMMA NextKeepsInv == ASSUME Inv, ~Reuse, [Next]_vars PROVE Inv'
<1>1. CASE UNCHANGED vars
  <2>1. PICK own \in Owners : Agree(own)
    BY DEF Inv
  <2>2. Agree(own)'
    BY <1>1, <2>1 DEF Agree, vars
  <2>3. TypeOK' /\ HasId'
    BY <1>1 DEF Inv, TypeOK, HasId, vars
  <2> QED
    BY <2>2, <2>3 DEF Inv, Owners
<1>2. ASSUME NEW w \in Windows \cup {None}, Activate(w)
      PROVE  Inv'
  <2>1. focus' \in Windows \cup {None} /\ UNCHANGED <<x, free, xevents, orders, requests, surface, win>>
    BY <1>2 DEF Activate
  <2>2. PICK own \in Owners : Agree(own)
    BY DEF Inv
  <2>3. Agree(own)'
    BY <2>1, <2>2 DEF Agree
  <2>4. TypeOK' /\ HasId'
    BY <2>1 DEF Inv, TypeOK, HasId
  <2> QED
    BY <2>3, <2>4 DEF Inv, Owners
<1>3. ASSUME NEW w \in Windows, XCreate(w) \/ XMap(w) \/ XUnmap(w) \/ XDestroy(w) \/ XCommit(w)
      PROVE  Inv'
  BY <1>3, ServerKeepsInv
<1>4. CASE XOrder
  BY <1>4, OrderKeepsInv
<1>5. CASE HandleEvent
  BY <1>5, EventKeepsInv
<1>6. CASE Dispatch
  BY <1>6, DispatchKeepsInv
<1> QED
  BY <1>1, <1>2, <1>3, <1>4, <1>5, <1>6 DEF Next

-----------------------------------------------------------------------------
(* Where ids are not used again, the queues, the unpaired list and the     *)
(* windows always agree on whose an id is.                                 *)
THEOREM Invariance == ASSUME ~Reuse PROVE Spec => []Inv
<1>1. Inv /\ [Next]_vars => Inv'
  BY NextKeepsInv
<1> QED
  BY <1>1, InitInv, PTL DEF Spec

(* xserver_map_shell_surface() is never called for a window with another   *)
(* window's surface, in whichever order events and requests are read.      *)
THEOREM PairsAreRight == ASSUME ~Reuse PROVE Spec => []PairedRight
  BY PairedByInv, Invariance, PTL
-----------------------------------------------------------------------------
(* The order of what is queued.  The properties that follow hold because   *)
(* each queue is read in order: the unmap event of a window is read before *)
(* its next map request and before its destroy event, whatever the Wayland *)
(* requests do in between.                                                 *)

EventAt(k, type, w) ==
  k \in DOMAIN xevents /\ xevents[k].type = type /\ xevents[k].window = w

(* The window manager has something of the window's left to take back.     *)
Busy(w) == win[w].surface # None \/ win[w].surface_id # None \/ focus = w

(* When the first k - 1 events have been read, it has been taken back.     *)
Cleared(w, k) ==
  /\ Busy(w) => \E j \in 1..(k - 1) : EventAt(j, "unmap", w)
  /\ \A m \in 1..(k - 1) :
       EventAt(m, "surface_id", w) => \E j \in (m + 1)..(k - 1) : EventAt(j, "unmap", w)

UnmapsFirst ==
  \A w \in Windows :
    /\ \A k \in DOMAIN xevents :
         EventAt(k, "map_request", w) \/ EventAt(k, "destroy", w) => Cleared(w, k)
    /\ x[w].state # "mapped" => Cleared(w, Len(xevents) + 1)

Created(w, k) == win[w].known \/ \E j \in 1..(k - 1) : EventAt(j, "create", w)

(* A window is known when its surface is named, and until nothing is left. *)
KnownInTime ==
  \A w \in Windows :
    /\ \A k \in DOMAIN xevents : EventAt(k, "surface_id", w) => Created(w, k)
    /\ x[w].state \in {"unmapped", "asked", "mapped"} => Created(w, Len(xevents) + 1)
    /\ Busy(w) => win[w].known
    /\ \A k \in DOMAIN xevents : EventAt(k, "destroy", w) =>
         /\ x[w].state = "gone"
         /\ \A m \in DOMAIN xevents : m > k => xevents[m].window # w

Ordered == UnmapsFirst /\ KnownInTime

LEMMA AppendPositions ==
  ASSUME NEW S, NEW s \in Seq(S), NEW e \in S
  PROVE  /\ Append(s, e) \in Seq(S) /\ Len(s) \in Nat /\ Len(Append(s, e)) = Len(s) + 1
         /\ DOMAIN s = 1..Len(s) /\ DOMAIN Append(s, e) = 1..(Len(s) + 1)
         /\ Append(s, e)[Len(s) + 1] = e
         /\ \A k \in 1..Len(s) : Append(s, e)[k] = s[k]
<1> DEFINE t == Append(s, e)
<1>1. t \in Seq(S) /\ Len(s) \in Nat /\ Len(t) = Len(s) + 1 /\ t[Len(s) + 1] = e
      /\ \A k \in 1..Len(s) : t[k] = s[k]
  OBVIOUS
<1>2. DOMAIN t = 1..Len(t) /\ DOMAIN s = 1..Len(s)
  BY <1>1
<1> QED
  BY <1>1, <1>2

LEMMA TailPositions ==
  ASSUME NEW S, NEW s \in Seq(S), s # <<>>
  PROVE  /\ Tail(s) \in Seq(S) /\ Len(s) \in Nat \ {0} /\ Len(Tail(s)) = Len(s) - 1
         /\ DOMAIN s = 1..Len(s) /\ DOMAIN Tail(s) = 1..(Len(s) - 1)
         /\ Head(s) = s[1] /\ 1 \in DOMAIN s
         /\ \A k \in 1..(Len(s) - 1) : k + 1 \in 1..Len(s) /\ Tail(s)[k] = s[k + 1]
<1>1. /\ Tail(s) \in Seq(S) /\ Head(s) = s[1] /\ Len(s) \in Nat \ {0} /\ Len(Tail(s)) = Len(s) - 1
      /\ \A k \in 1..(Len(s) - 1) : Tail(s)[k] = s[k + 1]
  OBVIOUS
<1>2. DOMAIN Tail(s) = 1..(Len(s) - 1) /\ DOMAIN s = 1..Len(s)
  BY <1>1
<1> QED
  BY <1>1, <1>2

(* An event is sent by a window that still exists.                         *)
LEMMA SentKeepsOrder ==
  ASSUME TypeOK, Ordered, NEW w \in Windows, NEW e \in XEvents, e.window = w,
         xevents' = Append(xevents, e), UNCHANGED <<win, focus>>,
         \A v \in Windows : v # w => x'[v].state = x[v].state,
         x[w].state # "gone",
         e.type \in {"map_request", "destroy"} => x[w].state # "mapped",
         e.type = "surface_id" => x[w].state \in {"unmapped", "asked"} /\ x'[w].state = "mapped",
         e.type = "destroy" => x'[w].state = "gone",
         x'[w].state # "mapped" => x[w].state # "mapped" \/ e.type = "unmap",
         x'[w].state \in {"unmapped", "asked", "mapped"} =>
           e.type = "create" \/ x[w].state \in {"unmapped", "asked", "mapped"}
  PROVE  Ordered'
<1>0. PICK n \in Nat : n = Len(xevents)
  BY AppendPositions DEF TypeOK
<1>1. /\ n \in Nat /\ Len(xevents') = n + 1 /\ Len(xevents') + 1 = n + 2
      /\ (n + 2) - 1 = n + 1 /\ (n + 1) - 1 = n /\ n + 1 \in 1..(n + 1) /\ 1..n \subseteq 1..(n + 1)
      /\ DOMAIN xevents = 1..n /\ DOMAIN xevents' = 1..(n + 1) /\ xevents'[n + 1] = e
      /\ \A k \in 1..n : xevents'[k] = xevents[k]
  BY <1>0, AppendPositions DEF TypeOK
<1>2. \A v \in Windows : (Busy(v)' <=> Busy(v)) /\ win'[v] = win[v]
  BY DEF Busy
<1>3. \A k \in 1..n : \A v, type : EventAt(k, type, v)' <=> EventAt(k, type, v)
  BY <1>1 DEF EventAt
<1>4. \A v, type : EventAt(n + 1, type, v)' <=> (e.type = type /\ v = w)
  BY <1>1 DEF EventAt
<1>5. ASSUME NEW v \in Windows, NEW k \in 1..(n + 1), Cleared(v, k) PROVE Cleared(v, k)'
  BY <1>1, <1>2, <1>3, <1>5 DEF Cleared
<1>6. ASSUME NEW v \in Windows, Cleared(v, n + 1), v # w \/ e.type # "surface_id"
      PROVE  Cleared(v, n + 2)'
  <2>1. \A m \in 1..(n + 1) : m \in 1..n \/ m = n + 1
    BY <1>1
  <2>2. Busy(v)' => \E j \in 1..(n + 1) : EventAt(j, "unmap", v)'
    BY <1>1, <1>2, <1>3, <1>6 DEF Cleared
  <2>3. ASSUME NEW m \in 1..(n + 1), EventAt(m, "surface_id", v)'
        PROVE  \E j \in (m + 1)..(n + 1) : EventAt(j, "unmap", v)'
    BY <1>1, <1>3, <1>4, <1>6, <2>1, <2>3 DEF Cleared
  <2> QED
    BY <1>1, <2>2, <2>3 DEF Cleared
<1>7. ASSUME e.type = "unmap" PROVE Cleared(w, n + 2)'
  BY <1>1, <1>3, <1>4, <1>7 DEF Cleared
<1>8. ASSUME NEW v \in Windows, NEW k \in 1..(n + 1), Created(v, k) PROVE Created(v, k)'
  BY <1>1, <1>2, <1>3, <1>8 DEF Created
<1>9. ASSUME NEW v \in Windows, Created(v, n + 1) \/ (v = w /\ e.type = "create")
      PROVE  Created(v, n + 2)'
  BY <1>1, <1>2, <1>3, <1>4, <1>9 DEF Created
<1>10. UnmapsFirst'
  <2> SUFFICES ASSUME NEW v \in Windows
               PROVE  /\ \A k \in 1..(n + 1) :
                           EventAt(k, "map_request", v)' \/ EventAt(k, "destroy", v)' => Cleared(v, k)'
                      /\ x'[v].state # "mapped" => Cleared(v, n + 2)'
    BY <1>1 DEF UnmapsFirst
  <2>1. ASSUME NEW k \in 1..(n + 1), EventAt(k, "map_request", v)' \/ EventAt(k, "destroy", v)'
        PROVE  Cleared(v, k)'
    <3>1. CASE k \in 1..n
      BY <1>1, <1>3, <1>5, <2>1, <3>1 DEF Ordered, UnmapsFirst
    <3>2. CASE k = n + 1
      <4>1. Cleared(v, n + 1)
        BY <1>0, <1>1, <1>4, <2>1, <3>2 DEF Ordered, UnmapsFirst
      <4> QED
        BY <1>1, <1>5, <3>2, <4>1
    <3> QED
      BY <1>1, <3>1, <3>2
  <2>2. ASSUME x'[v].state # "mapped" PROVE Cleared(v, n + 2)'
    <3>1. CASE v = w /\ e.type = "unmap"
      BY <1>7, <3>1
    <3>2. CASE v # w \/ e.type # "unmap"
      <4>1. x[v].state # "mapped" /\ (v # w \/ e.type # "surface_id")
        BY <2>2, <3>2
      <4>2. Cleared(v, n + 1)
        BY <1>0, <4>1 DEF Ordered, UnmapsFirst
      <4> QED
        BY <1>6, <4>1, <4>2
    <3> QED
      BY <3>1, <3>2
  <2> QED
    BY <2>1, <2>2
<1>11. KnownInTime'
  <2> SUFFICES ASSUME NEW v \in Windows
               PROVE  /\ \A k \in 1..(n + 1) : EventAt(k, "surface_id", v)' => Created(v, k)'
                      /\ x'[v].state \in {"unmapped", "asked", "mapped"} => Created(v, n + 2)'
                      /\ Busy(v)' => win'[v].known
                      /\ \A k \in 1..(n + 1) : EventAt(k, "destroy", v)' =>
                           /\ x'[v].state = "gone"
                           /\ \A m \in 1..(n + 1) : m > k => xevents'[m].window # v
    BY <1>1 DEF KnownInTime
  <2>1. ASSUME NEW k \in 1..(n + 1), EventAt(k, "surface_id", v)' PROVE Created(v, k)'
    <3>1. CASE k \in 1..n
      BY <1>1, <1>3, <1>8, <2>1, <3>1 DEF Ordered, KnownInTime
    <3>2. CASE k = n + 1
      <4>1. Created(v, n + 1)
        BY <1>0, <1>4, <2>1, <3>2 DEF Ordered, KnownInTime
      <4> QED
        BY <1>1, <1>8, <3>2, <4>1
    <3> QED
      BY <1>1, <3>1, <3>2
  <2>2. ASSUME x'[v].state \in {"unmapped", "asked", "mapped"} PROVE Created(v, n + 2)'
    BY <1>0, <1>9, <2>2 DEF Ordered, KnownInTime
  <2>3. Busy(v)' => win'[v].known
    BY <1>2 DEF Ordered, KnownInTime
  <2>4. ASSUME NEW k \in 1..(n + 1), EventAt(k, "destroy", v)'
        PROVE  /\ x'[v].state = "gone"
               /\ \A m \in 1..(n + 1) : m > k => xevents'[m].window # v
    <3>1. CASE k \in 1..n
      <4>1. EventAt(k, "destroy", v)
        BY <1>3, <2>4, <3>1
      <4>2. x[v].state = "gone" /\ \A m \in 1..n : m > k => xevents[m].window # v
        BY <1>1, <4>1, <3>1 DEF Ordered, KnownInTime
      <4> QED
        BY <1>1, <4>2
    <3>2. CASE k = n + 1
      BY <1>1, <1>4, <2>4, <3>2
    <3> QED
      BY <1>1, <3>1, <3>2
  <2> QED
    BY <2>1, <2>2, <2>3, <2>4
<1> QED
  BY <1>10, <1>11 DEF Ordered

(* Nothing is sent or read, and nothing new is held.                       *)
LEMMA QuietKeepsOrder ==
  ASSUME Ordered, UNCHANGED xevents,
         \A v \in Windows : x'[v].state = x[v].state /\ win'[v].known = win[v].known,
         \A v \in Windows : Busy(v)' => Busy(v)
  PROVE  Ordered'
<1>1. \A k, v, type : EventAt(k, type, v)' <=> EventAt(k, type, v)
  BY DEF EventAt
<1>2. ASSUME NEW v \in Windows, NEW k, Cleared(v, k) PROVE Cleared(v, k)'
  BY <1>1, <1>2 DEF Cleared
<1>3. ASSUME NEW v \in Windows, NEW k, Created(v, k) PROVE Created(v, k)'
  BY <1>1, <1>3 DEF Created
<1>4. UnmapsFirst'
  BY <1>1, <1>2 DEF Ordered, UnmapsFirst
<1>5. KnownInTime'
  BY <1>1, <1>3 DEF Ordered, KnownInTime
<1> QED
  BY <1>4, <1>5 DEF Ordered

(* The next event is read.                                                 *)
LEMMA ReadKeepsOrder ==
  ASSUME TypeOK, Ordered, xevents # <<>>, xevents' = Tail(xevents), UNCHANGED x,
         NEW w \in Windows, Head(xevents).window = w,
         \A v \in Windows : v # w => (Busy(v)' => Busy(v)) /\ win'[v].known = win[v].known,
         Head(xevents).type \notin {"create", "destroy"} => win'[w].known = win[w].known,
         Head(xevents).type = "create" => win'[w].known,
         Head(xevents).type = "unmap" => ~Busy(w)',
         Busy(w)' => Busy(w) \/ Head(xevents).type = "surface_id"
  PROVE  Ordered'
<1>0. PICK n \in Nat : n = Len(xevents)
  BY TailPositions DEF TypeOK
<1> DEFINE e == Head(xevents)
<1>1. /\ n \in Nat \ {0} /\ Len(xevents') = n - 1 /\ e = xevents[1] /\ 1 \in 1..n
      /\ Len(xevents') + 1 = n /\ (n + 1) - 1 = n /\ n \in 1..n /\ 1..(n - 1) \subseteq 1..n
      /\ DOMAIN xevents = 1..n /\ DOMAIN xevents' = 1..(n - 1)
      /\ \A k \in 1..(n - 1) : k + 1 \in 1..n /\ xevents'[k] = xevents[k + 1]
  BY <1>0, TailPositions DEF TypeOK
<1> HIDE DEF e
<1>2. \A k \in 1..(n - 1) : \A v, type : EventAt(k, type, v)' <=> EventAt(k + 1, type, v)
  BY <1>1 DEF EventAt
<1>3. \A v, type : EventAt(1, type, v) <=> (e.type = type /\ v = w)
  BY <1>1 DEF EventAt, e
<1>4. ASSUME NEW v \in Windows, NEW k \in 1..n, Cleared(v, k + 1), v = w => e.type # "destroy"
      PROVE  Cleared(v, k)'
  <2>1. \A j \in 2..k : j - 1 \in 1..(k - 1) /\ j - 1 \in 1..(n - 1) /\ (EventAt(j - 1, "unmap", v)' <=> EventAt(j, "unmap", v))
    BY <1>1, <1>2
  <2>2. ASSUME Busy(v)' PROVE \E j \in 1..(k - 1) : EventAt(j, "unmap", v)'
    <3>1. CASE Busy(v)
      <4>1. PICK j \in 1..k : EventAt(j, "unmap", v)
        BY <1>1, <1>4, <3>1 DEF Cleared
      <4>2. j # 1
        BY <1>3, <2>2, <4>1 DEF e
      <4> QED
        BY <1>1, <2>1, <4>1, <4>2
    <3>2. CASE ~Busy(v)
      <4>1. EventAt(1, "surface_id", v)
        BY <1>3, <2>2, <3>2 DEF e
      <4>2. PICK j \in 2..k : EventAt(j, "unmap", v)
        BY <1>1, <1>4, <4>1 DEF Cleared
      <4> QED
        BY <1>1, <2>1, <4>2
    <3> QED
      BY <3>1, <3>2
  <2>3. ASSUME NEW m \in 1..(k - 1), EventAt(m, "surface_id", v)'
        PROVE  \E j \in (m + 1)..(k - 1) : EventAt(j, "unmap", v)'
    <3>1. m + 1 \in 1..k /\ EventAt(m + 1, "surface_id", v)
      BY <1>1, <1>2, <2>3
    <3>2. PICK j \in (m + 2)..k : EventAt(j, "unmap", v)
      BY <1>1, <1>4, <3>1 DEF Cleared
    <3> QED
      BY <1>1, <2>1, <3>2
  <2> QED
    BY <2>2, <2>3 DEF Cleared
<1>5. ASSUME NEW v \in Windows, NEW k \in 1..n, Created(v, k + 1), v = w => e.type # "destroy"
      PROVE  Created(v, k)'
  <2>1. CASE win[v].known
    BY <1>5, <2>1, <1>1 DEF Created, e
  <2>2. CASE ~win[v].known
    <3>1. PICK j \in 1..k : EventAt(j, "create", v)
      BY <1>1, <1>5, <2>2 DEF Created
    <3>2. CASE j = 1
      BY <1>3, <3>1, <3>2 DEF Created, e
    <3>3. CASE j # 1
      <4>1. j - 1 \in 1..(k - 1) /\ j - 1 \in 1..(n - 1) /\ (j - 1) + 1 = j
        BY <1>1, <3>3
      <4> QED
        BY <1>2, <3>1, <4>1 DEF Created
    <3> QED
      BY <3>2, <3>3
  <2> QED
    BY <2>1, <2>2
<1>6. ASSUME e.type = "destroy"
      PROVE  /\ x[w].state = "gone" /\ ~Busy(w)'
             /\ \A k \in 1..(n - 1) : \A type : ~EventAt(k, type, w)'
  <2>1. EventAt(1, "destroy", w)
    BY <1>3, <1>6
  <2>2. x[w].state = "gone" /\ \A m \in 1..n : m > 1 => xevents[m].window # w
    BY <1>1, <2>1 DEF Ordered, KnownInTime
  <2>3. Cleared(w, 1)
    BY <1>1, <2>1 DEF Ordered, UnmapsFirst
  <2>4. ~Busy(w)
    BY <2>3 DEF Cleared
  <2> QED
    BY <1>1, <1>2, <1>6, <2>2, <2>4 DEF EventAt, e
<1>7. ASSUME e.type = "destroy", NEW k \in 1..n PROVE Cleared(w, k)'
  BY <1>1, <1>6, <1>7 DEF Cleared
<1>8. UnmapsFirst'
  <2> SUFFICES ASSUME NEW v \in Windows
               PROVE  /\ \A k \in 1..(n - 1) :
                           EventAt(k, "map_request", v)' \/ EventAt(k, "destroy", v)' => Cleared(v, k)'
                      /\ x[v].state # "mapped" => Cleared(v, n)'
    BY <1>1 DEF UnmapsFirst
  <2>1. CASE v = w /\ e.type = "destroy"
    BY <1>1, <1>7, <2>1
  <2>2. CASE v = w => e.type # "destroy"
    <3>1. ASSUME NEW k \in 1..(n - 1), EventAt(k, "map_request", v)' \/ EventAt(k, "destroy", v)'
          PROVE  Cleared(v, k)'
      <4>1. Cleared(v, k + 1)
        BY <1>1, <1>2, <3>1 DEF Ordered, UnmapsFirst
      <4> QED
        BY <1>1, <1>4, <2>2, <4>1
    <3>2. ASSUME x[v].state # "mapped" PROVE Cleared(v, n)'
      <4>1. Cleared(v, n + 1)
        BY <1>0, <3>2 DEF Ordered, UnmapsFirst
      <4> QED
        BY <1>1, <1>4, <2>2, <4>1
    <3> QED
      BY <3>1, <3>2
  <2> QED
    BY <2>1, <2>2
<1>9. KnownInTime'
  <2> SUFFICES ASSUME NEW v \in Windows
               PROVE  /\ \A k \in 1..(n - 1) : EventAt(k, "surface_id", v)' => Created(v, k)'
                      /\ x[v].state \in {"unmapped", "asked", "mapped"} => Created(v, n)'
                      /\ Busy(v)' => win'[v].known
                      /\ \A k \in 1..(n - 1) : EventAt(k, "destroy", v)' =>
                           /\ x[v].state = "gone"
                           /\ \A m \in 1..(n - 1) : m > k => xevents'[m].window # v
    BY <1>1 DEF KnownInTime
  <2>1. CASE v = w /\ e.type = "destroy"
    BY <1>1, <1>6, <2>1
  <2>2. CASE v = w => e.type # "destroy"
    <3>1. ASSUME NEW k \in 1..(n - 1), EventAt(k, "surface_id", v)' PROVE Created(v, k)'
      <4>1. Created(v, k + 1)
        BY <1>1, <1>2, <3>1 DEF Ordered, KnownInTime
      <4> QED
        BY <1>1, <1>5, <2>2, <4>1
    <3>2. ASSUME x[v].state \in {"unmapped", "asked", "mapped"} PROVE Created(v, n)'
      <4>1. Created(v, n + 1)
        BY <1>0, <3>2 DEF Ordered, KnownInTime
      <4> QED
        BY <1>1, <1>5, <2>2, <4>1
    <3>3. ASSUME Busy(v)' PROVE win'[v].known
      <4>1. CASE Busy(v)
        BY <2>2, <4>1 DEF Ordered, KnownInTime, e
      <4>2. CASE ~Busy(v)
        <5>1. v = w /\ e.type = "surface_id" /\ EventAt(1, "surface_id", w)
          BY <1>3, <3>3, <4>2 DEF e
        <5>2. Created(w, 1)
          BY <1>1, <5>1 DEF Ordered, KnownInTime
        <5> QED
          BY <5>1, <5>2 DEF Created, e
      <4> QED
        BY <4>1, <4>2
    <3>4. ASSUME NEW k \in 1..(n - 1), EventAt(k, "destroy", v)'
          PROVE  /\ x[v].state = "gone"
                 /\ \A m \in 1..(n - 1) : m > k => xevents'[m].window # v
      <4>1. EventAt(k + 1, "destroy", v)
        BY <1>2, <3>4
      <4>2. x[v].state = "gone" /\ \A m \in 1..n : m > k + 1 => xevents[m].window # v
        BY <1>1, <4>1 DEF Ordered, KnownInTime
      <4> QED
        BY <1>1, <4>2
    <3> QED
      BY <3>1, <3>2, <3>3, <3>4
  <2> QED
    BY <2>1, <2>2
<1> QED
  BY <1>8, <1>9 DEF Ordered

-----------------------------------------------------------------------------
(* What the steps do, field by field.                                      *)

Order(type, w) == [type |-> type, window |-> w]

LEMMA MapEffects ==
  ASSUME TypeOK, NEW w \in Windows, NEW i \in Ids, NEW s \in [Ids -> Surface],
         MapShellSurface(w, i, s)
  PROVE  /\ win'[w].surface = i /\ win'[w].surface_id = None /\ win'[w].known = win[w].known
         /\ win'[w].shsurf <=> win[w].shsurf \/ ~s[i].role
         /\ \A v \in Windows : v # w => win'[v] = win[v]
         /\ surface'[i].role /\ surface'[i].live = s[i].live /\ surface'[i].owner = s[i].owner
         /\ surface'[i].early <=> s[i].early
         /\ \A j \in Ids : j # i => surface'[j] = s[j]
         /\ orders' = orders \/ orders' = Append(orders, Order("allow", w))
<1>1. win \in [Windows -> Window] /\ win[w] \in Window
  BY DEF TypeOK
<1> DEFINE m == [win[w] EXCEPT !.surface = i, !.surface_id = None, !.shsurf = @ \/ ~s[i].role]
<1>2. /\ m.surface = i /\ m.surface_id = None /\ m.known = win[w].known
      /\ m.shsurf <=> win[w].shsurf \/ ~s[i].role
  BY <1>1 DEF Window
<1>3. win' = [win EXCEPT ![w] = m]
  BY <1>1 DEF MapShellSurface
<1> HIDE DEF m
<1>4. win'[w] = m /\ \A v \in Windows : v # w => win'[v] = win[v]
  BY <1>1, <1>3
<1>5. /\ surface'[i].role /\ surface'[i].live = s[i].live /\ surface'[i].owner = s[i].owner
      /\ (surface'[i].early <=> s[i].early) /\ \A j \in Ids : j # i => surface'[j] = s[j]
  BY DEF MapShellSurface, Surface
<1>6. orders' = orders \/ orders' = Append(orders, Order("allow", w))
  BY DEF MapShellSurface, Order
<1> QED
  BY <1>2, <1>4, <1>5, <1>6

LEMMA EventCases ==
  ASSUME TypeOK, HandleEvent
  PROVE  /\ xevents # <<>> /\ xevents' = Tail(xevents) /\ UNCHANGED <<x, free, requests>>
         /\ xevents \in Seq(XEvents) /\ Head(xevents) \in XEvents /\ Head(xevents).window \in Windows
         /\ \/ Head(xevents).type = "create" /\ CreateNotify(Head(xevents).window)
            \/ Head(xevents).type = "map_request" /\ MapRequest(Head(xevents).window)
            \/ /\ Head(xevents).type = "surface_id" /\ Head(xevents).id \in Ids
               /\ SurfaceId(Head(xevents).window, Head(xevents).id)
            \/ Head(xevents).type = "unmap" /\ UnmapNotify(Head(xevents).window)
            \/ Head(xevents).type = "destroy" /\ DestroyNotify(Head(xevents).window)
<1>1. /\ xevents # <<>> /\ xevents' = Tail(xevents) /\ UNCHANGED <<x, free, requests>>
      /\ xevents \in Seq(XEvents)
  BY DEF HandleEvent, TypeOK
<1>2. Head(xevents) \in XEvents
  BY <1>1, TailElements
<1>3. /\ Head(xevents).type \in {"create", "map_request", "surface_id", "unmap", "destroy"}
      /\ Head(xevents).window \in Windows
      /\ Head(xevents).type = "surface_id" => Head(xevents).id \in Ids
  BY <1>2, EventHas
<1>4. CASE Head(xevents).type = "create"
  BY <1>1, <1>2, <1>3, <1>4 DEF HandleEvent
<1>5. CASE Head(xevents).type = "map_request"
  BY <1>1, <1>2, <1>3, <1>5 DEF HandleEvent
<1>6. CASE Head(xevents).type = "surface_id"
  BY <1>1, <1>2, <1>3, <1>6 DEF HandleEvent
<1>7. CASE Head(xevents).type = "unmap"
  BY <1>1, <1>2, <1>3, <1>7 DEF HandleEvent
<1>8. CASE Head(xevents).type = "destroy"
  BY <1>1, <1>2, <1>3, <1>8 DEF HandleEvent
<1> QED
  BY <1>3, <1>4, <1>5, <1>6, <1>7, <1>8

LEMMA RequestCases ==
  ASSUME TypeOK, Dispatch
  PROVE  /\ requests # <<>> /\ requests' = Tail(requests) /\ UNCHANGED <<x, xevents, focus>>
         /\ requests \in Seq(Requests) /\ Head(requests) \in Requests
         /\ Head(requests).id \in Ids /\ Head(requests).window \in Windows
         /\ \/ Head(requests).type = "create" /\ CreateSurface(Head(requests).id, Head(requests).window)
            \/ Head(requests).type = "commit" /\ CommitSurface(Head(requests).id)
            \/ Head(requests).type = "destroy" /\ DestroySurface(Head(requests).id)
<1>1. /\ requests # <<>> /\ requests' = Tail(requests) /\ UNCHANGED <<x, xevents, focus>>
      /\ requests \in Seq(Requests)
  BY DEF Dispatch, TypeOK
<1>2. Head(requests) \in Requests
  BY <1>1, TailElements
<1>3. /\ Head(requests).type \in {"create", "commit", "destroy"}
      /\ Head(requests).window \in Windows /\ Head(requests).id \in Ids
  BY <1>2, EventHas
<1>4. CASE Head(requests).type = "create"
  BY <1>1, <1>2, <1>3, <1>4 DEF Dispatch
<1>5. CASE Head(requests).type = "commit"
  BY <1>1, <1>2, <1>3, <1>5 DEF Dispatch
<1>6. CASE Head(requests).type = "destroy"
  BY <1>1, <1>2, <1>3, <1>6 DEF Dispatch
<1> QED
  BY <1>3, <1>4, <1>5, <1>6

(* The surface as it is created, with the window paired with it, if any.   *)
LEMMA CreateEffects ==
  ASSUME TypeOK, NEW i \in Ids, NEW owner \in Windows, CreateSurface(i, owner)
  PROVE  /\ UNCHANGED free
         /\ \E c \in [Ids -> Surface] :
              /\ c[i].live /\ c[i].owner = owner /\ ~c[i].role /\ ~c[i].early
              /\ \A j \in Ids : j # i => c[j] = surface[j]
              /\ \/ surface' = c /\ UNCHANGED <<win, orders>>
                 \/ \E w \in Windows : win[w].surface_id = i /\ MapShellSurface(w, i, c)
<1> DEFINE fresh == [NoSurface EXCEPT !.live = TRUE, !.owner = owner]
           created == [surface EXCEPT ![i] = fresh]
<1>1. fresh \in Surface /\ fresh.live /\ fresh.owner = owner /\ ~fresh.role /\ ~fresh.early
  BY DEF NoSurface, Surface
<1>2. surface \in [Ids -> Surface]
  BY DEF TypeOK
<1>3. /\ UNCHANGED free
      /\ \/ surface' = created /\ UNCHANGED <<win, orders>>
         \/ \E w \in Unpaired(i) : MapShellSurface(w, i, created)
  BY DEF CreateSurface
<1> HIDE DEF fresh
<1>4. created \in [Ids -> Surface] /\ created[i] = fresh /\ \A j \in Ids : j # i => created[j] = surface[j]
  BY <1>1, <1>2
<1> HIDE DEF created
<1> QED
  BY <1>1, <1>3, <1>4 DEF Unpaired

LEMMA DestroyEffects ==
  ASSUME TypeOK, NEW i \in Ids, DestroySurface(i)
  PROVE  /\ surface'[i] = NoSurface /\ \A j \in Ids : j # i => surface'[j] = surface[j]
         /\ UNCHANGED orders
         /\ \A w \in Windows :
              /\ win[w].surface = i => win'[w].surface = None /\ win'[w].shsurf = FALSE
              /\ win[w].surface # i => win'[w].surface = win[w].surface /\ win'[w].shsurf = win[w].shsurf
              /\ win'[w].surface_id = win[w].surface_id /\ win'[w].known = win[w].known
<1>1. surface \in [Ids -> Surface] /\ \A w \in Windows : win[w] \in Window
  BY DEF TypeOK
<1> DEFINE left(w) == [win[w] EXCEPT !.surface = None, !.shsurf = FALSE]
<1>2. \A w \in Windows : /\ left(w).surface = None /\ left(w).shsurf = FALSE
                         /\ left(w).surface_id = win[w].surface_id /\ left(w).known = win[w].known
  BY <1>1 DEF Window
<1>3. /\ surface' = [surface EXCEPT ![i] = NoSurface] /\ UNCHANGED orders
      /\ win' = [w \in Windows |-> IF win[w].surface = i THEN left(w) ELSE win[w]]
  BY DEF DestroySurface
<1> HIDE DEF left
<1> QED
  BY <1>1, <1>2, <1>3

LEMMA CommitEffects ==
  ASSUME TypeOK, NEW i \in Ids, CommitSurface(i)
  PROVE  /\ UNCHANGED <<win, orders, free>> /\ \A j \in Ids : j # i => surface'[j] = surface[j]
         /\ surface'[i].live = surface[i].live /\ surface'[i].owner = surface[i].owner
         /\ surface'[i].role = surface[i].role
         /\ surface'[i].early <=> surface[i].early \/ ~surface[i].role
<1>1. surface \in [Ids -> Surface] /\ surface[i] \in Surface
  BY DEF TypeOK
<1> QED
  BY <1>1 DEF CommitSurface, Surface

(* A window that becomes viewable: its new id was free.                    *)
LEMMA RealiseEffects ==
  ASSUME TypeOK, NEW w \in Windows, Realise(w)
  PROVE  \E i \in free :
           /\ i \in Ids
           /\ x'[w].state = "mapped" /\ x'[w].id = i /\ x'[w].override = x[w].override
           /\ x'[w].allow = x[w].allow /\ \A v \in Windows : v # w => x'[v] = x[v]
           /\ [type |-> "create", id |-> i, window |-> w] \in Requests
           /\ requests' = Append(requests, [type |-> "create", id |-> i, window |-> w])
           /\ [type |-> "surface_id", window |-> w, id |-> i] \in XEvents
           /\ xevents' = Append(xevents, [type |-> "surface_id", window |-> w, id |-> i])
<1>1. PICK i \in free :
        /\ x' = [x EXCEPT ![w].state = "mapped", ![w].id = i, ![w].drawn = FALSE]
        /\ requests' = Append(requests, [type |-> "create", id |-> i, window |-> w])
        /\ xevents' = Append(xevents, [type |-> "surface_id", window |-> w, id |-> i])
  BY DEF Realise
<1>2. i \in Ids /\ x \in [Windows -> XWindow] /\ x[w] \in XWindow
  BY DEF TypeOK
<1> DEFINE y == [x[w] EXCEPT !.state = "mapped", !.id = i, !.drawn = FALSE]
<1>3. y.state = "mapped" /\ y.id = i /\ y.override = x[w].override /\ y.allow = x[w].allow
  BY <1>2 DEF XWindow
<1>4. x' = [x EXCEPT ![w] = y]
  BY <1>1, <1>2
<1> HIDE DEF y
<1>5. x'[w] = y /\ \A v \in Windows : v # w => x'[v] = x[v]
  BY <1>2, <1>4
<1> QED
  BY <1>1, <1>2, <1>3, <1>5, EventTyped

(* The window w is in another state, and an event says so.                 *)
Says(w, state, type) ==
  /\ x'[w].state = state /\ x'[w].override = x[w].override /\ x'[w].allow = x[w].allow
  /\ \A v \in Windows : v # w => x'[v] = x[v]
  /\ Event(type, w) \in XEvents /\ xevents' = Append(xevents, Event(type, w))

(* A request about the surface that w has.                                 *)
Asks(w, type) ==
  /\ [type |-> type, id |-> x[w].id, window |-> w] \in Requests
  /\ requests' = Append(requests, [type |-> type, id |-> x[w].id, window |-> w])

LEMMA ServerCases ==
  ASSUME TypeOK, HasId, NEW w \in Windows, XCreate(w) \/ XMap(w) \/ XUnmap(w) \/ XDestroy(w) \/ XCommit(w)
  PROVE  /\ UNCHANGED <<orders, surface, win, focus>>
         /\ \/ x[w].state = "unmapped" /\ x[w].override /\ Realise(w)
            \/ /\ x'[w].id = x[w].id /\ UNCHANGED <<requests, free>>
               /\ \/ x[w].state = "new" /\ Says(w, "unmapped", "create")
                  \/ x[w].state = "unmapped" /\ Says(w, "asked", "map_request")
                  \/ x[w].state \in {"unmapped", "asked"} /\ Says(w, "gone", "destroy")
            \/ /\ x[w].state = "mapped" /\ x'[w].id = None /\ UNCHANGED free
               /\ Says(w, "unmapped", "unmap") /\ Asks(w, "destroy")
            \/ /\ x[w].state = "mapped" /\ x[w].allow /\ UNCHANGED <<xevents, free>> /\ Asks(w, "commit")
               /\ x'[w].state = x[w].state /\ x'[w].id = x[w].id /\ x'[w].override = x[w].override
               /\ x'[w].allow = x[w].allow /\ \A v \in Windows : v # w => x'[v] = x[v]
<1>1. /\ x \in [Windows -> XWindow] /\ x[w] \in XWindow
      /\ x[w].state = "mapped" => x[w].id \in Ids
  BY QueuesHave DEF TypeOK, HasId
<1>2. \A type \in {"create", "map_request", "unmap", "destroy"} : Event(type, w) \in XEvents
  BY EventTyped
<1>3. x[w].state = "mapped" => \A type \in {"commit", "destroy"} :
        [type |-> type, id |-> x[w].id, window |-> w] \in Requests
  BY <1>1, EventTyped
<1>4. CASE XCreate(w)
  BY <1>1, <1>2, <1>4 DEF XCreate, XUnchanged, Says, XWindow
<1>5. CASE XMap(w)
  <2>1. CASE x[w].override
    BY <1>5, <2>1 DEF XMap, XUnchanged
  <2>2. CASE ~x[w].override
    BY <1>1, <1>2, <1>5, <2>2 DEF XMap, XUnchanged, Says, XWindow
  <2> QED
    BY <2>1, <2>2
<1>6. CASE XUnmap(w)
  BY <1>1, <1>2, <1>3, <1>6 DEF XUnmap, XUnchanged, Says, Asks, XWindow
<1>7. CASE XDestroy(w)
  BY <1>1, <1>2, <1>7 DEF XDestroy, XUnchanged, Says, XWindow
<1>8. CASE XCommit(w)
  BY <1>1, <1>3, <1>8 DEF XCommit, XUnchanged, Asks, XWindow
<1> QED
  BY <1>4, <1>5, <1>6, <1>7, <1>8

LEMMA OrderCases ==
  ASSUME TypeOK, XOrder
  PROVE  /\ orders # <<>> /\ orders' = Tail(orders) /\ UNCHANGED <<surface, win, focus>>
         /\ orders \in Seq(Orders) /\ Head(orders) \in Orders /\ Head(orders).window \in Windows
         /\ LET w == Head(orders).window IN
            \/ Head(orders).type = "map" /\ x[w].state = "asked" /\ Realise(w)
            \/ /\ Head(orders).type = "map" /\ x[w].state # "asked"
               /\ UNCHANGED <<x, free, xevents, requests>>
            \/ /\ Head(orders).type \in {"allow", "forbid"} /\ UNCHANGED <<free, xevents, requests>>
               /\ x'[w].state = x[w].state /\ x'[w].id = x[w].id /\ x'[w].override = x[w].override
               /\ x'[w].allow <=> Head(orders).type = "allow"
               /\ \A v \in Windows : v # w => x'[v] = x[v]
<1>1. orders # <<>> /\ orders' = Tail(orders) /\ UNCHANGED <<surface, win, focus>> /\ orders \in Seq(Orders)
  BY DEF XOrder, XUnchanged, TypeOK
<1>2. Head(orders) \in Orders
  BY <1>1, TailElements
<1>3. Head(orders).window \in Windows /\ Head(orders).type \in {"map", "allow", "forbid"}
  BY <1>2 DEF Orders
<1> DEFINE w == Head(orders).window
<1>4. x \in [Windows -> XWindow] /\ x[w] \in XWindow
  BY <1>3 DEF TypeOK
<1>5. CASE Head(orders).type = "map" /\ x[w].state = "asked"
  BY <1>1, <1>2, <1>3, <1>5 DEF XOrder
<1>6. CASE Head(orders).type = "map" /\ x[w].state # "asked"
  BY <1>1, <1>2, <1>3, <1>6 DEF XOrder
<1>7. CASE Head(orders).type # "map"
  <2>1. x' = [x EXCEPT ![w].allow = Head(orders).type = "allow"] /\ UNCHANGED <<free, xevents, requests>>
    BY <1>7 DEF XOrder
  <2>2. Head(orders).type \in {"allow", "forbid"}
    BY <1>3, <1>7
  <2>3. /\ x'[w].state = x[w].state /\ x'[w].id = x[w].id /\ x'[w].override = x[w].override
        /\ x'[w].allow <=> Head(orders).type = "allow"
        /\ \A v \in Windows : v # w => x'[v] = x[v]
    BY <1>3, <1>4, <2>1 DEF XWindow
  <2> QED
    BY <1>1, <1>2, <1>3, <2>1, <2>2, <2>3
<1> QED
  BY <1>5, <1>6, <1>7

-----------------------------------------------------------------------------
(* Types, and an id for every window that is mapped: also where ids are    *)
(* used again.                                                             *)
Typed == TypeOK /\ HasId

LEMMA MapKeepsTypes ==
  ASSUME TypeOK, NEW w \in Windows, NEW i \in Ids, NEW s \in [Ids -> Surface],
         MapShellSurface(w, i, s)
  PROVE  win' \in [Windows -> Window] /\ surface' \in [Ids -> Surface] /\ orders' \in Seq(Orders)
<1>1. win \in [Windows -> Window] /\ orders \in Seq(Orders) /\ win[w] \in Window /\ s[i] \in Surface
  BY DEF TypeOK
<1> DEFINE m == [win[w] EXCEPT !.surface = i, !.surface_id = None, !.shsurf = @ \/ ~s[i].role]
           t == [s[i] EXCEPT !.role = TRUE]
<1>2. m \in Window
  BY <1>1 DEF Window
<1>3. t \in Surface
  BY <1>1 DEF Surface
<1>4. win' = [win EXCEPT ![w] = m] /\ surface' = [s EXCEPT ![i] = t]
  BY <1>1 DEF MapShellSurface
<1>5. orders' \in Seq(Orders)
  <2>1. [type |-> "allow", window |-> w] \in Orders
    BY EventTyped
  <2> QED
    BY <1>1, <2>1, AppendElements DEF MapShellSurface
<1> HIDE DEF m, t
<1> QED
  BY <1>1, <1>2, <1>3, <1>4, <1>5

LEMMA RealiseKeepsTypes ==
  ASSUME Typed, NEW w \in Windows, Realise(w), UNCHANGED <<surface, win, focus>>,
         orders' \in Seq(Orders)
  PROVE  Typed'
<1>1. PICK i \in free :
        /\ x' = [x EXCEPT ![w].state = "mapped", ![w].id = i, ![w].drawn = FALSE]
        /\ free' = free \ {i}
        /\ requests' = Append(requests, [type |-> "create", id |-> i, window |-> w])
        /\ xevents' = Append(xevents, [type |-> "surface_id", window |-> w, id |-> i])
  BY DEF Realise
<1>2. /\ i \in Ids /\ x \in [Windows -> XWindow] /\ x[w] \in XWindow /\ free' \subseteq Ids
      /\ xevents \in Seq(XEvents) /\ requests \in Seq(Requests)
  BY <1>1 DEF Typed, TypeOK
<1> DEFINE y == [x[w] EXCEPT !.state = "mapped", !.id = i, !.drawn = FALSE]
<1>3. y \in XWindow /\ y.id = i
  BY <1>2 DEF XWindow
<1>4. x' = [x EXCEPT ![w] = y]
  BY <1>1, <1>2
<1>5. requests' \in Seq(Requests) /\ xevents' \in Seq(XEvents)
  BY <1>1, <1>2, EventTyped, AppendElements
<1> HIDE DEF y
<1>6. x' \in [Windows -> XWindow] /\ x'[w].id = i /\ \A v \in Windows : v # w => x'[v] = x[v]
  BY <1>2, <1>3, <1>4
<1> QED
  BY <1>2, <1>5, <1>6, XwmAssumption DEF Typed, TypeOK, HasId

LEMMA StateKeepsTypes ==
  ASSUME Typed, NEW w \in Windows, NEW y \in XWindow, x' = [x EXCEPT ![w] = y],
         y.state = "mapped" => y.id # None, UNCHANGED <<free, surface, win, focus>>,
         orders' \in Seq(Orders), xevents' \in Seq(XEvents), requests' \in Seq(Requests)
  PROVE  Typed'
<1>1. x' \in [Windows -> XWindow] /\ x'[w] = y /\ \A v \in Windows : v # w => x'[v] = x[v]
  BY DEF Typed, TypeOK
<1> QED
  BY <1>1 DEF Typed, TypeOK, HasId

LEMMA ServerKeepsTypes ==
  ASSUME Typed, NEW w \in Windows, XCreate(w) \/ XMap(w) \/ XUnmap(w) \/ XDestroy(w) \/ XCommit(w)
  PROVE  Typed'
<1>1. /\ x \in [Windows -> XWindow] /\ x[w] \in XWindow /\ orders \in Seq(Orders)
      /\ xevents \in Seq(XEvents) /\ requests \in Seq(Requests)
      /\ x[w].state = "mapped" => x[w].id \in Ids /\ x[w].id # None
  BY QueuesHave DEF Typed, TypeOK, HasId
<1>2. \A type \in {"create", "map_request", "unmap", "destroy"} :
        Append(xevents, Event(type, w)) \in Seq(XEvents)
  BY <1>1, EventTyped, AppendElements
<1>3. x[w].state = "mapped" => \A type \in {"commit", "destroy"} :
        Append(requests, [type |-> type, id |-> x[w].id, window |-> w]) \in Seq(Requests)
  BY <1>1, EventTyped, AppendElements
<1>4. CASE XCreate(w) \/ XDestroy(w) \/ (XMap(w) /\ ~x[w].override)
  <2>1. PICK type \in {"create", "map_request", "unmap", "destroy"}, state \in {"unmapped", "asked", "gone"} :
          /\ x' = [x EXCEPT ![w].state = state] /\ xevents' = Append(xevents, Event(type, w))
          /\ UNCHANGED <<free, orders, requests, surface, win, focus>>
    BY <1>4 DEF XCreate, XDestroy, XMap, XUnchanged
  <2> DEFINE y == [x[w] EXCEPT !.state = state]
  <2>2. y \in XWindow /\ y.state # "mapped" /\ x' = [x EXCEPT ![w] = y]
    BY <1>1, <2>1 DEF XWindow
  <2> HIDE DEF y
  <2> QED
    BY <1>1, <1>2, <2>1, <2>2, StateKeepsTypes
<1>5. CASE XMap(w) /\ x[w].override
  BY <1>1, <1>5, RealiseKeepsTypes DEF XMap, XUnchanged
<1>6. CASE XUnmap(w)
  <2> DEFINE y == [x[w] EXCEPT !.state = "unmapped", !.id = None]
  <2>1. y \in XWindow /\ y.state # "mapped" /\ x' = [x EXCEPT ![w] = y]
    BY <1>1, <1>6 DEF XUnmap, XWindow
  <2>2. /\ xevents' \in Seq(XEvents) /\ requests' \in Seq(Requests)
        /\ UNCHANGED <<free, orders, surface, win, focus>>
    BY <1>2, <1>3, <1>6 DEF XUnmap, XUnchanged
  <2> HIDE DEF y
  <2> QED
    BY <1>1, <2>1, <2>2, StateKeepsTypes
<1>7. CASE XCommit(w)
  <2> DEFINE y == [x[w] EXCEPT !.drawn = TRUE]
  <2>1. /\ y \in XWindow /\ y.id = x[w].id /\ x[w].state = "mapped" /\ x' = [x EXCEPT ![w] = y]
    BY <1>1, <1>7 DEF XCommit, XWindow
  <2>2. requests' \in Seq(Requests) /\ UNCHANGED <<free, xevents, orders, surface, win, focus>>
    BY <1>3, <1>7 DEF XCommit, XUnchanged
  <2> HIDE DEF y
  <2> QED
    BY <1>1, <2>1, <2>2, StateKeepsTypes
<1> QED
  BY <1>4, <1>5, <1>6, <1>7

LEMMA OrderKeepsTypes == ASSUME Typed, XOrder PROVE Typed'
<1>0. TypeOK
  BY DEF Typed
<1>1. PICK o \in Orders, w \in Windows : o = Head(orders) /\ w = o.window
  BY <1>0, OrderCases
<1>2. /\ UNCHANGED <<surface, win, focus>> /\ orders' \in Seq(Orders) /\ x[w] \in XWindow
      /\ x \in [Windows -> XWindow] /\ xevents \in Seq(XEvents) /\ requests \in Seq(Requests)
  BY <1>0, OrderCases, TailElements DEF TypeOK
<1>3. \/ Realise(w)
      \/ UNCHANGED <<x, free, xevents, requests>>
      \/ /\ x' = [x EXCEPT ![w].allow = o.type = "allow"]
         /\ UNCHANGED <<free, xevents, requests>>
  BY <1>1 DEF XOrder
<1>4. CASE Realise(w)
  BY <1>2, <1>4, RealiseKeepsTypes
<1>5. CASE UNCHANGED <<x, free, xevents, requests>>
  BY <1>2, <1>5 DEF Typed, TypeOK, HasId
<1>6. CASE x' = [x EXCEPT ![w].allow = o.type = "allow"] /\ UNCHANGED <<free, xevents, requests>>
  <2> DEFINE y == [x[w] EXCEPT !.allow = o.type = "allow"]
  <2>1. y \in XWindow /\ y.id = x[w].id /\ y.state = x[w].state
    BY <1>2 DEF XWindow
  <2>2. x' = [x EXCEPT ![w] = y]
    BY <1>2, <1>6
  <2>3. y.state = "mapped" => y.id # None
    BY <2>1 DEF Typed, HasId
  <2> HIDE DEF y
  <2> QED
    BY <1>2, <1>6, <2>1, <2>2, <2>3, StateKeepsTypes
<1> QED
  BY <1>3, <1>4, <1>5, <1>6

LEMMA EventKeepsTypes == ASSUME Typed, HandleEvent PROVE Typed'
<1>0. TypeOK
  BY DEF Typed
<1>1. PICK e \in XEvents, w \in Windows : e = Head(xevents) /\ w = e.window
  BY <1>0, EventCases
<1>2. /\ xevents' \in Seq(XEvents) /\ UNCHANGED <<x, free, requests>> /\ x[w] \in XWindow
      /\ win \in [Windows -> Window] /\ win[w] \in Window /\ surface \in [Ids -> Surface]
      /\ orders \in Seq(Orders) /\ focus \in Windows \cup {None}
  BY <1>0, EventCases, TailElements DEF TypeOK
<1>3. \/ e.type = "create" /\ CreateNotify(w)
      \/ e.type = "map_request" /\ MapRequest(w)
      \/ e.type = "surface_id" /\ e.id \in Ids /\ SurfaceId(w, e.id)
      \/ e.type = "unmap" /\ UnmapNotify(w)
      \/ e.type = "destroy" /\ DestroyNotify(w)
  BY <1>0, <1>1, EventCases
<1>4. ASSUME win' \in [Windows -> Window], surface' \in [Ids -> Surface], orders' \in Seq(Orders),
             focus' \in Windows \cup {None}
      PROVE  Typed'
  BY <1>2, <1>4 DEF Typed, TypeOK, HasId
<1>5. CASE CreateNotify(w)
  <2> DEFINE m == [NoWindow EXCEPT !.known = TRUE, !.override = x[w].override]
  <2>1. m \in Window
    BY <1>2, NothingTyped DEF NoWindow, Window, XWindow
  <2> QED
    BY <1>2, <1>4, <1>5, <2>1 DEF CreateNotify
<1>6. CASE MapRequest(w)
  <2> DEFINE m == [win[w] EXCEPT !.frame = TRUE]
  <2>1. m \in Window
    BY <1>2 DEF Window
  <2>2. win' = [win EXCEPT ![w] = m] /\ UNCHANGED <<surface, focus>>
    BY <1>2, <1>6 DEF MapRequest
  <2>3. MapOrders(w) \in Seq(Orders)
    BY DEF MapOrders, Orders
  <2>4. orders' \in Seq(Orders)
    BY <1>2, <1>6, <2>3 DEF MapRequest
  <2> HIDE DEF m
  <2>5. win' \in [Windows -> Window]
    BY <1>2, <2>1, <2>2
  <2> QED
    BY <1>2, <1>4, <2>2, <2>4, <2>5
<1>7. CASE UnmapNotify(w)
  <2> DEFINE m == [win[w] EXCEPT !.surface_id = None, !.surface = None, !.shsurf = FALSE]
  <2>1. m \in Window
    BY <1>2 DEF Window
  <2>2. win' = [win EXCEPT ![w] = m] /\ UNCHANGED <<orders, surface>> /\ focus' \in Windows \cup {None}
    BY <1>2, <1>7 DEF UnmapNotify
  <2> HIDE DEF m
  <2>3. win' \in [Windows -> Window]
    BY <1>2, <2>1, <2>2
  <2> QED
    BY <1>2, <1>4, <2>2, <2>3
<1>8. CASE DestroyNotify(w)
  BY <1>2, <1>4, <1>8, NothingTyped DEF DestroyNotify
<1>9. CASE e.id \in Ids /\ SurfaceId(w, e.id)
  <2>1. PICK i \in Ids : i = e.id
    BY <1>9
  <2>2. CASE UNCHANGED <<win, surface, orders>>
    BY <1>2, <1>4, <1>9, <2>2 DEF SurfaceId
  <2>3. CASE MapShellSurface(w, i, surface)
    BY <1>0, <1>2, <1>4, <1>9, <2>3, MapKeepsTypes DEF SurfaceId
  <2>4. CASE win' = [win EXCEPT ![w].surface_id = i] /\ UNCHANGED <<surface, orders>>
    <3> DEFINE m == [win[w] EXCEPT !.surface_id = i]
    <3>1. m \in Window
      BY <1>2 DEF Window
    <3>2. win' = [win EXCEPT ![w] = m]
      BY <1>2, <2>4
    <3> HIDE DEF m
    <3>3. win' \in [Windows -> Window]
      BY <1>2, <3>1, <3>2
    <3> QED
      BY <1>2, <1>4, <1>9, <2>4, <3>3 DEF SurfaceId
  <2> QED
    BY <1>9, <2>1, <2>2, <2>3, <2>4 DEF SurfaceId
<1> QED
  BY <1>3, <1>5, <1>6, <1>7, <1>8, <1>9

LEMMA DispatchKeepsTypes == ASSUME Typed, Dispatch PROVE Typed'
<1>0. TypeOK
  BY DEF Typed
<1>1. PICK i \in Ids, owner \in Windows : i = Head(requests).id /\ owner = Head(requests).window
  BY <1>0, RequestCases
<1>2. /\ requests' \in Seq(Requests) /\ UNCHANGED <<x, xevents, focus>> /\ surface[i] \in Surface
      /\ win \in [Windows -> Window] /\ surface \in [Ids -> Surface] /\ free \subseteq Ids
      /\ orders \in Seq(Orders)
  BY <1>0, RequestCases, TailElements DEF TypeOK
<1>3. CreateSurface(i, owner) \/ CommitSurface(i) \/ DestroySurface(i)
  BY <1>0, <1>1, RequestCases
<1>4. ASSUME win' \in [Windows -> Window], surface' \in [Ids -> Surface], orders' \in Seq(Orders),
             free' \subseteq Ids
      PROVE  Typed'
  BY <1>0, <1>2, <1>4 DEF Typed, TypeOK, HasId
<1>5. CASE CreateSurface(i, owner)
  <2>1. UNCHANGED free
    BY <1>5 DEF CreateSurface
  <2>2. PICK c \in [Ids -> Surface] :
          \/ surface' = c /\ UNCHANGED <<win, orders>>
          \/ \E w \in Windows : win[w].surface_id = i /\ MapShellSurface(w, i, c)
    BY <1>0, <1>5, CreateEffects
  <2> QED
    BY <1>0, <1>2, <1>4, <2>1, <2>2, MapKeepsTypes
<1>6. CASE CommitSurface(i)
  <2> DEFINE t == [surface[i] EXCEPT !.shown = @ \/ surface[i].role, !.early = @ \/ ~surface[i].role]
  <2>1. t \in Surface
    BY <1>2 DEF Surface
  <2>2. surface' = [surface EXCEPT ![i] = t] /\ UNCHANGED <<win, orders, free>>
    BY <1>2, <1>6 DEF CommitSurface
  <2> HIDE DEF t
  <2> QED
    BY <1>2, <1>4, <2>1, <2>2
<1>7. CASE DestroySurface(i)
  <2> DEFINE left(w) == [win[w] EXCEPT !.surface = None, !.shsurf = FALSE]
  <2>1. \A w \in Windows : left(w) \in Window
    <3> TAKE w \in Windows
    <3>1. win[w] \in Window
      BY <1>2
    <3> QED
      BY <3>1 DEF Window
  <2>2. /\ surface' = [surface EXCEPT ![i] = NoSurface] /\ UNCHANGED orders
        /\ win' = [w \in Windows |-> IF win[w].surface = i THEN left(w) ELSE win[w]]
        /\ free' \subseteq Ids
    BY <1>2, <1>7 DEF DestroySurface
  <2> HIDE DEF left
  <2>3. win' \in [Windows -> Window] /\ surface' \in [Ids -> Surface]
    BY <1>2, <2>1, <2>2, NothingTyped
  <2> QED
    BY <1>2, <1>4, <2>2, <2>3
<1> QED
  BY <1>3, <1>5, <1>6, <1>7

LEMMA NextKeepsTypes == ASSUME Typed, [Next]_vars PROVE Typed'
<1>1. CASE UNCHANGED vars
  BY <1>1 DEF Typed, TypeOK, HasId, vars
<1>2. ASSUME NEW w \in Windows \cup {None}, Activate(w) PROVE Typed'
  BY <1>2 DEF Activate, Typed, TypeOK, HasId
<1>3. ASSUME NEW w \in Windows, XCreate(w) \/ XMap(w) \/ XUnmap(w) \/ XDestroy(w) \/ XCommit(w)
      PROVE  Typed'
  BY <1>3, ServerKeepsTypes
<1>4. CASE XOrder
  BY <1>4, OrderKeepsTypes
<1>5. CASE HandleEvent
  BY <1>5, EventKeepsTypes
<1>6. CASE Dispatch
  BY <1>6, DispatchKeepsTypes
<1> QED
  BY <1>1, <1>2, <1>3, <1>4, <1>5, <1>6 DEF Next

(* Every variable, queue and property word keeps its type, in whatever     *)
(* order Xwayland and the window manager take their turns.                 *)
THEOREM TypeInvariance == Spec => []Typed
<1>1. Typed /\ [Next]_vars => Typed'
  BY NextKeepsTypes
<1>2. Init => Typed
  BY InitInv DEF Inv, Typed
<1> QED
  BY <1>1, <1>2, PTL DEF Spec

(* Types, for any number of windows, and whether ids are used again or not. *)
THEOREM TypeCorrect == Spec => []TypeOK
<1>1. Typed => TypeOK
  BY DEF Typed
<1> QED
  BY <1>1, TypeInvariance, PTL

-----------------------------------------------------------------------------
LEMMA InitOrdered == Init => Ordered
<1> SUFFICES ASSUME Init PROVE Ordered
  OBVIOUS
<1>1. xevents = <<>> /\ DOMAIN xevents = {} /\ Len(xevents) + 1 = 1 /\ 1..0 = {} /\ 1 - 1 = 0
  BY DEF Init
<1>2. \A w \in Windows : ~Busy(w) /\ x[w].state = "new"
  BY XwmAssumption DEF Init, Busy, NoWindow
<1> QED
  BY <1>1, <1>2 DEF Ordered, UnmapsFirst, KnownInTime, Cleared, Created

LEMMA RealiseKeepsOrder ==
  ASSUME TypeOK, Ordered, NEW w \in Windows, x[w].state \in {"unmapped", "asked"}, Realise(w),
         UNCHANGED <<surface, win, focus>>
  PROVE  Ordered'
<1>1. PICK i \in free :
        /\ x'[w].state = "mapped" /\ \A v \in Windows : v # w => x'[v] = x[v]
        /\ [type |-> "surface_id", window |-> w, id |-> i] \in XEvents
        /\ xevents' = Append(xevents, [type |-> "surface_id", window |-> w, id |-> i])
  BY RealiseEffects
<1> QED
  BY <1>1, SentKeepsOrder

LEMMA SaysKeepsOrder ==
  ASSUME TypeOK, Ordered, NEW w \in Windows, NEW state, NEW type, Says(w, state, type),
         UNCHANGED <<win, focus>>,
         \/ x[w].state = "new" /\ state = "unmapped" /\ type = "create"
         \/ x[w].state = "unmapped" /\ state = "asked" /\ type = "map_request"
         \/ x[w].state \in {"unmapped", "asked"} /\ state = "gone" /\ type = "destroy"
         \/ x[w].state = "mapped" /\ state = "unmapped" /\ type = "unmap"
  PROVE  Ordered'
<1> DEFINE e == Event(type, w)
<1>1. e \in XEvents /\ e.window = w /\ e.type = type /\ xevents' = Append(xevents, e)
      /\ x'[w].state = state /\ \A v \in Windows : v # w => x'[v] = x[v]
  BY DEF Says, Event
<1> HIDE DEF e
<1> QED
  BY <1>1, SentKeepsOrder

LEMMA ServerKeepsOrder ==
  ASSUME Typed, Ordered, NEW w \in Windows,
         XCreate(w) \/ XMap(w) \/ XUnmap(w) \/ XDestroy(w) \/ XCommit(w)
  PROVE  Ordered'
<1>1. TypeOK /\ UNCHANGED <<orders, surface, win, focus>>
  BY ServerCases DEF Typed
<1>2. CASE x[w].state = "unmapped" /\ Realise(w)
  BY <1>1, <1>2, RealiseKeepsOrder
<1>3. CASE x[w].state = "new" /\ Says(w, "unmapped", "create")
  BY <1>1, <1>3, SaysKeepsOrder
<1>4. CASE x[w].state = "unmapped" /\ Says(w, "asked", "map_request")
  BY <1>1, <1>4, SaysKeepsOrder
<1>5. CASE x[w].state \in {"unmapped", "asked"} /\ Says(w, "gone", "destroy")
  BY <1>1, <1>5, SaysKeepsOrder
<1>6. CASE x[w].state = "mapped" /\ Says(w, "unmapped", "unmap")
  BY <1>1, <1>6, SaysKeepsOrder
<1>7. CASE /\ UNCHANGED xevents
           /\ x'[w].state = x[w].state /\ \A v \in Windows : v # w => x'[v] = x[v]
  BY <1>1, <1>7, QuietKeepsOrder DEF Busy
<1> QED
  BY <1>2, <1>3, <1>4, <1>5, <1>6, <1>7, ServerCases DEF Typed

LEMMA EventKeepsOrder ==
  ASSUME TypeOK, Ordered, HandleEvent
  PROVE  Ordered'
<1>0. PICK e \in XEvents, w \in Windows : e = Head(xevents) /\ w = e.window
  BY EventCases
<1>1. /\ xevents # <<>> /\ xevents' = Tail(xevents) /\ UNCHANGED x /\ w \in Windows
      /\ win \in [Windows -> Window] /\ win[w] \in Window /\ surface \in [Ids -> Surface]
      /\ focus \in Windows \cup {None} /\ None \notin Windows
  BY EventCases, XwmAssumption DEF TypeOK
<1>2. \/ e.type = "create" /\ CreateNotify(w)
      \/ e.type = "map_request" /\ MapRequest(w)
      \/ e.type = "surface_id" /\ e.id \in Ids /\ SurfaceId(w, e.id)
      \/ e.type = "unmap" /\ UnmapNotify(w)
      \/ e.type = "destroy" /\ DestroyNotify(w)
  BY <1>0, EventCases
<1>3. ASSUME \A v \in Windows : v # w => win'[v] = win[v] /\ (focus' = v => focus = v),
             e.type \notin {"create", "destroy"} => win'[w].known = win[w].known,
             e.type = "create" => win'[w].known,
             e.type = "unmap" => ~Busy(w)',
             Busy(w)' => Busy(w) \/ e.type = "surface_id"
      PROVE  Ordered'
  <2>1. \A v \in Windows : v # w => (Busy(v)' => Busy(v)) /\ win'[v].known = win[v].known
    BY <1>3 DEF Busy
  <2> QED
    BY <1>0, <1>1, <1>3, <2>1, ReadKeepsOrder
<1>4. CASE e.type = "create" /\ CreateNotify(w)
  <2>1. /\ win'[w] = [NoWindow EXCEPT !.known = TRUE, !.override = x[w].override] /\ focus' = focus
        /\ \A v \in Windows : v # w => win'[v] = win[v]
    BY <1>1, <1>4 DEF CreateNotify
  <2>2. win'[w].known /\ win'[w].surface = None /\ win'[w].surface_id = None
    BY <2>1 DEF NoWindow
  <2> QED
    BY <1>3, <1>4, <2>1, <2>2 DEF Busy
<1>5. CASE e.type = "map_request" /\ MapRequest(w)
  <2>1. /\ win'[w] = [win[w] EXCEPT !.frame = TRUE] /\ focus' = focus
        /\ \A v \in Windows : v # w => win'[v] = win[v]
    BY <1>1, <1>5 DEF MapRequest
  <2>2. win'[w].known = win[w].known /\ win'[w].surface = win[w].surface /\ win'[w].surface_id = win[w].surface_id
    BY <1>1, <2>1 DEF Window
  <2> QED
    BY <1>3, <1>5, <2>1, <2>2 DEF Busy
<1>6. CASE e.type = "surface_id" /\ e.id \in Ids /\ SurfaceId(w, e.id)
  <2>1. /\ win'[w].known = win[w].known /\ focus' = focus
        /\ \A v \in Windows : v # w => win'[v] = win[v]
    <3>1. CASE UNCHANGED win
      BY <1>6, <3>1 DEF SurfaceId
    <3>2. CASE MapShellSurface(w, e.id, surface)
      BY <1>1, <1>6, <3>2, MapEffects DEF SurfaceId
    <3>3. CASE win' = [win EXCEPT ![w].surface_id = e.id]
      BY <1>1, <1>6, <3>3 DEF SurfaceId, Window
    <3> QED
      BY <1>6, <3>1, <3>2, <3>3 DEF SurfaceId
  <2> QED
    BY <1>3, <1>6, <2>1
<1>7. CASE e.type = "unmap" /\ UnmapNotify(w)
  <2>1. /\ win'[w] = [win[w] EXCEPT !.surface_id = None, !.surface = None, !.shsurf = FALSE]
        /\ focus' = IF focus = w THEN None ELSE focus
        /\ \A v \in Windows : v # w => win'[v] = win[v]
    BY <1>1, <1>7 DEF UnmapNotify
  <2>2. win'[w].known = win[w].known /\ win'[w].surface = None /\ win'[w].surface_id = None
    BY <1>1, <2>1 DEF Window
  <2>3. focus' # w /\ \A v \in Windows : focus' = v => focus = v
    BY <1>1, <2>1
  <2> QED
    BY <1>3, <1>7, <2>1, <2>2, <2>3 DEF Busy
<1>8. CASE e.type = "destroy" /\ DestroyNotify(w)
  <2>1. win'[w] = NoWindow /\ focus' = focus /\ \A v \in Windows : v # w => win'[v] = win[v]
    BY <1>1, <1>8 DEF DestroyNotify
  <2>2. win'[w].surface = None /\ win'[w].surface_id = None
    BY <2>1 DEF NoWindow
  <2> QED
    BY <1>3, <1>8, <2>1, <2>2 DEF Busy
<1> QED
  BY <1>2, <1>4, <1>5, <1>6, <1>7, <1>8

LEMMA DispatchKeepsOrder ==
  ASSUME TypeOK, Ordered, Dispatch
  PROVE  Ordered'
<1> DEFINE i == Head(requests).id
           owner == Head(requests).window
<1>1. /\ UNCHANGED <<x, xevents, focus>> /\ i \in Ids /\ owner \in Windows
      /\ CreateSurface(i, owner) \/ CommitSurface(i) \/ DestroySurface(i)
  BY RequestCases
<1> HIDE DEF i, owner
<1>2. CASE CreateSurface(i, owner)
  <2>1. CASE UNCHANGED win
    BY <1>1, <2>1, QuietKeepsOrder DEF Busy
  <2>2. ASSUME NEW c \in [Ids -> Surface], NEW w \in Windows, win[w].surface_id = i, MapShellSurface(w, i, c)
        PROVE  Ordered'
    <3>1. win'[w].known = win[w].known /\ \A v \in Windows : v # w => win'[v] = win[v]
      BY <1>1, <2>2, MapEffects
    <3>2. Busy(w)
      BY <1>1, <2>2, XwmAssumption DEF Busy
    <3> QED
      BY <1>1, <3>1, <3>2, QuietKeepsOrder DEF Busy
  <2> QED
    BY <1>1, <1>2, <2>1, <2>2, CreateEffects
<1>3. CASE CommitSurface(i)
  BY <1>1, <1>3, CommitEffects, QuietKeepsOrder DEF Busy
<1>4. CASE DestroySurface(i)
  BY <1>1, <1>4, DestroyEffects, QuietKeepsOrder DEF Busy
<1> QED
  BY <1>1, <1>2, <1>3, <1>4

LEMMA NextKeepsOrder == ASSUME Typed, Ordered, [Next]_vars PROVE Ordered'
<1>1. TypeOK
  BY DEF Typed
<1>2. CASE UNCHANGED vars
  BY <1>2, QuietKeepsOrder DEF vars, Busy
<1>3. ASSUME NEW w \in Windows \cup {None}, Activate(w) PROVE Ordered'
  <2>1. /\ focus' = w /\ UNCHANGED <<x, xevents, win>> /\ (w # None => win[w].surface # None)
    BY <1>3 DEF Activate
  <2>2. \A v \in Windows : Busy(v)' => Busy(v)
    BY <2>1, XwmAssumption DEF Busy
  <2> QED
    BY <2>1, <2>2, QuietKeepsOrder
<1>4. CASE XOrder
  <2> DEFINE w == Head(orders).window
  <2>1. w \in Windows /\ UNCHANGED <<surface, win, focus>>
    BY <1>1, <1>4, OrderCases
  <2>2. CASE x[w].state = "asked" /\ Realise(w)
    <3> HIDE DEF w
    <3> QED
      BY <1>1, <2>1, <2>2, RealiseKeepsOrder
  <2>3. CASE UNCHANGED xevents /\ x'[w].state = x[w].state /\ \A v \in Windows : v # w => x'[v] = x[v]
    BY <2>1, <2>3, QuietKeepsOrder DEF Busy
  <2>4. CASE UNCHANGED <<x, xevents>>
    BY <2>1, <2>4, QuietKeepsOrder DEF Busy
  <2> QED
    BY <1>1, <1>4, <2>2, <2>3, <2>4, OrderCases
<1>5. ASSUME NEW w \in Windows, XCreate(w) \/ XMap(w) \/ XUnmap(w) \/ XDestroy(w) \/ XCommit(w)
      PROVE  Ordered'
  BY <1>5, ServerKeepsOrder
<1>6. CASE HandleEvent
  BY <1>1, <1>6, EventKeepsOrder
<1>7. CASE Dispatch
  BY <1>1, <1>7, DispatchKeepsOrder
<1> QED
  BY <1>2, <1>3, <1>4, <1>5, <1>6, <1>7 DEF Next

(* The queues keep the order of the X server: a window that is not mapped  *)
(* has its unmap event waiting as long as the window manager thinks it is, *)
(* and no event is read for a window before the one that announces it.     *)
THEOREM OrderInvariance == Spec => []Ordered
<1>1. Typed /\ Ordered /\ [Next]_vars => Ordered'
  BY NextKeepsOrder
<1> QED
  BY <1>1, InitOrdered, TypeInvariance, PTL DEF Spec

(* weston_wm.focus_window is never left pointing to a window that has been *)
(* freed: weston_wm_window_destroy() does not look at it, but the unmap    *)
(* event that takes the focus away is always read before.                  *)
THEOREM FocusIsAlwaysKnown == Spec => []FocusIsKnown
<1>1. TypeOK /\ Ordered => FocusIsKnown
  BY DEF TypeOK, Ordered, KnownInTime, Busy, FocusIsKnown
<1> QED
  BY <1>1, TypeCorrect, OrderInvariance, PTL

-----------------------------------------------------------------------------
(* Which surfaces may still be named.  An event that names a surface is    *)
(* the only one to do so, and comes before the surface has a role and      *)
(* before a window waits for it.                                           *)

(* The event that names the surface of id i has not been read.             *)
Unread(i) == \E k \in DOMAIN xevents : xevents[k].type = "surface_id" /\ xevents[k].id = i

NamedOnce ==
  \A k, m \in DOMAIN xevents :
    xevents[k].type = "surface_id" /\ xevents[m].type = "surface_id"
      /\ xevents[k].id = xevents[m].id => k = m

UnreadIsNew ==
  \A i \in Ids : Unread(i) => ~surface[i].role /\ \A w \in Windows : win[w].surface_id # i

RoleIsLive == \A i \in Ids : surface[i].role => surface[i].live

ShellSurfaces == \A w \in Windows : win[w].shsurf <=> win[w].surface # None

Named == NamedOnce /\ UnreadIsNew /\ RoleIsLive /\ ShellSurfaces

LEMMA SentNames ==
  ASSUME TypeOK, NamedOnce, NEW e \in XEvents, xevents' = Append(xevents, e),
         e.type = "surface_id" => ~Unread(e.id)
  PROVE  /\ NamedOnce'
         /\ \A i : Unread(i)' => Unread(i) \/ (e.type = "surface_id" /\ e.id = i)
<1>0. PICK n \in Nat : n = Len(xevents)
  BY AppendPositions DEF TypeOK
<1>1. /\ DOMAIN xevents = 1..n /\ DOMAIN xevents' = 1..(n + 1) /\ xevents'[n + 1] = e
      /\ \A k \in 1..n : xevents'[k] = xevents[k]
      /\ \A k \in 1..(n + 1) : k \in 1..n \/ k = n + 1
  BY <1>0, AppendPositions DEF TypeOK
<1>2. ASSUME NEW i, Unread(i)' PROVE Unread(i) \/ (e.type = "surface_id" /\ e.id = i)
  BY <1>1, <1>2 DEF Unread
<1>3. ASSUME NEW k \in 1..(n + 1), NEW m \in 1..(n + 1),
             xevents'[k].type = "surface_id", xevents'[m].type = "surface_id",
             xevents'[k].id = xevents'[m].id
      PROVE  k = m
  BY <1>1, <1>3 DEF Unread, NamedOnce
<1>4. NamedOnce'
  BY <1>1, <1>3 DEF NamedOnce
<1> QED
  BY <1>2, <1>4

LEMMA ReadNames ==
  ASSUME TypeOK, NamedOnce, xevents # <<>>, xevents' = Tail(xevents)
  PROVE  /\ NamedOnce'
         /\ \A i : Unread(i)' => Unread(i)
         /\ Head(xevents).type = "surface_id" =>
              Unread(Head(xevents).id) /\ \A i : i = Head(xevents).id => ~Unread(i)'
<1>0. PICK n \in Nat : n = Len(xevents)
  BY TailPositions DEF TypeOK
<1>1. /\ DOMAIN xevents = 1..n /\ DOMAIN xevents' = 1..(n - 1) /\ Head(xevents) = xevents[1] /\ 1 \in 1..n
      /\ \A k \in 1..(n - 1) : k + 1 \in 1..n /\ k + 1 # 1 /\ xevents'[k] = xevents[k + 1]
  BY <1>0, TailPositions DEF TypeOK
<1>2. ASSUME NEW i, Unread(i)' PROVE Unread(i)
  BY <1>1, <1>2 DEF Unread
<1>3. ASSUME NEW k \in 1..(n - 1), NEW m \in 1..(n - 1),
             xevents'[k].type = "surface_id", xevents'[m].type = "surface_id",
             xevents'[k].id = xevents'[m].id
      PROVE  k = m
  <2>1. k + 1 = m + 1
    BY <1>1, <1>3 DEF NamedOnce
  <2> QED
    BY <2>1
<1>4. NamedOnce'
  BY <1>1, <1>3 DEF NamedOnce
<1>5. ASSUME Head(xevents).type = "surface_id", NEW i, i = Head(xevents).id, Unread(i)' PROVE FALSE
  <2>1. PICK k \in 1..(n - 1) : xevents'[k].type = "surface_id" /\ xevents'[k].id = i
    BY <1>1, <1>5 DEF Unread
  <2>2. k + 1 = 1
    BY <1>1, <1>5, <2>1 DEF NamedOnce
  <2> QED
    BY <1>1, <2>2
<1> QED
  BY <1>1, <1>2, <1>4, <1>5 DEF Unread

LEMMA SameNamed ==
  ASSUME Named, NamedOnce', UNCHANGED <<surface, win>>,
         \A i \in Ids : Unread(i)' =>
           Unread(i) \/ (~surface[i].role /\ \A w \in Windows : win[w].surface_id # i)
  PROVE  Named'
  BY DEF Named, UnreadIsNew, RoleIsLive, ShellSurfaces

(* The window is given the surface s[i], which has no role yet.            *)
LEMMA MapKeepsNamed ==
  ASSUME TypeOK, Named, NamedOnce', \A j \in Ids : Unread(j)' => Unread(j),
         NEW w \in Windows, NEW i \in Ids, NEW s \in [Ids -> Surface],
         s[i].live, ~s[i].role, \A j \in Ids : j # i => s[j] = surface[j],
         ~Unread(i)', MapShellSurface(w, i, s)
  PROVE  Named'
<1>1. win'[w].shsurf <=> win[w].shsurf \/ ~s[i].role
  BY MapEffects
<1>2. /\ win'[w].surface = i /\ win'[w].surface_id = None
      /\ \A v \in Windows : v # w => win'[v] = win[v]
      /\ surface'[i].role /\ surface'[i].live
      /\ \A j \in Ids : j # i => surface'[j] = surface[j]
  <2>1. \A j \in Ids : j # i => surface'[j] = s[j]
    BY MapEffects
  <2>2. surface'[i].role /\ surface'[i].live
    BY MapEffects
  <2> QED
    BY <2>1, <2>2, MapEffects
<1>3. None \notin Ids
  BY XwmAssumption
<1>4. UnreadIsNew'
  BY <1>2, <1>3 DEF Named, UnreadIsNew
<1>5. RoleIsLive'
  BY <1>2 DEF Named, RoleIsLive
<1>6. ShellSurfaces'
  BY <1>1, <1>2, <1>3 DEF Named, ShellSurfaces
<1> QED
  BY <1>4, <1>5, <1>6 DEF Named

(* An id that is free is nobody's.                                         *)
LEMMA FreeIsUnnamed ==
  ASSUME Inv, Named, NEW i \in free
  PROVE  /\ ~Unread(i) /\ ~surface[i].live /\ ~surface[i].role
         /\ \A w \in Windows : win[w].surface_id # i /\ win[w].surface # i /\ x[w].id # i
         /\ \A k \in DOMAIN requests : requests[k].id # i
<1>1. PICK own \in Owners : Agree(own)
  BY DEF Inv
<1>2. i \in Ids /\ own[i] = None /\ None \notin Windows \cup Ids
  BY <1>1, XwmAssumption DEF Agree, Inv, TypeOK
<1>3. \A k \in DOMAIN xevents : xevents[k].window \in Windows
  BY QueuesHave, EventHas DEF Inv
<1>4. \A k \in DOMAIN requests : requests[k].window \in Windows
  BY QueuesHave, EventHas DEF Inv
<1> QED
  BY <1>1, <1>2, <1>3, <1>4 DEF Agree, Unread, Named, RoleIsLive

LEMMA RealiseKeepsNamed ==
  ASSUME Inv, Named, NEW w \in Windows, Realise(w), UNCHANGED <<surface, win>>
  PROVE  Named'
<1>1. PICK i \in free :
        /\ i \in Ids /\ [type |-> "surface_id", window |-> w, id |-> i] \in XEvents
        /\ xevents' = Append(xevents, [type |-> "surface_id", window |-> w, id |-> i])
  BY RealiseEffects DEF Inv
<1>2. PICK e \in XEvents : e.type = "surface_id" /\ e.id = i /\ xevents' = Append(xevents, e)
  BY <1>1
<1>3. ~Unread(i) /\ ~surface[i].role /\ \A v \in Windows : win[v].surface_id # i
  BY FreeIsUnnamed
<1>4. NamedOnce' /\ \A j : Unread(j)' => Unread(j) \/ j = i
  BY <1>2, <1>3, SentNames DEF Inv, Named
<1> QED
  BY <1>3, <1>4, SameNamed

LEMMA ServerKeepsNamed ==
  ASSUME Inv, Named, NEW w \in Windows,
         XCreate(w) \/ XMap(w) \/ XUnmap(w) \/ XDestroy(w) \/ XCommit(w)
  PROVE  Named'
<1>1. TypeOK /\ UNCHANGED <<surface, win>>
  BY ServerCases DEF Inv
<1>2. CASE Realise(w)
  BY <1>1, <1>2, RealiseKeepsNamed
<1>3. ASSUME NEW state, NEW type \in {"create", "map_request", "destroy", "unmap"}, Says(w, state, type)
      PROVE  Named'
  <2>1. PICK e \in XEvents : e.type # "surface_id" /\ xevents' = Append(xevents, e)
    BY <1>3 DEF Says, Event
  <2>2. NamedOnce' /\ \A i : Unread(i)' => Unread(i)
    BY <1>1, <2>1, SentNames DEF Named
  <2> QED
    BY <1>1, <2>2, SameNamed
<1>4. CASE UNCHANGED xevents
  BY <1>1, <1>4, SameNamed DEF Named, NamedOnce, Unread
<1> QED
  BY <1>2, <1>3, <1>4, ServerCases DEF Inv

LEMMA OrderKeepsNamed == ASSUME Inv, Named, XOrder PROVE Named'
<1>1. TypeOK /\ UNCHANGED <<surface, win>>
  BY OrderCases DEF Inv
<1>2. PICK w \in Windows : w = Head(orders).window
  BY <1>1, OrderCases
<1>3. CASE Realise(w)
  BY <1>1, <1>3, RealiseKeepsNamed
<1>4. CASE UNCHANGED xevents
  BY <1>1, <1>4, SameNamed DEF Named, NamedOnce, Unread
<1> QED
  BY <1>1, <1>2, <1>3, <1>4, OrderCases

LEMMA EventKeepsNamed == ASSUME TypeOK, Named, HandleEvent PROVE Named'
<1>0. PICK e \in XEvents, w \in Windows : e = Head(xevents) /\ w = e.window
  BY EventCases
<1>1. /\ win \in [Windows -> Window] /\ win[w] \in Window /\ surface \in [Ids -> Surface]
      /\ None \notin Ids
  BY XwmAssumption DEF TypeOK
<1>2. \/ e.type = "create" /\ CreateNotify(w)
      \/ e.type = "map_request" /\ MapRequest(w)
      \/ e.type = "surface_id" /\ e.id \in Ids /\ SurfaceId(w, e.id)
      \/ e.type = "unmap" /\ UnmapNotify(w)
      \/ e.type = "destroy" /\ DestroyNotify(w)
  BY <1>0, EventCases
<1>3. /\ NamedOnce' /\ \A i : Unread(i)' => Unread(i)
      /\ e.type = "surface_id" => Unread(e.id) /\ \A i : i = e.id => ~Unread(i)'
  BY <1>0, EventCases, ReadNames DEF Named
<1>4. ASSUME UNCHANGED surface, \A v \in Windows : v # w => win'[v] = win[v],
             win'[w].surface_id \in {None, win[w].surface_id},
             win'[w].shsurf <=> win'[w].surface # None
      PROVE  Named'
  <2>1. UnreadIsNew'
    BY <1>1, <1>3, <1>4 DEF Named, UnreadIsNew
  <2>2. RoleIsLive' /\ ShellSurfaces'
    BY <1>4 DEF Named, RoleIsLive, ShellSurfaces
  <2> QED
    BY <1>3, <2>1, <2>2 DEF Named
<1>5. CASE e.type = "create" /\ CreateNotify(w)
  <2>1. /\ win'[w] = [NoWindow EXCEPT !.known = TRUE, !.override = x[w].override]
        /\ UNCHANGED surface /\ \A v \in Windows : v # w => win'[v] = win[v]
    BY <1>1, <1>5 DEF CreateNotify
  <2>2. win'[w].surface = None /\ win'[w].surface_id = None /\ ~win'[w].shsurf
    BY <2>1 DEF NoWindow
  <2> QED
    BY <1>4, <2>1, <2>2
<1>6. CASE e.type = "map_request" /\ MapRequest(w)
  <2>1. /\ win'[w] = [win[w] EXCEPT !.frame = TRUE]
        /\ UNCHANGED surface /\ \A v \in Windows : v # w => win'[v] = win[v]
    BY <1>1, <1>6 DEF MapRequest
  <2>2. /\ win'[w].surface = win[w].surface /\ win'[w].surface_id = win[w].surface_id
        /\ win'[w].shsurf <=> win[w].shsurf
    BY <1>1, <2>1 DEF Window
  <2> QED
    BY <1>4, <2>1, <2>2 DEF Named, ShellSurfaces
<1>7. CASE e.type = "surface_id" /\ e.id \in Ids /\ SurfaceId(w, e.id)
  <2>1. PICK i \in Ids : i = e.id
    BY <1>7
  <2>2. ~surface[i].role /\ (\A v \in Windows : win[v].surface_id # i) /\ ~Unread(i)'
    BY <1>3, <1>7, <2>1 DEF Named, UnreadIsNew
  <2>3. CASE UNCHANGED <<win, surface>>
    BY <1>4, <2>3 DEF Named, ShellSurfaces
  <2>4. CASE surface[i].live /\ MapShellSurface(w, i, surface)
    BY <1>1, <1>3, <2>2, <2>4, MapKeepsNamed
  <2>5. CASE win' = [win EXCEPT ![w].surface_id = i] /\ UNCHANGED surface
    <3>1. /\ win'[w].surface = win[w].surface /\ win'[w].surface_id = i
          /\ win'[w].shsurf <=> win[w].shsurf
          /\ \A v \in Windows : v # w => win'[v] = win[v]
      BY <1>1, <2>5 DEF Window
    <3>2. UnreadIsNew'
      BY <1>3, <2>2, <2>5, <3>1 DEF Named, UnreadIsNew
    <3>3. RoleIsLive' /\ ShellSurfaces'
      BY <2>5, <3>1 DEF Named, RoleIsLive, ShellSurfaces
    <3> QED
      BY <1>3, <3>2, <3>3 DEF Named
  <2> QED
    BY <1>7, <2>1, <2>3, <2>4, <2>5 DEF SurfaceId
<1>8. CASE e.type = "unmap" /\ UnmapNotify(w)
  <2>1. /\ win'[w] = [win[w] EXCEPT !.surface_id = None, !.surface = None, !.shsurf = FALSE]
        /\ UNCHANGED surface /\ \A v \in Windows : v # w => win'[v] = win[v]
    BY <1>1, <1>8 DEF UnmapNotify
  <2>2. win'[w].surface = None /\ win'[w].surface_id = None /\ ~win'[w].shsurf
    BY <1>1, <2>1 DEF Window
  <2> QED
    BY <1>4, <2>1, <2>2
<1>9. CASE e.type = "destroy" /\ DestroyNotify(w)
  <2>1. win'[w] = NoWindow /\ UNCHANGED surface /\ \A v \in Windows : v # w => win'[v] = win[v]
    BY <1>1, <1>9 DEF DestroyNotify
  <2>2. win'[w].surface = None /\ win'[w].surface_id = None /\ ~win'[w].shsurf
    BY <2>1 DEF NoWindow
  <2> QED
    BY <1>4, <2>1, <2>2
<1> QED
  BY <1>2, <1>5, <1>6, <1>7, <1>8, <1>9

LEMMA DispatchKeepsNamed == ASSUME TypeOK, Named, Dispatch PROVE Named'
<1>0. PICK i \in Ids, owner \in Windows : i = Head(requests).id /\ owner = Head(requests).window
  BY RequestCases
<1>1. /\ UNCHANGED <<x, xevents, focus>>
      /\ CreateSurface(i, owner) \/ CommitSurface(i) \/ DestroySurface(i)
  BY <1>0, RequestCases
<1>2. NamedOnce' /\ \A j : Unread(j)' <=> Unread(j)
  BY <1>1 DEF Named, NamedOnce, Unread
<1>3. \A v \in Windows : win[v] \in Window
  BY DEF TypeOK
<1>4. CASE CreateSurface(i, owner)
  <2>1. PICK c \in [Ids -> Surface] :
          /\ c[i].live /\ ~c[i].role /\ \A j \in Ids : j # i => c[j] = surface[j]
          /\ \/ surface' = c /\ UNCHANGED <<win, orders>>
             \/ \E w \in Windows : win[w].surface_id = i /\ MapShellSurface(w, i, c)
    BY <1>4, CreateEffects
  <2>2. CASE surface' = c /\ UNCHANGED win
    BY <1>2, <2>1, <2>2 DEF Named, UnreadIsNew, RoleIsLive, ShellSurfaces
  <2>3. ASSUME NEW w \in Windows, win[w].surface_id = i, MapShellSurface(w, i, c)
        PROVE  Named'
    <3>1. ~Unread(i)'
      BY <1>2, <2>3 DEF Named, UnreadIsNew
    <3> QED
      BY <1>2, <2>1, <2>3, <3>1, MapKeepsNamed
  <2> QED
    BY <2>1, <2>2, <2>3
<1>5. CASE CommitSurface(i)
  <2>1. /\ UNCHANGED win /\ \A j \in Ids : j # i => surface'[j] = surface[j]
        /\ surface'[i].live = surface[i].live /\ surface'[i].role = surface[i].role
    BY <1>5, CommitEffects
  <2> QED
    BY <1>2, <2>1 DEF Named, UnreadIsNew, RoleIsLive, ShellSurfaces
<1>6. CASE DestroySurface(i)
  <2>1. /\ surface'[i] = NoSurface /\ \A j \in Ids : j # i => surface'[j] = surface[j]
        /\ \A w \in Windows :
             /\ win[w].surface = i => win'[w].surface = None /\ win'[w].shsurf = FALSE
             /\ win[w].surface # i => win'[w].surface = win[w].surface /\ win'[w].shsurf = win[w].shsurf
             /\ win'[w].surface_id = win[w].surface_id
    BY <1>6, DestroyEffects
  <2>2. ~surface'[i].role
    BY <2>1 DEF NoSurface
  <2> QED
    BY <1>2, <2>1, <2>2 DEF Named, UnreadIsNew, RoleIsLive, ShellSurfaces
<1> QED
  BY <1>1, <1>4, <1>5, <1>6

LEMMA InitNamed == Init => Named
<1> SUFFICES ASSUME Init PROVE Named
  OBVIOUS
<1>1. DOMAIN xevents = {} /\ \A i : ~Unread(i)
  BY DEF Init, Unread
<1>2. \A i \in Ids : ~surface[i].role
  BY DEF Init, NoSurface
<1>3. \A w \in Windows : ~win[w].shsurf /\ win[w].surface = None
  BY DEF Init, NoWindow
<1> QED
  BY <1>1, <1>2, <1>3 DEF Named, NamedOnce, UnreadIsNew, RoleIsLive, ShellSurfaces

LEMMA NextKeepsNamed == ASSUME Inv, Named, [Next]_vars PROVE Named'
<1>1. TypeOK
  BY DEF Inv
<1>2. CASE UNCHANGED <<xevents, surface, win>>
  BY <1>2, SameNamed DEF Named, NamedOnce, Unread
<1>3. ASSUME NEW w \in Windows \cup {None}, Activate(w) PROVE Named'
  BY <1>2, <1>3 DEF Activate
<1>4. CASE XOrder
  BY <1>4, OrderKeepsNamed
<1>5. ASSUME NEW w \in Windows, XCreate(w) \/ XMap(w) \/ XUnmap(w) \/ XDestroy(w) \/ XCommit(w)
      PROVE  Named'
  BY <1>5, ServerKeepsNamed
<1>6. CASE HandleEvent
  BY <1>1, <1>6, EventKeepsNamed
<1>7. CASE Dispatch
  BY <1>1, <1>7, DispatchKeepsNamed
<1> QED
  BY <1>2, <1>3, <1>4, <1>5, <1>6, <1>7 DEF Next, vars

(* Where ids are not used again, each is named to the window manager once, *)
(* and before its surface has a role: what xserver_map_shell_surface() and *)
(* weston_wm_handle_map_request() assert about the surface.                *)
THEOREM NameInvariance == ASSUME ~Reuse PROVE Spec => []Named
<1>1. Inv /\ Named /\ [Next]_vars => Named'
  BY NextKeepsNamed
<1> QED
  BY <1>1, InitNamed, Invariance, PTL DEF Spec

(* The assertion of weston_wm_handle_map_request() never fails, and        *)
(* weston_wm_window_set_pending_state() finds a shell surface wherever     *)
(* there is a surface: the window has been unmapped before it asks again,  *)
(* and no surface is paired that had a role already.                       *)
THEOREM NeverAborts == ASSUME ~Reuse PROVE Spec => []NoAbort
<1>1. ASSUME TypeOK, Ordered, Named PROVE NoAbort
  <2>1. \A w \in Windows : win[w].shsurf <=> win[w].surface # None
    BY <1>1 DEF Named, ShellSurfaces
  <2>2. ASSUME xevents # <<>>, Head(xevents).type = "map_request"
        PROVE  ~win[Head(xevents).window].shsurf
    <3>1. PICK w \in Windows : w = Head(xevents).window
      BY <1>1, <2>2, TailElements, EventHas DEF TypeOK
    <3>2. EventAt(1, "map_request", w) /\ 1 \in DOMAIN xevents
      BY <1>1, <2>2, <3>1, TailPositions DEF EventAt, TypeOK
    <3>3. Cleared(w, 1)
      BY <1>1, <3>2 DEF Ordered, UnmapsFirst
    <3>4. win[w].surface = None
      BY <3>3 DEF Cleared, Busy
    <3> QED
      BY <2>1, <3>1, <3>4
  <2> QED
    BY <2>1, <2>2 DEF NoAbort
<1> QED
  BY <1>1, TypeCorrect, OrderInvariance, NameInvariance, PTL

-----------------------------------------------------------------------------
(* Why commits wait for the role.  A managed window is mapped by an order  *)
(* that comes right after one that forbids commits, and commits are only   *)
(* allowed again by an order given together with the role.                 *)

OrderAt(k, type, w) == k \in DOMAIN orders /\ orders[k].type = type /\ orders[k].window = w

RequestAt(k, type, i) == k \in DOMAIN requests /\ requests[k].type = type /\ requests[k].id = i

Queued(type, w) == \E k \in DOMAIN xevents : EventAt(k, type, w)

HasOrder(type, w) == \E k \in DOMAIN orders : OrderAt(k, type, w)

(* The surface of id i is to be created.                                   *)
Comes(i) == \E k \in DOMAIN requests : RequestAt(k, "create", i)

(* When the order to map w is carried out, commits are forbidden, and no   *)
(* order is left that allows them.                                         *)
MapForbidden(w) ==
  \A k \in DOMAIN orders : OrderAt(k, "map", w) =>
    /\ \A m \in DOMAIN orders : (OrderAt(m, "map", w) => m = k) /\ (OrderAt(m, "allow", w) => m < k)
    /\ k = 1 => ~x[w].allow
    /\ k # 1 => OrderAt(k - 1, "forbid", w)

(* Once it has asked to be mapped, a window can only be destroyed.         *)
AskedLast(w) ==
  \A k, m \in DOMAIN xevents :
    EventAt(k, "map_request", w) /\ m > k /\ xevents[m].window = w => xevents[m].type = "destroy"

(* Every event that names a surface of w names the one of id i.            *)
NamesOnly(w, i) == \A k \in DOMAIN xevents : EventAt(k, "surface_id", w) => xevents[k].id = i

Asking ==
  \A w \in Windows :
    /\ x[w].state \notin {"asked", "gone"} => ~Queued("map_request", w) /\ ~HasOrder("map", w)
    /\ HasOrder("map", w) =>
         ~Queued("map_request", w) /\ ~Queued("surface_id", w) /\ win[w].surface_id = None
    /\ AskedLast(w) /\ MapForbidden(w)

Allowed ==
  \A w \in Windows, i \in Ids : ~x[w].override /\ x[w].state = "mapped" /\ x[w].id = i =>
    /\ x[w].allow \/ HasOrder("allow", w) => surface[i].role
    /\ NamesOnly(w, i)
    /\ win[w].surface_id \in {None, i}

Requested ==
  \A k \in DOMAIN requests, i \in Ids :
    /\ RequestAt(k, "create", i) =>
         ~surface[i].live /\ \A m \in DOMAIN requests : RequestAt(m, "create", i) => m = k
    /\ RequestAt(k, "commit", i) \/ RequestAt(k, "destroy", i) =>
         surface[i].live \/ \E j \in 1..(k - 1) : RequestAt(j, "create", i)
    /\ RequestAt(k, "destroy", i) =>
         /\ \A w \in Windows : x[w].id # i
         /\ \A m \in DOMAIN requests : m > k => requests[m].id # i
    /\ RequestAt(k, "commit", i) /\ ~x[requests[k].window].override => surface[i].role

HasSurface == \A w \in Windows : x[w].id # None => surface[x[w].id].live \/ Comes(x[w].id)

EarlyOverride ==
  \A i \in Ids : surface[i].early => surface[i].owner \in Windows /\ x[surface[i].owner].override

Waiting == Asking /\ Allowed /\ Requested /\ HasSurface /\ EarlyOverride

LEMMA SentEvents ==
  ASSUME TypeOK, NEW e \in XEvents, xevents' = Append(xevents, e)
  PROVE  /\ \A type, v : Queued(type, v)' <=> Queued(type, v) \/ (e.type = type /\ e.window = v)
         /\ \A v : /\ AskedLast(v)
                   /\ e.window = v => e.type = "destroy" \/ ~Queued("map_request", v)
                   => AskedLast(v)'
         /\ \A v, i : /\ NamesOnly(v, i)
                      /\ e.window = v /\ e.type = "surface_id" => e.id = i
                      => NamesOnly(v, i)'
<1>0. PICK n \in Nat : n = Len(xevents)
  BY AppendPositions DEF TypeOK
<1>1. /\ DOMAIN xevents = 1..n /\ DOMAIN xevents' = 1..(n + 1) /\ xevents'[n + 1] = e
      /\ \A k \in 1..n : xevents'[k] = xevents[k]
      /\ \A k \in 1..(n + 1) : k \in 1..n \/ k = n + 1
      /\ 1..n \subseteq 1..(n + 1) /\ n + 1 \in 1..(n + 1)
  BY <1>0, AppendPositions DEF TypeOK
<1>2. \A type, v : Queued(type, v)' <=> Queued(type, v) \/ (e.type = type /\ e.window = v)
  BY <1>1 DEF Queued, EventAt
<1>3. ASSUME NEW v, AskedLast(v), e.window = v => e.type = "destroy" \/ ~Queued("map_request", v)
      PROVE  AskedLast(v)'
  <2>1. ASSUME NEW k \in 1..(n + 1), NEW m \in 1..(n + 1), m > k,
               EventAt(k, "map_request", v)', xevents'[m].window = v
        PROVE  xevents'[m].type = "destroy"
    <3>1. k \in 1..n /\ EventAt(k, "map_request", v)
      BY <1>0, <1>1, <2>1 DEF EventAt
    <3> QED
      BY <1>1, <1>3, <2>1, <3>1 DEF AskedLast, Queued
  <2> QED
    BY <1>1, <2>1 DEF AskedLast
<1>4. ASSUME NEW v, NEW i, NamesOnly(v, i), e.window = v /\ e.type = "surface_id" => e.id = i
      PROVE  NamesOnly(v, i)'
  BY <1>1, <1>4 DEF NamesOnly, EventAt
<1> QED
  BY <1>2, <1>3, <1>4

LEMMA ReadEvents ==
  ASSUME TypeOK, xevents # <<>>, xevents' = Tail(xevents), NEW e, e = Head(xevents)
  PROVE  /\ \A type, v : Queued(type, v)' => Queued(type, v)
         /\ \A v : AskedLast(v) => AskedLast(v)'
         /\ \A v, i : NamesOnly(v, i) => NamesOnly(v, i)'
         /\ \A v, i : NamesOnly(v, i) /\ e.window = v /\ e.type = "surface_id" => e.id = i
         /\ Queued(e.type, e.window)
         /\ \A v : AskedLast(v) /\ e.window = v /\ e.type = "map_request" =>
              ~Queued("map_request", v)' /\ ~Queued("surface_id", v)'
<1>0. PICK n \in Nat : n = Len(xevents)
  BY TailPositions DEF TypeOK
<1>1. /\ DOMAIN xevents = 1..n /\ DOMAIN xevents' = 1..(n - 1) /\ e = xevents[1] /\ 1 \in 1..n
      /\ \A k \in 1..(n - 1) : k + 1 \in 1..n /\ k + 1 > 1 /\ xevents'[k] = xevents[k + 1]
      /\ \A k, m \in 1..(n - 1) : m > k => m + 1 > k + 1
  BY <1>0, TailPositions DEF TypeOK
<1>2. \A type, v : Queued(type, v)' => Queued(type, v)
  BY <1>1 DEF Queued, EventAt
<1>3. ASSUME NEW v, AskedLast(v)
      PROVE  AskedLast(v)'
  <2>1. ASSUME NEW k \in 1..(n - 1), NEW m \in 1..(n - 1), m > k,
               EventAt(k, "map_request", v)', xevents'[m].window = v
        PROVE  xevents'[m].type = "destroy"
    <3>1. EventAt(k + 1, "map_request", v) /\ xevents[m + 1].window = v /\ m + 1 > k + 1
      BY <1>1, <2>1 DEF EventAt
    <3> QED
      BY <1>1, <1>3, <3>1 DEF AskedLast
  <2> QED
    BY <1>1, <2>1 DEF AskedLast
<1>4. \A v, i : NamesOnly(v, i) => NamesOnly(v, i)'
  BY <1>1 DEF NamesOnly, EventAt
<1>5. \A v, i : NamesOnly(v, i) /\ e.window = v /\ e.type = "surface_id" => e.id = i
  BY <1>1 DEF NamesOnly, EventAt
<1>6. Queued(e.type, e.window)
  BY <1>1 DEF Queued, EventAt
<1>7. ASSUME NEW v, AskedLast(v), e.window = v, e.type = "map_request"
      PROVE  ~Queued("map_request", v)' /\ ~Queued("surface_id", v)'
  <2>1. EventAt(1, "map_request", v)
    BY <1>1, <1>7 DEF EventAt
  <2>2. \A k \in 1..(n - 1) : xevents'[k].window = v => xevents'[k].type = "destroy"
    BY <1>1, <1>7, <2>1 DEF AskedLast
  <2> QED
    BY <1>1, <2>2 DEF Queued, EventAt
<1> QED
  BY <1>2, <1>3, <1>4, <1>5, <1>6, <1>7

LEMMA OrderSent ==
  ASSUME TypeOK, NEW o \in Orders, orders' = Append(orders, o)
  PROVE  /\ \A type, v : HasOrder(type, v)' <=> HasOrder(type, v) \/ (o.type = type /\ o.window = v)
         /\ \A v : /\ MapForbidden(v) /\ x'[v].allow = x[v].allow
                   /\ o.window = v => ~HasOrder("map", v) /\ o.type # "map"
                   => MapForbidden(v)'
<1>0. PICK n \in Nat : n = Len(orders)
  BY AppendPositions DEF TypeOK
<1>1. /\ DOMAIN orders = 1..n /\ DOMAIN orders' = 1..(n + 1) /\ orders'[n + 1] = o
      /\ \A k \in 1..n : orders'[k] = orders[k]
      /\ \A k \in 1..(n + 1) : k \in 1..n \/ k = n + 1
      /\ 1..n \subseteq 1..(n + 1) /\ n + 1 \in 1..(n + 1)
      /\ \A k \in 1..n : k # 1 => k - 1 \in 1..n
  BY <1>0, AppendPositions DEF TypeOK
<1>2. \A type, v : HasOrder(type, v)' <=> HasOrder(type, v) \/ (o.type = type /\ o.window = v)
  BY <1>1 DEF HasOrder, OrderAt
<1>3. ASSUME NEW v, MapForbidden(v), x'[v].allow = x[v].allow,
             o.window = v => ~HasOrder("map", v) /\ o.type # "map"
      PROVE  MapForbidden(v)'
  <2>1. ASSUME NEW k \in 1..(n + 1), OrderAt(k, "map", v)'
        PROVE  /\ \A m \in 1..(n + 1) : /\ OrderAt(m, "map", v)' => m = k
                                        /\ OrderAt(m, "allow", v)' => m < k
               /\ k = 1 => ~x'[v].allow
               /\ k # 1 => OrderAt(k - 1, "forbid", v)'
    <3>1. o.window # v /\ k \in 1..n /\ OrderAt(k, "map", v)
      BY <1>1, <1>3, <2>1 DEF OrderAt, HasOrder
    <3>2. \A m \in 1..(n + 1) : \A type : OrderAt(m, type, v)' => m \in 1..n /\ OrderAt(m, type, v)
      BY <1>1, <3>1 DEF OrderAt
    <3>3. k # 1 => OrderAt(k - 1, "forbid", v)'
      BY <1>1, <1>3, <3>1 DEF OrderAt, MapForbidden
    <3> QED
      BY <1>1, <1>3, <3>1, <3>2, <3>3 DEF MapForbidden
  <2> QED
    BY <1>1, <2>1 DEF MapForbidden
<1> QED
  BY <1>2, <1>3

LEMMA JoinedElements ==
  ASSUME NEW S, NEW a \in Seq(S), NEW b \in Seq(S)
  PROVE  /\ a \o b \in Seq(S) /\ Len(a \o b) = Len(a) + Len(b)
         /\ \A k \in 1..(Len(a) + Len(b)) :
              (a \o b)[k] = IF k <= Len(a) THEN a[k] ELSE b[k - Len(a)]
  OBVIOUS

LEMMA JoinedPositions ==
  ASSUME NEW S, NEW a \in Seq(S), NEW b \in Seq(S), NEW n \in Nat, Len(a) = n, Len(b) = 2
  PROVE  /\ DOMAIN a = 1..n /\ DOMAIN (a \o b) = 1..(n + 2)
         /\ (a \o b)[n + 1] = b[1] /\ (a \o b)[n + 2] = b[2]
         /\ \A k \in 1..n : (a \o b)[k] = a[k]
<1>0. a \o b \in Seq(S) /\ Len(a \o b) = Len(a) + Len(b)
  BY JoinedElements
<1>1. a \o b \in Seq(S) /\ Len(a \o b) = n + 2
  BY <1>0
<1>2. DOMAIN a = 1..n /\ DOMAIN (a \o b) = 1..(n + 2)
  BY <1>1
<1>3. \A k \in 1..(Len(a) + Len(b)) : (a \o b)[k] = IF k <= Len(a) THEN a[k] ELSE b[k - Len(a)]
  BY JoinedElements
<1>4. (a \o b)[n + 1] = b[(n + 1) - n] /\ (a \o b)[n + 2] = b[(n + 2) - n]
  <2>1. n + 1 \in 1..(n + 2) /\ n + 2 \in 1..(n + 2) /\ ~(n + 1 <= n) /\ ~(n + 2 <= n)
    OBVIOUS
  <2> QED
    BY <1>3, <2>1
<1>6. (n + 1) - n = 1 /\ (n + 2) - n = 2
  OBVIOUS
<1>5. \A k \in 1..n : (a \o b)[k] = a[k]
  OBVIOUS
<1> QED
  BY <1>2, <1>4, <1>5, <1>6

(* The orders that answer a map request.                                   *)
LEMMA MapOrdersSent ==
  ASSUME TypeOK, NEW w \in Windows, ~HasOrder("map", w), orders' = orders \o MapOrders(w), UNCHANGED x
  PROVE  /\ \A type, v : HasOrder(type, v)' <=>
              HasOrder(type, v) \/ (type \in {"forbid", "map"} /\ v = w)
         /\ \A v : MapForbidden(v) => MapForbidden(v)'
<1>0. PICK n \in Nat : n = Len(orders)
  BY DEF TypeOK
<1>1. /\ DOMAIN orders = 1..n /\ DOMAIN orders' = 1..(n + 2)
      /\ orders'[n + 1].type = "forbid" /\ orders'[n + 1].window = w
      /\ orders'[n + 2].type = "map" /\ orders'[n + 2].window = w
      /\ \A k \in 1..n : orders'[k] = orders[k]
  <2> DEFINE t == MapOrders(w)
  <2>1. orders \in Seq(Orders) /\ t \in Seq(Orders) /\ Len(t) = 2
        /\ t[1].type = "forbid" /\ t[1].window = w /\ t[2].type = "map" /\ t[2].window = w
    BY DEF TypeOK, MapOrders, Orders
  <2> HIDE DEF t
  <2>2. orders' = orders \o t
    BY DEF t
  <2>3. PICK a \in Seq(Orders), b \in Seq(Orders) : a = orders /\ b = t /\ orders' = a \o b
    BY <2>1, <2>2
  <2>4. /\ DOMAIN a = 1..n /\ DOMAIN (a \o b) = 1..(n + 2)
        /\ (a \o b)[n + 1] = b[1] /\ (a \o b)[n + 2] = b[2]
        /\ \A k \in 1..n : (a \o b)[k] = a[k]
    <3>1. Len(a) = n /\ Len(b) = 2
      BY <1>0, <2>1, <2>3
    <3> QED
      BY <3>1, JoinedPositions
  <2> QED
    BY <2>1, <2>3, <2>4
<1>2. /\ \A k \in 1..(n + 2) : k \in 1..n \/ k = n + 1 \/ k = n + 2
      /\ 1..n \subseteq 1..(n + 2) /\ n + 1 \in 1..(n + 2) /\ n + 2 \in 1..(n + 2)
      /\ \A k \in 1..n : k < n + 2 /\ (k # 1 => k - 1 \in 1..n)
      /\ (n + 2) - 1 = n + 1 /\ n + 2 # 1 /\ n + 2 # n + 1 /\ n + 1 < n + 2
  BY <1>0
<1>3. \A k \in 1..n : \A type, v : OrderAt(k, type, v)' <=> OrderAt(k, type, v)
  BY <1>1, <1>2 DEF OrderAt
<1>4. \A type, v : /\ OrderAt(n + 1, type, v)' <=> (type = "forbid" /\ v = w)
                   /\ OrderAt(n + 2, type, v)' <=> (type = "map" /\ v = w)
  BY <1>1, <1>2 DEF OrderAt
<1>5. \A type, v : HasOrder(type, v)' <=> HasOrder(type, v) \/ (type \in {"forbid", "map"} /\ v = w)
  BY <1>1, <1>2, <1>3, <1>4 DEF HasOrder
<1>6. ASSUME NEW v, MapForbidden(v) PROVE MapForbidden(v)'
  <2>1. ASSUME NEW k \in 1..(n + 2), OrderAt(k, "map", v)'
        PROVE  /\ \A m \in 1..(n + 2) : /\ OrderAt(m, "map", v)' => m = k
                                        /\ OrderAt(m, "allow", v)' => m < k
               /\ k = 1 => ~x'[v].allow
               /\ k # 1 => OrderAt(k - 1, "forbid", v)'
    <3>1. CASE v = w
      <4>1. \A m \in 1..n : ~OrderAt(m, "map", v)'
        BY <1>1, <1>3, <3>1 DEF HasOrder
      <4>2. k = n + 2
        BY <1>2, <1>4, <2>1, <4>1
      <4> QED
        BY <1>2, <1>4, <3>1, <4>1, <4>2
    <3>2. CASE v # w
      <4>1. k \in 1..n /\ OrderAt(k, "map", v)
        BY <1>2, <1>3, <1>4, <2>1, <3>2
      <4>2. \A m \in 1..(n + 2) : \A type : OrderAt(m, type, v)' => m \in 1..n /\ OrderAt(m, type, v)
        BY <1>2, <1>3, <1>4, <3>2
      <4>3. k # 1 => k - 1 \in 1..n /\ OrderAt(k - 1, "forbid", v)
        BY <1>1, <1>2, <1>6, <4>1 DEF MapForbidden
      <4> QED
        BY <1>1, <1>3, <1>6, <4>1, <4>2, <4>3 DEF MapForbidden
    <3> QED
      BY <3>1, <3>2
  <2> QED
    BY <1>1, <2>1 DEF MapForbidden
<1> QED
  BY <1>5, <1>6

LEMMA OrderDone ==
  ASSUME TypeOK, orders # <<>>, orders' = Tail(orders), NEW o, o = Head(orders)
  PROVE  /\ \A type, v : HasOrder(type, v)' => HasOrder(type, v)
         /\ HasOrder(o.type, o.window)
         /\ \A v : MapForbidden(v) /\ o.type = "map" /\ o.window = v =>
              ~HasOrder("map", v)' /\ ~HasOrder("allow", v)' /\ ~x[v].allow
         /\ \A v : MapForbidden(v) /\ (o.type = "forbid" /\ o.window = v => ~x'[v].allow)
                   => MapForbidden(v)'
<1>0. PICK n \in Nat : n = Len(orders)
  BY TailPositions DEF TypeOK
<1>1. /\ DOMAIN orders = 1..n /\ DOMAIN orders' = 1..(n - 1) /\ o = orders[1] /\ 1 \in 1..n
      /\ \A k \in 1..(n - 1) : k + 1 \in 1..n /\ orders'[k] = orders[k + 1]
  BY <1>0, TailPositions DEF TypeOK
<1>2. /\ \A k \in 1..(n - 1) : k + 1 # 1 /\ ~(k + 1 < 1) /\ (k + 1) - 1 = k
                               /\ (k # 1 => k - 1 \in 1..(n - 1) /\ (k - 1) + 1 = k)
      /\ \A k, m \in 1..(n - 1) : (m + 1 = k + 1 => m = k) /\ (m + 1 < k + 1 => m < k)
  BY <1>0
<1>3. \A k \in 1..(n - 1) : \A type, v : OrderAt(k, type, v)' <=> OrderAt(k + 1, type, v)
  BY <1>1 DEF OrderAt
<1>4. \A type, v : OrderAt(1, type, v) <=> (o.type = type /\ o.window = v)
  BY <1>1 DEF OrderAt
<1>5. \A type, v : HasOrder(type, v)' => HasOrder(type, v)
  BY <1>1, <1>3 DEF HasOrder
<1>6. HasOrder(o.type, o.window)
  BY <1>1, <1>4 DEF HasOrder
<1>7. ASSUME NEW v, MapForbidden(v), o.type = "map", o.window = v
      PROVE  ~HasOrder("map", v)' /\ ~HasOrder("allow", v)' /\ ~x[v].allow
  <2>1. /\ \A m \in 1..n : (OrderAt(m, "map", v) => m = 1) /\ (OrderAt(m, "allow", v) => m < 1)
        /\ ~x[v].allow
    BY <1>1, <1>4, <1>7 DEF MapForbidden
  <2> QED
    BY <1>1, <1>2, <1>3, <2>1 DEF HasOrder
<1>8. ASSUME NEW v, MapForbidden(v), o.type = "forbid" /\ o.window = v => ~x'[v].allow
      PROVE  MapForbidden(v)'
  <2>1. ASSUME NEW k \in 1..(n - 1), OrderAt(k, "map", v)'
        PROVE  /\ \A m \in 1..(n - 1) : /\ OrderAt(m, "map", v)' => m = k
                                        /\ OrderAt(m, "allow", v)' => m < k
               /\ k = 1 => ~x'[v].allow
               /\ k # 1 => OrderAt(k - 1, "forbid", v)'
    <3>1. /\ \A m \in 1..n : (OrderAt(m, "map", v) => m = k + 1) /\ (OrderAt(m, "allow", v) => m < k + 1)
          /\ OrderAt(k, "forbid", v)
      BY <1>1, <1>2, <1>3, <1>8, <2>1 DEF MapForbidden
    <3>2. \A m \in 1..(n - 1) : /\ OrderAt(m, "map", v)' => m = k
                                /\ OrderAt(m, "allow", v)' => m < k
      BY <1>1, <1>2, <1>3, <3>1
    <3>3. k = 1 => ~x'[v].allow
      BY <1>4, <1>8, <3>1
    <3>4. k # 1 => OrderAt(k - 1, "forbid", v)'
      BY <1>2, <1>3, <3>1
    <3> QED
      BY <3>2, <3>3, <3>4
  <2> QED
    BY <1>1, <2>1 DEF MapForbidden
<1> QED
  BY <1>5, <1>6, <1>7, <1>8

(* A request is made.                                                      *)
LEMMA RequestSent ==
  ASSUME TypeOK, Requested, HasSurface, NEW r \in Requests, requests' = Append(requests, r),
         UNCHANGED surface, \A w \in Windows : x'[w].override = x[w].override,
         \A k \in DOMAIN requests : ~RequestAt(k, "destroy", r.id),
         r.type = "create" => ~surface[r.id].live /\ ~Comes(r.id),
         r.type \in {"commit", "destroy"} => surface[r.id].live \/ Comes(r.id),
         r.type = "destroy" => \A w \in Windows : x'[w].id # r.id,
         r.type = "commit" /\ ~x[r.window].override => surface[r.id].role,
         \A w \in Windows : x'[w].id \in {x[w].id, None} \/ (r.type = "create" /\ x'[w].id = r.id)
  PROVE  Requested' /\ HasSurface'
<1>0. PICK n \in Nat : n = Len(requests)
  BY AppendPositions DEF TypeOK
<1>1. /\ DOMAIN requests = 1..n /\ DOMAIN requests' = 1..(n + 1) /\ requests'[n + 1] = r
      /\ \A k \in 1..n : requests'[k] = requests[k]
      /\ \A k \in 1..(n + 1) : k \in 1..n \/ k = n + 1
      /\ 1..n \subseteq 1..(n + 1) /\ n + 1 \in 1..(n + 1)
      /\ \A k \in 1..n : \A j \in 1..(k - 1) : j \in 1..n
      /\ (n + 1) - 1 = n /\ ~(n + 1 > n + 1) /\ \A m \in 1..n : ~(m > n + 1)
  BY <1>0, AppendPositions DEF TypeOK
<1>2. \A k \in 1..n : \A type, i : RequestAt(k, type, i)' <=> RequestAt(k, type, i)
  BY <1>1 DEF RequestAt
<1>3. \A type, i : RequestAt(n + 1, type, i)' <=> (r.type = type /\ r.id = i)
  BY <1>1 DEF RequestAt
<1>4. \A i : Comes(i)' <=> Comes(i) \/ (r.type = "create" /\ r.id = i)
  BY <1>1, <1>2, <1>3 DEF Comes
<1>5. r.window \in Windows /\ \A k \in 1..n : requests[k].window \in Windows
  BY <1>1, QueuesHave, EventHas
<1>6. \A k \in 1..n, i \in Ids : RequestAt(k, "destroy", i) => \A w \in Windows : x'[w].id # i
  BY <1>1, XwmAssumption DEF Requested
<1>7. ASSUME NEW k \in 1..(n + 1), NEW i \in Ids
      PROVE  /\ RequestAt(k, "create", i)' =>
                  ~surface[i].live /\ \A m \in 1..(n + 1) : RequestAt(m, "create", i)' => m = k
             /\ RequestAt(k, "commit", i)' \/ RequestAt(k, "destroy", i)' =>
                  surface[i].live \/ \E j \in 1..(k - 1) : RequestAt(j, "create", i)'
             /\ RequestAt(k, "destroy", i)' =>
                  /\ \A w \in Windows : x'[w].id # i
                  /\ \A m \in 1..(n + 1) : m > k => requests'[m].id # i
             /\ RequestAt(k, "commit", i)' /\ ~x'[requests'[k].window].override => surface[i].role
  <2>1. CASE k \in 1..n
    <3>1. RequestAt(k, "create", i)' =>
            ~surface[i].live /\ \A m \in 1..(n + 1) : RequestAt(m, "create", i)' => m = k
      BY <1>1, <1>2, <1>3, <2>1 DEF Requested, Comes
    <3>2. RequestAt(k, "commit", i)' \/ RequestAt(k, "destroy", i)' =>
            surface[i].live \/ \E j \in 1..(k - 1) : RequestAt(j, "create", i)'
      <4>1. \A j \in 1..(k - 1) : RequestAt(j, "create", i) => RequestAt(j, "create", i)'
        BY <1>1, <1>2, <2>1
      <4>2. RequestAt(k, "commit", i)' \/ RequestAt(k, "destroy", i)' =>
              surface[i].live \/ \E j \in 1..(k - 1) : RequestAt(j, "create", i)
        BY <1>1, <1>2, <2>1 DEF Requested
      <4> QED
        BY <4>1, <4>2
    <3>3. RequestAt(k, "destroy", i)' =>
            /\ \A w \in Windows : x'[w].id # i
            /\ \A m \in 1..(n + 1) : m > k => requests'[m].id # i
      BY <1>1, <1>2, <1>6, <2>1 DEF Requested
    <3>4. RequestAt(k, "commit", i)' /\ ~x'[requests'[k].window].override => surface[i].role
      BY <1>1, <1>2, <1>5, <2>1 DEF Requested
    <3> QED
      BY <3>1, <3>2, <3>3, <3>4
  <2>2. CASE k = n + 1
    <3>1. RequestAt(k, "create", i)' =>
            ~surface[i].live /\ \A m \in 1..(n + 1) : RequestAt(m, "create", i)' => m = k
      BY <1>1, <1>2, <1>3, <2>2 DEF Comes
    <3>2. RequestAt(k, "commit", i)' \/ RequestAt(k, "destroy", i)' =>
            surface[i].live \/ \E j \in 1..(k - 1) : RequestAt(j, "create", i)'
      BY <1>1, <1>2, <1>3, <2>2 DEF Comes
    <3>3. RequestAt(k, "destroy", i)' =>
            /\ \A w \in Windows : x'[w].id # i
            /\ \A m \in 1..(n + 1) : m > k => requests'[m].id # i
      BY <1>1, <1>3, <2>2
    <3>4. RequestAt(k, "commit", i)' /\ ~x'[requests'[k].window].override => surface[i].role
      BY <1>1, <1>3, <1>5, <2>2
    <3> QED
      BY <3>1, <3>2, <3>3, <3>4
  <2> QED
    BY <1>1, <2>1, <2>2
<1>8. Requested'
  BY <1>1, <1>7 DEF Requested
<1>9. HasSurface'
  BY <1>4 DEF HasSurface
<1> QED
  BY <1>8, <1>9

(* Nothing is requested: surfaces may get a role.                          *)
LEMMA RequestsKept ==
  ASSUME Requested, HasSurface, UNCHANGED requests, \A k \in DOMAIN requests : requests[k].window \in Windows,
         \A w \in Windows : x'[w].override = x[w].override /\ x'[w].id = x[w].id /\ x[w].id \in Ids \cup {None},
         \A i \in Ids : surface'[i].live = surface[i].live /\ (surface[i].role => surface'[i].role)
  PROVE  Requested' /\ HasSurface'
<1>1. \A k, type, i : RequestAt(k, type, i)' <=> RequestAt(k, type, i)
  BY DEF RequestAt
<1>2. Requested'
  BY <1>1 DEF Requested
<1>3. HasSurface'
  BY <1>1, XwmAssumption DEF HasSurface, Comes
<1> QED
  BY <1>2, <1>3

(* What is known of the next request.                                      *)
LEMMA NextRequest ==
  ASSUME TypeOK, Requested, requests # <<>>, NEW r, r = Head(requests), NEW i \in Ids, r.id = i
  PROVE  /\ r.type = "create" => ~surface[i].live
         /\ r.type \in {"commit", "destroy"} => surface[i].live
         /\ r.type = "destroy" => \A w \in Windows : x[w].id # i
         /\ r.type = "commit" /\ ~x[r.window].override => surface[i].role
<1>1. /\ 1 \in DOMAIN requests /\ r = requests[1] /\ 1..(1 - 1) = {}
  BY TailPositions DEF TypeOK
<1> QED
  BY <1>1 DEF Requested, RequestAt

LEMMA RequestDone ==
  ASSUME TypeOK, Requested, HasSurface, RoleIsLive, requests # <<>>, requests' = Tail(requests), UNCHANGED x,
         NEW r, r = Head(requests), NEW i \in Ids, r.id = i, r.type \in {"create", "commit", "destroy"},
         \A j \in Ids : j # i => surface'[j].live = surface[j].live /\ (surface[j].role => surface'[j].role),
         surface'[i].live <=> r.type # "destroy",
         r.type = "commit" => (surface[i].role => surface'[i].role)
  PROVE  Requested' /\ HasSurface'
<1>0. PICK n \in Nat : n = Len(requests)
  BY TailPositions DEF TypeOK
<1>1. /\ DOMAIN requests = 1..n /\ DOMAIN requests' = 1..(n - 1) /\ r = requests[1] /\ 1 \in 1..n
      /\ \A k \in 1..(n - 1) : k + 1 \in 1..n /\ requests'[k] = requests[k + 1]
  BY <1>0, TailPositions DEF TypeOK
<1>2. /\ \A k \in 1..(n - 1) : k + 1 # 1 /\ k + 1 > 1 /\ (k + 1) - 1 = k
      /\ \A k, m \in 1..(n - 1) : (m + 1 = k + 1 => m = k) /\ (m > k => m + 1 > k + 1)
      /\ \A k \in 1..(n - 1) : \A j \in 1..k : j = 1 \/ (j - 1 \in 1..(k - 1) /\ j - 1 \in 1..(n - 1) /\ (j - 1) + 1 = j)
  BY <1>0
<1>3. \A k \in 1..(n - 1) : \A type, j : RequestAt(k, type, j)' <=> RequestAt(k + 1, type, j)
  BY <1>1 DEF RequestAt
<1>4. \A type, j : RequestAt(1, type, j) <=> (r.type = type /\ j = i)
  BY <1>1 DEF RequestAt
<1>5. \A k \in 1..(n - 1) : r.type = "destroy" => requests'[k].id # i
  BY <1>1, <1>2, <1>4 DEF Requested
<1>6. ASSUME NEW k \in 1..(n - 1), NEW j \in Ids
      PROVE  /\ RequestAt(k, "create", j)' =>
                  ~surface'[j].live /\ \A m \in 1..(n - 1) : RequestAt(m, "create", j)' => m = k
             /\ RequestAt(k, "commit", j)' \/ RequestAt(k, "destroy", j)' =>
                  surface'[j].live \/ \E m \in 1..(k - 1) : RequestAt(m, "create", j)'
             /\ RequestAt(k, "destroy", j)' =>
                  /\ \A w \in Windows : x[w].id # j
                  /\ \A m \in 1..(n - 1) : m > k => requests'[m].id # j
             /\ RequestAt(k, "commit", j)' /\ ~x[requests'[k].window].override => surface'[j].role
  <2>1. k + 1 \in 1..n
    BY <1>1
  <2>2. ASSUME RequestAt(k, "create", j)'
        PROVE  ~surface'[j].live /\ \A m \in 1..(n - 1) : RequestAt(m, "create", j)' => m = k
    <3>1. ~surface[j].live /\ \A m \in 1..n : RequestAt(m, "create", j) => m = k + 1
      BY <1>1, <1>3, <2>1, <2>2 DEF Requested
    <3>2. j # i
      <4>1. r.type # "create" \/ j # i
        BY <1>1, <1>2, <1>4, <3>1
      <4>2. r.type # "commit" \/ j # i
        BY <3>1, NextRequest
      <4>3. r.type # "destroy" \/ j # i
        BY <1>5, <2>2 DEF RequestAt
      <4> QED
        BY <4>1, <4>2, <4>3
    <3> QED
      BY <1>1, <1>2, <1>3, <3>1, <3>2
  <2>3. ASSUME RequestAt(k, "commit", j)' \/ RequestAt(k, "destroy", j)'
        PROVE  surface'[j].live \/ \E m \in 1..(k - 1) : RequestAt(m, "create", j)'
    <3>1. surface[j].live \/ \E m \in 1..k : RequestAt(m, "create", j)
      BY <1>1, <1>2, <1>3, <2>1, <2>3 DEF Requested
    <3>2. j = i => r.type # "destroy"
      BY <1>5, <2>3 DEF RequestAt
    <3>3. CASE j = i
      BY <3>2, <3>3
    <3>4. CASE j # i
      <4>1. CASE surface[j].live
        BY <3>4, <4>1
      <4>2. ASSUME NEW m \in 1..k, RequestAt(m, "create", j)
            PROVE  \E p \in 1..(k - 1) : RequestAt(p, "create", j)'
        <5>1. m - 1 \in 1..(k - 1) /\ m - 1 \in 1..(n - 1) /\ (m - 1) + 1 = m
          BY <1>2, <1>4, <3>4, <4>2
        <5> QED
          BY <1>3, <4>2, <5>1
      <4> QED
        BY <3>1, <4>1, <4>2
    <3> QED
      BY <3>3, <3>4
  <2>4. ASSUME RequestAt(k, "destroy", j)'
        PROVE  /\ \A w \in Windows : x[w].id # j
               /\ \A m \in 1..(n - 1) : m > k => requests'[m].id # j
    BY <1>1, <1>2, <1>3, <2>1, <2>4 DEF Requested
  <2>5. ASSUME RequestAt(k, "commit", j)', ~x[requests'[k].window].override PROVE surface'[j].role
    <3>1. surface[j].role
      BY <1>1, <1>3, <2>1, <2>5 DEF Requested
    <3>2. surface[j].live
      BY <3>1 DEF RoleIsLive
    <3>3. j = i => r.type # "destroy" /\ r.type # "create"
      BY <1>5, <2>5, <3>2, NextRequest DEF RequestAt
    <3> QED
      BY <3>1, <3>3
  <2> QED
    BY <2>2, <2>3, <2>4, <2>5
<1>7. Requested'
  BY <1>1, <1>6 DEF Requested
<1>8. ASSUME NEW w \in Windows, x[w].id # None PROVE surface'[x[w].id].live \/ Comes(x[w].id)'
  <2>1. PICK j \in Ids : j = x[w].id
    BY <1>8, QueuesHave
  <2>2. CASE j = i
    BY <2>1, <2>2, NextRequest
  <2>3. CASE j # i
    <3>1. CASE surface[j].live
      BY <2>1, <2>3, <3>1
    <3>2. ASSUME NEW k \in 1..n, RequestAt(k, "create", j) PROVE Comes(j)'
      <4>1. k - 1 \in 1..(n - 1) /\ (k - 1) + 1 = k
        BY <1>0, <1>4, <2>3, <3>2
      <4> QED
        BY <1>1, <1>3, <3>2, <4>1 DEF Comes
    <3> QED
      BY <1>1, <1>8, <2>1, <3>1, <3>2 DEF HasSurface, Comes
  <2> QED
    BY <2>2, <2>3
<1>9. HasSurface'
  BY <1>8 DEF HasSurface
<1> QED
  BY <1>7, <1>9

(* The new surface of w is not committed to before it has a role.          *)
LEMMA RealiseKeepsWaiting ==
  ASSUME Inv, Named, Waiting, NEW w \in Windows, Realise(w), UNCHANGED <<surface, win>>,
         ~Queued("map_request", w), ~HasOrder("map", w)',
         \A type, v : HasOrder(type, v)' => HasOrder(type, v),
         \A v \in Windows : MapForbidden(v)',
         x[w].override \/ (/\ ~x[w].allow /\ ~HasOrder("allow", w)'
                           /\ ~Queued("surface_id", w) /\ win[w].surface_id = None)
  PROVE  Waiting'
<1>1. PICK i \in free :
        /\ i \in Ids
        /\ x'[w].state = "mapped" /\ x'[w].id = i /\ x'[w].override = x[w].override
        /\ x'[w].allow = x[w].allow /\ \A v \in Windows : v # w => x'[v] = x[v]
        /\ [type |-> "create", id |-> i, window |-> w] \in Requests
        /\ requests' = Append(requests, [type |-> "create", id |-> i, window |-> w])
        /\ [type |-> "surface_id", window |-> w, id |-> i] \in XEvents
        /\ xevents' = Append(xevents, [type |-> "surface_id", window |-> w, id |-> i])
  BY RealiseEffects DEF Inv
<1>2. PICK e \in XEvents : /\ e.type = "surface_id" /\ e.id = i /\ e.window = w
                           /\ xevents' = Append(xevents, e)
  BY <1>1
<1>3. PICK r \in Requests : /\ r.type = "create" /\ r.id = i /\ r.window = w
                            /\ requests' = Append(requests, r)
  BY <1>1
<1>4. /\ \A type, v : Queued(type, v)' <=> Queued(type, v) \/ ("surface_id" = type /\ w = v)
      /\ \A v : AskedLast(v) /\ (w = v => ~Queued("map_request", v)) => AskedLast(v)'
      /\ \A v, j : NamesOnly(v, j) /\ (w = v => i = j) => NamesOnly(v, j)'
  <2>1. TypeOK
    BY DEF Inv
  <2>2. \A type, v : Queued(type, v)' <=> Queued(type, v) \/ (e.type = type /\ e.window = v)
    BY <1>2, <2>1, SentEvents
  <2>3. \A v : AskedLast(v) /\ (e.window = v => e.type = "destroy" \/ ~Queued("map_request", v))
               => AskedLast(v)'
    BY <1>2, <2>1, SentEvents
  <2>4. \A v, j : NamesOnly(v, j) /\ (e.window = v /\ e.type = "surface_id" => e.id = j)
                  => NamesOnly(v, j)'
    BY <1>2, <2>1, SentEvents
  <2> QED
    BY <1>2, <2>2, <2>3, <2>4
<1>5. Asking'
  <2> SUFFICES ASSUME NEW v \in Windows
               PROVE  /\ x'[v].state \notin {"asked", "gone"} =>
                           ~Queued("map_request", v)' /\ ~HasOrder("map", v)'
                      /\ HasOrder("map", v)' =>
                           /\ ~Queued("map_request", v)' /\ ~Queued("surface_id", v)'
                           /\ win'[v].surface_id = None
                      /\ AskedLast(v)' /\ MapForbidden(v)'
    BY DEF Asking
  <2>1. /\ x[v].state \notin {"asked", "gone"} => ~Queued("map_request", v) /\ ~HasOrder("map", v)
        /\ HasOrder("map", v) =>
             ~Queued("map_request", v) /\ ~Queued("surface_id", v) /\ win[v].surface_id = None
        /\ AskedLast(v)
    BY DEF Waiting, Asking
  <2> QED
    BY <1>1, <1>4, <2>1
<1>6. Allowed'
  <2> SUFFICES ASSUME NEW v \in Windows, NEW j \in Ids, ~x'[v].override, x'[v].state = "mapped", x'[v].id = j
               PROVE  /\ x'[v].allow \/ HasOrder("allow", v)' => surface[j].role
                      /\ NamesOnly(v, j)'
                      /\ win[v].surface_id \in {None, j}
    BY DEF Allowed
  <2>1. CASE v = w
    <3>1. NamesOnly(w, i)
      BY <1>1, <2>1 DEF NamesOnly, Queued, EventAt
    <3>2. NamesOnly(w, i)'
      BY <1>4, <3>1
    <3> QED
      BY <1>1, <2>1, <3>2
  <2>2. CASE v # w
    <3>2. /\ x[v].allow \/ HasOrder("allow", v) => surface[j].role
          /\ NamesOnly(v, j) /\ win[v].surface_id \in {None, j}
      BY <1>1, <2>2 DEF Waiting, Allowed
    <3> QED
      BY <1>1, <1>4, <2>2, <3>2
  <2> QED
    BY <2>1, <2>2
<1>7. Requested' /\ HasSurface'
  <2>1. /\ ~surface[i].live /\ \A k \in DOMAIN requests : requests[k].id # i
    BY FreeIsUnnamed
  <2>2. ~Comes(i) /\ \A k \in DOMAIN requests : ~RequestAt(k, "destroy", i)
    BY <2>1 DEF Comes, RequestAt
  <2>3. \A v \in Windows : x'[v].override = x[v].override /\ x'[v].id \in {x[v].id, i}
    BY <1>1
  <2>4. \A v \in Windows : x'[v].id \in {x[v].id, None} \/ (r.type = "create" /\ x'[v].id = r.id)
    BY <1>3, <2>3
  <2> QED
    BY <1>3, <2>1, <2>2, <2>3, <2>4, RequestSent DEF Waiting, Inv
<1>8. EarlyOverride'
  <2>1. \A v \in Windows : x'[v].override = x[v].override
    BY <1>1
  <2> QED
    BY <2>1 DEF Waiting, EarlyOverride
<1> QED
  BY <1>5, <1>6, <1>7, <1>8 DEF Waiting

LEMMA SaysKeepsAsking ==
  ASSUME TypeOK, Asking, Allowed, NEW w \in Windows, NEW state, NEW type, Says(w, state, type),
         UNCHANGED <<orders, surface, win>>, \A v \in Windows : v # w => x'[v] = x[v],
         \/ x[w].state = "new" /\ state = "unmapped" /\ type = "create"
         \/ x[w].state = "unmapped" /\ state = "asked" /\ type = "map_request"
         \/ x[w].state \in {"unmapped", "asked"} /\ state = "gone" /\ type = "destroy"
         \/ x[w].state = "mapped" /\ state = "unmapped" /\ type = "unmap"
  PROVE  Asking' /\ Allowed'
<1>1. PICK e \in XEvents : e.type = type /\ e.window = w /\ xevents' = Append(xevents, e)
  BY DEF Says, Event
<1>2. x'[w].state = state /\ \A v \in Windows : x'[v].allow = x[v].allow
  BY DEF Says
<1>3. /\ \A t, v : Queued(t, v)' <=> Queued(t, v) \/ (e.type = t /\ e.window = v)
      /\ \A v : /\ AskedLast(v)
                /\ e.window = v => e.type = "destroy" \/ ~Queued("map_request", v)
                => AskedLast(v)'
      /\ \A v, i : /\ NamesOnly(v, i)
                   /\ e.window = v /\ e.type = "surface_id" => e.id = i
                   => NamesOnly(v, i)'
  BY <1>1, SentEvents
<1>4. \A t, v : HasOrder(t, v)' <=> HasOrder(t, v)
  BY DEF HasOrder, OrderAt
<1>5. \A v \in Windows : MapForbidden(v)'
  BY <1>2 DEF Asking, MapForbidden, OrderAt
<1>6. Asking'
  <2> SUFFICES ASSUME NEW v \in Windows
               PROVE  /\ x'[v].state \notin {"asked", "gone"} =>
                           ~Queued("map_request", v)' /\ ~HasOrder("map", v)'
                      /\ HasOrder("map", v)' =>
                           /\ ~Queued("map_request", v)' /\ ~Queued("surface_id", v)'
                           /\ win'[v].surface_id = None
                      /\ AskedLast(v)' /\ MapForbidden(v)'
    BY DEF Asking
  <2>1. /\ x[v].state \notin {"asked", "gone"} => ~Queued("map_request", v) /\ ~HasOrder("map", v)
        /\ HasOrder("map", v) =>
             ~Queued("map_request", v) /\ ~Queued("surface_id", v) /\ win[v].surface_id = None
        /\ AskedLast(v)
    BY DEF Asking
  <2>2. CASE v # w
    BY <1>1, <1>3, <1>4, <1>5, <2>1, <2>2
  <2>3. CASE v = w
    BY <1>1, <1>2, <1>3, <1>4, <1>5, <2>1, <2>3
  <2> QED
    BY <2>2, <2>3
<1>7. Allowed'
  <2> SUFFICES ASSUME NEW v \in Windows, NEW j \in Ids, ~x'[v].override, x'[v].state = "mapped", x'[v].id = j
               PROVE  /\ x'[v].allow \/ HasOrder("allow", v)' => surface[j].role
                      /\ NamesOnly(v, j)'
                      /\ win[v].surface_id \in {None, j}
    BY DEF Allowed
  <2>1. v # w /\ x'[v] = x[v]
    BY <1>2
  <2>2. x[v].id = j
    BY <2>1
  <2>3. /\ x[v].allow \/ HasOrder("allow", v) => surface[j].role
        /\ NamesOnly(v, j) /\ win[v].surface_id \in {None, j}
    BY <2>1, <2>2 DEF Allowed
  <2>4. NamesOnly(v, j)'
    BY <1>1, <1>3, <2>1, <2>3
  <2> QED
    BY <1>4, <2>1, <2>2, <2>3, <2>4
<1> QED
  BY <1>6, <1>7

LEMMA ServerKeepsWaiting ==
  ASSUME Inv, Named, Waiting, NEW w \in Windows,
         XCreate(w) \/ XMap(w) \/ XUnmap(w) \/ XDestroy(w) \/ XCommit(w)
  PROVE  Waiting'
<1>1. TypeOK /\ UNCHANGED <<orders, surface, win, focus>>
  BY ServerCases DEF Inv
<1>2. \A type, v : HasOrder(type, v)' <=> HasOrder(type, v)
  BY <1>1 DEF HasOrder, OrderAt
<1>3. /\ x \in [Windows -> XWindow] /\ \A v \in Windows : x[v].id \in Ids \cup {None}
      /\ \A k \in DOMAIN requests : requests[k].window \in Windows
  BY <1>1, QueuesHave, EventHas DEF TypeOK
<1>4. ASSUME \A v \in Windows : x'[v].override = x[v].override PROVE EarlyOverride'
  BY <1>1, <1>4 DEF Waiting, EarlyOverride
<1>5. CASE x[w].state = "unmapped" /\ x[w].override /\ Realise(w)
  <2>1. ~Queued("map_request", w) /\ ~HasOrder("map", w)
    BY <1>5 DEF Waiting, Asking
  <2>2. \A v \in Windows : MapForbidden(v)'
    <3>1. \A v \in Windows : x'[v].allow = x[v].allow
      BY <1>1, <1>5, RealiseEffects
    <3> QED
      BY <1>1, <3>1 DEF Waiting, Asking, MapForbidden, OrderAt
  <2> QED
    BY <1>1, <1>2, <1>5, <2>1, <2>2, RealiseKeepsWaiting
<1>6. ASSUME x'[w].id = x[w].id, UNCHANGED <<requests, free>>,
             NEW state, NEW type, Says(w, state, type),
             \/ x[w].state = "new" /\ state = "unmapped" /\ type = "create"
             \/ x[w].state = "unmapped" /\ state = "asked" /\ type = "map_request"
             \/ x[w].state \in {"unmapped", "asked"} /\ state = "gone" /\ type = "destroy"
      PROVE  Waiting'
  <2>1. \A v \in Windows : /\ x'[v].override = x[v].override /\ x'[v].id = x[v].id
                           /\ v # w => x'[v] = x[v]
    BY <1>6 DEF Says
  <2>2. Asking' /\ Allowed'
    BY <1>1, <1>6, <2>1, SaysKeepsAsking DEF Waiting
  <2>3. Requested' /\ HasSurface'
    BY <1>1, <1>3, <1>6, <2>1, RequestsKept DEF Waiting
  <2> QED
    BY <1>4, <2>1, <2>2, <2>3 DEF Waiting
<1>7. CASE /\ x[w].state = "mapped" /\ x'[w].id = None
           /\ Says(w, "unmapped", "unmap") /\ Asks(w, "destroy")
  <2>1. \A v \in Windows : /\ x'[v].override = x[v].override
                           /\ v # w => x'[v] = x[v]
    BY <1>7 DEF Says
  <2>2. Asking' /\ Allowed'
    BY <1>1, <1>7, <2>1, SaysKeepsAsking DEF Waiting
  <2>3. PICK i \in Ids : i = x[w].id
    BY <1>3, <1>7 DEF Inv, HasId
  <2>4. PICK r \in Requests : /\ r.type = "destroy" /\ r.id = i /\ r.window = w
                              /\ requests' = Append(requests, r)
    BY <1>7, <2>3 DEF Asks
  <2>5. surface[i].live \/ Comes(i)
    BY <2>3, XwmAssumption DEF Waiting, HasSurface
  <2>6. \A k \in DOMAIN requests : ~RequestAt(k, "destroy", i)
    BY <2>3 DEF Waiting, Requested
  <2>7. \A v \in Windows : x'[v].id # i
    <3>1. PICK own \in Owners : Agree(own)
      BY DEF Inv
    <3>2. \A v \in Windows : x[v].id = i => v = w
      BY <2>3, <3>1, XwmAssumption DEF Agree
    <3> QED
      BY <1>7, <2>1, <3>2, XwmAssumption
  <2>8. \A v \in Windows : x'[v].id \in {x[v].id, None} \/ (r.type = "create" /\ x'[v].id = r.id)
    BY <1>7, <2>1
  <2>9. Requested' /\ HasSurface'
    BY <1>1, <2>1, <2>4, <2>5, <2>6, <2>7, <2>8, RequestSent DEF Waiting
  <2> QED
    BY <1>4, <2>1, <2>2, <2>9 DEF Waiting
<1>8. CASE /\ x[w].state = "mapped" /\ x[w].allow /\ UNCHANGED <<xevents, free>> /\ Asks(w, "commit")
           /\ x'[w].state = x[w].state /\ x'[w].id = x[w].id /\ x'[w].override = x[w].override
           /\ x'[w].allow = x[w].allow /\ \A v \in Windows : v # w => x'[v] = x[v]
  <2>1. \A v \in Windows : /\ x'[v].override = x[v].override /\ x'[v].state = x[v].state
                           /\ x'[v].id = x[v].id /\ x'[v].allow = x[v].allow
    BY <1>8
  <2>2. PICK i \in Ids : i = x[w].id
    BY <1>3, <1>8 DEF Inv, HasId
  <2>3. PICK r \in Requests : /\ r.type = "commit" /\ r.id = i /\ r.window = w
                              /\ requests' = Append(requests, r)
    BY <1>8, <2>2 DEF Asks
  <2>4. surface[i].live \/ Comes(i)
    BY <2>2, XwmAssumption DEF Waiting, HasSurface
  <2>5. \A k \in DOMAIN requests : ~RequestAt(k, "destroy", i)
    BY <2>2 DEF Waiting, Requested
  <2>6. ~x[w].override => surface[i].role
    BY <1>8, <2>2 DEF Waiting, Allowed
  <2>7. Requested' /\ HasSurface'
    BY <1>1, <2>1, <2>3, <2>4, <2>5, <2>6, RequestSent DEF Waiting
  <2>8. Asking' /\ Allowed'
    <3>1. \A type, v : Queued(type, v)' <=> Queued(type, v)
      BY <1>8 DEF Queued, EventAt
    <3>2. \A v \in Windows : MapForbidden(v)' /\ AskedLast(v)'
      BY <1>1, <1>8, <2>1 DEF Waiting, Asking, MapForbidden, OrderAt, AskedLast, EventAt
    <3>3. Asking'
      BY <1>1, <1>2, <2>1, <3>1, <3>2 DEF Waiting, Asking
    <3>4. \A v, j : NamesOnly(v, j)' <=> NamesOnly(v, j)
      BY <1>8 DEF NamesOnly, EventAt
    <3>5. Allowed'
      BY <1>1, <1>2, <2>1, <3>4 DEF Waiting, Allowed
    <3> QED
      BY <3>3, <3>5
  <2> QED
    BY <1>4, <2>1, <2>7, <2>8 DEF Waiting
<1> QED
  BY <1>5, <1>6, <1>7, <1>8, ServerCases DEF Inv

LEMMA OrderKeepsWaiting == ASSUME Inv, Named, Waiting, XOrder PROVE Waiting'
<1>1. TypeOK /\ UNCHANGED <<surface, win, focus>> /\ orders # <<>> /\ orders' = Tail(orders)
  BY OrderCases DEF Inv
<1>2. PICK o \in Orders, w \in Windows : o = Head(orders) /\ w = o.window
  BY <1>1, OrderCases
<1>3. /\ \A v \in Windows : x[v].id \in Ids \cup {None}
      /\ \A k \in DOMAIN requests : requests[k].window \in Windows
  BY <1>1, QueuesHave, EventHas
<1>4. /\ \A type, v : HasOrder(type, v)' => HasOrder(type, v)
      /\ HasOrder(o.type, w)
      /\ \A v : MapForbidden(v) /\ o.type = "map" /\ w = v =>
           ~HasOrder("map", v)' /\ ~HasOrder("allow", v)' /\ ~x[v].allow
      /\ \A v : MapForbidden(v) /\ (o.type = "forbid" /\ w = v => ~x'[v].allow) => MapForbidden(v)'
  BY <1>1, <1>2, OrderDone
<1>5. CASE o.type = "map" /\ x[w].state = "asked" /\ Realise(w)
  <2>1. \A v \in Windows : MapForbidden(v)'
    BY <1>4, <1>5 DEF Waiting, Asking
  <2>2. /\ ~Queued("map_request", w) /\ ~HasOrder("map", w)'
        /\ ~x[w].allow /\ ~HasOrder("allow", w)'
        /\ ~Queued("surface_id", w) /\ win[w].surface_id = None
    BY <1>4, <1>5 DEF Waiting, Asking
  <2> QED
    BY <1>1, <1>4, <1>5, <2>1, <2>2, RealiseKeepsWaiting
<1>6. ASSUME \A v \in Windows : /\ x'[v].state = x[v].state /\ x'[v].id = x[v].id
                                /\ x'[v].override = x[v].override
                                /\ x'[v].allow => x[v].allow \/ HasOrder("allow", v),
             o.type = "forbid" => ~x'[w].allow, UNCHANGED <<xevents, requests>>
      PROVE  Waiting'
  <2>1. \A type, v : Queued(type, v)' <=> Queued(type, v)
    BY <1>6 DEF Queued, EventAt
  <2>2. \A v \in Windows : MapForbidden(v)'
    BY <1>4, <1>6 DEF Waiting, Asking
  <2>3. \A v \in Windows : AskedLast(v)'
    BY <1>6 DEF Waiting, Asking, AskedLast, EventAt
  <2>4. Asking'
    BY <1>1, <1>4, <1>6, <2>1, <2>2, <2>3 DEF Waiting, Asking
  <2>5. \A v, j : NamesOnly(v, j)' <=> NamesOnly(v, j)
    BY <1>6 DEF NamesOnly, EventAt
  <2>6. Allowed'
    BY <1>1, <1>4, <1>6, <2>5 DEF Waiting, Allowed
  <2>7. Requested' /\ HasSurface'
    BY <1>1, <1>3, <1>6, RequestsKept DEF Waiting
  <2>8. EarlyOverride'
    BY <1>1, <1>6 DEF Waiting, EarlyOverride
  <2> QED
    BY <2>4, <2>6, <2>7, <2>8 DEF Waiting
<1>7. CASE o.type = "map" /\ UNCHANGED <<x, xevents, requests>>
  BY <1>6, <1>7
<1>8. CASE /\ o.type \in {"allow", "forbid"} /\ UNCHANGED <<xevents, requests>>
           /\ x'[w].state = x[w].state /\ x'[w].id = x[w].id /\ x'[w].override = x[w].override
           /\ x'[w].allow <=> o.type = "allow"
           /\ \A v \in Windows : v # w => x'[v] = x[v]
  BY <1>4, <1>6, <1>8
<1> QED
  BY <1>1, <1>2, <1>5, <1>7, <1>8, OrderCases

LEMMA EventKeepsWaiting == ASSUME Inv, Ordered, Waiting, HandleEvent PROVE Waiting'
<1>0. TypeOK
  BY DEF Inv
<1>1. PICK e \in XEvents, w \in Windows : e = Head(xevents) /\ w = e.window
  BY <1>0, EventCases
<1>2. /\ xevents # <<>> /\ xevents' = Tail(xevents) /\ UNCHANGED <<x, free, requests>>
      /\ win \in [Windows -> Window] /\ win[w] \in Window /\ surface \in [Ids -> Surface]
      /\ None \notin Ids
  BY <1>0, EventCases, XwmAssumption DEF TypeOK
<1>3. \/ e.type = "create" /\ CreateNotify(w)
      \/ e.type = "map_request" /\ MapRequest(w)
      \/ e.type = "surface_id" /\ e.id \in Ids /\ SurfaceId(w, e.id)
      \/ e.type = "unmap" /\ UnmapNotify(w)
      \/ e.type = "destroy" /\ DestroyNotify(w)
  BY <1>0, <1>1, EventCases
<1>4. /\ \A type, v : Queued(type, v)' => Queued(type, v)
      /\ \A v : AskedLast(v) => AskedLast(v)'
      /\ \A v, i : NamesOnly(v, i) => NamesOnly(v, i)'
      /\ \A v, i : NamesOnly(v, i) /\ w = v /\ e.type = "surface_id" => e.id = i
      /\ Queued(e.type, w)
      /\ \A v : AskedLast(v) /\ w = v /\ e.type = "map_request" =>
           ~Queued("map_request", v)' /\ ~Queued("surface_id", v)'
  BY <1>0, <1>1, <1>2, ReadEvents
<1>5. /\ \A v \in Windows : x[v].id \in Ids \cup {None}
      /\ \A k \in DOMAIN requests : requests[k].window \in Windows
  BY <1>0, QueuesHave, EventHas
<1>6. ASSUME \A v \in Windows : v # w => win'[v] = win[v],
             \A j \in Ids : /\ surface'[j].live = surface[j].live /\ surface'[j].owner = surface[j].owner
                            /\ surface[j].role => surface'[j].role
                            /\ surface'[j].early => surface[j].early,
             \A v \in Windows : MapForbidden(v)',
             \A v \in Windows : HasOrder("map", v)' => HasOrder("map", v) \/ (v = w /\ e.type = "map_request"),
             \A v \in Windows : HasOrder("allow", v)' =>
               HasOrder("allow", v) \/ (v = w /\ e.type = "surface_id" /\ surface'[e.id].role),
             win'[w].surface_id \in {None, win[w].surface_id}
               \/ (e.type = "surface_id" /\ win'[w].surface_id = e.id),
             e.type = "map_request" => win'[w].surface_id = None
      PROVE  Waiting'
  <2>1. Asking'
    <3> SUFFICES ASSUME NEW v \in Windows
                 PROVE  /\ x[v].state \notin {"asked", "gone"} =>
                             ~Queued("map_request", v)' /\ ~HasOrder("map", v)'
                        /\ HasOrder("map", v)' =>
                             /\ ~Queued("map_request", v)' /\ ~Queued("surface_id", v)'
                             /\ win'[v].surface_id = None
                        /\ AskedLast(v)' /\ MapForbidden(v)'
      BY <1>2 DEF Asking
    <3>1. /\ x[v].state \notin {"asked", "gone"} => ~Queued("map_request", v) /\ ~HasOrder("map", v)
          /\ HasOrder("map", v) =>
               ~Queued("map_request", v) /\ ~Queued("surface_id", v) /\ win[v].surface_id = None
          /\ AskedLast(v)
      BY DEF Waiting, Asking
    <3> QED
      BY <1>4, <1>6, <3>1
  <2>2. Allowed'
    <3> SUFFICES ASSUME NEW v \in Windows, NEW j \in Ids, ~x[v].override, x[v].state = "mapped", x[v].id = j
                 PROVE  /\ x[v].allow \/ HasOrder("allow", v)' => surface'[j].role
                        /\ NamesOnly(v, j)'
                        /\ win'[v].surface_id \in {None, j}
      BY <1>2 DEF Allowed
    <3>1. /\ x[v].allow \/ HasOrder("allow", v) => surface[j].role
          /\ NamesOnly(v, j) /\ win[v].surface_id \in {None, j}
      BY DEF Waiting, Allowed
    <3> QED
      BY <1>4, <1>6, <3>1
  <2>3. Requested' /\ HasSurface'
    BY <1>2, <1>5, <1>6, RequestsKept DEF Waiting
  <2>4. EarlyOverride'
    BY <1>2, <1>6 DEF Waiting, EarlyOverride
  <2> QED
    BY <2>1, <2>2, <2>3, <2>4 DEF Waiting
<1>7. ASSUME UNCHANGED orders
      PROVE  /\ \A v \in Windows : MapForbidden(v)'
             /\ \A type, v : HasOrder(type, v)' <=> HasOrder(type, v)
  BY <1>2, <1>7 DEF Waiting, Asking, MapForbidden, HasOrder, OrderAt
<1>8. CASE e.type = "create" /\ CreateNotify(w)
  <2>1. /\ win'[w] = [NoWindow EXCEPT !.known = TRUE, !.override = x[w].override]
        /\ UNCHANGED <<surface, orders>> /\ \A v \in Windows : v # w => win'[v] = win[v]
    BY <1>2, <1>8 DEF CreateNotify
  <2>2. win'[w].surface_id = None
    BY <2>1 DEF NoWindow
  <2> QED
    BY <1>6, <1>7, <2>1, <2>2
<1>9. CASE e.type = "map_request" /\ MapRequest(w)
  <2>1. /\ win'[w] = [win[w] EXCEPT !.frame = TRUE]
        /\ UNCHANGED surface /\ \A v \in Windows : v # w => win'[v] = win[v]
        /\ orders' = orders \o MapOrders(w)
    BY <1>2, <1>9 DEF MapRequest
  <2>2. win'[w].surface_id = win[w].surface_id
    BY <1>2, <2>1 DEF Window
  <2>3. win[w].surface_id = None
    <3>1. EventAt(1, "map_request", w) /\ 1 \in DOMAIN xevents
      BY <1>0, <1>1, <1>2, <1>9, TailPositions DEF EventAt, TypeOK
    <3>2. Cleared(w, 1)
      BY <3>1 DEF Ordered, UnmapsFirst
    <3> QED
      BY <3>2 DEF Cleared, Busy
  <2>4. ~HasOrder("map", w)
    BY <1>4, <1>9 DEF Waiting, Asking
  <2>5. /\ \A type, v : HasOrder(type, v)' <=>
             HasOrder(type, v) \/ (type \in {"forbid", "map"} /\ v = w)
        /\ \A v : MapForbidden(v) => MapForbidden(v)'
    BY <1>0, <1>2, <2>1, <2>4, MapOrdersSent
  <2>6. \A v \in Windows : MapForbidden(v)'
    BY <2>5 DEF Waiting, Asking
  <2> QED
    BY <1>6, <1>9, <2>1, <2>2, <2>3, <2>5, <2>6
<1>10. CASE e.type = "surface_id" /\ e.id \in Ids /\ SurfaceId(w, e.id)
  <2>1. PICK i \in Ids : i = e.id
    BY <1>10
  <2>2. CASE UNCHANGED <<win, surface, orders>>
    BY <1>6, <1>7, <1>10, <2>2
  <2>3. CASE MapShellSurface(w, i, surface)
    <3>1. /\ \A v \in Windows : v # w => win'[v] = win[v]
          /\ win'[w].surface_id = None
      BY <1>0, <1>2, <2>3, MapEffects
    <3>2. /\ surface'[i].role /\ surface'[i].live = surface[i].live /\ surface'[i].owner = surface[i].owner
          /\ surface'[i].early <=> surface[i].early
          /\ \A j \in Ids : j # i => surface'[j] = surface[j]
      BY <1>0, <1>2, <2>3, MapEffects
    <3>3. ~HasOrder("map", w)
      BY <1>4, <1>10 DEF Waiting, Asking
    <3>4. CASE UNCHANGED orders
      BY <1>6, <1>7, <1>10, <3>1, <3>2, <3>4
    <3>5. CASE orders' = Append(orders, Order("allow", w))
      <4>1. PICK o \in Orders : o.type = "allow" /\ o.window = w /\ orders' = Append(orders, o)
        BY <3>5 DEF Order, Orders
      <4>2. /\ \A type, v : HasOrder(type, v)' <=> HasOrder(type, v) \/ (o.type = type /\ o.window = v)
            /\ \A v : /\ MapForbidden(v) /\ x'[v].allow = x[v].allow
                      /\ o.window = v => ~HasOrder("map", v) /\ o.type # "map"
                      => MapForbidden(v)'
        BY <1>0, <4>1, OrderSent
      <4>3. \A v \in Windows : MapForbidden(v)'
        BY <1>2, <3>3, <4>1, <4>2 DEF Waiting, Asking
      <4> QED
        BY <1>6, <1>10, <2>1, <3>1, <3>2, <4>1, <4>2, <4>3
    <3> QED
      BY <1>0, <1>2, <2>3, <3>4, <3>5, MapEffects
  <2>4. CASE win' = [win EXCEPT ![w].surface_id = i] /\ UNCHANGED <<surface, orders>>
    <3>1. /\ win'[w].surface_id = i /\ \A v \in Windows : v # w => win'[v] = win[v]
      BY <1>2, <2>4 DEF Window
    <3> QED
      BY <1>6, <1>7, <1>10, <2>1, <2>4, <3>1
  <2> QED
    BY <1>10, <2>1, <2>2, <2>3, <2>4 DEF SurfaceId
<1>11. CASE e.type = "unmap" /\ UnmapNotify(w)
  <2>1. /\ win'[w] = [win[w] EXCEPT !.surface_id = None, !.surface = None, !.shsurf = FALSE]
        /\ UNCHANGED <<surface, orders>> /\ \A v \in Windows : v # w => win'[v] = win[v]
    BY <1>2, <1>11 DEF UnmapNotify
  <2>2. win'[w].surface_id = None
    BY <1>2, <2>1 DEF Window
  <2> QED
    BY <1>6, <1>7, <2>1, <2>2
<1>12. CASE e.type = "destroy" /\ DestroyNotify(w)
  <2>1. win'[w] = NoWindow /\ UNCHANGED <<surface, orders>> /\ \A v \in Windows : v # w => win'[v] = win[v]
    BY <1>2, <1>12 DEF DestroyNotify
  <2>2. win'[w].surface_id = None
    BY <2>1 DEF NoWindow
  <2> QED
    BY <1>6, <1>7, <2>1, <2>2
<1> QED
  BY <1>3, <1>8, <1>9, <1>10, <1>11, <1>12

LEMMA DispatchKeepsWaiting == ASSUME Inv, Named, Waiting, Dispatch PROVE Waiting'
<1>0. TypeOK
  BY DEF Inv
<1>1. PICK r \in Requests, i \in Ids, owner \in Windows :
        r = Head(requests) /\ r.id = i /\ r.window = owner
  BY <1>0, RequestCases
<1>2. /\ requests # <<>> /\ requests' = Tail(requests) /\ UNCHANGED <<x, xevents, focus>>
      /\ win \in [Windows -> Window] /\ None \notin Ids
  BY <1>0, RequestCases, XwmAssumption DEF TypeOK
<1>3. \/ r.type = "create" /\ CreateSurface(i, owner)
      \/ r.type = "commit" /\ CommitSurface(i)
      \/ r.type = "destroy" /\ DestroySurface(i)
  BY <1>0, <1>1, RequestCases
<1>4. /\ r.type = "create" => ~surface[i].live
      /\ r.type \in {"commit", "destroy"} => surface[i].live
      /\ r.type = "destroy" => \A w \in Windows : x[w].id # i
      /\ r.type = "commit" /\ ~x[r.window].override => surface[i].role
  BY <1>0, <1>1, <1>2, NextRequest DEF Waiting
<1>5. /\ \A type, v : Queued(type, v)' <=> Queued(type, v)
      /\ \A v, j : NamesOnly(v, j)' <=> NamesOnly(v, j)
      /\ \A v : AskedLast(v)' <=> AskedLast(v)
  BY <1>2 DEF Queued, NamesOnly, AskedLast, EventAt
<1>6. ASSUME \A v \in Windows : win'[v].surface_id \in {None, win[v].surface_id},
             \A j \in Ids : j # i => surface'[j] = surface[j],
             surface'[i].live <=> r.type # "destroy",
             r.type = "commit" => (surface[i].role => surface'[i].role),
             surface'[i].early => surface'[i].owner \in Windows /\ x[surface'[i].owner].override,
             \A v \in Windows : MapForbidden(v)',
             \A v \in Windows : HasOrder("map", v)' => HasOrder("map", v),
             \A v \in Windows : HasOrder("allow", v)' =>
               HasOrder("allow", v) \/ (win[v].surface_id = i /\ surface'[i].role)
      PROVE  Waiting'
  <2>1. Asking'
    BY <1>2, <1>5, <1>6 DEF Waiting, Asking
  <2>2. Allowed'
    <3> SUFFICES ASSUME NEW v \in Windows, NEW j \in Ids, ~x[v].override, x[v].state = "mapped", x[v].id = j
                 PROVE  /\ x[v].allow \/ HasOrder("allow", v)' => surface'[j].role
                        /\ NamesOnly(v, j)'
                        /\ win'[v].surface_id \in {None, j}
      BY <1>2 DEF Allowed
    <3>1. /\ x[v].allow \/ HasOrder("allow", v) => surface[j].role
          /\ NamesOnly(v, j) /\ win[v].surface_id \in {None, j}
      BY DEF Waiting, Allowed
    <3>2. surface[j].role => surface'[j].role
      <4>1. CASE j # i
        BY <1>6, <4>1
      <4>2. CASE j = i /\ r.type = "create"
        BY <1>4, <4>2 DEF Named, RoleIsLive
      <4>3. CASE j = i /\ r.type = "commit"
        BY <1>6, <4>3
      <4>4. j = i => r.type # "destroy"
        BY <1>4
      <4> QED
        BY <1>3, <4>1, <4>2, <4>3, <4>4
    <3> QED
      BY <1>2, <1>5, <1>6, <3>1, <3>2
  <2>3. Requested' /\ HasSurface'
    BY <1>0, <1>1, <1>2, <1>3, <1>6, RequestDone DEF Waiting, Named
  <2>4. EarlyOverride'
    BY <1>2, <1>6 DEF Waiting, EarlyOverride
  <2> QED
    BY <2>1, <2>2, <2>3, <2>4 DEF Waiting
<1>7. ASSUME UNCHANGED orders
      PROVE  /\ \A v \in Windows : MapForbidden(v)'
             /\ \A type, v : HasOrder(type, v)' <=> HasOrder(type, v)
  BY <1>2, <1>7 DEF Waiting, Asking, MapForbidden, HasOrder, OrderAt
<1>8. CASE r.type = "create" /\ CreateSurface(i, owner)
  <2>1. PICK c \in [Ids -> Surface] :
          /\ c[i].live /\ c[i].owner = owner /\ ~c[i].role /\ ~c[i].early
          /\ \A j \in Ids : j # i => c[j] = surface[j]
          /\ \/ surface' = c /\ UNCHANGED <<win, orders>>
             \/ \E w \in Windows : win[w].surface_id = i /\ MapShellSurface(w, i, c)
    BY <1>0, <1>8, CreateEffects
  <2>2. CASE surface' = c /\ UNCHANGED <<win, orders>>
    BY <1>6, <1>7, <1>8, <2>1, <2>2
  <2>3. ASSUME NEW w \in Windows, win[w].surface_id = i, MapShellSurface(w, i, c)
        PROVE  Waiting'
    <3>1. /\ \A v \in Windows : v # w => win'[v] = win[v]
          /\ win'[w].surface_id = None
      BY <1>0, <2>3, MapEffects
    <3>2. /\ surface'[i].role /\ surface'[i].live = c[i].live
          /\ surface'[i].early <=> c[i].early
      BY <1>0, <2>3, MapEffects
    <3>3. \A j \in Ids : j # i => surface'[j] = c[j]
      BY <1>0, <2>3, MapEffects
    <3>4. /\ \A v \in Windows : win'[v].surface_id \in {None, win[v].surface_id}
          /\ \A j \in Ids : j # i => surface'[j] = surface[j]
          /\ surface'[i].live /\ ~surface'[i].early
      BY <2>1, <3>1, <3>2, <3>3
    <3>5. ~HasOrder("map", w)
      BY <1>2, <2>3 DEF Waiting, Asking
    <3>6. CASE UNCHANGED orders
      BY <1>6, <1>7, <1>8, <3>4, <3>6
    <3>7. CASE orders' = Append(orders, Order("allow", w))
      <4>1. PICK o \in Orders : o.type = "allow" /\ o.window = w /\ orders' = Append(orders, o)
        BY <3>7 DEF Order, Orders
      <4>2. /\ \A type, v : HasOrder(type, v)' <=> HasOrder(type, v) \/ (o.type = type /\ o.window = v)
            /\ \A v : /\ MapForbidden(v) /\ x'[v].allow = x[v].allow
                      /\ o.window = v => ~HasOrder("map", v) /\ o.type # "map"
                      => MapForbidden(v)'
        BY <1>0, <4>1, OrderSent
      <4>3. \A v \in Windows : MapForbidden(v)'
        BY <1>2, <3>5, <4>1, <4>2 DEF Waiting, Asking
      <4> QED
        BY <1>6, <1>8, <2>3, <3>2, <3>4, <4>1, <4>2, <4>3
    <3> QED
      BY <1>0, <2>3, <3>6, <3>7, MapEffects
  <2> QED
    BY <2>1, <2>2, <2>3
<1>9. CASE r.type = "commit" /\ CommitSurface(i)
  <2>1. /\ UNCHANGED <<win, orders>> /\ \A j \in Ids : j # i => surface'[j] = surface[j]
        /\ surface'[i].live = surface[i].live /\ surface'[i].owner = surface[i].owner
        /\ surface'[i].role = surface[i].role
        /\ surface'[i].early <=> surface[i].early \/ ~surface[i].role
    BY <1>0, <1>9, CommitEffects
  <2>2. surface[i].owner = owner
    <3>1. PICK own \in Owners : Agree(own)
      BY DEF Inv
    <3>2. 1 \in DOMAIN requests /\ r = requests[1]
      BY <1>0, <1>1, <1>2, TailPositions DEF TypeOK
    <3> QED
      BY <1>1, <1>4, <1>9, <3>1, <3>2 DEF Agree
  <2>3. surface'[i].early => surface'[i].owner \in Windows /\ x[surface'[i].owner].override
    BY <1>1, <1>4, <1>9, <2>1, <2>2 DEF Waiting, EarlyOverride
  <2> QED
    BY <1>4, <1>6, <1>7, <1>9, <2>1, <2>3
<1>10. CASE r.type = "destroy" /\ DestroySurface(i)
  <2>1. /\ surface'[i] = NoSurface /\ \A j \in Ids : j # i => surface'[j] = surface[j]
        /\ UNCHANGED orders /\ \A w \in Windows : win'[w].surface_id = win[w].surface_id
    BY <1>0, <1>10, DestroyEffects
  <2>2. ~surface'[i].live /\ ~surface'[i].early
    BY <2>1 DEF NoSurface
  <2> QED
    BY <1>6, <1>7, <1>10, <2>1, <2>2
<1> QED
  BY <1>3, <1>8, <1>9, <1>10

LEMMA InitWaiting == Init => Waiting
<1> SUFFICES ASSUME Init PROVE Waiting
  OBVIOUS
<1>1. xevents = <<>> /\ orders = <<>> /\ requests = <<>>
  BY DEF Init
<1>2. DOMAIN xevents = {} /\ DOMAIN orders = {} /\ DOMAIN requests = {}
  BY <1>1
<1>3. \A w \in Windows : x[w].state = "new" /\ x[w].id = None
  BY DEF Init
<1>4. \A i \in Ids : ~surface[i].early
  BY DEF Init, NoSurface
<1>5. Asking
  BY <1>2 DEF Asking, Queued, HasOrder, AskedLast, MapForbidden
<1>6. Allowed
  BY <1>3 DEF Allowed
<1>7. Requested /\ HasSurface /\ EarlyOverride
  BY <1>2, <1>3, <1>4 DEF Requested, HasSurface, EarlyOverride
<1> QED
  BY <1>5, <1>6, <1>7 DEF Waiting

LEMMA NextKeepsWaiting == ASSUME Inv, Ordered, Named, Waiting, [Next]_vars PROVE Waiting'
<1>1. CASE UNCHANGED <<x, xevents, orders, requests, surface, win>>
  <2>1. Asking'
    BY <1>1 DEF Waiting, Asking, Queued, HasOrder, AskedLast, MapForbidden, EventAt, OrderAt
  <2>2. Allowed'
    BY <1>1 DEF Waiting, Allowed, HasOrder, OrderAt, NamesOnly, EventAt
  <2>3. Requested' /\ HasSurface' /\ EarlyOverride'
    BY <1>1 DEF Waiting, Requested, HasSurface, EarlyOverride, Comes, RequestAt
  <2> QED
    BY <2>1, <2>2, <2>3 DEF Waiting
<1>2. ASSUME NEW w \in Windows \cup {None}, Activate(w) PROVE Waiting'
  BY <1>1, <1>2 DEF Activate
<1>3. CASE XOrder
  BY <1>3, OrderKeepsWaiting
<1>4. ASSUME NEW w \in Windows, XCreate(w) \/ XMap(w) \/ XUnmap(w) \/ XDestroy(w) \/ XCommit(w)
      PROVE  Waiting'
  BY <1>4, ServerKeepsWaiting
<1>5. CASE HandleEvent
  BY <1>5, EventKeepsWaiting
<1>6. CASE Dispatch
  BY <1>6, DispatchKeepsWaiting
<1> QED
  BY <1>1, <1>2, <1>3, <1>4, <1>5, <1>6 DEF Next, vars

(* Where ids are not used again, a window is mapped for Xwayland only      *)
(* after weston_wm_handle_map_request() has forbidden commits, and commits *)
(* are allowed again only for a surface that has its role.                 *)
THEOREM WaitInvariance == ASSUME ~Reuse PROVE Spec => []Waiting
<1>1. Inv /\ Ordered /\ Named /\ Waiting /\ [Next]_vars => Waiting'
  BY NextKeepsWaiting
<1> QED
  BY <1>1, InitWaiting, Invariance, OrderInvariance, NameInvariance, PTL DEF Spec

(* Xwayland never commits to the surface of a managed window before the    *)
(* surface has its role: weston_wm_handle_map_request() forbids commits    *)
(* before it maps the window, and only xserver_map_shell_surface(), which  *)
(* gives the role, allows them again.                                      *)
THEOREM CommitsHaveRoles == ASSUME ~Reuse PROVE Spec => []CommitHasRole
<1>1. Waiting => CommitHasRole
  BY DEF Waiting, EarlyOverride, CommitHasRole
<1> QED
  BY <1>1, WaitInvariance, PTL
=============================================================================
