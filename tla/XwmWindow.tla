------------------------------ MODULE XwmWindow ------------------------------
(***************************************************************************)
(* The X11 window manager of weston, which gives the surfaces of Xwayland  *)
(* a place in the shell.  Xwayland speaks to it over two connections that  *)
(* are read independently of each other: X events, and the requests of a   *)
(* Wayland client.  For every window it realises, it creates a surface     *)
(* over the one and names the surface's id over the other; either may be   *)
(* read first, and either may be ahead by any number of messages.  A third *)
(* queue carries the window manager's requests to the X server.            *)
(*                                                                         *)
(* The X server is external: modelled as src/xwayland uses it.             *)
(***************************************************************************)
EXTENDS Naturals, Sequences, FiniteSets

CONSTANTS
  Windows,    \* X11 windows, each created once
  Fullscreen, \* those that are fullscreen when they are mapped
  MaxId,      \* bound: object ids of surfaces in Xwayland's connection
  Reuse,      \* whether ids are used again, once the compositor frees them
  None,
  MaxEvents   \* bound: X events that are not read

Ids == 1..MaxId

ASSUME XwmAssumption ==
  /\ MaxId \in Nat /\ Reuse \in BOOLEAN
  /\ None \notin Windows \cup Ids /\ Fullscreen \subseteq Windows

VARIABLES
  x,        \* X server: its windows
  free,     \* X server: ids it may use
  xevents,  \* X events, not read
  orders,   \* requests of the window manager, not carried out
  requests, \* Wayland requests of the X server, not dispatched
  surface,  \* compositor: the surface with an id
  win,      \* struct weston_wm_window
  focus     \* weston_wm.focus_window

vars == <<x, free, xevents, orders, requests, surface, win, focus>>

XWindow ==
  [ state : {"new", "unmapped", "asked", "mapped", "gone"},
    override : BOOLEAN,         \* override-redirect: mapped without asking
    id : Ids \cup {None},       \* of its surface
    allow : BOOLEAN,            \* property _XWAYLAND_ALLOW_COMMITS
    drawn : BOOLEAN ]           \* has committed to its surface

XEvents ==
  [type : {"create", "map_request", "unmap", "destroy"}, window : Windows, id : {None}]
    \cup [type : {"surface_id"}, window : Windows, id : Ids]

Orders == [type : {"map", "allow", "forbid"}, window : Windows]

Requests == [type : {"create", "commit", "destroy"}, id : Ids, window : Windows]

Surface ==
  [ live : BOOLEAN,
    owner : Windows \cup {None},  \* history: realised for
    role : BOOLEAN,               \* surface->committed is the shell's
    shown : BOOLEAN,              \* committed with a role
    early : BOOLEAN ]             \* committed without

Window ==
  [ known : BOOLEAN, override : BOOLEAN,
    frame : BOOLEAN,              \* frame_id # XCB_WINDOW_NONE
    surface : Ids \cup {None},
    shsurf : BOOLEAN,             \* shsurf # NULL
    surface_id : Ids \cup {None} ]  \* on the unpaired list if not None

NoSurface == [live |-> FALSE, owner |-> None, role |-> FALSE, shown |-> FALSE, early |-> FALSE]

NoWindow == [known |-> FALSE, override |-> FALSE, frame |-> FALSE, surface |-> None,
             shsurf |-> FALSE, surface_id |-> None]

(* What the variables hold.                                                *)
TypeOK ==
  /\ x \in [Windows -> XWindow] /\ free \subseteq Ids
  /\ xevents \in Seq(XEvents) /\ orders \in Seq(Orders) /\ requests \in Seq(Requests)
  /\ surface \in [Ids -> Surface] /\ win \in [Windows -> Window]
  /\ focus \in Windows \cup {None}

Init ==
  /\ x \in [Windows -> [state : {"new"}, override : BOOLEAN, id : {None}, allow : {TRUE},
                        drawn : {FALSE}]]
  /\ free = Ids /\ xevents = <<>> /\ orders = <<>> /\ requests = <<>>
  /\ surface = [i \in Ids |-> NoSurface]
  /\ win = [w \in Windows |-> NoWindow]
  /\ focus = None

Event(type, w) == [type |-> type, window |-> w, id |-> None]

-----------------------------------------------------------------------------
(* The X server.                                                           *)

XUnchanged == UNCHANGED <<surface, win, focus>>

CanSend == Len(xevents) < MaxEvents

(* A window becomes viewable: a surface for it, and its id in an event.    *)
Realise(w) ==
  \E i \in free :
    /\ \A j \in free : i <= j
    /\ x' = [x EXCEPT ![w].state = "mapped", ![w].id = i, ![w].drawn = FALSE]
    /\ free' = free \ {i}
    /\ requests' = Append(requests, [type |-> "create", id |-> i, window |-> w])
    /\ xevents' = Append(xevents, [type |-> "surface_id", window |-> w, id |-> i])

XCreate(w) ==
  /\ x[w].state = "new" /\ CanSend
  /\ x' = [x EXCEPT ![w].state = "unmapped"]
  /\ xevents' = Append(xevents, Event("create", w))
  /\ XUnchanged /\ UNCHANGED <<free, orders, requests>>

(* Every window that has asked to be mapped will find an id.               *)
CanMap == Cardinality({w \in Windows : x[w].state = "asked"}) < Cardinality(free)

(* The client maps its window; once, until it is mapped.                   *)
XMap(w) ==
  /\ x[w].state = "unmapped" /\ CanSend /\ CanMap
  /\ IF x[w].override THEN Realise(w)
     ELSE /\ x' = [x EXCEPT ![w].state = "asked"]
          /\ xevents' = Append(xevents, Event("map_request", w))
          /\ UNCHANGED <<free, requests>>
  /\ XUnchanged /\ UNCHANGED orders

XUnmap(w) ==
  /\ x[w].state = "mapped" /\ CanSend
  /\ x' = [x EXCEPT ![w].state = "unmapped", ![w].id = None]
  /\ requests' = Append(requests, [type |-> "destroy", id |-> x[w].id, window |-> w])
  /\ xevents' = Append(xevents, Event("unmap", w))
  /\ XUnchanged /\ UNCHANGED <<free, orders>>

XDestroy(w) ==
  /\ x[w].state \in {"unmapped", "asked"} /\ CanSend
  /\ x' = [x EXCEPT ![w].state = "gone"]
  /\ xevents' = Append(xevents, Event("destroy", w))
  /\ XUnchanged /\ UNCHANGED <<free, orders, requests>>

(* A request of the window manager is carried out.                         *)
XOrder ==
  /\ orders # <<>>
  /\ orders' = Tail(orders)
  /\ LET w == Head(orders).window IN
     CASE Head(orders).type = "map" /\ x[w].state = "asked" -> CanSend /\ Realise(w)
       [] Head(orders).type = "map" /\ x[w].state # "asked" ->
            UNCHANGED <<x, free, xevents, requests>>
       [] Head(orders).type # "map" ->
            /\ x' = [x EXCEPT ![w].allow = Head(orders).type = "allow"]
            /\ UNCHANGED <<free, xevents, requests>>
  /\ XUnchanged

(* The window has been drawn to.                                           *)
XCommit(w) ==
  /\ x[w].state = "mapped" /\ x[w].allow /\ ~x[w].drawn
  /\ x' = [x EXCEPT ![w].drawn = TRUE]
  /\ requests' = Append(requests, [type |-> "commit", id |-> x[w].id, window |-> w])
  /\ XUnchanged /\ UNCHANGED <<free, xevents, orders>>

-----------------------------------------------------------------------------
(* Pairing.                                                                *)

(* xserver_map_shell_surface() with the surface of an id.  A surface that  *)
(* has a role already leaves the window without one; for a window that is  *)
(* fullscreen the function returns before it allows commits.               *)
MapShellSurface(w, i, s) ==
  /\ win' = [win EXCEPT ![w].surface = i, ![w].surface_id = None,
                        ![w].shsurf = @ \/ ~s[i].role]
  /\ surface' = [s EXCEPT ![i].role = TRUE]
  /\ orders' = IF win[w].frame /\ ~s[i].role /\ w \notin Fullscreen
               THEN Append(orders, [type |-> "allow", window |-> w]) ELSE orders

(* Slip: takes the first window that waits.                                *)
UnpairedAny(i) == {w \in Windows : win[w].surface_id # None}

(* The windows on the unpaired list that wait for the id.                  *)
Unpaired(i) == {w \in Windows : win[w].surface_id = i}

-----------------------------------------------------------------------------
(* X events.                                                               *)

CreateNotify(w) ==
  /\ win' = [win EXCEPT ![w] = [NoWindow EXCEPT !.known = TRUE, !.override = x[w].override]]
  /\ UNCHANGED <<orders, surface, focus>>

(* Slip: commits are forbidden when the window is mapped already.          *)
MapOrdersLate(w) ==
  <<[type |-> "map", window |-> w], [type |-> "forbid", window |-> w]>>

(* No commits before the surface has its role.                             *)
MapOrders(w) ==
  <<[type |-> "forbid", window |-> w], [type |-> "map", window |-> w]>>

(* weston_wm_handle_map_request().                                         *)
MapRequest(w) ==
  /\ win' = [win EXCEPT ![w].frame = TRUE]
  /\ orders' = orders \o MapOrders(w)
  /\ UNCHANGED <<surface, focus>>

(* Slip: an id that comes before its surface is dropped.                   *)
SurfaceIdMissed(w, i) ==
  /\ IF win[w].surface_id = None /\ surface[i].live THEN MapShellSurface(w, i, surface)
     ELSE UNCHANGED <<win, surface, orders>>
  /\ UNCHANGED focus

(* weston_wm_window_handle_surface_id().                                   *)
SurfaceId(w, i) ==
  /\ IF win[w].surface_id # None THEN UNCHANGED <<win, surface, orders>>
     ELSE IF surface[i].live THEN MapShellSurface(w, i, surface)
     ELSE win' = [win EXCEPT ![w].surface_id = i] /\ UNCHANGED <<surface, orders>>
  /\ UNCHANGED focus

(* Slip: the window stays on the unpaired list.                            *)
UnmapNotifyUnpaired(w) ==
  /\ win' = [win EXCEPT ![w].surface = None, ![w].shsurf = FALSE]
  /\ focus' = IF focus = w THEN None ELSE focus
  /\ UNCHANGED <<orders, surface>>

(* Slip: the focus stays.                                                  *)
UnmapNotifyFocused(w) ==
  /\ win' = [win EXCEPT ![w].surface_id = None, ![w].surface = None, ![w].shsurf = FALSE]
  /\ UNCHANGED <<orders, surface, focus>>

(* weston_wm_handle_unmap_notify().                                        *)
UnmapNotify(w) ==
  /\ win' = [win EXCEPT ![w].surface_id = None, ![w].surface = None, ![w].shsurf = FALSE]
  /\ focus' = IF focus = w THEN None ELSE focus
  /\ UNCHANGED <<orders, surface>>

(* weston_wm_window_destroy().                                             *)
DestroyNotify(w) ==
  /\ win' = [win EXCEPT ![w] = NoWindow]
  /\ UNCHANGED <<orders, surface, focus>>

HandleEvent ==
  /\ xevents # <<>>
  /\ xevents' = Tail(xevents)
  /\ LET e == Head(xevents) IN
     CASE e.type = "create"      -> CreateNotify(e.window)
       [] e.type = "map_request" -> MapRequest(e.window)
       [] e.type = "surface_id"  -> SurfaceId(e.window, e.id)
       [] e.type = "unmap"       -> UnmapNotify(e.window)
       [] e.type = "destroy"     -> DestroyNotify(e.window)
  /\ UNCHANGED <<x, free, requests>>

-----------------------------------------------------------------------------
(* Wayland requests.                                                       *)

(* weston_wm_create_surface().                                             *)
CreateSurface(i, owner) ==
  LET created == [surface EXCEPT ![i] = [NoSurface EXCEPT !.live = TRUE, !.owner = owner]] IN
  /\ IF Unpaired(i) = {} THEN surface' = created /\ UNCHANGED <<win, orders>>
     ELSE \E w \in Unpaired(i) : MapShellSurface(w, i, created)
  /\ UNCHANGED free

CommitSurface(i) ==
  /\ surface' = [surface EXCEPT ![i].shown = @ \/ surface[i].role,
                                ![i].early = @ \/ ~surface[i].role]
  /\ UNCHANGED <<win, orders, free>>

(* surface_destroy(); the id is the X server's again.                      *)
DestroySurface(i) ==
  /\ surface' = [surface EXCEPT ![i] = NoSurface]
  /\ win' = [w \in Windows |->
              IF win[w].surface = i THEN [win[w] EXCEPT !.surface = None, !.shsurf = FALSE]
                                    ELSE win[w]]
  /\ free' = IF Reuse THEN free \cup {i} ELSE free
  /\ UNCHANGED orders

Dispatch ==
  /\ requests # <<>>
  /\ requests' = Tail(requests)
  /\ LET r == Head(requests) IN
     CASE r.type = "create"  -> CreateSurface(r.id, r.window)
       [] r.type = "commit"  -> CommitSurface(r.id)
       [] r.type = "destroy" -> DestroySurface(r.id)
  /\ UNCHANGED <<x, xevents, focus>>

-----------------------------------------------------------------------------
(* The shell.                                                              *)

(* weston_wm_window_activate(): a surface shown, or another client's.      *)
Activate(w) ==
  /\ w # None => win[w].surface # None /\ surface[win[w].surface].shown
  /\ w # focus
  /\ focus' = w
  /\ UNCHANGED <<x, free, xevents, orders, requests, surface, win>>

-----------------------------------------------------------------------------
Next ==
  \/ \E w \in Windows :
       \/ XCreate(w) \/ XMap(w) \/ XUnmap(w) \/ XDestroy(w) \/ XCommit(w)
       \/ Activate(w)
  \/ Activate(None)
  \/ XOrder
  \/ HandleEvent
  \/ Dispatch

(* Both connections are read, requests are carried out, and what is mapped *)
(* and may commit does.                                                    *)
Fairness ==
  /\ WF_vars(XOrder) /\ WF_vars(HandleEvent) /\ WF_vars(Dispatch)
  /\ \A w \in Windows : WF_vars(XCommit(w))

Spec == Init /\ [][Next]_vars /\ Fairness

-----------------------------------------------------------------------------
(* A window is given no surface but one that was realised for it.          *)
PairedRight ==
  \A w \in Windows : win[w].surface # None =>
    surface[win[w].surface].live /\ surface[win[w].surface].owner = w

(* The assertion of weston_wm_handle_map_request(): a map request never    *)
(* meets a shell surface.  And weston_wm_window_set_pending_state() finds  *)
(* one wherever there is a surface.                                        *)
NoAbort ==
  /\ xevents # <<>> /\ Head(xevents).type = "map_request" => ~win[Head(xevents).window].shsurf
  /\ \A w \in Windows : win[w].surface # None => win[w].shsurf

(* The focus does not point to a window that has been freed.               *)
FocusIsKnown == focus # None => win[focus].known

(* Xwayland does not commit to the surface of a managed window before the  *)
(* surface has its role in the shell.                                      *)
CommitHasRole ==
  \A i \in Ids : surface[i].early => x[surface[i].owner].override

(* A window that stays mapped is shown, whichever connection is read first *)
(* and however often it has been unmapped before: its surface is found and *)
(* commits are allowed.  (Not those mapped fullscreen, which never are.)   *)
ShownAtLast ==
  \A w \in Windows \ Fullscreen :
    <>[](x[w].state = "mapped") =>
      <>[](win[w].surface # None /\ win[w].surface = x[w].id
            /\ (surface[win[w].surface].shown \/ x[w].override))
=============================================================================
