---------------------------- MODULE XdgToplevel ----------------------------
(***************************************************************************)
(* One xdg_toplevel of libweston-desktop between three parties: the shell, *)
(* which decides on its state and size; the idle source that sends what    *)
(* was decided as a configure event; and the client, which acknowledges    *)
(* configures and commits buffers that match them, at its own pace.        *)
(*                                                                         *)
(* A configure is withheld, or a scheduled one withdrawn, when the client  *)
(* is believed to be in the wanted state already.  What the wanted state   *)
(* is compared with changes with the list of configures in flight.         *)
(*                                                                         *)
(* The modes stand for the states: "sized" for those that bind the client  *)
(* to the configured size (maximized, fullscreen), "free" for none of      *)
(* them; active for those that do not (activated, resizing).               *)
(***************************************************************************)
EXTENDS Integers, Sequences

CONSTANTS
  MaxSize,      \* bound: sizes are 1..MaxSize, one dimension of them
  MaxInFlight,  \* bound: configures sent and not acknowledged
  Margins       \* how much larger than its window geometry a buffer may be

ASSUME ConfigAssumption ==
  MaxSize \in Nat \ {0} /\ MaxInFlight \in Nat \ {0} /\ Margins \subseteq Nat

VARIABLES
  top,     \* struct weston_desktop_xdg_toplevel and its surface
  grabbed, \* the shell's resize grab is on
  told,    \* history: the configuration of the last configure event
  blind    \* history: since then, see Misjudged, the shell decided blindly

vars == <<top, grabbed, told, blind>>

Sizes == 0..MaxSize          \* 0: the client decides

Modes == {"free", "sized"}

States == [mode : Modes, active : BOOLEAN]

Confs == [state : States, size : Sizes]

NoConf == [state |-> [mode |-> "free", active |-> FALSE], size |-> 0]

Toplevel ==
  [ role : BOOLEAN,             \* base.role is TOPLEVEL, the resource exists
    added : BOOLEAN,            \* the shell knows it
    configured : BOOLEAN,       \* base.configured
    idle : BOOLEAN,             \* base.configure_idle # NULL
    list : Seq(Confs),          \* base.configure_list, oldest first
    pending : Confs,            \* what the shell wants
    next : Confs,               \* acknowledged last
    current : States,           \* committed last
    width : Sizes ]             \* of the surface; 0 without a buffer

NoToplevel ==
  [ role |-> FALSE, added |-> FALSE, configured |-> FALSE, idle |-> FALSE,
    list |-> <<>>, pending |-> NoConf, next |-> NoConf, current |-> NoConf.state,
    width |-> 0 ]

(* What the variables hold.                                                *)
TypeOK ==
  top \in Toplevel /\ grabbed \in BOOLEAN /\ told \in Confs /\ blind \in BOOLEAN

Init == top = NoToplevel /\ grabbed = FALSE /\ told = NoConf /\ blind = FALSE

-----------------------------------------------------------------------------
(* Scheduling.                                                             *)

(* Slip: looks at the oldest configure in flight.                          *)
ConfiguredOldest(t) ==
  IF t.list = <<>> THEN [state |-> t.current, size |-> t.width] ELSE t.list[1]

(* What the client is taken to be configured as.                           *)
Configured(t) ==
  IF t.list = <<>> THEN [state |-> t.current, size |-> t.width]
                   ELSE t.list[Len(t.list)]

(* weston_desktop_xdg_toplevel_state_compare().                            *)
PendingSame(t) ==
  /\ t.configured
  /\ t.pending.state = Configured(t).state
  /\ t.pending.size \in {0, Configured(t).size}

(* Slip: does not schedule while one is in flight.                         *)
ScheduleOnce(t) == [t EXCEPT !.idle = ~PendingSame(t) /\ t.list = <<>>]

(* weston_desktop_xdg_surface_schedule_configure().                        *)
ScheduleConfigure(t) == [t EXCEPT !.idle = ~PendingSame(t)]

(* The hooks by which the shell states what it wants.                      *)
SetActivated(t, active) == ScheduleConfigure([t EXCEPT !.pending.state.active = active])
SetMode(t, mode)        == ScheduleConfigure([t EXCEPT !.pending.state.mode = mode])
SetSize(t, size)        == ScheduleConfigure([t EXCEPT !.pending.size = size])

(* desktop-shell's set_maximized() and set_fullscreen().                   *)
ShellSetMode(t, mode, size) == SetSize(SetMode(t, mode), size)

(* A size for the mode: the output's, or none.                             *)
SizesFor(mode) == IF mode = "sized" THEN Sizes \ {0} ELSE {0}

(* weston_desktop_xdg_toplevel_ensure_added(), with desktop-shell's answer *)
(* to surface_added.                                                       *)
EnsureAdded(t) ==
  IF t.added THEN t
  ELSE [ScheduleConfigure(SetActivated(t, FALSE)) EXCEPT !.added = TRUE]

(* The comparison is with what the surface shows although the client has   *)
(* been configured otherwise: it has acknowledged the last configure and   *)
(* not committed, or the buffer does not have the size of the window.      *)
Misjudged(t) ==
  /\ t.configured /\ t.list = <<>>
  /\ \/ t.current # t.next.state
     \/ t.next.state.mode = "sized" /\ t.width \notin {0, t.next.size}

-----------------------------------------------------------------------------
(* The compositor.                                                         *)

(* Keyboard focus comes or goes, or a resize begins or ends; it does not   *)
(* begin on a surface that shows a mode.                                   *)
Activate(active) ==
  /\ top.added
  /\ top' = SetActivated(top, active)
  /\ grabbed' \in BOOLEAN
  /\ grabbed' => grabbed \/ top.current.mode = "free"
  /\ blind' = Misjudged(top)
  /\ UNCHANGED told

(* The shell maximizes on its own account, by a key binding.               *)
Maximize(mode, size) ==
  /\ top.added /\ size \in SizesFor(mode)
  /\ top' = ShellSetMode(top, mode, size)
  /\ blind' = Misjudged(top)
  /\ UNCHANGED <<grabbed, told>>

(* A motion of the resize, whatever mode has been set since it began.      *)
Resize(size) ==
  /\ grabbed /\ top.added /\ size # 0
  /\ top' = SetSize(top, size)
  /\ blind' = Misjudged(top)
  /\ UNCHANGED <<grabbed, told>>

(* weston_desktop_xdg_surface_send_configure(), the idle source.           *)
SendConfigure ==
  /\ top.idle /\ Len(top.list) < MaxInFlight
  /\ top' = [top EXCEPT !.idle = FALSE, !.list = Append(@, top.pending)]
  /\ told' = top.pending
  /\ blind' = FALSE
  /\ UNCHANGED grabbed

-----------------------------------------------------------------------------
(* The client's requests.                                                  *)

(* Slip: takes over the oldest in flight.                                  *)
AckedOldest(t, i) ==
  [t EXCEPT !.configured = TRUE, !.next = t.list[1],
            !.list = SubSeq(@, i + 1, Len(@))]

(* xdg_surface.ack_configure of the i-th in flight: older ones are dropped.*)
Acked(t, i) ==
  [t EXCEPT !.configured = TRUE, !.next = t.list[i],
            !.list = SubSeq(@, i + 1, Len(@))]

(* Commits of a buffer that are no protocol error: after a configure, and  *)
(* of the size that the acknowledged state binds it to.                    *)
MayCommit(t, geometry) ==
  /\ t.configured /\ geometry > 0
  /\ t.next.state.mode = "sized" => t.next.size = geometry

(* Slip: a commit that leaves the size alone is taken for a redraw.        *)
CommittedResized(t, width) ==
  [t EXCEPT !.width = width, !.current = IF width = t.width THEN @ ELSE t.next.state]

(* weston_desktop_xdg_surface_committed() with a buffer.                   *)
Committed(t, width) == [t EXCEPT !.width = width, !.current = t.next.state]

GetToplevel ==
  /\ ~top.role
  /\ top' = [top EXCEPT !.role = TRUE]
  /\ UNCHANGED <<grabbed, told, blind>>

(* Commit without a buffer: the first of a toplevel, or it is unmapped.    *)
CommitEmpty ==
  /\ top.role
  /\ top' = [EnsureAdded(top) EXCEPT !.width = 0]
  /\ UNCHANGED <<grabbed, told, blind>>

Commit(width, margin) ==
  /\ top.role
  /\ MayCommit(top, width - margin)
  /\ top' = Committed(top, width)
  /\ UNCHANGED <<grabbed, told, blind>>

(* Alone, or in one message with the commit that applies it.               *)
Ack(i) ==
  /\ top' = Acked(top, i)
  /\ UNCHANGED <<grabbed, told, blind>>

AckAndCommit(i, width, margin) ==
  /\ MayCommit(Acked(top, i), width - margin)
  /\ top' = Committed(Acked(top, i), width)
  /\ UNCHANGED <<grabbed, told, blind>>

(* The client asks for a mode, and the shell grants it.                    *)
RequestMode(mode, size) ==
  /\ top.role /\ size \in SizesFor(mode)
  /\ top' = ShellSetMode(EnsureAdded(top), mode, size)
  /\ blind' = Misjudged(top)
  /\ UNCHANGED <<grabbed, told>>

(* weston_desktop_xdg_surface_destroy().                                   *)
Destroy ==
  /\ top.role
  /\ top' = NoToplevel
  /\ grabbed' = FALSE
  /\ told' = NoConf
  /\ blind' = FALSE

-----------------------------------------------------------------------------
Next ==
  \/ \E active \in BOOLEAN : Activate(active)
  \/ \E mode \in Modes, size \in Sizes : \/ Maximize(mode, size)
                                         \/ RequestMode(mode, size)
  \/ \E size \in Sizes : Resize(size)
  \/ SendConfigure
  \/ GetToplevel
  \/ CommitEmpty
  \/ Destroy
  \/ \E width \in Sizes, margin \in Margins :
       \/ Commit(width, margin)
       \/ \E i \in DOMAIN top.list : AckAndCommit(i, width, margin)
  \/ \E i \in DOMAIN top.list : Ack(i)

(* The client acknowledges the newest configure it has been sent, and      *)
(* commits what it has acknowledged.                                       *)
Reply == top.list # <<>> /\ Ack(Len(top.list))

Redraw ==
  /\ top.current # top.next.state
  /\ \E width \in Sizes, margin \in Margins : Commit(width, margin)

(* The event loop runs idle sources before it sleeps; and a client that    *)
(* wants to be usable answers.                                             *)
Fairness == SF_vars(SendConfigure) /\ SF_vars(Reply) /\ SF_vars(Redraw)

Spec == Init /\ [][Next]_vars /\ Fairness

-----------------------------------------------------------------------------
(* Once nothing is scheduled any more the client has been told what the    *)
(* shell wants: the state, and the size where the state binds it to one;   *)
(* unless the shell's last decision was taken blindly.                     *)
ClientKnows ==
  top.added /\ ~top.idle /\ ~blind =>
    /\ told.state = top.pending.state
    /\ told.state.mode = "sized" => told.size = top.pending.size

(* If the shell makes up its mind, the client ends up as it decided.       *)
Settles ==
  \A s \in States :
    <>[](top.added /\ top.pending.state = s /\ ~blind) => <>[](top.current = s)
=============================================================================
