---------------------------- MODULE RepaintLoop ----------------------------
(***************************************************************************)
(* The repaint cycle of libweston's core driving the backends that end a   *)
(* frame with a timer of their own (headless, x11, fbdev and rdp arm a     *)
(* finish_frame_timer in their repaint hook), under the life cycle of the  *)
(* outputs, the power states of the compositor, the session switches of    *)
(* the fbdev backend and the commits of clients.                           *)
(*                                                                         *)
(* The compositor is one thread: each action is one callback of the event  *)
(* loop, except that output_repaint_timer_handler() is split into a step   *)
(* for each output it visits; no other callback runs between them.         *)
(***************************************************************************)
EXTENDS RepaintCore

CONSTANTS
  Outputs,     \* output structs
  Surfaces,    \* surfaces with a view
  NoOutput,    \* the NULL surface->output
  Features     \* what may happen besides rendering, see AllFeatures

(* sleep: a desktop-shell locks the compositor; vt: fbdev session switch;  *)
(* modechange: the framebuffer's mode was changed while switched away;     *)
(* enablefail: a backend's enable hook fails; disable: a libweston user    *)
(* calls weston_output_disable(); offscreen: a view may lie outside of     *)
(* every output.                                                           *)
AllFeatures ==
  {"sleep", "vt", "modechange", "enablefail", "disable", "offscreen"}

ASSUME ConfigAssumption == NoOutput \notin Outputs /\ Features \subseteq AllFeatures

VARIABLES
  out,         \* the outputs' repaint records
  power,       \* compositor->state
  armed,       \* the repaint_timer is armed
  visiting,    \* the repaint_timer's handler is running
  todo,        \* outputs its loop has still to visit
  flip,        \* outputs whose finish_frame_timer is armed
  surf,        \* surfaces: primary output, frame callbacks, feedback
  unlocking,   \* a locked shell waits for its client to unlock
  sessionOff,  \* the session is switched away
  prevPower    \* fbdev_backend->prev_state

vars == <<out, power, armed, visiting, todo, flip, surf, unlocking,
          sessionOff, prevPower>>

OutputList == {o \in Outputs : Listed(out[o])}

(* where: surface->output; shown: its bit is in output_mask; cb, fb: frame *)
(* callbacks and presentation feedback wait on the surface.                *)
SurfaceRec == [ where : Outputs \cup {NoOutput}, shown : BOOLEAN,
                cb : BOOLEAN, fb : BOOLEAN ]

(* What each variable holds; a frame timer and the handler's loop only     *)
(* refer to an output that is on the list, so neither calls into one that  *)
(* weston_output_release() has let go.                                     *)
TypeOK ==
  /\ out \in [Outputs -> OutputRec]
  /\ power \in PowerState
  /\ armed \in BOOLEAN
  /\ visiting \in BOOLEAN
  /\ todo \in SUBSET OutputList
  /\ flip \in SUBSET OutputList
  /\ surf \in [Surfaces -> SurfaceRec]
  /\ unlocking \in BOOLEAN
  /\ sessionOff \in BOOLEAN
  /\ prevPower \in PowerState

Init ==
  /\ out = [o \in Outputs |-> AbsentOutput]
  /\ power = "ACTIVE"
  /\ armed = FALSE
  /\ visiting = FALSE
  /\ todo = {}
  /\ flip = {}
  /\ surf = [s \in Surfaces |-> [where |-> NoOutput, shown |-> FALSE,
                                cb |-> FALSE, fb |-> FALSE]]
  /\ unlocking = FALSE
  /\ sessionOff = FALSE
  /\ prevPower = "ACTIVE"

(* weston_output_schedule_repaint() on each output of O, in the given      *)
(* power state, starting from the given records.                           *)
ScheduleAll(records, O, state) ==
  [o \in Outputs |-> IF o \in O THEN ScheduleRepaint(records[o], state)
                                ELSE records[o]]

-----------------------------------------------------------------------------
(* Callbacks of the event loop that belong to the repaint cycle.           *)

(* idle_repaint() and the backend's start_repaint_loop hook.               *)
IdleRepaint(o) ==
  /\ ~visiting
  /\ out[o].idle
  /\ out' = [out EXCEPT ![o] = FinishFrame(EnterRepaintLoop(@), TRUE, TRUE)]
  /\ armed' = TimerArmed(out', armed)
  /\ UNCHANGED <<power, visiting, todo, flip, surf, unlocking, sessionOff, prevPower>>

(* finish_frame_handler() of the backend.                                  *)
FinishFrameHandler(o) ==
  /\ ~visiting
  /\ o \in flip
  /\ flip' = flip \ {o}
  /\ out' = [out EXCEPT ![o] = FinishFrame(@, TRUE, FALSE)]
  /\ armed' = TimerArmed(out', armed)
  /\ UNCHANGED <<power, visiting, todo, surf, unlocking, sessionOff, prevPower>>

(* The clock passes the output's next_repaint.                             *)
Tick(o) ==
  /\ out[o].status = "SCHEDULED" /\ ~out[o].due
  /\ out' = [out EXCEPT ![o].due = TRUE]
  /\ UNCHANGED <<power, armed, visiting, todo, flip, surf, unlocking, sessionOff, prevPower>>

(* output_repaint_timer_handler() is entered.  The timer may expire with   *)
(* nothing due, when the output it was armed for has been taken away.      *)
RepaintTimer ==
  /\ armed /\ ~visiting
  /\ armed' = FALSE
  /\ visiting' = TRUE
  /\ todo' = OutputList
  /\ UNCHANGED <<out, power, flip, surf, unlocking, sessionOff, prevPower>>

(* weston_surface_assign_output(): the output with the largest overlap, or *)
(* one that does not overlap at all.                                       *)
Placed(r, o) ==
  {[r EXCEPT !.where = o, !.shown = b] :
     b \in IF "offscreen" \in Features THEN BOOLEAN ELSE {TRUE}}

(* Rebuilding the view list gives surfaces without a primary output one.   *)
AssignOutputs(placed) ==
  \A s \in Surfaces :
    placed[s] \in IF surf[s].where = NoOutput
                  THEN UNION {Placed(surf[s], p) : p \in OutputList}
                  ELSE {surf[s]}

(* The repaint of o takes frame callbacks and feedback off its surfaces.   *)
TakenFrom(placed, o) ==
  [s \in Surfaces |->
     IF placed[s].where = o THEN [placed[s] EXCEPT !.cb = FALSE, !.fb = FALSE]
                            ELSE placed[s]]

(* weston_output_repaint(): the backend draws and arms its timer; then the *)
(* animations of the output may damage outputs (D), and the one that ends  *)
(* a fade-out locks the shell, which puts the compositor to sleep.         *)
RepaintOutput(o) ==
  \E placed \in [Surfaces -> SurfaceRec], D \in {{}, {o}, OutputList}, locks \in BOOLEAN :
    LET taken   == \E s \in Surfaces : placed[s].where = o /\ placed[s].fb
        painted == [out EXCEPT ![o] = RepaintDone(@, taken, TRUE)]
    IN  /\ AssignOutputs(placed)
        /\ locks => "sleep" \in Features
        /\ surf' = TakenFrom(placed, o)
        /\ flip' = flip \cup {o}
        /\ out' = ScheduleAll(painted, D, power)
        /\ power' = IF locks THEN "SLEEPING" ELSE power

(* One round of the handler's loop: weston_output_maybe_repaint().         *)
VisitOutput(o) ==
  /\ visiting /\ o \in todo
  /\ todo' = todo \ {o}
  /\ \/ /\ ~ReadyToRepaint(out[o])
        /\ UNCHANGED <<out, power, flip, surf>>
     \/ /\ ReadyToRepaint(out[o])
        /\ DropFromCycle(out[o], power)
        /\ out' = [out EXCEPT ![o] = ScheduleRepaintReset(@)]
        /\ UNCHANGED <<power, flip, surf>>
     \/ /\ ReadyToRepaint(out[o])
        /\ ~DropFromCycle(out[o], power)
        /\ RepaintOutput(o)
  /\ UNCHANGED <<armed, visiting, unlocking, sessionOff, prevPower>>

(* The end of the handler; these backends have no repaint_flush hook.      *)
RepaintTimerDone ==
  /\ visiting /\ todo = {}
  /\ visiting' = FALSE
  /\ out' = [o \in Outputs |-> IF Listed(out[o])
                               THEN [out[o] EXCEPT !.repainted = FALSE]
                               ELSE out[o]]
  /\ armed' = TimerArmed(out', armed)
  /\ UNCHANGED <<power, todo, flip, surf, unlocking, sessionOff, prevPower>>

-----------------------------------------------------------------------------
(* Clients, input, and the shell.                                          *)

(* A commit with a frame callback, and maybe presentation feedback: the    *)
(* feedback of the content it replaces is discarded.  Its output_mask may  *)
(* hold other outputs (O) besides its primary one.                         *)
Commit(s) ==
  /\ ~visiting
  /\ \E fb \in BOOLEAN : surf' = [surf EXCEPT ![s].cb = TRUE, ![s].fb = fb]
  /\ \E O \in SUBSET OutputList :
       /\ IF surf[s].shown THEN {surf[s].where} \cap OutputList \subseteq O ELSE O = {}
       /\ out' = ScheduleAll(out, O, power)
  /\ UNCHANGED <<power, armed, visiting, todo, flip, unlocking, sessionOff, prevPower>>

(* weston_output_damage(), as an expose event or a moved cursor causes it. *)
Damage(o) ==
  /\ ~visiting
  /\ Listed(out[o])
  /\ out' = ScheduleAll(out, {o}, power)
  /\ UNCHANGED <<power, armed, visiting, todo, flip, surf, unlocking, sessionOff, prevPower>>

(* The idle timer: the shell starts to fade out on every output.           *)
IdleTimeout ==
  /\ ~visiting
  /\ power = "ACTIVE" /\ ~sessionOff
  /\ power' = "IDLE"
  /\ out' = ScheduleAll(out, OutputList, "IDLE")
  /\ UNCHANGED <<armed, visiting, todo, flip, surf, unlocking, sessionOff, prevPower>>

(* weston_compositor_sleep() from outside of the repaint loop: the view    *)
(* that was fading out is destroyed.                                       *)
Sleep ==
  /\ ~visiting
  /\ "sleep" \in Features
  /\ power # "SLEEPING"
  /\ power' = "SLEEPING"
  /\ UNCHANGED <<out, armed, visiting, todo, flip, surf, unlocking, sessionOff, prevPower>>

(* weston_compositor_wake() on input.  These outputs have no set_dpms hook;*)
(* the shell either fades in at once or, locked, asks its client first.    *)
Wake ==
  /\ ~visiting
  /\ power # "ACTIVE" /\ ~sessionOff
  /\ power' = "ACTIVE"
  /\ \/ /\ ~unlocking
        /\ out' = ScheduleAll(out, OutputList, "ACTIVE")
        /\ UNCHANGED unlocking
     \/ /\ "sleep" \in Features
        /\ unlocking' = TRUE
        /\ UNCHANGED out
  /\ UNCHANGED <<armed, visiting, todo, flip, surf, sessionOff, prevPower>>

(* The shell's client answers: resume_desktop().                           *)
Unlock ==
  /\ ~visiting
  /\ unlocking
  /\ unlocking' = FALSE
  /\ out' = ScheduleAll(out, OutputList, power)
  /\ UNCHANGED <<power, armed, visiting, todo, flip, surf, sessionOff, prevPower>>

-----------------------------------------------------------------------------
(* The session of the fbdev backend: its session_notify().                 *)

LeaveSession ==
  /\ ~visiting
  /\ "vt" \in Features /\ ~sessionOff
  /\ sessionOff' = TRUE
  /\ prevPower' = power
  /\ power' = "OFFSCREEN"
  /\ out' = [o \in Outputs |-> IF Listed(out[o])
                               THEN [out[o] EXCEPT !.needed = FALSE]
                               ELSE out[o]]
  /\ UNCHANGED <<armed, visiting, todo, flip, surf, unlocking>>

(* With a changed mode, fbdev_output_reenable() goes through the backend's *)
(* disable and enable hooks, which replace the finish_frame_timer.         *)
EnterSession ==
  /\ ~visiting
  /\ sessionOff
  /\ sessionOff' = FALSE
  /\ power' = prevPower
  /\ \/ UNCHANGED flip
     \/ "modechange" \in Features /\ flip' = {}
  /\ out' = ScheduleAll(out, OutputList, prevPower)
  /\ UNCHANGED <<armed, visiting, todo, surf, unlocking, prevPower>>

-----------------------------------------------------------------------------
(* Output life cycle: from the frontend's heads_changed handler.           *)

CreateOutput(o) ==
  /\ ~visiting
  /\ out[o].life = "absent"
  /\ out' = [out EXCEPT ![o] = InitOutput]
  /\ UNCHANGED <<power, armed, visiting, todo, flip, surf, unlocking, sessionOff, prevPower>>

(* A new output makes every view find its outputs anew at the next repaint.*)
DirtyViews ==
  [s \in Surfaces |-> IF surf[s].where \in OutputList THEN surf[s]
                      ELSE [surf[s] EXCEPT !.where = NoOutput, !.shown = FALSE]]

(* weston_output_enable(): the output is damaged, and so scheduled, before *)
(* the backend's hook has succeeded.                                       *)
EnableOutput(o) ==
  /\ ~visiting
  /\ out[o].life = "pending"
  /\ LET prepared == PrepareEnable(out[o], power)
     IN  \/ out' = [out EXCEPT ![o] = AddOutput(prepared)]
         \/ "enablefail" \in Features /\ out' = [out EXCEPT ![o] = prepared]
  /\ surf' = IF Listed(out'[o]) THEN DirtyViews ELSE surf
  /\ UNCHANGED <<power, armed, visiting, todo, flip, unlocking, sessionOff, prevPower>>

(* Slip: assigns no surface anew.                                          *)
ReassignNot(o) == UNCHANGED surf

(* weston_compositor_remove_output() assigns the surfaces shown on o anew; *)
(* the others keep their primary output, even if it is o.                  *)
Reassign(o) ==
  /\ surf' \in [Surfaces -> SurfaceRec]
  /\ \A s \in Surfaces :
       surf'[s] \in
         IF ~(surf[s].where = o /\ surf[s].shown) THEN {surf[s]}
         ELSE IF OutputList = {o}
         THEN {[surf[s] EXCEPT !.where = NoOutput, !.shown = FALSE]}
         ELSE UNION {Placed(surf[s], p) : p \in OutputList \ {o}}

(* Slip: the backend keeps its timer.                                      *)
StopTimerNot(o) == UNCHANGED flip

(* The backend's disable hook removes the finish_frame_timer.              *)
StopTimer(o) == flip' = flip \ {o}

(* weston_output_disable(): the backend's hook drops its timer.            *)
DisableOutput(o) ==
  /\ ~visiting
  /\ "disable" \in Features
  /\ Listed(out[o])
  /\ out' = [out EXCEPT ![o] =
               [RemoveOutput([@ EXCEPT !.destroying = TRUE]) EXCEPT !.destroying = FALSE]]
  /\ StopTimer(o)
  /\ Reassign(o)
  /\ UNCHANGED <<power, armed, visiting, todo, unlocking, sessionOff, prevPower>>

(* The backend's destroy hook: disable, then weston_output_release(),      *)
(* which takes the idle source along.                                      *)
DestroyOutput(o) ==
  /\ ~visiting
  /\ out[o].life # "absent"
  /\ out' = [out EXCEPT ![o] = AbsentOutput]
  /\ StopTimer(o)
  /\ IF Listed(out[o]) THEN Reassign(o) ELSE UNCHANGED surf
  /\ UNCHANGED <<power, armed, visiting, todo, unlocking, sessionOff, prevPower>>

-----------------------------------------------------------------------------
Running == \A o \in Outputs : ~out[o].abort

Next ==
  /\ Running
  /\ \/ \E o \in Outputs : \/ IdleRepaint(o)
                           \/ FinishFrameHandler(o)
                           \/ Tick(o)
                           \/ VisitOutput(o)
                           \/ Damage(o)
                           \/ CreateOutput(o)
                           \/ EnableOutput(o)
                           \/ DisableOutput(o)
                           \/ DestroyOutput(o)
     \/ \E s \in Surfaces : Commit(s)
     \/ RepaintTimer
     \/ RepaintTimerDone
     \/ IdleTimeout
     \/ Sleep
     \/ Wake
     \/ Unlock
     \/ LeaveSession
     \/ EnterSession

(* A callback that has been entered returns, and the clock advances.  The  *)
(* event loop runs its idle sources before each poll and serves an expired *)
(* timer or a client's answer although the repaint handler runs again and  *)
(* again in between (which disables the action): strong fairness.          *)
Fairness ==
  /\ \A o \in Outputs : /\ SF_vars(Running /\ IdleRepaint(o))
                        /\ SF_vars(Running /\ FinishFrameHandler(o))
                        /\ WF_vars(Running /\ Tick(o))
                        /\ WF_vars(Running /\ VisitOutput(o))
  /\ WF_vars(Running /\ RepaintTimer)
  /\ WF_vars(Running /\ RepaintTimerDone)
  /\ SF_vars(Running /\ Unlock)

Spec == Init /\ [][Next]_vars /\ Fairness

-----------------------------------------------------------------------------
(* No assertion of the repaint code fails: a frame is finished only while  *)
(* one is awaited, an idle source is never added twice, and a feedback     *)
(* list is empty when a repaint loop starts over.                          *)
NoAbort == Running

(* While no handler runs, an output that is scheduled for a repaint has    *)
(* the timer armed: otherwise nothing would ever visit it.                 *)
TimerCoversScheduled ==
  ~visiting => \A o \in OutputList : out[o].status = "SCHEDULED" => armed

(* An output awaits a completion exactly while the backend has a timer     *)
(* that will deliver it.                                                   *)
AwaitingIsInFlight ==
  \A o \in OutputList : out[o].status = "AWAITING_COMPLETION" <=> o \in flip

(* Feedback a repaint has taken over waits for a frame that was posted.    *)
FeedbackIsInFlight == \A o \in Outputs : out[o].feedback => o \in flip

(* An output that needs a repaint is on its way to one, unless rendering   *)
(* has been stopped or the locked shell has not been let in yet.           *)
NeededIsScheduled ==
  ~Asleep(power) /\ ~unlocking =>
     \A o \in OutputList : out[o].needed => out[o].status # "NOT_SCHEDULED"

(* An idle source is there exactly for the outputs, listed or not, that    *)
(* wait for it: weston_output_release() can cancel it, and no other runs.  *)
IdleSourceMatches ==
  \A o \in Outputs : out[o].idle <=> out[o].status = "BEGIN_FROM_IDLE"

(* The primary output of a surface, if it has one, is in use.              *)
PrimaryOutputIsListed ==
  \A s \in Surfaces : surf[s].where \in OutputList \cup {NoOutput}

(* A frame callback on a surface shown on an output is answered, however   *)
(* often the output slept since the commit, unless rendering is stopped or *)
(* the output removed.                                                     *)
CallbackIsAnswered ==
  \A s \in Surfaces, o \in Outputs :
    (surf[s].cb /\ surf[s].where = o /\ ~Asleep(power))
      ~> (~surf[s].cb \/ surf[s].where # o \/ Asleep(power))

(* Feedback an output has taken over is presented or discarded.            *)
FeedbackIsAnswered == \A o \in Outputs : out[o].feedback ~> ~out[o].feedback

FS == INSTANCE FrameService WITH
        live     <- OutputList,
        damaged  <- {o \in OutputList : out[o].needed},
        inFlight <- flip,
        awake    <- ~Asleep(power)

(* The repaint cycle on these backends is a frame service: its steps are   *)
(* steps of the abstract one, and its fairness gives the abstract promise. *)
ImplementsFrameService == FS!Spec
=============================================================================
