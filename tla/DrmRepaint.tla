----------------------------- MODULE DrmRepaint -----------------------------
(***************************************************************************)
(* The repaint cycle over the DRM backend, with the atomic or the legacy   *)
(* mode-setting API: one pending state collects the repainted outputs and  *)
(* the power-offs of a handler's run and is flushed as one commit; each    *)
(* applied output state completes with a kernel event; destroying an       *)
(* output or powering it off waits for that event.                         *)
(*                                                                         *)
(* As in RepaintLoop each action is one callback of the event loop, and    *)
(* the repaint handler is split into a step for each output it visits.     *)
(* An output stands for its CRTC and its planes too: another output never  *)
(* takes them over.  Other sessions leave them as they were.               *)
(***************************************************************************)
EXTENDS RepaintCore

CONSTANTS
  Outputs,         \* output structs, and the CRTCs they drive
  Apis,            \* the KMS APIs a device may have: atomic commits or not
  AtomicFeatures,  \* what may happen besides rendering, see AllFeatures,
  LegacyFeatures   \* with each of the APIs

(* sleepevent, sleeploop: the compositor goes to sleep from a callback of  *)
(* its own, or within a repaint, as the fade-out's last frame does;        *)
(* vt: session switch; novblank: the vblank query yields no valid          *)
(* timestamp; renderfail: the renderer yields no buffer; commitfail: the   *)
(* kernel refuses a commit without a reason; replug: an output returns     *)
(* before the kernel has answered for its CRTC; apart: outputs and their   *)
(* connectors change, the session is switched, or the timer of an output   *)
(* that is gone fires, while other outputs are in use (with the legacy API *)
(* they may always).                                                       *)
AllFeatures ==
  {"sleepevent", "sleeploop", "vt", "novblank", "renderfail", "commitfail", "replug", "apart"}

ASSUME ConfigAssumption ==
  /\ Apis \subseteq BOOLEAN
  /\ AtomicFeatures \subseteq AllFeatures /\ LegacyFeatures \subseteq AllFeatures

VARIABLES
  atomic,       \* atomic_modeset, set when the device is opened
  out,          \* the outputs' repaint records and KMS states
  power,        \* compositor->state
  armed,        \* the repaint_timer is armed
  visiting,     \* the repaint_timer's handler is running: repaint_data is set
  todo,         \* outputs its loop has still to visit
  failed,       \* its loop was left because a repaint failed
  stateInvalid, \* state_invalid
  events,       \* CRTCs for which the kernel owes an event
  active,       \* CRTCs the kernel drives
  shown,        \* those of which a plane shows a framebuffer
  sessionOff    \* the session is switched away

vars == <<atomic, out, power, armed, visiting, todo, failed, stateInvalid, events,
          active, shown, sessionOff>>

Features == IF atomic THEN AtomicFeatures ELSE LegacyFeatures

(* The repaint fields of RepaintCore, and                                  *)
(*   on: state_cur has a framebuffer and dpms ON;                          *)
(*   flip: state_last, and with it page_flip_pending, vblank_pending or    *)
(*     atomic_complete_pending: a state is applied and not yet complete;   *)
(*   pending: its state in the handler's pending_state;                    *)
(*   rewired: a connector attached is not known to the kernel yet;         *)
(*   destroyPending, dpmsOff: destroy_pending, dpms_off_pending.  As the   *)
(*     frontend never disables an enabled output without destroying it in  *)
(*     the same callback, destroyPending is disable_pending too.           *)
DrmOutputRec ==
  [ life : {"absent", "enabled"}, status : RepaintStatus,
    needed : BOOLEAN, idle : BOOLEAN, due : BOOLEAN, repainted : BOOLEAN,
    destroying : {FALSE}, feedback : BOOLEAN, abort : BOOLEAN,
    on : BOOLEAN, flip : BOOLEAN, pending : {"none", "on", "off"}, rewired : BOOLEAN,
    destroyPending : BOOLEAN, dpmsOff : BOOLEAN ]

AbsentDrmOutput ==
  [ life |-> "absent", status |-> "NOT_SCHEDULED", needed |-> FALSE,
    idle |-> FALSE, due |-> FALSE, repainted |-> FALSE,
    destroying |-> FALSE, feedback |-> FALSE, abort |-> FALSE,
    on |-> FALSE, flip |-> FALSE, pending |-> "none", rewired |-> FALSE,
    destroyPending |-> FALSE, dpmsOff |-> FALSE ]

(* drm_output_create().                                                    *)
InitDrmOutput == [AbsentDrmOutput EXCEPT !.life = "pending"]

OutputList == {o \in Outputs : Listed(out[o])}

(* An output may change whatever the others do; there are no others.       *)
Apart == atomic => "apart" \in Features

Alone == \A p, q \in OutputList : p = q

(* What each variable holds; the handler only visits outputs on the list.  *)
TypeOK ==
  /\ atomic \in BOOLEAN
  /\ out \in [Outputs -> DrmOutputRec]
  /\ power \in PowerState
  /\ armed \in BOOLEAN
  /\ visiting \in BOOLEAN
  /\ todo \in SUBSET OutputList
  /\ failed \in BOOLEAN
  /\ stateInvalid \in BOOLEAN
  /\ events \in SUBSET Outputs
  /\ active \in SUBSET Outputs
  /\ shown \in SUBSET Outputs
  /\ sessionOff \in BOOLEAN

Init ==
  /\ atomic \in Apis
  /\ out = [o \in Outputs |-> AbsentDrmOutput]
  /\ power = "ACTIVE"
  /\ armed = FALSE
  /\ visiting = FALSE
  /\ todo = {}
  /\ failed = FALSE
  /\ stateInvalid = TRUE
  /\ events = {}
  /\ active = {}
  /\ shown = {}
  /\ sessionOff = FALSE

(* weston_output_schedule_repaint() on each output of O.                   *)
ScheduleAll(records, O, state) ==
  [o \in Outputs |-> IF o \in O THEN ScheduleRepaint(records[o], state)
                                ELSE records[o]]

-----------------------------------------------------------------------------
(* Applying states.                                                        *)

(* Slip: an enabled output's CRTC is still on the list of unused ones.     *)
UnusedEvenIfEnabled == IF stateInvalid THEN active ELSE {}

(* CRTCs that no output uses are switched off by a commit while            *)
(* state_invalid is set.                                                   *)
Unused == IF stateInvalid THEN active \ OutputList ELSE {}

(* An atomic commit then starts with all planes disabled, also those of    *)
(* outputs that have no state in it.                                       *)
Blanked == IF atomic /\ stateInvalid THEN shown ELSE {}

(* ALLOW_MODESET in a commit of states for the outputs C, on for those of  *)
(* lit.                                                                    *)
AllowModeset(C, lit) == stateInvalid \/ \E o \in C : out[o].on # (o \in lit)

(* The kernel refuses an asynchronous atomic commit that touches a CRTC    *)
(* for which it owes an event, or a new connector without ALLOW_MODESET.   *)
Refused(C, lit) ==
  \/ (C \cup Unused \cup Blanked) \cap events # {}
  \/ ~AllowModeset(C, lit) /\ \E o \in lit : out[o].rewired

(* The kernel's answer to an asynchronous commit of such states, or to the *)
(* legacy requests for them: whether it has the session's request taken at *)
(* all, and for which outputs A.                                           *)
Answer(C, lit, taken, A) ==
  /\ taken => ~sessionOff
  /\ A \subseteq C /\ (~taken => A = {})
  /\ atomic =>
       /\ taken => A = C /\ ~Refused(C, lit)
       /\ taken \/ sessionOff \/ Refused(C, lit) \/ "commitfail" \in Features
  /\ ~atomic =>
       /\ taken \/ sessionOff
       /\ A \cap events = {}
       /\ sessionOff \/ A = C \ events \/ "commitfail" \in Features

(* drm_output_assign_state(), asynchronously: on or off until completed.   *)
AssignAsync(r, level) ==
  [Asserted(r, ~r.flip) EXCEPT !.flip = TRUE, !.on = level, !.rewired = FALSE]

(* drm_output_assign_state() of a disabled state, synchronously.  The      *)
(* legacy path then completes it, which ends the frame if one is awaited.  *)
SyncOff(r) ==
  LET off == [Asserted(r, ~r.flip) EXCEPT !.on = FALSE, !.rewired = FALSE]
  IN  IF ~atomic /\ r.status = "AWAITING_COMPLETION" THEN FinishFrame(off, TRUE, FALSE)
                                                     ELSE off

(* drm_pending_state_apply_sync() of one disabled state after the other,   *)
(* for each output of O; the kernel takes those for A.  They wait for what *)
(* is in flight; legacy requests that fail are only logged.                *)
ApplySync(records, O) ==
  \E A \in SUBSET O :
    LET assigned == IF atomic THEN A ELSE O
        swept    == IF assigned = {} \/ sessionOff THEN {} ELSE Unused
        blanked  == IF A = {} THEN {} ELSE Blanked
    IN  /\ sessionOff => A = {}
        /\ A = O \/ sessionOff \/ "commitfail" \in Features
        /\ out' = [o \in Outputs |-> IF o \in assigned THEN SyncOff(records[o]) ELSE records[o]]
        /\ active' = active \ (A \cup swept)
        /\ shown' = shown \ (A \cup swept \cup blanked)
        /\ stateInvalid' = (stateInvalid /\ assigned = {})

(* Slip: does not look at the result.                                      *)
AppliedAnyway(r, accepted) ==
  IF r.pending = "none" THEN r
  ELSE AssignAsync([r EXCEPT !.pending = "none"], r.pending = "on")

(* What the handler's pending_state does to one output when it is flushed. *)
Applied(r, accepted) ==
  LET clear == [r EXCEPT !.pending = "none"]
  IN  IF r.pending = "none" THEN r
      ELSE IF r.pending = "off" /\ ~atomic THEN SyncOff(clear)
      ELSE IF accepted THEN AssignAsync(clear, r.pending = "on")
      ELSE clear

-----------------------------------------------------------------------------
(* drm_set_dpms(): outside of the repaint handler, and inside.             *)

PowerOn(r) ==
  IF r.on THEN r ELSE ScheduleRepaint([r EXCEPT !.dpmsOff = FALSE], "ACTIVE")

PowerOffInLoop(r) ==
  IF ~r.on THEN r
  ELSE IF r.flip THEN [r EXCEPT !.dpmsOff = TRUE]
  ELSE [r EXCEPT !.pending = "off"]

(* Slips: parks no output, switching them all off; parks them all; leaves  *)
(* those alone that are not complete.                                      *)
PowerOffAtOnce == ApplySync(out, {o \in OutputList : out[o].on})

PowerOffParked ==
  ApplySync([o \in Outputs |-> [out[o] EXCEPT !.dpmsOff = @ \/ out[o].on]], {})

PowerOffComplete == ApplySync(out, {o \in OutputList : out[o].on /\ ~out[o].flip})

(* weston_compositor_dpms(OFF): outputs that are not complete are parked.  *)
PowerOffAll ==
  LET lit    == {o \in OutputList : out[o].on}
      parked == {o \in lit : out[o].flip}
  IN  ApplySync([o \in Outputs |-> IF o \in parked THEN [out[o] EXCEPT !.dpmsOff = TRUE]
                                                   ELSE out[o]],
                lit \ parked)

-----------------------------------------------------------------------------
(* The repaint cycle.                                                      *)

(* idle_repaint() and drm_output_start_repaint_loop(): the frame is        *)
(* finished at once, or a flip of the current state yields a timestamp.    *)
IdleRepaint(o) ==
  /\ ~visiting
  /\ out[o].idle
  /\ LET r == EnterRepaintLoop(out[o])
     IN  \/ /\ r.destroyPending
            /\ out' = [out EXCEPT ![o] = r]
            /\ UNCHANGED <<events, shown>>
         \/ /\ ~r.destroyPending
            /\ ~r.on \/ stateInvalid
            /\ out' = [out EXCEPT ![o] = FinishFrame(r, FALSE, TRUE)]
            /\ UNCHANGED <<events, shown>>
         \/ /\ ~r.destroyPending /\ r.on /\ ~stateInvalid
            /\ out' = [out EXCEPT ![o] = FinishFrame(r, TRUE, TRUE)]
            /\ UNCHANGED <<events, shown>>
         \/ /\ "novblank" \in Features
            /\ ~r.destroyPending /\ r.on /\ ~stateInvalid
            /\ \E taken \in BOOLEAN, A \in SUBSET {o} :
                 /\ Answer({o}, {o}, taken, A)
                 /\ events' = events \cup A
                 /\ shown' = shown \cup A
                 /\ out' = [out EXCEPT ![o] =
                              IF o \in A THEN AssignAsync(r, TRUE)
                              ELSE IF atomic THEN FinishFrame(r, FALSE, TRUE)
                              ELSE r]
  /\ armed' = TimerArmed(out', armed)
  /\ UNCHANGED <<power, visiting, todo, failed, stateInvalid, active, sessionOff>>

(* The clock passes the output's next_repaint.                             *)
Tick(o) ==
  /\ out[o].status = "SCHEDULED" /\ ~out[o].due
  /\ out' = [out EXCEPT ![o].due = TRUE]
  /\ UNCHANGED <<power, armed, visiting, todo, failed, stateInvalid, events, active, shown,
                 sessionOff>>

(* output_repaint_timer_handler() is entered: drm_repaint_begin().  The    *)
(* timer of an output that is gone may find no other one due.              *)
RepaintTimer ==
  /\ armed /\ ~visiting
  /\ Apart \/ \E o \in OutputList : ReadyToRepaint(out[o])
  /\ armed' = FALSE
  /\ visiting' = TRUE
  /\ todo' = OutputList
  /\ UNCHANGED <<out, power, failed, stateInvalid, events, active, shown, sessionOff>>

(* weston_output_repaint(): drm_assign_planes() and drm_output_repaint()   *)
(* put a state into pending_state; then animations damage outputs (D), and *)
(* the last frame of a fade-out, on an output that showed the earlier ones,*)
(* puts the compositor to sleep.  A repaint that fails is reset, and ends  *)
(* the handler's loop.                                                     *)
RepaintOutput(o) ==
  \E taken, drawn, locks \in BOOLEAN, D \in {{}, {o}, OutputList} :
    LET ok      == drawn /\ ~out[o].destroyPending
        painted == RepaintDone(Asserted(out[o], ~out[o].flip), taken, ok)
        damaged == ScheduleAll([out EXCEPT ![o] =
                                  [painted EXCEPT !.pending = IF ok THEN "on" ELSE "none"]],
                               D, power)
        slept   == [p \in Outputs |-> IF locks /\ Listed(damaged[p])
                                      THEN PowerOffInLoop(damaged[p]) ELSE damaged[p]]
    IN  /\ ~drawn => "renderfail" \in Features
        /\ locks => "sleeploop" \in Features /\ power = "IDLE" /\ out[o].on
        /\ out' = IF ok THEN slept ELSE [slept EXCEPT ![o] = ScheduleRepaintReset(@)]
        /\ power' = IF locks THEN "SLEEPING" ELSE power
        /\ failed' = ~ok
        /\ todo' = IF ok THEN todo \ {o} ELSE {}

(* One round of the handler's loop: weston_output_maybe_repaint().         *)
VisitOutput(o) ==
  /\ visiting /\ o \in todo
  /\ \/ /\ ~ReadyToRepaint(out[o])
        /\ todo' = todo \ {o}
        /\ UNCHANGED <<out, power, failed>>
     \/ /\ ReadyToRepaint(out[o])
        /\ DropFromCycle(out[o], power)
        /\ out' = [out EXCEPT ![o] = ScheduleRepaintReset(@)]
        /\ todo' = todo \ {o}
        /\ UNCHANGED <<power, failed>>
     \/ /\ ReadyToRepaint(out[o])
        /\ ~DropFromCycle(out[o], power)
        /\ RepaintOutput(o)
  /\ UNCHANGED <<armed, visiting, stateInvalid, events, active, shown, sessionOff>>

(* The end of the handler: clear what its loop has left.                   *)
LeaveHandler(records) ==
  /\ visiting' = FALSE
  /\ failed' = FALSE
  /\ out' = [o \in Outputs |-> [records[o] EXCEPT !.repainted = FALSE]]
  /\ armed' = TimerArmed(out', armed)

(* drm_repaint_flush(): its result is not looked at.                       *)
RepaintFlush ==
  /\ visiting /\ todo = {} /\ ~failed
  /\ LET C   == {o \in Outputs : out[o].pending # "none"}
         lit == {o \in C : out[o].pending = "on"}
     IN  \E taken \in BOOLEAN, A \in SUBSET C :
           LET swept   == IF taken THEN Unused ELSE {}
               blanked == IF taken THEN Blanked ELSE {}
           IN  /\ Answer(C, lit, taken, A)
               /\ LeaveHandler([o \in Outputs |-> Applied(out[o], o \in A)])
               /\ events' = events \cup (IF atomic THEN A \cup swept \cup blanked
                                                    ELSE A \cap lit)
               /\ active' = (active \ (swept \cup A)) \cup (A \cap lit)
               /\ shown' = (shown \ (swept \cup blanked \cup A)) \cup (A \cap lit)
               /\ stateInvalid' = (stateInvalid /\ atomic /\ ~taken)
  /\ UNCHANGED <<power, todo, sessionOff>>

(* A repaint has failed: the others of this run are reset as well, and     *)
(* drm_repaint_cancel() drops the pending state.                           *)
RepaintCancel ==
  /\ visiting /\ todo = {} /\ failed
  /\ LeaveHandler([o \in Outputs |->
                     LET r == [out[o] EXCEPT !.pending = "none"]
                     IN  IF Listed(r) /\ r.repainted THEN ScheduleRepaintReset(r) ELSE r])
  /\ UNCHANGED <<power, todo, stateInvalid, events, active, shown, sessionOff>>

(* page_flip_handler(), vblank_handler() or atomic_flip_handler(), and     *)
(* drm_output_update_complete().                                           *)
FlipEvent(o) ==
  /\ ~visiting
  /\ o \in events
  /\ events' = events \ {o}
  /\ LET r == [Asserted(out[o], out[o].flip) EXCEPT !.flip = FALSE]
     IN  \/ /\ atomic /\ ~Listed(r)
            /\ UNCHANGED <<out, stateInvalid, active, shown>>
         \/ /\ Listed(r) \/ ~atomic
            /\ r.destroyPending
            /\ out' = [out EXCEPT ![o] = AbsentDrmOutput]
            /\ stateInvalid' = TRUE
            /\ UNCHANGED <<active, shown>>
         \/ /\ Listed(r) \/ ~atomic
            /\ ~r.destroyPending /\ r.dpmsOff
            /\ ApplySync([out EXCEPT ![o] = [r EXCEPT !.dpmsOff = FALSE]], {o})
         \/ /\ Listed(r) \/ ~atomic
            /\ ~r.destroyPending /\ ~r.dpmsOff
            /\ out' = [out EXCEPT ![o] =
                         IF ~r.on /\ r.status # "AWAITING_COMPLETION" THEN r
                         ELSE FinishFrame(r, TRUE, FALSE)]
            /\ UNCHANGED <<stateInvalid, active, shown>>
  /\ armed' = TimerArmed(out', armed)
  /\ UNCHANGED <<power, visiting, todo, failed, sessionOff>>

-----------------------------------------------------------------------------
(* Damage, and the power states.                                           *)

Damage(o) ==
  /\ ~visiting
  /\ Listed(out[o])
  /\ out' = ScheduleAll(out, {o}, power)
  /\ UNCHANGED <<power, armed, visiting, todo, failed, stateInvalid, events, active, shown,
                 sessionOff>>

(* The idle timer: the shell starts to fade out on every output.           *)
IdleTimeout ==
  /\ ~visiting
  /\ power = "ACTIVE" /\ ~sessionOff
  /\ power' = "IDLE"
  /\ out' = ScheduleAll(out, OutputList, "IDLE")
  /\ UNCHANGED <<armed, visiting, todo, failed, stateInvalid, events, active, shown, sessionOff>>

(* weston_compositor_sleep() from outside of the repaint handler.          *)
Sleep ==
  /\ ~visiting
  /\ "sleepevent" \in Features
  /\ power # "SLEEPING" /\ ~sessionOff
  /\ power' = "SLEEPING"
  /\ PowerOffAll
  /\ armed' = TimerArmed(out', armed)
  /\ UNCHANGED <<visiting, todo, failed, events, sessionOff>>

(* weston_compositor_wake() on input; the shell may damage the outputs.    *)
Wake ==
  /\ ~visiting
  /\ power # "ACTIVE" /\ ~sessionOff
  /\ power' = "ACTIVE"
  /\ \E D \in {{}, OutputList} :
       out' = ScheduleAll([o \in Outputs |-> IF Listed(out[o]) THEN PowerOn(out[o])
                                                              ELSE out[o]], D, "ACTIVE")
  /\ UNCHANGED <<armed, visiting, todo, failed, stateInvalid, events, active, shown, sessionOff>>

(* session_notify(): the session is switched away, and comes back.         *)
LeaveSession ==
  /\ ~visiting
  /\ "vt" \in Features /\ ~sessionOff
  /\ Apart \/ Alone
  /\ sessionOff' = TRUE
  /\ power' = "OFFSCREEN"
  /\ out' = [o \in Outputs |-> IF Listed(out[o]) THEN [out[o] EXCEPT !.needed = FALSE]
                                                ELSE out[o]]
  /\ UNCHANGED <<armed, visiting, todo, failed, stateInvalid, events, active, shown>>

EnterSession ==
  /\ ~visiting
  /\ sessionOff
  /\ sessionOff' = FALSE
  /\ power' = "ACTIVE"
  /\ out' = ScheduleAll([o \in Outputs |-> IF Listed(out[o]) THEN PowerOn(out[o])
                                                            ELSE out[o]],
                        OutputList, "ACTIVE")
  /\ stateInvalid' = TRUE
  /\ UNCHANGED <<armed, visiting, todo, failed, events, active, shown>>

-----------------------------------------------------------------------------
(* Output life cycle: the frontend creates and enables an output in one    *)
(* call of its heads_changed handler.                                      *)

EnableOutput(o) ==
  /\ ~visiting
  /\ out[o].life = "absent"
  /\ o \in events => "replug" \in Features
  /\ \/ Apart \/ OutputList = {}
     \/ /\ \A p \in OutputList : ~out[p].destroyPending
        /\ stateInvalid \/ sessionOff => (OutputList \cup {o}) \cap shown = {}
  /\ out' = [out EXCEPT ![o] = AddOutput(PrepareEnable(InitDrmOutput, power))]
  /\ UNCHANGED <<power, armed, visiting, todo, failed, stateInvalid, events, active, shown,
                 sessionOff>>

(* Slip: waits even if no event is owed.                                   *)
DestroyDeferred(o) ==
  /\ ~visiting
  /\ Listed(out[o]) /\ ~out[o].destroyPending
  /\ Apart \/ Alone
  /\ out' = [out EXCEPT ![o].destroyPending = TRUE]
  /\ stateInvalid' = TRUE
  /\ UNCHANGED <<power, armed, visiting, todo, failed, events, active, shown, sessionOff>>

(* The last head is unplugged: drm_head_disable() detaches it and disables *)
(* and destroys the output, which is deferred while a state is not         *)
(* complete; otherwise drm_output_fini_crtc() hands the CRTC to the unused *)
(* ones.                                                                   *)
DestroyOutput(o) ==
  /\ ~visiting
  /\ Listed(out[o]) /\ ~out[o].destroyPending
  /\ Apart \/ Alone
  /\ out' = [out EXCEPT ![o] =
               IF @.flip THEN ScheduleRepaint([@ EXCEPT !.destroyPending = TRUE], power)
               ELSE AbsentDrmOutput]
  /\ stateInvalid' = TRUE
  /\ UNCHANGED <<power, armed, visiting, todo, failed, events, active, shown, sessionOff>>

(* drm_output_attach_head() and drm_output_detach_head() on an enabled one *)
(* that keeps a head.                                                      *)
HeadsChanged(o) ==
  /\ ~visiting
  /\ Listed(out[o])
  /\ Apart \/ Alone
  /\ stateInvalid' = TRUE
  /\ \E rewired \in BOOLEAN :
       /\ rewired => atomic
       /\ out' = ScheduleAll([out EXCEPT ![o].rewired = rewired], {o}, power)
  /\ UNCHANGED <<power, armed, visiting, todo, failed, events, active, shown, sessionOff>>

-----------------------------------------------------------------------------
Running == \A o \in Outputs : ~out[o].abort

Next ==
  /\ Running /\ UNCHANGED atomic
  /\ \/ \E o \in Outputs : \/ IdleRepaint(o)
                           \/ Tick(o)
                           \/ VisitOutput(o)
                           \/ FlipEvent(o)
                           \/ Damage(o)
                           \/ EnableOutput(o)
                           \/ DestroyOutput(o)
                           \/ HeadsChanged(o)
     \/ RepaintTimer
     \/ RepaintFlush
     \/ RepaintCancel
     \/ IdleTimeout
     \/ Sleep
     \/ Wake
     \/ LeaveSession
     \/ EnterSession

Step(A) == Running /\ A /\ UNCHANGED atomic

(* As in RepaintLoop; and the kernel sends the events it owes.             *)
Fairness ==
  /\ \A o \in Outputs : /\ SF_vars(Step(IdleRepaint(o)))
                        /\ SF_vars(Step(FlipEvent(o)))
                        /\ WF_vars(Step(Tick(o)))
                        /\ WF_vars(Step(VisitOutput(o)))
  /\ WF_vars(Step(RepaintTimer))
  /\ WF_vars(Step(RepaintFlush))
  /\ WF_vars(Step(RepaintCancel))

Spec == Init /\ [][Next]_vars /\ Fairness

-----------------------------------------------------------------------------
(* No assertion of the repaint code or the backend fails: no state is      *)
(* applied or proposed over an incomplete one, no event arrives for an     *)
(* output that expects none, and a frame is finished only when awaited.    *)
NoAbort == Running

(* An incomplete state has an event coming, and with the legacy API, whose *)
(* events carry a pointer to the output, every event's output still exists.*)
FlipHasEvent ==
  /\ \A o \in Outputs : out[o].flip => o \in events
  /\ ~atomic => \A o \in events : Listed(out[o]) /\ out[o].flip

(* Outside of the handler, an output that awaits a completion gets one.    *)
AwaitingHasFlip ==
  ~visiting =>
    \A o \in OutputList : out[o].status = "AWAITING_COMPLETION" => out[o].flip

(* Destroying and powering off is deferred only while an event is owed.    *)
DeferredHasFlip ==
  \A o \in Outputs : out[o].destroyPending \/ out[o].dpmsOff => out[o].flip

(* The outputs that the backend takes for lit show something: what is      *)
(* swept away with state_invalid is not theirs.                            *)
OnIsShown == \A o \in OutputList : out[o].on => o \in active \cap shown

(* Damage on an output that is in use and awake is eventually repainted.   *)
DamageIsRepainted ==
  \A o \in Outputs :
    (Listed(out[o]) /\ out[o].needed /\ ~out[o].flip /\ ~Asleep(power))
      ~> (out[o].flip \/ ~Listed(out[o]) \/ Asleep(power) \/ ~Running)

(* An output whose destruction was deferred is destroyed.                  *)
DestroyedInTheEnd == \A o \in Outputs : out[o].destroyPending ~> ~Listed(out[o])

(* The outputs that are lit when the compositor goes to sleep go dark.     *)
SleepsDark ==
  \A o \in Outputs :
    (power = "SLEEPING" /\ Listed(out[o]) /\ out[o].on)
      ~> (power # "SLEEPING" \/ ~Listed(out[o]) \/ o \notin active)

InFlight == {o \in OutputList : /\ out[o].status = "AWAITING_COMPLETION"
                                /\ out[o].flip \/ out[o].pending # "none"}

FS == INSTANCE FrameService WITH
        live     <- OutputList,
        damaged  <- {o \in OutputList : out[o].needed},
        inFlight <- InFlight,
        awake    <- ~Asleep(power)

(* The repaint cycle over KMS is a frame service too.                      *)
ImplementsFrameService == FS!Spec
=============================================================================
