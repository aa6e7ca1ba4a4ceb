---------------------------- MODULE RepaintCore ----------------------------
(***************************************************************************)
(* The part of a weston_output that drives its repaint cycle, and the core *)
(* functions of libweston/compositor.c that change it, as operators on one *)
(* output record.  The event loop, the shell and the backend around them   *)
(* are the modules RepaintLoop and DrmRepaint.                             *)
(*                                                                         *)
(* A failed assert() of the code ends the process: it sets the field abort.*)
(* An operator whose comment begins "Slip:" is a mistaken form of the one  *)
(* below it; no specification uses it.                                     *)
(***************************************************************************)

LifeState == {"absent", "pending", "enabled"}

RepaintStatus ==
  {"NOT_SCHEDULED", "BEGIN_FROM_IDLE", "SCHEDULED", "AWAITING_COMPLETION"}

PowerState == {"ACTIVE", "IDLE", "OFFSCREEN", "SLEEPING"}

(* idle: idle_repaint_source is set; due: next_repaint has been reached;   *)
(* feedback: feedback_list is not empty.                                   *)
OutputRec ==
  [ life       : LifeState,
    status     : RepaintStatus,
    needed     : BOOLEAN,
    idle       : BOOLEAN,
    due        : BOOLEAN,
    repainted  : BOOLEAN,
    destroying : BOOLEAN,
    feedback   : BOOLEAN,
    abort      : BOOLEAN ]

(* An output struct that is not allocated, and one fresh from zalloc() and *)
(* weston_output_init().                                                   *)
AbsentOutput ==
  [ life |-> "absent", status |-> "NOT_SCHEDULED", needed |-> FALSE,
    idle |-> FALSE, due |-> FALSE, repainted |-> FALSE,
    destroying |-> FALSE, feedback |-> FALSE, abort |-> FALSE ]

InitOutput == [AbsentOutput EXCEPT !.life = "pending"]

(* The output is on compositor->output_list.                               *)
Listed(r) == r.life = "enabled"

(* States in which rendering has been stopped.                             *)
Asleep(power) == power \in {"SLEEPING", "OFFSCREEN"}

Asserted(r, ok) == [r EXCEPT !.abort = @ \/ ~ok]

(* Slip: does not look at the repaint status.                              *)
ScheduleRepaintTwice(r, power) ==
  IF Asleep(power) THEN r
  ELSE [Asserted(r, ~r.idle) EXCEPT !.needed = TRUE,
                                    !.status = "BEGIN_FROM_IDLE",
                                    !.idle   = TRUE]

(* Slip: forgets the damage when a cycle is already running.               *)
ScheduleRepaintLost(r, power) ==
  IF Asleep(power) \/ r.status # "NOT_SCHEDULED" THEN r
  ELSE [r EXCEPT !.needed = TRUE, !.status = "BEGIN_FROM_IDLE", !.idle = TRUE]

ScheduleRepaint(r, power) ==
  IF Asleep(power) THEN r
  ELSE IF r.status # "NOT_SCHEDULED" THEN [r EXCEPT !.needed = TRUE]
  ELSE [Asserted(r, ~r.idle) EXCEPT !.needed = TRUE,
                                  !.status = "BEGIN_FROM_IDLE",
                                  !.idle   = TRUE]

ScheduleRepaintReset(r) == [r EXCEPT !.status = "NOT_SCHEDULED"]

(* Slips: does not restart the cycle; keeps the feedback it has presented. *)
FinishFrameIgnored(r, stamp, invalid) ==
  IF invalid THEN r ELSE [r EXCEPT !.status = "SCHEDULED", !.feedback = FALSE]

FinishFrameKeepsFeedback(r, stamp, invalid) ==
  [r EXCEPT !.status = "SCHEDULED", !.due = ~stamp]

(* stamp: the backend supplies a timestamp; invalid: it flags it           *)
(* WP_PRESENTATION_FEEDBACK_INVALID, as start_repaint_loop hooks do.       *)
FinishFrame(r, stamp, invalid) ==
  [Asserted(r, /\ r.status = "AWAITING_COMPLETION"
               /\ stamp \/ invalid
               /\ stamp /\ invalid => ~r.feedback)
     EXCEPT !.status   = "SCHEDULED",
            !.due      = ~stamp,
            !.feedback = @ /\ ~stamp]

(* Slip: leaves idle_repaint_source set.                                   *)
EnterRepaintLoopAgain(r) == [r EXCEPT !.status = "AWAITING_COMPLETION"]

(* idle_repaint() up to its call of the backend's start_repaint_loop hook. *)
EnterRepaintLoop(r) ==
  [Asserted(r, r.status = "BEGIN_FROM_IDLE")
     EXCEPT !.status = "AWAITING_COMPLETION", !.idle = FALSE]

(* weston_output_maybe_repaint(): look at this output now; drop it from    *)
(* the cycle instead of repainting it.                                     *)
ReadyToRepaint(r) == r.status = "SCHEDULED" /\ r.due

(* Slips: also drops an idle compositor; repaints a sleeping one.          *)
DropWhenIdle(r, power) == power # "ACTIVE" \/ ~r.needed

DropUnlessNeeded(r, power) == ~r.needed

DropFromCycle(r, power) == Asleep(power) \/ ~r.needed

(* weston_output_repaint() around the backend's repaint hook, which        *)
(* succeeds or not; taken: some surface handed over presentation feedback. *)
RepaintDone(r, taken, ok) ==
  [r EXCEPT !.needed    = FALSE,
            !.feedback  = @ \/ taken,
            !.status    = IF ok THEN "AWAITING_COMPLETION" ELSE @,
            !.repainted = ok]

(* weston_output_enable() up to the call of the backend's enable hook, and *)
(* weston_compositor_add_output().                                         *)
PrepareEnable(r, power) ==
  [ScheduleRepaint(r, power) EXCEPT !.feedback = FALSE]

(* Slip: not put on the list.                                              *)
AddOutputNot(r) == Asserted(r, r.life # "enabled")

AddOutput(r) == [Asserted(r, r.life # "enabled") EXCEPT !.life = "enabled"]

(* weston_compositor_remove_output(): the repaint status stays.            *)
RemoveOutput(r) ==
  [Asserted(r, r.destroying /\ Listed(r)) EXCEPT !.life = "pending",
                                               !.feedback = FALSE]

(* Slip: does not arm the timer.                                           *)
TimerLeftAlone(out, armed) == armed

(* output_repaint_timer_arm(): the timer is armed when a listed output is  *)
(* scheduled, and otherwise left as it was.                                *)
TimerArmed(out, armed) ==
  \/ armed
  \/ \E o \in DOMAIN out : Listed(out[o]) /\ out[o].status = "SCHEDULED"
=============================================================================
