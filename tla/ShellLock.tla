------------------------------ MODULE ShellLock ------------------------------
(***************************************************************************)
(* How desktop-shell darkens, locks and unlocks the screen: the power      *)
(* state of the compositor, the fade animation of every output, and the    *)
(* shell's helper client with its lock dialog.                             *)
(*                                                                         *)
(* A fade advances with the repaints of its own output, hence only while   *)
(* the compositor is neither asleep nor off screen; the first fade-out     *)
(* that ends puts everything to sleep and leaves the others where they     *)
(* are.  The client answers over a connection of its own, at its own pace, *)
(* and may die and be respawned at any moment.                             *)
(***************************************************************************)
EXTENDS Naturals, Sequences

CONSTANTS
  Outputs,
  DeathLimit    \* deaths in quick succession after which the shell gives up

ASSUME DeathLimitAssumption == DeathLimit \in Nat

VARIABLES
  power,     \* weston_compositor.state
  timer,     \* weston_compositor.idle_source is armed
  pressed,   \* weston_compositor.idle_inhibit is not zero
  shell,     \* struct desktop_shell
  fade,      \* struct shell_output.fade of the outputs there are
  startup,   \* do_shell_fade_startup() is queued as an idle source
  client,    \* the process desktop_shell.child
  events,    \* sent to the client and not read: prepare_lock_surface
  requests   \* sent by the client and not dispatched

vars == <<power, timer, pressed, shell, fade, startup, client, events, requests>>

Powers == {"ACTIVE", "IDLE", "OFFSCREEN", "SLEEPING"}

Shell ==
  [ locked : BOOLEAN,
    surface : {"none", "unmapped", "mapped"},  \* lock_surface
    prepared : BOOLEAN,                        \* prepare_event_sent
    bound : BOOLEAN,                           \* child.desktop_shell # NULL
    deaths : 0..DeathLimit + 1 ]               \* child.deathcount

Fade ==
  [ view : BOOLEAN, type : {"IN", "OUT"}, running : BOOLEAN, timer : BOOLEAN ]

Client ==
  [ alive : BOOLEAN,       \* child.client # NULL
    locking : BOOLEAN,     \* the option "locking"
    ready : BOOLEAN,       \* has sent desktop_ready
    dialog : {"none", "created", "drawn"} ]    \* desktop.unlock_dialog

Requests == {"ready", "set_lock_surface", "commit", "unlock", "unlock_destroy"}

(* What the client sends because it has been asked.                        *)
Answers == {"set_lock_surface", "unlock", "unlock_destroy"}

Pending(r) == \E i \in DOMAIN requests : requests[i] = r

NoFade == [view |-> FALSE, type |-> "IN", running |-> FALSE, timer |-> FALSE]

(* shell_fade_init(): black until the client is ready, or 15 seconds.      *)
Black == [NoFade EXCEPT !.view = TRUE, !.timer = TRUE]

(* What the variables hold; an animation runs on a view.                   *)
TypeOK ==
  /\ power \in Powers /\ timer \in BOOLEAN /\ pressed \in BOOLEAN
  /\ shell \in Shell /\ startup \in BOOLEAN /\ client \in Client
  /\ DOMAIN fade \subseteq Outputs /\ fade \in [DOMAIN fade -> Fade]
  /\ \A o \in DOMAIN fade : fade[o].running => fade[o].view
  /\ events \in Seq({"prepare"}) /\ requests \in Seq(Requests)

Init ==
  /\ power = "ACTIVE" /\ timer = TRUE /\ pressed = FALSE
  /\ shell = [locked |-> FALSE, surface |-> "none", prepared |-> FALSE,
              bound |-> FALSE, deaths |-> 0]
  /\ fade = [o \in Outputs |-> Black]
  /\ startup = FALSE
  /\ client \in [alive : {TRUE}, locking : BOOLEAN, ready : {FALSE}, dialog : {"none"}]
  /\ events = <<>> /\ requests = <<>>

-----------------------------------------------------------------------------
(* Fades.                                                                  *)

(* shell_fade() on one output: a running animation turns around.           *)
Faded(f, type) == [f EXCEPT !.type = type, !.view = TRUE, !.running = TRUE]

ShellFade(type) == fade' = [o \in DOMAIN fade |-> Faded(fade[o], type)]

(* shell_fade_startup().                                                   *)
FadeStartup ==
  /\ fade' = [o \in DOMAIN fade |-> [fade[o] EXCEPT !.timer = FALSE]]
  /\ startup' = (startup \/ \E o \in DOMAIN fade : fade[o].timer)

StartupTimeout ==
  /\ \E o \in DOMAIN fade : fade[o].timer
  /\ FadeStartup
  /\ UNCHANGED <<power, timer, pressed, shell, client, events, requests>>

DoShellFadeStartup ==
  /\ startup
  /\ startup' = FALSE
  /\ ShellFade("IN")
  /\ UNCHANGED <<power, timer, pressed, shell, client, events, requests>>

Repainting == power \in {"ACTIVE", "IDLE"}

(* Slip: does not note the end of the animation.                           *)
FadedInRunning(o) ==
  /\ Repainting /\ fade[o].running /\ fade[o].type = "IN"
  /\ fade' = [fade EXCEPT ![o].view = FALSE]
  /\ UNCHANGED <<power, timer, pressed, shell, startup, client, events, requests>>

(* shell_fade_done_for_output() after a fade-in.                           *)
FadedIn(o) ==
  /\ Repainting /\ fade[o].running /\ fade[o].type = "IN"
  /\ fade' = [fade EXCEPT ![o].view = FALSE, ![o].running = FALSE]
  /\ UNCHANGED <<power, timer, pressed, shell, startup, client, events, requests>>

(* After a fade-out: lock(), weston_compositor_sleep().                    *)
FadedOut(o) ==
  /\ Repainting /\ fade[o].running /\ fade[o].type = "OUT"
  /\ fade' = [fade EXCEPT ![o].running = FALSE]
  /\ shell' = [shell EXCEPT !.locked = TRUE]
  /\ power' = "SLEEPING" /\ timer' = FALSE
  /\ UNCHANGED <<pressed, startup, client, events, requests>>

-----------------------------------------------------------------------------
(* Power.                                                                  *)

(* The client is asked for a lock surface.                                 *)
Prepare ==
  /\ events' = Append(events, "prepare")
  /\ shell' = [shell EXCEPT !.prepared = TRUE]
  /\ UNCHANGED fade

ResumeDesktop ==
  /\ shell' = [shell EXCEPT !.locked = FALSE]
  /\ ShellFade("IN")

(* Slip: asks at every wake.                                               *)
UnlockAskingAgain ==
  IF ~shell.locked \/ shell.surface # "none"
  THEN ShellFade("IN") /\ UNCHANGED <<shell, events>>
  ELSE IF ~shell.bound THEN ResumeDesktop /\ UNCHANGED events
  ELSE Prepare

(* unlock(), the shell's part in a wake.                                   *)
Unlock ==
  IF ~shell.locked \/ shell.surface # "none"
  THEN ShellFade("IN") /\ UNCHANGED <<shell, events>>
  ELSE IF ~shell.bound THEN ResumeDesktop /\ UNCHANGED events
  ELSE IF shell.prepared THEN UNCHANGED <<shell, fade, events>>
  ELSE Prepare

(* Slip: the timer is not armed by a wake from idle.                       *)
WakeUnarmed(held) ==
  /\ pressed' = held
  /\ power' = "ACTIVE" /\ timer' = (power \in {"ACTIVE", "SLEEPING"})
  /\ IF power = "ACTIVE" THEN UNCHANGED <<shell, fade, events>> ELSE Unlock
  /\ UNCHANGED <<startup, client, requests>>

(* weston_compositor_wake(): input, buttons pressed or released, or the    *)
(* session comes back.                                                     *)
Wake(held) ==
  /\ pressed' = held
  /\ power' = "ACTIVE" /\ timer' = TRUE
  /\ IF power = "ACTIVE" THEN UNCHANGED <<shell, fade, events>> ELSE Unlock
  /\ UNCHANGED <<startup, client, requests>>

(* idle_handler() of the compositor and of the shell.                      *)
IdleTimeout ==
  /\ timer
  /\ timer' = FALSE
  /\ IF pressed THEN UNCHANGED <<power, fade>>
     ELSE power' = "IDLE" /\ ShellFade("OUT")
  /\ UNCHANGED <<pressed, shell, startup, client, events, requests>>

(* weston_compositor_offscreen(): the session goes to another terminal.    *)
Offscreen ==
  /\ power # "OFFSCREEN"
  /\ power' = "OFFSCREEN" /\ timer' = FALSE
  /\ UNCHANGED <<pressed, shell, fade, startup, client, events, requests>>

(* An output is plugged in, or out when no fade is on it.                  *)
Plug(o) ==
  /\ o \notin DOMAIN fade
  /\ fade' = [p \in DOMAIN fade \cup {o} |-> IF p = o THEN NoFade ELSE fade[p]]
  /\ UNCHANGED <<power, timer, pressed, shell, startup, client, events, requests>>

Unplug(o) ==
  /\ fade[o].view = FALSE /\ DOMAIN fade # {o}
  /\ fade' = [p \in DOMAIN fade \ {o} |-> fade[p]]
  /\ UNCHANGED <<power, timer, pressed, shell, startup, client, events, requests>>

-----------------------------------------------------------------------------
(* The shell's requests.                                                   *)

Bind ==
  /\ client.alive /\ ~shell.bound
  /\ shell' = [shell EXCEPT !.bound = TRUE]
  /\ UNCHANGED <<power, timer, pressed, fade, startup, client, events, requests>>

(* Slip: the answer is not noted.                                          *)
AnsweredNot == shell

Answered == [shell EXCEPT !.prepared = FALSE]

DesktopReady == FadeStartup /\ UNCHANGED shell

SetLockSurface ==
  /\ shell' = IF shell.locked THEN [Answered EXCEPT !.surface = "unmapped"] ELSE Answered
  /\ UNCHANGED <<fade, startup>>

(* Slip: leaves the outputs dark.                                          *)
LockSurfaceCommittedDark ==
  /\ shell' = IF shell.surface = "unmapped" THEN [shell EXCEPT !.surface = "mapped"] ELSE shell
  /\ UNCHANGED <<fade, startup>>

(* lock_surface_committed(), if the surface is the lock surface.           *)
LockSurfaceCommitted ==
  /\ IF shell.surface = "unmapped"
     THEN shell' = [shell EXCEPT !.surface = "mapped"] /\ ShellFade("IN")
     ELSE UNCHANGED <<shell, fade>>
  /\ UNCHANGED startup

Unlocked(answered) ==
  /\ shell' = [answered EXCEPT !.locked = FALSE]
  /\ IF shell.locked THEN ShellFade("IN") ELSE UNCHANGED fade
  /\ UNCHANGED startup

(* desktop_shell_unlock(), also together with the destruction of the       *)
(* dialog: the client sends both in one go, and one dispatch handles them. *)
DesktopShellUnlock == Unlocked(Answered)

UnlockAndDestroy == Unlocked([Answered EXCEPT !.surface = "none"])

Dispatch ==
  /\ requests # <<>>
  /\ requests' = Tail(requests)
  /\ CASE Head(requests) = "ready"            -> DesktopReady
       [] Head(requests) = "set_lock_surface" -> SetLockSurface
       [] Head(requests) = "commit"           -> LockSurfaceCommitted
       [] Head(requests) = "unlock"           -> DesktopShellUnlock
       [] Head(requests) = "unlock_destroy"   -> UnlockAndDestroy
  /\ UNCHANGED <<power, timer, pressed, client, events>>

(* The client is gone: desktop_shell_client_destroy() respawns it or gives *)
(* up, then its resources go, unbind_desktop_shell() first.  After half a  *)
(* minute without a death the count starts anew.                           *)
ClientDies ==
  /\ client.alive
  /\ \E deaths \in {1, shell.deaths + 1} :
       /\ client' = [client EXCEPT !.alive = deaths <= DeathLimit, !.ready = FALSE,
                                   !.dialog = "none"]
       /\ shell' = [shell EXCEPT !.deaths = deaths, !.surface = "none", !.prepared = FALSE,
                                 !.locked = @ /\ ~shell.bound, !.bound = FALSE]
  /\ startup' = (startup \/ \E o \in DOMAIN fade : fade[o].timer)
  /\ fade' = [o \in DOMAIN fade |->
               [IF shell.locked /\ shell.bound THEN Faded(fade[o], "IN") ELSE fade[o]
                  EXCEPT !.timer = FALSE]]
  /\ events' = <<>> /\ requests' = <<>>
  /\ UNCHANGED <<power, timer, pressed>>

-----------------------------------------------------------------------------
(* The client, clients/desktop-shell.c.                                    *)

ClientSends(msgs) ==
  /\ requests' = requests \o msgs
  /\ UNCHANGED <<power, timer, pressed, shell, fade, startup>>

ClientReady ==
  /\ client.alive /\ shell.bound /\ ~client.ready
  /\ client' = [client EXCEPT !.ready = TRUE]
  /\ ClientSends(<<"ready">>)
  /\ UNCHANGED events

(* desktop_shell_prepare_lock_surface().                                   *)
ClientPrepares ==
  /\ events # <<>>
  /\ events' = Tail(events)
  /\ IF ~client.locking
     THEN ClientSends(<<"unlock">>) /\ UNCHANGED client
     ELSE IF client.dialog = "none"
     THEN /\ client' = [client EXCEPT !.dialog = "created"]
          /\ ClientSends(<<"set_lock_surface">>)
     ELSE ClientSends(<<>>) /\ UNCHANGED client

ClientDraws ==
  /\ client.dialog = "created"
  /\ client' = [client EXCEPT !.dialog = "drawn"]
  /\ ClientSends(<<"commit">>)
  /\ UNCHANGED events

(* The user clicks on the dialog: unlock_dialog_finish().                  *)
ClientUnlocks ==
  /\ client.dialog = "drawn" /\ shell.surface = "mapped" /\ power = "ACTIVE"
  /\ client' = [client EXCEPT !.dialog = "none"]
  /\ ClientSends(<<"unlock_destroy">>)
  /\ UNCHANGED events

-----------------------------------------------------------------------------
Next ==
  \/ StartupTimeout
  \/ DoShellFadeStartup
  \/ \E o \in DOMAIN fade : FadedIn(o) \/ FadedOut(o) \/ Unplug(o)
  \/ \E held \in BOOLEAN : Wake(held)
  \/ IdleTimeout
  \/ Offscreen
  \/ \E o \in Outputs : Plug(o)
  \/ Bind
  \/ Dispatch
  \/ ClientDies
  \/ ClientReady
  \/ ClientPrepares
  \/ ClientDraws
  \/ ClientUnlocks

(* Timers fire and idle sources run; fades advance as outputs repaint;     *)
(* requests are dispatched, and the client reads its events and draws.     *)
(* Nothing is assumed of the user, of deaths or of respawned clients.      *)
Fairness ==
  /\ WF_vars(StartupTimeout) /\ WF_vars(DoShellFadeStartup)
  /\ WF_vars(\E o \in DOMAIN fade : FadedIn(o))
  /\ WF_vars(\E o \in DOMAIN fade : FadedOut(o))
  /\ WF_vars(IdleTimeout)
  /\ WF_vars(Dispatch) /\ WF_vars(ClientPrepares) /\ WF_vars(ClientDraws)

Spec == Init /\ [][Next]_vars /\ Fairness

-----------------------------------------------------------------------------
(* Nobody waits for ever in front of a black screen: while the screen is   *)
(* awake and locked, there is a lock surface, or the client has been asked *)
(* for one and the question or its answer is under way.                    *)
LockedIsAnswered ==
  shell.locked /\ power = "ACTIVE" /\ shell.surface = "none" =>
    events # <<>> \/ Pending("set_lock_surface") \/ Pending("unlock")

(* The client is asked again only when its last answer has arrived: at     *)
(* most one question or answer is under way, so that it never gets a       *)
(* second dialog while the first is, or becomes, the lock surface.         *)
AskedOnce ==
  /\ Len(events) <= 1
  /\ \A i, j \in DOMAIN requests :
       requests[i] \in Answers /\ requests[j] \in Answers => i = j
  /\ events # <<>> => shell.prepared /\ \A r \in Answers : ~Pending(r)

(* Once idle timeouts and session switches cease, whoever keeps waking the *)
(* compositor gets to see something: the fades are over, on every output,  *)
(* and what they uncover is the desktop or the lock dialog.                *)
Lit ==
  /\ power = "ACTIVE"
  /\ \A o \in DOMAIN fade : ~fade[o].view
  /\ shell.locked => shell.surface = "mapped"

ScreenReturns ==
  <>[][~IdleTimeout /\ ~Offscreen]_vars /\ []<>(power = "ACTIVE") => <>[]Lit

(* The idle timeout is not lost: a compositor that nobody touches does not *)
(* stay active, unless a button is held.                                   *)
Untouched == <>[][~Wake(TRUE) /\ ~Wake(FALSE)]_vars

GoesIdle == Untouched => <>[](pressed \/ power # "ACTIVE")
=============================================================================
