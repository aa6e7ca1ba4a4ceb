# Verification of Weston's protocols between callbacks

This directory holds TLA+ models of libweston, the configurations with which
TLC checks them on small instances, and proofs that TLAPS checks for every
instance. `src/` below is the root of the Weston tree; `C` stands for
`src/libweston/compositor.c`, `D` for `src/libweston/compositor-drm.c`, `S` for
`src/desktop-shell/shell.c`.

Weston is one thread around a `wl_event_loop`. Almost nothing in it is
concurrent in the sense of threads; nearly everything hard in it is a *protocol
between callbacks*: an idle source, a timer, a kernel event, a client's request,
an input event, a D-Bus signal, each of which finds the state that some others
left behind, in an order that nobody chose. The models take one action per
callback, and their properties relate what one callback leaves to what a later
one assumes.

## 1. Inventory

| component | state | operations | interaction |
|---|---|---|---|
| Repaint loop of the core (`C` 2139-2850) | per output: `repaint_status`, `repaint_needed`, `idle_repaint_source`, `next_repaint`, `repainted`, `feedback_list`; `repaint_timer` | `weston_output_schedule_repaint`, `idle_repaint`, `output_repaint_timer_handler`, `weston_output_maybe_repaint`, `weston_output_repaint`, `weston_output_finish_frame` | calls the backend's hooks `start_repaint_loop`, `repaint`, `repaint_begin/flush/cancel`; the backend calls back `finish_frame` |
| Output life cycle (`C` 5407-5973) | pending list, output list, `enabled`, `destroying`; surfaces' primary outputs | `weston_output_init/enable/disable/release`, `weston_compositor_add/remove_output`, `weston_surface_assign_output` | frontend's `heads_changed` handler; backend's `enable/disable/destroy` |
| Power states (`C` 4303-4420) | `compositor->state`, idle timer, inhibit count | `weston_compositor_wake/sleep/offscreen`, `idle_handler` | input, shell signals `idle_signal`/`wake_signal`, `set_dpms` hooks, session switches |
| Timer-driven backends (headless, x11, fbdev, rdp) | a `finish_frame_timer` per output; fbdev: `prev_state` | `start_repaint_loop`, `repaint`, `finish_frame_handler`, `session_notify` | the core's hooks |
| DRM backend, output state (`D`) | `state_cur`, `state_last`, `page_flip_pending`, `atomic_complete_pending`, `vblank_pending`, `destroy_pending`, `dpms_off_pending`, `state_invalid`, `pending_state` | `drm_repaint_begin/flush/cancel`, `drm_pending_state_apply(_sync)`, `drm_output_assign_state`, `drm_output_update_complete`, `drm_set_dpms`, `drm_output_destroy`, `session_notify` | the kernel's commits and flip events |
| DRM backend, planes (`D` 3290-4300) | plane states, fb reference counts, cursor buffers | `drm_output_propose_state`, `drm_assign_planes` | test commits, views, renderer |
| Sub-surfaces (`C` 3440-4260) | parent link, `synchronized`, cached state, two stacking orders | `weston_subsurface_commit`, `_synchronized_commit`, `_parent_commit`, `set_sync/desync`, `place_above/below` | recursive with `weston_surface_commit` |
| Surfaces (`C` 1984-2140, 3201-3320) | pending and current state, buffer reference, frame callbacks, feedback, role | attach, damage, frame, commit, destroy | roles' `committed` hooks |
| Renderers (GL, pixman, no-op) | textures, damage per buffer | `repaint_output`, `attach`, `flush_damage` | backends |
| Input (`input.c`, `bindings.c`) | focus, grabs, serials, modifiers | seat, pointer, keyboard, touch requests and grabs | surfaces' destroy listeners, shell grabs |
| Data device (`data-device.c`), clipboard | source, its offer, the drag and its grab; selection | `start_drag`, the grab's callbacks, `accept`, `set_actions`, `finish`, destroy | seat focus, source and target clients, Xwayland selection |
| libweston-desktop (`xdg-shell-v6.c`) | per toplevel: pending, next and current configuration, `configure_list`, `configure_idle` | the shell's `set_*` hooks, `send_configure`, `ack_configure`, `committed` | idle sources, shell callbacks, the client |
| desktop-shell (`S`) | `locked`, `prepare_event_sent`, `lock_surface`, a fade per output; workspaces, focus states | `lock`, `unlock`, `shell_fade`, `resume_desktop`, the helper client's requests | idle and wake signals, animations run by repaints, its client |
| ivi-shell, fullscreen-shell | pending and committed layer properties | commit of changes, transitions | layout controller |
| Xwayland (`window-manager.c`) | windows, unpaired list, focus window; selection transfers | handlers of X events, `weston_wm_create_surface`, `surface_destroy`, activation | X connection, Wayland connection, shell |
| Launchers | device fds, D-Bus state | pause, resume | `session_notify` |
| linux-dmabuf | parameter object | add, create, create_immed | buffers |
| Frontend, recorders, helpers, clients | configuration; side outputs | -- | creates, enables and destroys outputs |

What is hard, for the parts with state that other parts rely on:

- **Repaint loop.** A repaint cycle is a ring of four statuses, and each arrow
  is taken by somebody else: the scheduler, the idle source, the backend, the
  timer. If any of them fails to hand over, the output freezes, silently and for
  ever, while all its state looks healthy. The timer is shared by all outputs.
  What makes it correct: awaiting <=> a completion is coming; scheduled => the
  timer is armed; damage => in the cycle; the assertions of the code.
- **Power and session.** A sleep or a session switch stops the cycle without
  looking at where each output is; the wake has to start them again.
- **DRM.** Completions come from the kernel and refer to CRTCs. What cannot be
  done while a flip is in flight is parked on the output and done by its event:
  two parked operations, power-off and destruction, and the ordinary end of a
  frame meet in one function. A commit of several outputs may fail as a whole.
- **Sub-surfaces.** Requests of a tree of surfaces take effect in an order that
  depends on who is synchronised with whom at the time of each commit.
- **Toplevels.** What the shell wants, what it has sent, what the client has
  acknowledged and what it shows are four different things at any time; whether
  to send again is decided by comparing two of them.
- **Locking.** Power, fades of several outputs, and a helper process that may be
  slow or die have to agree on one thing: a locked screen can be unlocked, and
  whoever touches the machine sees something.
- **Drag and drop.** Three clients' views of one negotiation, of which one passes
  the other on; and the time after the drop, when no grab guards the state.
- **Xwayland.** One X server over two connections whose messages overtake each
  other.
- **Focus, grabs, selections.** Objects vanish between the two ends of a
  protocol.

The `hazards` in `PROJECT.json` list where exactly each of these bites.

## 2. Modules

```
 FrameService          the abstract promise of a repaint cycle
   ^          ^        (refinement)
 RepaintLoop  DrmRepaint
      \        /
     RepaintCore       operations on one output record, shared

 Subsurface    XdgToplevel    ShellLock    DragAndDrop    XwmWindow
```

The second row are components that meet the others only through what the models
take as input: a commit, a wake, an idle timeout, a focus. `MC...` modules
instantiate them for TLC (`XdgToplevel` needs none), and `..._proofs` modules
hold the theorems.

### RepaintCore
An output's repaint fields as a record, and the functions of `compositor.c` that
change them as operators on it: `ScheduleRepaint` is
`weston_output_schedule_repaint()`, `FinishFrame` is
`weston_output_finish_frame()`, and so on; `ReadyToRepaint` and `DropFromCycle`
are the two tests of `weston_output_maybe_repaint()`. `next_repaint` and the
clock are abstracted to `due`. An `assert()` of the code that fails sets the
field `abort`, upon which the specification stops; `NoAbort` says that it never
happens. An operator whose comment begins with "Slip" is a plausible mistake in
the operator next to it; no specification uses it, it serves to show that the
properties can tell the difference.

### RepaintLoop
The cycle over the backends that end a frame with a timer of their own. `out`
holds the outputs' records, `flip` the outputs whose `finish_frame_timer` is
armed, `armed` says whether the compositor's `repaint_timer` is, `visiting` and
`todo` are the progress of `output_repaint_timer_handler()` through the output
list. The handler is split into a step per output so that its order is
arbitrary; `~visiting` guards all other callbacks, since the event loop cannot
run them in the meantime. `surf` holds what a surface has to do with it: its
primary output (which decides who answers its frame callbacks), whether its
`output_mask` holds that output, its waiting callbacks and feedback.

The shell appears only through what it does to the rest: it may put the
compositor to sleep from the last frame of a fade-out (inside of the repaint
loop: `locks` in `RepaintOutput`) or from elsewhere (`Sleep`), and when woken it
either damages the outputs at once or asks its client to unlock first.

`Features` names what may happen beyond rendering and hot-plug; the theorems are
proved for all of them or say which they exclude.

### DrmRepaint
The cycle over the DRM backend. An output's record gains the KMS side: `on`
(`state_cur` is lit), `flip` (`state_last` is set: a state has been applied and
not completed), `pending` (its part of the handler's `pending_state`),
`rewired` (a connector was attached that the kernel does not know of),
`destroyPending`, `dpmsOff`. The kernel is four things: what it drives
(`active`), what shows a framebuffer (`shown`), what it owes (`events`), and
whether it takes a commit (`Answer`): it takes nothing without a session; an
atomic commit goes through whole or not at all, and is refused (`Refused`) if it
touches a CRTC with an event under way, or brings a new connector without
`ALLOW_MODESET`.

While `state_invalid` is set a commit does more than it was made for: it switches
off the CRTCs that no output uses (`Unused`, `D` 2628-2673), and an atomic one
begins with all planes disabled (`Blanked`, `D` 2683-2690), which the states in
the commit override for their own outputs only. Any other output that shows
something is pulled into the commit: it goes black and gets an event, or, with a
flip in flight, has the commit refused. With more than one output in use this
does happen in the code (section 4). The feature `apart` says whether it can
in the model: without it, and with atomic commits, an output goes or has its heads
changed, and the session is switched, only while no other output is in use; and
an output joins others only while no flag or dark session threatens what they
show (`EnableOutput`). The legacy API has no such reset and no such restriction.

The variable `atomic`, fixed when the device is opened, is the API; the model
keeps the differences of the two paths in the code, among them that the legacy
path finishes the frame when it switches an output off (`SyncOff`), returns
success whatever happened, and writes to the output its events point to.
`drm_output_update_complete()` is the core of `FlipEvent`, with a disjunct for
a destruction that was deferred, one for a power-off that was, one for the end of
a frame, and one for an atomic event whose output has gone. The function's
fourth branch, a deferred disable (`D` 1898), has none of its own: an enabled
output is only disabled when it loses its last head (`C` 4859), and the frontend
destroys it in the same callback (`src/compositor/main.c` 1303, 1933), so
whenever `disable_pending` is set `destroy_pending` is too, and the code tests
that first; `destroyPending` stands for both, also in the tests of
`disable_pending` at `D` 2894 and 2940.
`PowerOffAll` is one step of the event loop, in which the code applies one
disabled state after the other.

### FrameService
What both promise: four variables (outputs in use, outputs owed a frame, outputs
with a frame in flight, awake), one action per event an onlooker can tell
apart, and `Service`: a damaged output that is in use and awake gets its frame,
and every frame in flight leaves. Each detailed module states its refinement as
`ImplementsFrameService`.

### Subsurface
A client's surfaces as a forest. `tree` says which are alive, which are
sub-surfaces, of whom, and in which mode; `stack` and `pendingStack` are
`subsurface_list` and `subsurface_list_pending`, in which a parent lists itself
too; `cur` and `cache` are the current state of a surface and
`weston_subsurface.cached`. One action per request: `Commit` is
`surface_commit()` with `weston_subsurface_commit()`, and `Reached` is the
recursion of `weston_subsurface_parent_commit()` and
`weston_subsurface_synchronized_commit()` said as a set. The content of a
commit is its number: the state it replaces, whether it attached a buffer, its
frame callback and its feedback. The code has three ways to apply state
(directly, from the cache, through the cache); a direct commit is the same as
one through an empty cache, and is written so. `sent` is a history variable: the
commits of a surface, less those that were dropped with its `wl_subsurface`.
What is above a surface (`Above`) is the smallest set with its parent and the
parents of all members, which is what following `parent` links up to NULL visits;
said without recursion, it can be reasoned about.

### XdgToplevel
One `xdg_toplevel` between the shell, the idle source that sends configure events
and the client. `top` is `struct weston_desktop_xdg_toplevel` with its surface's
width; `list` is `configure_list`. The shell's hooks all end in
`ScheduleConfigure`, which schedules an event or withdraws one, depending on
`PendingSame`, the comparison of
`weston_desktop_xdg_toplevel_state_compare()`. The four states are reduced to
the two kinds the code tells apart: `mode`, which binds the client to the
configured size (a commit of another size is a protocol error, `MayCommit`), and
`active`, which does not. Sizes have one dimension. `grabbed` is the shell's resize
grab: it begins only on a surface that shows no mode, but goes on resizing
whatever mode is set meanwhile. `told` is the last event;
`blind` notes that the shell decided while the comparison was with a state that
is not the client's (`Misjudged`, see section 4).

### ShellLock
How desktop-shell darkens, locks and unlocks the screen: the power state, a fade
for each output, the shell's state, and its helper client
(`src/clients/desktop-shell.c`) behind two queues, `events` to it and `requests`
from it. `ShellFade` is `shell_fade()`: a running animation turns around.
`FadedOut` is `lock()`, which puts the compositor to sleep and thereby stops the
other outputs' animations where they are. `Unlock` is the shell's part of a
wake: it fades in, resumes at once if there is no client, asks the client, or
waits for its answer. `Dispatch` handles one request; the client's `unlock` and
the destruction of its dialog are sent in one go and are one request.
`ClientDies` is everything that happens then: `desktop_shell_client_destroy()`
respawns it or gives up, and `unbind_desktop_shell()` unlocks.

### DragAndDrop
One drag: `drag` is `struct weston_drag`, `source` its data source, `offer` the
one offer that is linked to the source. `SetFocus` is `weston_drag_set_focus()`:
leaving a target keeps the offer linked, entering another replaces it and starts
the negotiation anew (`Enter`). `UpdateAction`, called wherever the code calls
`data_offer_update_action()`, picks the action and tells both sides (`Tell`).
`Release` is `drag_grab_button()` with its two tests: releasing the button that
began the grab (`Drops`) drops, releasing the last one ends the grab, and with
another button held (`down`) the grab outlives the drop, without a seat, and
goes on to enter targets and maybe to drop again. A drop on a target that has
destroyed its offer uses a NULL pointer (`data-device.c` 662); the compositor has
`crashed` then and the model stops. `TouchUp` and `Cancel` are the other ends of
a grab; after it the target goes on with its offer. `Old` targets have a data
device of version 1 or 2, `Deaf` ones have none. `told` is what the clients know;
`told.astray` notes that a grab has outlived its drop to enter or drop again.

### XwmWindow
X11 windows between the X server, external and modelled as `src/xwayland` uses
it, and the window manager. `xevents` and `requests` are the two connections
the server speaks over, `orders` the window manager's requests to it; each is a
queue, and nothing orders one with respect to another. `SurfaceId` and
`CreateSurface` are the two ends of pairing, whichever comes first;
`MapShellSurface` is `xserver_map_shell_surface()`. `owner` in a surface is a
history variable: the window it was realised for. `Fullscreen` windows take the
function's early return.

## 3. What the runs check

| run | instance | shows |
|---|---|---|
| `loop_safety` | 2 outputs, 1 surface, all features | no assertion fails; idle sources match; damage is scheduled |
| `loop_service` | 2 outputs, 1 surface, `sleep`, `vt` | the cycle stays closed, and implements the frame service with its liveness |
| `loop_frames` | 1 output, 2 surfaces, `sleep`, `vt` | frame callbacks and feedback are answered |
| `drm_cycle` | 2 outputs, both APIs: legacy with `sleepevent`, `vt`, atomic with `vt`, `novblank`, without `apart` | no assertion fails, what is lit shows something, the frame service, deferred destruction happens, outputs go dark |
| `drm_failures` | 2 outputs, both APIs, all features (legacy without `replug`) | what the backend believes of flips and parked work is true up to the first failed assertion |
| `drm_parked_off` | 1 output, atomic, `sleepevent` | *violation*: see below |
| `sub_commits` | 3 surfaces, 3 commits | nothing committed is lost or applied early; trees change as a whole; no cycles; both lists agree |
| `xdg_configure` | sizes up to 2, 2 configures in flight, with and without shadow | the client is told what the shell wants, and ends up that way |
| `shell_lock` | 2 outputs, gives up after 2 deaths | the locked screen can be unlocked, the client is asked once, the screen returns, and goes dark |
| `drag_and_drop` | 3 targets: version 3, version 2, no data device | both sides agree on the action, drops are wanted, finishing is taken and settled; also with other buttons held |
| `drag_touch` | the same | *violation* |
| `xwm_windows` | 2 windows, managed or not, one fullscreen; 3 surfaces, 2 unread events | windows get their own surfaces, no assertion fails, no commit without a role, mapped windows are shown |

`drm_failures` does not check for deadlock, since a failed assertion ends the
process, nor `drag_and_drop`, where a drop on a destroyed offer does, nor does
`xwm_windows`, whose windows and surfaces run out. In every other passing run the
system must never stop.

**Bounds.** No run has a state constraint. The repaint models are finite as they
are: an output is in one of four statuses, and more damage to a damaged output
is no news. Two outputs are what it takes for one to disturb the other through
the shared timer, the shared pending state or a common commit; nothing in the
code distinguishes a third from the second. One surface with two outputs shows
every move of a primary output; two surfaces on one output show that a frame
answers several. In `Subsurface` three surfaces make every tree with a
grandchild and every forest with a sibling, and three commits put state into two
caches and then apply it, or replace a cached buffer twice. `MaxCommits` bounds
the commits of all surfaces together; `OrderIsApplied` lets a client restack once
before the order is applied, which bounds the orders, not their effect. Four
commits (1.3 million states) give the same result.

In `XdgToplevel` two sizes and 0 tell apart a size that is wanted, one that is
not and none; two configures in flight make an oldest and a newest, and
acknowledging the newest drops the other. In `ShellLock` one output's fade can
end while the other's runs; `DeathLimit` is 5 in the code, 2 already has deaths
that are respawned and one that is not. In `DragAndDrop` the kinds of targets
are what the code distinguishes; leaving one for another of the same kind is
covered by the proofs, which are for any number. In `XwmWindow` three ids let
one window be mapped twice while the other is mapped, so that a message for its
first surface meets its second; `MaxEvents` bounds how far the X connection is
ahead, and with it the orders and requests under way.

**Mutants.** For every property of a passing run `PROJECT.json` names a plausible
mistake in a mapped definition with which TLC finds that property violated.

**Fairness.** `RepaintLoop` and `DrmRepaint` assume that a callback that has been
entered runs to its end (weak fairness of the steps of the handler's loop), that
the clock advances (weak fairness of `Tick`), and that the event loop serves
whatever is ready: `wl_event_loop_dispatch()` runs all idle sources before it
polls, and epoll reports an expired timer or a readable DRM fd. The repaint
handler may be entered again and again in between, which disables those actions
for its duration, so for them the assumption is strong fairness. The DRM model
also assumes that the kernel sends the events it owes (strong fairness of
`FlipEvent`). Nothing is assumed of clients, input, hot-plug or the session,
except in `Unlock`: the locked shell's client answers when asked.

`XdgToplevel` assumes that the idle source runs and that the client answers:
it acknowledges the newest configure (`Reply`) and commits what it has
acknowledged (`Redraw`), strongly fair because the shell's next decision may
withdraw or replace what they react to; without that no compositor can bring a
client anywhere. `ShellLock` assumes that timers and idle sources fire, that a
fade makes progress while there are repaints, that requests are dispatched and
that a client which has been asked answers and draws; nothing of the user, of
deaths, of a respawned client's binding. `XwmWindow` assumes that both
connections are read, that the X server carries out requests, and that a window
that may commit does. `DragAndDrop` has no liveness: everything in it waits for
a user or a client.

## 4. What the runs found

Two are findings in `PROJECT.json`, each with a run and the line it contradicts.

- **A power-off parked until a flip completes** (`D` 1902): with atomic commits
  the output never leaves `REPAINT_AWAITING_COMPLETION`; after a wake it is
  neither repainted nor powered on. The legacy path finishes the frame when it
  applies the disabled state.
- **A drop by touch** (`data-device.c` 740): the grab ends with the source still
  marked as dragged; the target's `finish` is answered with a protocol error.

Other deviations were met with the models, by adding a feature to a run or by
stating the property without its exception; they are kept out of the passing
runs that state the property:

| model, feature | property that fails | code |
|---|---|---|
| RepaintLoop `disable` | `AwaitingIsInFlight`: disabled while a frame is awaited, an output that is enabled again waits for ever | `C` 5856 |
| RepaintLoop `modechange` | `AwaitingIsInFlight`: `fbdev_output_reenable()` drops the frame timer | `compositor-fbdev.c` 707 |
| RepaintLoop `enablefail` | `TimerCoversScheduled`: the idle source of a failed enable runs; a later enable finds the output scheduled and arms nothing | `C` 5802 |
| RepaintLoop `offscreen` | `PrimaryOutputIsListed`: a surface without an overlap keeps an output that was removed | `C` 5508 |
| RepaintLoop, 2 outputs | `CallbackIsAnswered`: unplugging moves a surface that waits for its callback to an output without scheduling one | `C` 1080 |
| DrmRepaint `commitfail` | `DamageIsRepainted`: the result of the flush is dropped | `D` 3107 |
| DrmRepaint atomic, `apart`, 2 outputs | `OnIsShown`: the commit for one output resets the planes of another that is lit and not in it, which goes black; the comment says "planes which are being used will override this state" | `D` 2683 |
| the same | `NoAbort`: that output gets an event nobody has asked for (an output is plugged and at once unplugged while another is idle; the next flush, of nothing, resets the planes) | `D` 2683, 3150 |
| the same | `AwaitingHasFlip`: with a flip of that output in flight the commit is refused with EBUSY, the result is dropped, and the output that was flushed waits for ever | `D` 2683, 3107 |
| the same | `AwaitingHasFlip`: heads change on one output, another's commit clears `state_invalid` first, and the new connector comes without `ALLOW_MODESET`: "what guarantees another output's update will not clear the flag before this output is updated?" | `D` 5385, 2692 |
| DrmRepaint `replug` | `NoAbort`: the event of the output's predecessor on the CRTC arrives | `D` 3143 |
| DrmRepaint legacy, `sleeploop`, 2 outputs | `SleepsDark`: an output that is still off but has been repainted in the same run is passed over, lit by the flush, and stays lit | `D` 4818 |
| DrmRepaint legacy, `vt`, `novblank` | `DamageIsRepainted`: the legacy apply reports success although the flip was refused | `D` 2993 |
| DrmRepaint atomic, `sleeploop`, 2 outputs | `NoAbort`: the power-off of an output that is not being repainted joins the commit in progress; a wake before its event repaints over an incomplete state | `D` 4835, 3516 |
| DrmRepaint legacy, `renderfail` | `NoAbort`: a failed repaint keeps the feedback it has taken, and the next start of the loop asserts that there is none | `C` 2478, 409 |
| DrmRepaint, quick wake | the output is still on, the wake does not cancel a parked power-off, and it goes dark while the compositor is active | `D` 4818 |
| DragAndDrop, another button held | a grab that outlives its drop has no seat: after an ASK drop the target dropped on may change the action untold (175), and one entered later whose action is the same is told nothing, so without `~told.astray` `ActionsAgree` fails | `data-device.c` 650, 170 |
| the same | the target dropped on is refused nothing but is not heard either: entering another one unlinks its offer, and its `finish` is ignored | `data-device.c` 521, 220 |
| the same | a target entered after the drop may finish in place of the one dropped on, while the grab drives on: "Disallow finish while we have a grab driving drag-and-drop"; without `~told.astray` `FinishedIsSettled` fails | `data-device.c` 223, 666 |
| DragAndDrop | a target that destroys its offer, or finishes after a first drop, and stays focused leaves `accepted` behind; the next drop uses the source's missing offer | `data-device.c` 662 |
| XdgToplevel without `blind` | `ClientKnows`: with no configure in flight the comparison takes the *committed* state for the configured one, though a later one may have been acknowledged, and the surface's size, though sizes are of the window geometry | `xdg-shell-v6.c` 945 |
| ShellLock | an output's fade-out that ends after a wake puts the active compositor to sleep again; and after a wake during a fade an idle timeout need not end in sleep | `S` 3949 |
| XwmWindow, `Reuse` | `PairedRight`, `NoAbort`: the message naming a surface that is gone is read when its id is another's, which may have its role already | `window-manager.c` 1757 |
| XwmWindow, `Fullscreen` | `ShownAtLast`: a window that is fullscreen when it is mapped returns before commits are allowed again | `window-manager.c` 2865 |

Read in the code while it was modelled, and left out of the models:

- `C` 3295: the colour space and the HDR metadata of a synchronised sub-surface
  are taken from the pending state when the cached one is applied.
- `S` 4778: an output that is unplugged while a fade is on it frees the fade's
  data under the animation; `S` 4029 cancels the lock of *all* outputs when one
  fade view loses its output.
- `data-device.c` 256: a target before version 3 that only passes reports
  `dnd_finished` while the drag goes on. A source that was dragged once may be
  dragged again; nothing refuses it. 859: cancelling the keyboard grab takes the pointer's drag for a touch
  drag. 853 and 1069 use the source of a drag that has none.
- `window-manager.c` 1454 leaves `configure_source` behind; a window mapped twice
  before its unmapping is read may commit before its role is set.
- `S` 1635: an interactive resize limits the width twice, and the height never,
  to the client's maximum.

## 5. What is proved

All proofs are for every value of the constants: any sets of outputs, surfaces,
targets and windows, any tree, any bound.

**RepaintLoop_proofs**, for all `Features`. The inductive invariant `Inv` is
`TypeOK`, together with
  * `Sound(r)` for each output's record: no assertion has failed, the idle source
    is there exactly in `BEGIN_FROM_IDLE`, feedback is held only in
    `AWAITING_COMPLETION`;
  * `FlipIsAwaited`: a frame timer runs only for an output that awaits it. This
    is what makes the assertion of `weston_output_finish_frame()` hold;
  * `TodoIsVisited`: the handler's loop has nothing to do while it does not run;
  * `NeededIsScheduled`.

`NoAbort` alone is not inductive: the assertions about feedback and idle sources
need `Sound`, the one about the awaited frame needs `FlipIsAwaited`, and typing
`todo` and `flip` as sets of *listed* outputs needs that every way an output
leaves the list takes it out of both. From `Inv`: `TypeCorrect`,
`AssertionsHold`, `IdleSourcesMatch`, `DamageIsScheduled`. `Placement` adds that
a surface assigned to an output is shown, so that it is assigned anew before the
output goes; it holds without `offscreen` (section 4), and gives
`PrimaryOutputsAreListed`.

**FrameService_proofs.** `Orderly` excludes the features under which the code does
get stuck (`modechange`, `enablefail`, `disable`). Under it `CycleInv` (outputs
that are not in use take no part, awaiting <=> in flight, scheduled => timer
armed) is inductive relative to `Inv`, which gives `CycleIsClosed` and
`ScheduledIsCovered`. `Refinement`
is the safety half of `ImplementsFrameService`: initial states map to initial
states and every step to a step or a stutter, action by action
(`StepRefines`); it only has to exclude `modechange`, where a frame timer
vanishes for several outputs at once.

**DrmRepaint_proofs**, in three parts.
  * For all features. `Inv` is `TypeOK` and `Booked(o)` for each output: the
    conjuncts of `FlipHasEvent` and `DeferredHasFlip` that speak of `o`, that
    what is lit is active, that a record off the list is `AbsentDrmOutput`, and
    that nothing is pending outside of the handler. The latter two make it
    inductive: a flush touches only listed outputs. So the backend's books agree
    with the kernel whatever is refused, blanked, fails or comes back early:
    `FlipsHaveEvents`, `DeferredHaveFlips`, `TypeCorrect`.
  * Under `Steady`, which leaves to each API what its path copes with (session
    switches; missing vblank timestamps with atomic commits; sleep, also from
    within the handler, with legacy requests). What it leaves out are the
    features under which the deviations of section 4 occur. `Closed(r)` says that an
    output awaits a completion exactly while a state of its is put aside or in
    flight; `CycleInv` adds that whatever is put aside the kernel will take: no
    event is owed for the output but by its own flip, and the session is there.
    `SweepInv` is about the reset of the planes: what is lit is shown, and while
    `state_invalid` is set an output that shows something is the only one, and
    about to be repainted, so that the commit that resets its planes is its own.
    This is what the feature `apart` would destroy. `CycleInv` needs it (a plane
    reset of another output would be refused, or bring an event nobody expects)
    and it needs `CycleInv`, so the two are proved together. From them
    `AssertionsHold`, `AwaitedFlips` and `LitIsShown`.
  * Under `Rendering`, that is without a power-off inside the handler, which may
    end several frames in one flush: `Refinement`, the safety half of
    `ImplementsFrameService`. `DamageInv` is what it needs besides: a cycle that
    begins has damage to show, so that the flip started to learn a timestamp
    (`D` 2989) counts as the frame.

**Subsurface_proofs.** `Books(r, c, t)` says of one surface that its current state
`r`, its cache `c` and what it has committed `t` add up; lemmas show that filling
the cache, applying it and dropping it each keep the balance, whatever the tree
is. `Balanced` adds to the two properties that a cache without data is empty
and that a cached buffer is newer than what is applied; without the first, a
stale buffer in an unused cache could come back with the next commit, without
the second, feedback could survive its content. From it `NothingIsLost`
and `FeedbackStaysCurrent`. `SyncFollows` is the action property
`SyncFollowsAncestor`, for trees of any depth.

The tree itself is in `Linked`: no cycle (`Acyclic`), no parent without the role
(`Rooted`), no surface twice on a list (`Stacked`), and `ListsHoldChildren`. The
conjuncts need each other. A new child closes no cycle only because a surface
without a role has no parent and so cannot be above anything but as a main
surface, which `subcompositor_get_subsurface()` looks at. It is on no list yet
only because the lists hold nobody but children. Taking a child off its parent's
list does not take the parent off only because the two are different, which
is acyclicity. Facts about `Above` are shown by naming a set with the parents of
all its members (`AboveLeast`), in place of an induction; facts about the lists by
comparing positions (`ShorterIsOrder`, `LongerIsOrder`). `Bounded` is the types of
the commit counters, which need that the bound on all commits together bounds
each surface's (`CommitHasRoom`, a cardinality argument). From these `NoCycle`,
`ListsAreComplete` and `TypeCorrect`. `TreesChangeAsAWhole` is the action property
`SyncIsAtomic`: a synchronised sub-surface has a topmost synchronised one above
it (`SyncRootIsTop`; the sets above form a well-founded order), of two surfaces
above a third one is above the other (`AboveIsChain`), and so whatever reaches a
member of the tree from outside has come through its top and reaches all of it.

The operators over the tree are sets (`Above`, `Below`, `Reached`) where the code has
loops and recursions. `WalksAreFollowed` shows that in every reachable tree they
satisfy the equations the code unfolds (`C` 3579-3657, 3706-3715): a surface is
synchronised if it or its parent is, its main surface is its parent's, and a commit
goes to the synchronised children it lists and everything below those. With
`NoCycle` this fixes their values, so the sets stand for what the code computes.

**XdgToplevel_proofs.** `ClientKnows` speaks of what the client was told last;
the invariant has to know where that is to be found: the newest configure in
flight if there is one, else the one acknowledged last (`next`), and while
nothing was told the toplevel is not configured or not scheduled. A decision
then either leaves a configure scheduled or found the wanted state equal to one
of the two; if it compared with the committed state instead, `Misjudged` says so.

**ShellLock_proofs.** The invariant follows one token: `prepare_event_sent` is
set exactly while one question or one answer is under way (`Conversation`),
anywhere among the event, the client's dialog and its queue of requests, and
nothing is under way with a client that has not bound (`Bound`). A new question
is only asked when the token is free; every way the client's answer is consumed
frees it; its death frees it together with both queues. `LockIsAnswered` and
`AsksOnce` are the two halves of that.

**DragAndDrop_proofs.** `ActionsAgree` is inductive with types once the invariant
says what an offer that is linked has been told and that asking begins only after
the drop, for as long as no grab has gone astray (`told.astray`); `DropIsWanted` is an action property that needs that `accepted` of the
source is the last word of the very target in focus, and that the chosen action
is one both sides can take. After the drop, `Heard` says that what the target of a
pointer's drop believes in is what has been chosen, because the seat no longer
has a say and what the user was asked for is what the target prefers: a target
that finishes on its belief is not refused (`FinishIsAlwaysTaken`), also when the
grab has outlived the drop; and a source that is told the end knows the action,
and its target has had the drop (`FinishesAreSettled`): the code looks at the
seat only, and the invariant says that without one the linked offer has been
dropped on, unless the grab has entered another target since.

**XwmWindow_proofs.** Five invariants, each resting on those before it.
  * `Typed`: types, and that a mapped window has an id (`TypeCorrect`).
  * `Ordered`: events are read in the order they were queued in. A window that
    is not mapped, or that is about to be asked for again, has its unmap event
    waiting as long as the window manager has a surface, an id or the focus for it
    (`UnmapsFirst`); and nothing is read of a window before its creation or after
    its destruction (`KnownInTime`). It follows that the focus is never left on a
    window that has been freed, though `weston_wm_window_destroy()` does not look
    at it (`FocusIsAlwaysKnown`).
  * `Inv`: one assignment of ids to windows, `own`, that everything that mentions
    an id agrees with: the messages in both queues, the unpaired list, the
    windows' surfaces and the surfaces' owners; and ids that are still free are
    mentioned nowhere. Reading a message can then only move an agreement from one
    place to another (`PairsAreRight`).
  * `Named`: each id is named to the window manager once, and before its surface
    has its role; a window has a shell surface exactly while it has a surface. So
    no assertion about them fails (`NeverAborts`).
  * `Waiting`: a window is mapped for Xwayland only after commits were forbidden,
    and they are allowed again only for a surface with its role; as long as
    there is neither, the surface's creation or its name is still to be read
    (`CommitsHaveRoles`).

The first two hold in general. The others assume `~Reuse`: if Xwayland uses an
object id again before the message that named its former surface has been read,
TLC finds `PairedRight` and `NoAbort` violated.

**Assumed**: the `ASSUME` of each module (the NULL value is not an object,
features are known ones, bounds are naturals, a client's surfaces are finitely many).

**Only model-checked**: liveness (`ImplementsFrameService` as far as it is
fairness, `CallbackIsAnswered`, `FeedbackIsAnswered`, `DestroyedInTheEnd`,
`SleepsDark`, `Settles`, `ScreenReturns`, `GoesIdle`, `ShownAtLast`), which rests on
`ENABLED` and is beyond the prover. Every invariant and every action property that
the passing runs check is also a theorem: for all constants where the code
allows it, and else under a restriction that is named with the theorem above
(`Orderly`, `Steady`, `Rendering`, `~Reuse`, no `offscreen`).

## 6. What is not modelled

Time (`next_repaint`, presentation times, the vblank period), damage regions,
geometry and transforms, buffers' contents and release, the choice of planes,
formats, heads, modes and layout, the renderers, and the components marked
`not_modelled` in `PROJECT.json`, each with its reason there. Most of the lines of
the tree are of that kind: drawing, formats, protocol boilerplate, the demo
clients and their toolkit, tests and generated data, whose state no other part
relies on.

Within the modelled components: in `RepaintLoop` the shell appears only through
its effect on power and damage. In `Subsurface`, positions, views and mapping are
left out, surfaces have no second reference that keeps them alive, clients send
no request that is a protocol error, and none restacks a sub-surface whose parent
is gone (`C` 3913 reads the parent's list). In `XdgToplevel`, popups, minimum and
maximum sizes, the window geometry's own double buffering, and fullscreen on top
of maximized: the two are one mode. In `DrmRepaint`, outputs that share or
exchange planes or CRTCs, what another session does to them, and an output that
is disabled and kept. In `ShellLock`,
outputs are unplugged only when no fade is on them, the fade animation is the
configured one, and a client that crashes within its first half minute, upon
which weston terminates, is not followed further. In `DragAndDrop`, sources
before version 3, the selection, requests on offers that are no longer the
source's (the code ignores them), and a second drag of the same source. In `XwmWindow`, windows that are mapped twice before the first mapping is
carried out, changes of the override-redirect flag, frames' own unmapping,
decorations, states and geometry.

## 7. Plan

What the next steps would be, in order of what the rest relies on:

1. `Subsurface`: buffer references and their release, with a client that destroys
   a cached buffer.
2. `Focus`: keyboard and pointer focus, grabs, and the destroy listeners between
   them, under `DragAndDrop`; then the selection and Xwayland's transfers of it.
3. `DrmPlanes`: which views go to which planes under a test commit, framebuffer
   references, scanout and cursor reuse.
4. `FrameTiming`: `next_repaint` in bounded integers, the early and late cases
   of `weston_output_finish_frame()`, the wrap of the vblank sequence.
5. xdg popups and their grab, `IviLayout`.
