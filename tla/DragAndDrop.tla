---------------------------- MODULE DragAndDrop ----------------------------
(***************************************************************************)
(* Drag and drop of libweston: the source client, the grab that drives the *)
(* drag, and the targets it passes over.  Every target entered gets an     *)
(* offer of its own; it accepts and names the actions it can take, and the *)
(* compositor picks one.  After the drop the target goes on with its offer *)
(* until it finishes or destroys it, and the grab is gone; but with        *)
(* another button held the grab outlives the drop.                         *)
(*                                                                         *)
(* Requests on an offer that is no longer the source's are ignored by the  *)
(* code and left out here.  The source is of version 3 and dragged once;   *)
(* one drag at a time.                                                     *)
(***************************************************************************)
EXTENDS Naturals

CONSTANTS
  Targets,  \* clients with one surface each
  Old,      \* those with a data device of version 1 or 2
  Deaf,     \* those without a data device
  None

ASSUME TargetsAssumption ==
  Old \subseteq Targets /\ Deaf \subseteq Targets /\ None \notin Targets

VARIABLES
  drag,    \* struct weston_drag
  source,  \* struct weston_data_source
  offer,   \* the struct weston_data_offer whose source is the source
  gone,    \* targets that have disconnected during this drag
  told     \* history: what clients have been told, and said themselves

vars == <<drag, source, offer, gone, told>>

Actions == {"COPY", "MOVE", "ASK"}   \* in bit order

Choices == Actions \cup {"NONE"}

Devices == {"pointer", "touch"}

Buttons == {"grab", "other"}   \* pointer->grab_button, and any besides

Drag ==
  [ on : BOOLEAN, by : Devices,
    down : SUBSET Buttons,          \* held; all of them are button_count
    crashed : BOOLEAN,              \* the compositor has used a NULL offer
    target : Targets \cup {None},   \* focus_resource
    view : Targets \cup {None} ]    \* focus

Source ==
  [ fresh : BOOLEAN,                \* not dragged yet
    seat : BOOLEAN,                 \* seat # NULL
    actions : SUBSET Actions,       \* dnd_actions; set exactly if not empty
    accepted : BOOLEAN, action : Choices, wish : Choices,
    offer : BOOLEAN ]               \* offer # NULL

Offer ==
  [ of : Targets \cup {None}, asking : BOOLEAN,
    actions : SUBSET Actions, preferred : Choices ]

Told ==
  [ source : Choices,               \* last action event
    target : Choices,               \* last action event of this offer
    accepted : BOOLEAN,             \* the target's last word on this offer
    drop : BOOLEAN,                 \* the target has had the drop on this offer
    astray : BOOLEAN,               \* the grab went on to enter or drop again
    finished : BOOLEAN, refused : BOOLEAN ]

NoDrag ==
  [ on |-> FALSE, by |-> "pointer", down |-> {}, crashed |-> FALSE,
    target |-> None, view |-> None ]

NewSource(actions) ==
  [ fresh |-> TRUE, seat |-> FALSE, actions |-> actions, accepted |-> FALSE,
    action |-> "NONE", wish |-> "NONE", offer |-> FALSE ]

NoOffer == [of |-> None, asking |-> FALSE, actions |-> {}, preferred |-> "NONE"]

NothingTold ==
  [ source |-> "NONE", target |-> "NONE", accepted |-> FALSE, drop |-> FALSE,
    astray |-> FALSE, finished |-> FALSE, refused |-> FALSE ]

(* What the variables hold: the source's offer is an offer of it.          *)
TypeOK ==
  /\ drag \in Drag /\ source \in Source /\ offer \in Offer
  /\ gone \subseteq Targets /\ told \in Told
  /\ source.offer => offer.of \in Targets

Init ==
  /\ drag = NoDrag /\ offer = NoOffer /\ gone = {} /\ told = NothingTold
  /\ \E actions \in SUBSET Actions : source = NewSource(actions)

-----------------------------------------------------------------------------
(* The action.                                                             *)

OfferActions(o) == IF o.of \in Old THEN {"COPY"} ELSE o.actions

FirstOf(actions) ==
  IF "COPY" \in actions THEN "COPY" ELSE IF "MOVE" \in actions THEN "MOVE" ELSE "ASK"

(* data_offer_choose_action().                                             *)
ChooseAction(s, o) ==
  LET available == OfferActions(o) \cap s.actions IN
  IF available = {} THEN "NONE"
  ELSE IF s.seat /\ s.wish \in available THEN s.wish
  ELSE IF o.of \notin Old /\ o.preferred \in available THEN o.preferred
  ELSE FirstOf(available)

(* Slip: that there is no action any more is not told.                     *)
TellSome(s, o, t) ==
  IF ChooseAction(s, o) \in {s.action, "NONE"} \/ o.asking THEN t
  ELSE [t EXCEPT !.source = ChooseAction(s, o),
                 !.target = IF o.of \in Old THEN @ ELSE ChooseAction(s, o)]

(* The action events of data_offer_update_action().                        *)
Tell(s, o, t) ==
  IF s.action = ChooseAction(s, o) \/ o.asking THEN t
  ELSE [t EXCEPT !.source = ChooseAction(s, o),
                 !.target = IF o.of \in Old THEN @ ELSE ChooseAction(s, o)]

(* data_offer_update_action().                                             *)
UpdateAction(s, o, t) ==
  /\ source' = [s EXCEPT !.action = ChooseAction(s, o)]
  /\ offer' = o
  /\ told' = Tell(s, o, t)

-----------------------------------------------------------------------------
(* The grab.                                                               *)

(* Of a new offer its target has been told nothing; a grab that outlives   *)
(* the drop has no seat.                                                   *)
Anew(s) ==
  [told EXCEPT !.target = "NONE", !.accepted = FALSE, !.drop = FALSE,
               !.astray = @ \/ ~s.seat]

(* Slip: what the last target has accepted stands.                         *)
EnterAccepted(d, s, t) ==
  /\ drag' = [d EXCEPT !.target = t, !.view = t]
  /\ UpdateAction([s EXCEPT !.offer = TRUE], [NoOffer EXCEPT !.of = t], Anew(s))

(* weston_data_source_send_offer() and the enter event.                    *)
Enter(d, s, t) ==
  /\ drag' = [d EXCEPT !.target = t, !.view = t]
  /\ UpdateAction([s EXCEPT !.offer = TRUE, !.accepted = FALSE],
                  [NoOffer EXCEPT !.of = t], Anew(s))

Left(d) == IF d.target = None THEN d ELSE [d EXCEPT !.target = None, !.view = None]

(* weston_drag_set_focus(): a target that is left for nothing keeps its    *)
(* offer, one that is left for another surface loses it.                   *)
SetFocus(d, s, t) ==
  IF t = None
  THEN /\ drag' = Left(d) /\ source' = s
       /\ UNCHANGED <<offer, told>>
  ELSE IF t \in Deaf
  THEN /\ drag' = Left(d)
       /\ source' = [s EXCEPT !.offer = FALSE]
       /\ offer' = IF s.offer THEN NoOffer ELSE offer
       /\ told' = Anew(s)
  ELSE Enter(Left(d), s, t)

(* data_device_start_drag(): with one button held, or with a finger.  The  *)
(* new grab picks the view below at once.                                  *)
StartDrag(by, held, t) ==
  /\ source.fresh
  /\ held \in IF by = "pointer" THEN {{b} : b \in Buttons} ELSE {{}}
  /\ SetFocus([NoDrag EXCEPT !.on = TRUE, !.by = by, !.down = held],
              [source EXCEPT !.fresh = FALSE, !.seat = TRUE], t)
  /\ UNCHANGED gone

Motion(t) ==
  /\ drag.on /\ drag.view # t /\ t \notin gone
  /\ SetFocus(drag, source, t)
  /\ UNCHANGED gone

(* drag_grab_keyboard_modifiers().                                         *)
Modifiers(wish) ==
  /\ drag.on /\ wish \in {"NONE", "COPY", "MOVE"}
  /\ IF source.offer THEN UpdateAction([source EXCEPT !.wish = wish], offer, told)
     ELSE source' = [source EXCEPT !.wish = wish] /\ UNCHANGED <<offer, told>>
  /\ UNCHANGED <<drag, gone>>

Press(b) ==
  /\ drag.on /\ drag.by = "pointer"
  /\ drag' = [drag EXCEPT !.down = @ \cup {b}]
  /\ UNCHANGED <<source, offer, gone, told>>

(* The drop is wanted; a pointer drops when grab_button is released.       *)
Wanted == drag.target # None /\ source.accepted /\ source.action # "NONE"

Drops(b) == b = "grab" /\ Wanted

(* Slip: the seat goes on driving the drag.                                *)
DroppedHeld ==
  /\ offer' = [offer EXCEPT !.asking = source.action = "ASK"]
  /\ told' = [told EXCEPT !.drop = TRUE, !.astray = @ \/ ~source.seat]
  /\ UNCHANGED source

(* The first part of drag_grab_button(), for a drop that is wanted.        *)
Dropped ==
  /\ source' = [source EXCEPT !.seat = FALSE]
  /\ offer' = [offer EXCEPT !.asking = source.action = "ASK"]
  /\ told' = [told EXCEPT !.drop = TRUE, !.astray = @ \/ ~source.seat]

End(d) == Left([d EXCEPT !.on = FALSE, !.down = {}])

(* A button is released: drag_grab_button().  Releasing grab_button drops; *)
(* the grab ends with the last button.  The drop uses source->offer, which *)
(* the target may have destroyed, or finished when dropped on before.      *)
Release(b) ==
  /\ drag.on /\ drag.by = "pointer" /\ b \in drag.down
  /\ IF Drops(b) /\ ~source.offer
     THEN drag' = [drag EXCEPT !.crashed = TRUE] /\ UNCHANGED <<source, offer, told>>
     ELSE /\ drag' = IF drag.down = {b} THEN End(drag)
                     ELSE [drag EXCEPT !.down = @ \ {b}]
          /\ IF Drops(b) THEN Dropped ELSE UNCHANGED <<source, offer, told>>
  /\ UNCHANGED gone

(* The finger is lifted: drag_grab_touch_up().                             *)
TouchUp ==
  /\ drag.on /\ drag.by = "touch"
  /\ drag' = End(drag)
  /\ told' = [told EXCEPT !.drop = @ \/ drag.target # None]
  /\ UNCHANGED <<source, offer, gone>>

(* The grab is cancelled: drag_grab_cancel(), drag_grab_touch_cancel().    *)
Cancel ==
  /\ drag.on
  /\ drag' = End(drag)
  /\ UNCHANGED <<source, offer, gone, told>>

(* The source is destroyed, and its client makes another one.              *)
SourceDestroyed ==
  /\ ~source.fresh
  /\ drag' = NoDrag /\ offer' = NoOffer /\ gone' = {} /\ told' = NothingTold
  /\ \E actions \in SUBSET Actions : source' = NewSource(actions)

-----------------------------------------------------------------------------
(* The target.                                                             *)

Accept(accepted) ==
  /\ source.offer
  /\ source' = [source EXCEPT !.accepted = accepted]
  /\ told' = [told EXCEPT !.accepted = accepted]
  /\ UNCHANGED <<drag, offer, gone>>

(* data_offer_set_actions(), by a target that has not finished.            *)
SetActions(actions, preferred) ==
  /\ source.offer /\ offer.of \notin Old
  /\ preferred \in actions \cup {"NONE"}
  /\ UpdateAction(source, [offer EXCEPT !.actions = actions, !.preferred = preferred], told)
  /\ UNCHANGED <<drag, gone>>

(* What the target believes to be the action: what it has been told or, if *)
(* it was to ask its user, what it has preferred since.                    *)
Believed ==
  IF told.target = "ASK" /\ offer.preferred \in source.actions THEN offer.preferred
  ELSE told.target

(* Slip: the source is not told what the user was asked for.               *)
NotifyFinishUntold ==
  /\ source' = [source EXCEPT !.offer = FALSE]
  /\ told' = [told EXCEPT !.finished = TRUE]

(* data_source_notify_finish().                                            *)
NotifyFinish ==
  /\ source' = [source EXCEPT !.offer = FALSE]
  /\ told' = [told EXCEPT !.finished = source.actions # {},
                          !.source = IF offer.asking THEN source.action ELSE @]

(* A target may finish that has had the drop, accepts and believes in an   *)
(* action.                                                                 *)
GoodFaith == told.drop /\ told.accepted /\ Believed \in {"COPY", "MOVE"}

Premature == source.seat \/ ~source.accepted

(* data_offer_finish(), from any target.  A refusal is a protocol error.   *)
Finish ==
  /\ source.offer /\ offer.of \notin Old
  /\ IF Premature \/ source.action \in {"NONE", "ASK"}
     THEN told' = [told EXCEPT !.refused = @ \/ GoodFaith] /\ UNCHANGED source
     ELSE NotifyFinish
  /\ UNCHANGED <<drag, offer, gone>>

(* destroy_data_offer().                                                   *)
OfferDestroyed ==
  /\ offer' = NoOffer
  /\ IF source.offer /\ offer.of \in Old THEN NotifyFinish
     ELSE source' = [source EXCEPT !.offer = FALSE] /\ UNCHANGED told

DestroyOffer ==
  /\ offer.of # None
  /\ OfferDestroyed
  /\ UNCHANGED <<drag, gone>>

(* A target disconnects: its offer and its data device are destroyed.      *)
Disconnect(t) ==
  /\ t \notin gone /\ drag.on
  /\ gone' = gone \cup {t}
  /\ drag' = IF drag.target = t THEN [drag EXCEPT !.target = None] ELSE drag
  /\ IF offer.of = t THEN OfferDestroyed ELSE UNCHANGED <<source, offer, told>>

-----------------------------------------------------------------------------
Running == ~drag.crashed

Next ==
  /\ Running
  /\ \/ \E by \in Devices, held \in SUBSET Buttons, t \in Targets \cup {None} :
          StartDrag(by, held, t)
     \/ \E t \in Targets \cup {None} : Motion(t)
     \/ \E wish \in Choices : Modifiers(wish)
     \/ \E b \in Buttons : Press(b) \/ Release(b)
     \/ TouchUp
     \/ Cancel
     \/ SourceDestroyed
     \/ \E accepted \in BOOLEAN : Accept(accepted)
     \/ \E actions \in SUBSET Actions, preferred \in Choices : SetActions(actions, preferred)
     \/ Finish
     \/ DestroyOffer
     \/ \E t \in Targets : Disconnect(t)

Spec == Init /\ [][Next]_vars

-----------------------------------------------------------------------------
(* A drop by a pointer goes to a target that has itself accepted what is   *)
(* dragged, for an action that both sides can take: nothing of it is left  *)
(* over from a target passed before.                                       *)
DropIsWanted ==
  [][drag.by = "pointer" /\ ~told.drop /\ told'.drop =>
       /\ told.accepted /\ drag.target = offer.of
       /\ source.action \in source.actions \cap OfferActions(offer)]_vars

(* Source and target have been told the same action, the one that counts,  *)
(* until the user is asked for it, or a grab has outlived its drop to enter*)
(* or drop again.                                                          *)
ActionsAgree ==
  source.offer /\ ~offer.asking /\ ~told.astray =>
    /\ told.source = source.action
    /\ offer.of \notin Old => told.target = source.action

(* The target that a pointer has dropped on and that finishes in good      *)
(* faith is not refused.  (With another button held it may go unheard: the *)
(* next target entered takes the source's pointer to the offer.)           *)
FinishIsTaken == told.refused => drag.by = "touch"

(* A source that is told that the drag is finished knows with which action,*)
(* and the target that finishes has had the drop, unless a grab has        *)
(* outlived its drop to enter or drop again.  (Old targets cannot say that *)
(* they finish: destroying the offer stands for it, dropped on or not.)    *)
FinishedIsSettled ==
  [][~told.finished /\ told'.finished /\ offer.of \notin Old /\ ~told.astray =>
       /\ told.drop
       /\ told'.source = source.action /\ source.action \in {"COPY", "MOVE"}]_vars

(* data_offer_finish(): "Disallow finish while we have a grab driving      *)
(* drag-and-drop": without one, a finish in good faith is not premature.   *)
FinishAfterGrab == ~told.refused
=============================================================================
