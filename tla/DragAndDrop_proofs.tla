------------------------- MODULE DragAndDrop_proofs -------------------------
(***************************************************************************)
(* Theorems about DragAndDrop, for any number of targets of every kind:    *)
(* the action that source and target have been told, that a drop by        *)
(* pointer is wanted by the target it is made on, and that a source hears  *)
(* how a drop ended.                                                       *)
(*                                                                         *)
(* None is inductive.  ActionsAgree needs what holds when the next         *)
(* target is entered, with no offer in between (Live); DropIsWanted needs  *)
(* that an offer in focus belongs to the target under the pointer          *)
(* (Entered), that it carries that target's own word (Word), and that the  *)
(* action is one that both can take (Available); FinishedIsSettled needs   *)
(* that only a drop takes the seat from the source (SeatGoesWithDrop).     *)
(***************************************************************************)
EXTENDS DragAndDrop, TLAPS

Fresh ==
  source.fresh =>
    ~source.offer /\ offer.of = None /\ ~drag.on /\ ~source.seat /\ ~told.drop /\ ~told.refused

(* Lifting a finger leaves the seat in the source.                         *)
FingerLeavesSeat == drag.by = "touch" => source.seat

(* Until the drop nobody asks the user, and the source knows the action.   *)
Live ==
  source.seat \/ source.fresh =>
    told.source = source.action /\ ~offer.asking /\ ~told.astray

SeatGoesWithDrop ==
  source.offer /\ ~source.seat /\ ~told.astray => told.drop

Entered == drag.target # None /\ source.offer => offer.of = drag.target

Word == source.offer => told.accepted = source.accepted

Available ==
  source.offer /\ source.action # "NONE" =>
    source.action \in source.actions \cap OfferActions(offer)

Inv ==
  /\ TypeOK /\ Fresh /\ FingerLeavesSeat /\ Live /\ SeatGoesWithDrop /\ Entered /\ Word /\ Available
  /\ ActionsAgree

LEMMA ChosenIsChoice ==
  ASSUME NEW s \in Source, NEW o \in Offer
  PROVE  /\ ChooseAction(s, o) \in Choices
         /\ ChooseAction(s, o) # "NONE" => ChooseAction(s, o) \in s.actions \cap OfferActions(o)
<1>1. /\ s.actions \subseteq Actions /\ s.wish \in Choices /\ o.preferred \in Choices
      /\ OfferActions(o) \subseteq Actions
  BY DEF Source, Offer, OfferActions, Actions
<1> DEFINE available == OfferActions(o) \cap s.actions
<1>2. available # {} => FirstOf(available) \in available
  BY <1>1 DEF FirstOf, Actions
<1> QED
  BY <1>1, <1>2 DEF ChooseAction, Choices

(* data_offer_update_action() leaves both sides told, if they were.        *)
LEMMA UpdateTells ==
  ASSUME NEW s \in Source, NEW o \in Offer, NEW t \in Told, UpdateAction(s, o, t),
         s.offer => o.of \in Targets
  PROVE  /\ source' \in Source /\ offer' = o /\ told' \in Told
         /\ source' = [s EXCEPT !.action = source'.action]
         /\ source'.action = ChooseAction(s, o)
         /\ ChooseAction(source', offer') = ChooseAction(s, o)
         /\ source'.action # "NONE" => source'.action \in source'.actions \cap OfferActions(o)
         /\ told'.accepted = t.accepted /\ told'.drop = t.drop /\ told'.astray = t.astray
         /\ told'.finished = t.finished /\ told'.refused = t.refused
         /\ ~o.asking /\ t.source = s.action => told'.source = source'.action
         /\ ~o.asking /\ t.target = s.action
              => (o.of \notin Old => told'.target = source'.action)
<1>1. ChooseAction(s, o) \in Choices
  BY ChosenIsChoice
<1>2. /\ source' = [s EXCEPT !.action = ChooseAction(s, o)] /\ offer' = o
      /\ told' = Tell(s, o, t)
  BY DEF UpdateAction
<1>3. source' \in Source /\ source'.action = ChooseAction(s, o) /\ source'.actions = s.actions
      /\ source'.seat = s.seat /\ source'.wish = s.wish
  BY <1>1, <1>2 DEF Source
<1>4. ChooseAction(source', offer') = ChooseAction(s, o)
  BY <1>2, <1>3 DEF ChooseAction
<1>5. source' = [s EXCEPT !.action = source'.action]
  BY <1>2, <1>3
<1>6. /\ told' \in Told
      /\ told'.accepted = t.accepted /\ told'.drop = t.drop /\ told'.astray = t.astray
      /\ told'.finished = t.finished /\ told'.refused = t.refused
  BY <1>1, <1>2 DEF Tell, Told
<1>7. source'.action # "NONE" => source'.action \in source'.actions \cap OfferActions(o)
  BY <1>3, ChosenIsChoice
<1>8. ~o.asking /\ t.source = s.action => told'.source = source'.action
  BY <1>2, <1>3 DEF Tell, Told
<1>9. ~o.asking /\ t.target = s.action => (o.of \notin Old => told'.target = source'.action)
  BY <1>2, <1>3 DEF Tell, Told
<1> QED
  BY <1>2, <1>3, <1>4, <1>5, <1>6, <1>7, <1>8, <1>9

LEMMA InitInv == Init => Inv
<1> SUFFICES ASSUME Init PROVE Inv
  OBVIOUS
<1>1. PICK actions \in SUBSET Actions : source = NewSource(actions)
  BY DEF Init
<1>2. source \in Source /\ source.fresh /\ ~source.offer /\ ~source.seat /\ source.action = "NONE"
  BY <1>1 DEF NewSource, Source, Choices
<1>3. /\ drag \in Drag /\ ~drag.on /\ drag.target = None /\ drag.by = "pointer"
      /\ offer \in Offer /\ offer.of = None /\ ~offer.asking /\ gone \subseteq Targets
      /\ told \in Told /\ told.source = "NONE" /\ ~told.drop /\ ~told.refused /\ ~told.astray
  BY DEF Init, NoDrag, NoOffer, NothingTold, Drag, Devices, Buttons, Offer, Told, Choices
<1> QED
  BY <1>2, <1>3 DEF Inv, TypeOK, Fresh, FingerLeavesSeat, Live, SeatGoesWithDrop, Entered, Word, Available, ActionsAgree

(* The drag goes on over another target, or over none.                     *)
LEMMA FocusKeepsInv ==
  ASSUME Inv, NEW d \in Drag, NEW s \in Source, NEW t \in Targets \cup {None}, SetFocus(d, s, t),
         gone' = gone, ~s.fresh, s.seat => source.seat \/ source.fresh,
         ~s.seat => ~source.seat /\ ~source.fresh,
         s.action = source.action, s.offer = source.offer, s.accepted = source.accepted,
         s.actions = source.actions, d.target # None /\ s.offer => offer.of = d.target,
         d.by = "touch" => s.seat
  PROVE  Inv'
<1>1. /\ s.seat => told.source = s.action /\ ~offer.asking /\ ~told.astray
      /\ s.offer /\ ~s.seat /\ ~told.astray => told.drop
      /\ offer \in Offer /\ told \in Told /\ gone \subseteq Targets
      /\ s.offer => offer.of \in Targets /\ told.accepted = s.accepted
      /\ s.offer /\ s.action # "NONE" => s.action \in s.actions \cap OfferActions(offer)
      /\ s.offer /\ ~offer.asking /\ ~told.astray
           => told.source = s.action /\ (offer.of \notin Old => told.target = s.action)
  BY DEF Inv, TypeOK, Live, SeatGoesWithDrop, Word, Available, ActionsAgree
<1>2. Left(d) \in Drag /\ Left(d).target = None /\ Left(d).by = d.by
  BY DEF Left, Drag
<1>3. /\ Anew(s) \in Told /\ Anew(s).source = told.source /\ Anew(s).accepted = FALSE
      /\ Anew(s).target = "NONE" /\ Anew(s).drop = FALSE
      /\ Anew(s).astray = (told.astray \/ ~s.seat)
  BY <1>1 DEF Anew, Told, Choices, Source
<1>4. CASE t = None
  <2>1. drag' = Left(d) /\ source' = s /\ UNCHANGED <<offer, told>>
    BY <1>4 DEF SetFocus
  <2> QED
    BY <1>1, <1>2, <2>1
       DEF Inv, TypeOK, Fresh, FingerLeavesSeat, Live, SeatGoesWithDrop, Entered, Word, Available,
           ActionsAgree
<1>5. CASE t # None /\ t \in Deaf
  <2>1. /\ drag' = Left(d) /\ source' = [s EXCEPT !.offer = FALSE] /\ told' = Anew(s)
        /\ offer' = NoOffer \/ offer' = offer
    BY <1>5 DEF SetFocus
  <2>2. NoOffer \in Offer /\ ~NoOffer.asking
    BY DEF NoOffer, Offer, Choices
  <2>3. /\ source' \in Source /\ ~source'.offer /\ ~source'.fresh /\ source'.action = s.action
        /\ source'.seat = s.seat
        /\ offer' \in Offer /\ (s.seat => ~offer'.asking)
    BY <1>1, <2>1, <2>2 DEF Source
  <2> QED
    BY <1>1, <1>2, <1>3, <2>1, <2>3
       DEF Inv, TypeOK, Fresh, FingerLeavesSeat, Live, SeatGoesWithDrop, Entered, Word, Available,
           ActionsAgree
<1>6. CASE t \in Targets \ Deaf
  <2> DEFINE s1 == [s EXCEPT !.offer = TRUE, !.accepted = FALSE]
             o1 == [NoOffer EXCEPT !.of = t]
             t1 == Anew(s)
  <2>1. UpdateAction(s1, o1, t1) /\ drag' = [Left(d) EXCEPT !.target = t, !.view = t]
    BY <1>6, TargetsAssumption DEF SetFocus, Enter
  <2>2. /\ s1 \in Source /\ s1.offer /\ s1.accepted = FALSE /\ s1.action = s.action /\ ~s1.fresh
        /\ s1.seat = s.seat
        /\ o1 \in Offer /\ o1.of = t /\ ~o1.asking /\ o1.actions = {}
    BY <1>6 DEF Source, Offer, NoOffer, Choices
  <2>3. drag' \in Drag /\ drag'.target = t /\ drag'.by = d.by
    BY <1>2, <1>6, <2>1 DEF Drag
  <2>4. t \notin Old => ChooseAction(s1, o1) = "NONE"
    BY <2>2 DEF ChooseAction, OfferActions
  <2>5. t1 \in Told /\ t1.accepted = FALSE /\ t1.source = told.source /\ t1.target = "NONE"
        /\ t1.astray = (told.astray \/ ~s.seat)
    BY <1>3
  <2> HIDE DEF s1, o1, t1
  <2>6. /\ source' \in Source /\ offer' = o1 /\ told' \in Told
        /\ source' = [s1 EXCEPT !.action = source'.action]
        /\ source'.action = ChooseAction(s1, o1)
        /\ source'.action # "NONE" => source'.action \in source'.actions \cap OfferActions(o1)
        /\ told'.accepted = FALSE /\ told'.astray = t1.astray
        /\ s.seat => told'.source = source'.action
    <3>1. s1.offer => o1.of \in Targets
      BY <1>6, <2>2
    <3>2. /\ source' \in Source /\ offer' = o1 /\ told' \in Told
          /\ source' = [s1 EXCEPT !.action = source'.action]
          /\ source'.action = ChooseAction(s1, o1)
          /\ source'.action # "NONE" => source'.action \in source'.actions \cap OfferActions(o1)
          /\ told'.accepted = t1.accepted /\ told'.astray = t1.astray
          /\ ~o1.asking /\ t1.source = s1.action => told'.source = source'.action
      BY <2>1, <2>2, <2>5, <3>1, UpdateTells
    <3>3. s.seat => t1.source = s1.action
      BY <1>1, <2>2, <2>5
    <3> QED
      BY <2>2, <2>5, <3>2, <3>3
  <2>7. t \notin Old => told'.target = source'.action
    BY <2>1, <2>2, <2>4, <2>5, <2>6 DEF UpdateAction, Tell, Told
  <2>8. source'.offer /\ source'.accepted = FALSE /\ ~source'.fresh /\ source'.seat = s.seat
    BY <2>2, <2>6 DEF Source
  <2>9. told'.accepted = FALSE /\ (told'.astray <=> told.astray \/ ~s.seat)
    BY <2>5, <2>6 DEF Told
  <2> QED
    BY <1>1, <1>6, <2>2, <2>3, <2>6, <2>7, <2>8, <2>9
       DEF Inv, TypeOK, Fresh, FingerLeavesSeat, Live, SeatGoesWithDrop, Entered, Word, Available,
           ActionsAgree
<1> QED
  BY <1>4, <1>5, <1>6

(* The action is chosen anew, for the same target.                         *)
LEMMA UpdateKeepsInv ==
  ASSUME Inv, NEW s \in Source, NEW o \in Offer, UpdateAction(s, o, told), UNCHANGED <<drag, gone>>,
         source.offer, s.offer, ~s.fresh, s.action = source.action, s.accepted = source.accepted,
         s.seat = source.seat, o.of = offer.of, o.asking = offer.asking
  PROVE  Inv'
<1>1. told \in Told /\ offer.of \in Targets /\ drag \in Drag /\ gone \subseteq Targets
  BY DEF Inv, TypeOK
<1>2. /\ source' \in Source /\ offer' = o /\ told' \in Told
      /\ source' = [s EXCEPT !.action = source'.action]
      /\ source'.action # "NONE" => source'.action \in source'.actions \cap OfferActions(o)
      /\ told'.accepted = told.accepted /\ told'.drop = told.drop /\ told'.astray = told.astray
      /\ ~o.asking /\ told.source = s.action => told'.source = source'.action
      /\ ~o.asking /\ told.target = s.action => (o.of \notin Old => told'.target = source'.action)
  BY <1>1, UpdateTells
<1>3. /\ source'.offer /\ ~source'.fresh /\ source'.accepted = source.accepted
      /\ source'.seat = source.seat
  BY <1>2 DEF Source
<1>4. TypeOK' /\ Fresh' /\ FingerLeavesSeat' /\ Entered' /\ Word' /\ Available'
  BY <1>1, <1>2, <1>3 DEF Inv, TypeOK, Fresh, FingerLeavesSeat, Entered, Word, Available
<1>5. Live' /\ SeatGoesWithDrop'
  BY <1>1, <1>2, <1>3 DEF Inv, Live, SeatGoesWithDrop
<1>6. ActionsAgree'
  BY <1>1, <1>2, <1>3 DEF Inv, ActionsAgree
<1> QED
  BY <1>4, <1>5, <1>6 DEF Inv

(* The offer is over, finished or destroyed.                               *)
LEMMA OverKeepsInv ==
  ASSUME Inv, source' \in Source, source' = [source EXCEPT !.offer = FALSE], offer' \in Offer,
         told' \in Told, told'.astray = told.astray, gone' \subseteq Targets,
         drag' \in Drag, drag'.by = drag.by, ~source.fresh,
         source.seat => told'.source = told.source /\ ~offer'.asking
  PROVE  Inv'
  BY DEF Inv, TypeOK, Fresh, FingerLeavesSeat, Live, SeatGoesWithDrop, Entered, Word, Available, ActionsAgree, Source

LEMMA DragKeepsInv ==
  ASSUME Inv, NEW by \in Devices, NEW held \in SUBSET Buttons, NEW t \in Targets \cup {None},
         NEW wish \in Choices, NEW b \in Buttons,
         StartDrag(by, held, t) \/ Motion(t) \/ Modifiers(wish) \/ Press(b)
  PROVE  Inv'
<1>1. /\ source \in Source /\ drag \in Drag /\ offer \in Offer /\ told \in Told
      /\ gone \subseteq Targets /\ (source.offer => offer.of \in Targets)
  BY DEF Inv, TypeOK
<1>2. CASE StartDrag(by, held, t)
  <2> DEFINE d == [NoDrag EXCEPT !.on = TRUE, !.by = by, !.down = held]
             s == [source EXCEPT !.fresh = FALSE, !.seat = TRUE]
  <2>1. source.fresh /\ SetFocus(d, s, t) /\ gone' = gone
    BY <1>2 DEF StartDrag
  <2>2. /\ d \in Drag /\ d.target = None
        /\ s \in Source /\ ~s.fresh /\ s.seat /\ s.action = source.action
        /\ s.offer = source.offer /\ s.accepted = source.accepted /\ s.actions = source.actions
    BY <1>1 DEF NoDrag, Drag, Devices, Buttons, Source
  <2> HIDE DEF d, s
  <2> QED
    BY <2>1, <2>2, FocusKeepsInv
<1>3. CASE Motion(t)
  <2>1. drag.on /\ SetFocus(drag, source, t) /\ gone' = gone
    BY <1>3 DEF Motion
  <2>2. /\ ~source.fresh /\ (drag.target # None /\ source.offer => offer.of = drag.target)
        /\ drag.by = "touch" => source.seat
    BY <2>1 DEF Inv, Fresh, Entered, FingerLeavesSeat
  <2> DEFINE d == drag
             s == source
  <2>3. /\ d \in Drag /\ s \in Source /\ ~s.fresh /\ SetFocus(d, s, t) /\ gone' = gone
        /\ s.seat = source.seat /\ s.actions = source.actions
        /\ s.action = source.action /\ s.offer = source.offer /\ s.accepted = source.accepted
        /\ d.target # None /\ s.offer => offer.of = d.target
        /\ d.by = "touch" => s.seat
    BY <1>1, <2>1, <2>2
  <2> HIDE DEF d, s
  <2> QED
    BY <2>2, <2>3, FocusKeepsInv
<1>4. CASE Modifiers(wish)
  <2> DEFINE s == [source EXCEPT !.wish = wish]
  <2>1. drag.on /\ ~source.fresh /\ UNCHANGED <<drag, gone>>
    BY <1>4 DEF Modifiers, Inv, Fresh
  <2>2. /\ s \in Source /\ s.fresh = source.fresh /\ s.offer = source.offer
        /\ s.action = source.action /\ s.accepted = source.accepted
        /\ s.seat = source.seat /\ s.actions = source.actions
    BY <1>1 DEF Source
  <2>3. CASE source.offer
    <3>1. UpdateAction(s, offer, told)
      BY <1>4, <2>3 DEF Modifiers
    <3> HIDE DEF s
    <3> QED
      BY <1>1, <2>1, <2>2, <2>3, <3>1, UpdateKeepsInv
  <2>4. CASE ~source.offer
    <3>1. source' = s /\ UNCHANGED <<offer, told>>
      BY <1>4, <2>4 DEF Modifiers
    <3> HIDE DEF s
    <3> QED
      BY <2>1, <2>2, <2>4, <3>1
         DEF Inv, TypeOK, Fresh, FingerLeavesSeat, Live, SeatGoesWithDrop, Entered, Word, Available,
           ActionsAgree
  <2> QED
    BY <2>3, <2>4
<1>5. CASE Press(b)
  <2>1. /\ UNCHANGED <<source, offer, gone, told>> /\ drag' \in Drag /\ drag'.on = drag.on
        /\ drag'.target = drag.target /\ drag'.by = drag.by
    BY <1>1, <1>5 DEF Press, Drag
  <2> QED
    BY <2>1
       DEF Inv, TypeOK, Fresh, FingerLeavesSeat, Live, SeatGoesWithDrop, Entered, Word, Available,
           ActionsAgree
<1> QED
  BY <1>2, <1>3, <1>4, <1>5

(* The grab's own part of an event that drops or ends it.                  *)
LEMMA EndKeepsTarget ==
  ASSUME drag \in Drag
  PROVE  End(drag) \in Drag /\ ~End(drag).on /\ End(drag).target = None /\ End(drag).by = drag.by
  BY DEF End, Left, Drag

(* A drop by pointer takes the seat from the source.                       *)
LEMMA DroppedKeepsInv ==
  ASSUME Inv, Dropped, drag.on, drag.by = "pointer", gone' = gone,
         drag' \in Drag, drag'.target \in {drag.target, None}, drag'.by = drag.by
  PROVE  Inv'
<1>1. /\ source \in Source /\ offer \in Offer /\ told \in Told
      /\ gone \subseteq Targets /\ (source.offer => offer.of \in Targets) /\ ~source.fresh
  BY DEF Inv, TypeOK, Fresh
<1>2. /\ source' \in Source /\ source'.offer = source.offer /\ source'.fresh = source.fresh
      /\ source'.accepted = source.accepted /\ source'.action = source.action
      /\ source'.actions = source.actions /\ source'.seat = FALSE
  BY <1>1 DEF Dropped, Source
<1>3. /\ offer' \in Offer /\ offer'.of = offer.of /\ offer'.actions = offer.actions
      /\ offer'.asking = (source.action = "ASK")
  BY <1>1 DEF Dropped, Offer
<1>4. /\ told' \in Told /\ told'.source = told.source /\ told'.target = told.target
      /\ told'.accepted = told.accepted /\ told'.drop
      /\ told'.astray = (told.astray \/ ~source.seat)
  BY <1>1 DEF Dropped, Told, Source
<1>5. TypeOK' /\ Fresh' /\ FingerLeavesSeat' /\ Entered' /\ Word'
  BY <1>1, <1>2, <1>3, <1>4 DEF Inv, TypeOK, Fresh, FingerLeavesSeat, Entered, Word
<1>6. Available'
  BY <1>1, <1>2, <1>3 DEF Inv, Available, OfferActions
<1>7. Live' /\ SeatGoesWithDrop'
  BY <1>1, <1>2, <1>3, <1>4 DEF Live, SeatGoesWithDrop
<1>8. ActionsAgree'
  <2>1. ~told'.astray => ~offer.asking /\ ~told.astray
    BY <1>4 DEF Inv, Live
  <2> QED
    BY <1>2, <1>3, <1>4, <2>1 DEF Inv, ActionsAgree
<1> QED
  BY <1>5, <1>6, <1>7, <1>8 DEF Inv

LEMMA DropKeepsInv ==
  ASSUME Inv, NEW b \in Buttons, Release(b) \/ TouchUp \/ Cancel \/ SourceDestroyed
  PROVE  Inv'
<1>1. /\ source \in Source /\ drag \in Drag /\ offer \in Offer /\ told \in Told
      /\ gone \subseteq Targets /\ (source.offer => offer.of \in Targets)
      /\ drag.on => ~source.fresh
  BY DEF Inv, TypeOK, Fresh
<1>2. ASSUME drag.on, drag' \in Drag, drag'.target \in {drag.target, None}, drag'.by = drag.by,
             UNCHANGED <<source, offer, gone>>, told' \in Told, told'.source = told.source,
             told'.target = told.target, told'.accepted = told.accepted,
             told'.astray = told.astray, told' = told \/ source.seat \/ told'.drop
      PROVE  Inv'
  BY <1>1, <1>2
     DEF Inv, TypeOK, Fresh, FingerLeavesSeat, Live, SeatGoesWithDrop, Entered, Word, Available, ActionsAgree
<1>3. CASE Release(b)
  <2>1. drag.on /\ drag.by = "pointer" /\ gone' = gone
    BY <1>3 DEF Release
  <2>2. drag' \in Drag /\ drag'.target \in {drag.target, None} /\ drag'.by = drag.by
    <3>1. /\ [drag EXCEPT !.crashed = TRUE] \in Drag
          /\ [drag EXCEPT !.crashed = TRUE].target = drag.target
          /\ [drag EXCEPT !.crashed = TRUE].by = drag.by
          /\ [drag EXCEPT !.down = @ \ {b}] \in Drag
          /\ [drag EXCEPT !.down = @ \ {b}].target = drag.target
          /\ [drag EXCEPT !.down = @ \ {b}].by = drag.by
      BY <1>1 DEF Drag
    <3> QED
      BY <1>1, <1>3, <3>1, EndKeepsTarget DEF Release
  <2>3. CASE Dropped
    BY <2>1, <2>2, <2>3, DroppedKeepsInv
  <2>4. CASE UNCHANGED <<source, offer, told>>
    BY <1>1, <1>2, <2>1, <2>2, <2>4
  <2> QED
    BY <1>3, <2>3, <2>4 DEF Release
<1>4. CASE Cancel
  BY <1>1, <1>2, <1>4, EndKeepsTarget DEF Cancel
<1>5. CASE TouchUp
  <2>1. /\ drag.on /\ drag' = End(drag) /\ UNCHANGED <<source, offer, gone>>
        /\ told' \in Told /\ told'.source = told.source /\ told'.target = told.target
        /\ told'.accepted = told.accepted /\ told'.astray = told.astray
        /\ drag.by = "touch"
    BY <1>1, <1>5 DEF TouchUp, Told
  <2>2. source.seat
    BY <2>1 DEF Inv, FingerLeavesSeat
  <2> QED
    BY <1>1, <1>2, <2>1, <2>2, EndKeepsTarget
<1>6. CASE SourceDestroyed
  <2>1. Init'
    BY <1>6 DEF SourceDestroyed, Init
  <2> QED
    BY <2>1, InitInv, PTL
<1> QED
  BY <1>3, <1>4, <1>5, <1>6

(* What ends an offer says nothing new to a source that is not dropped.    *)
LEMMA OfferDestroyedEnds ==
  ASSUME Inv, OfferDestroyed
  PROVE  /\ source' \in Source /\ source' = [source EXCEPT !.offer = FALSE] /\ offer' = NoOffer
         /\ NoOffer \in Offer /\ ~NoOffer.asking
         /\ told' \in Told /\ told'.drop = told.drop /\ told'.astray = told.astray
         /\ told'.refused = told.refused
         /\ ~offer.asking => told'.source = told.source
<1>1. source \in Source /\ told \in Told
  BY DEF Inv, TypeOK
<1>2. /\ source' \in Source /\ source' = [source EXCEPT !.offer = FALSE]
  BY <1>1 DEF OfferDestroyed, NotifyFinish, Source
<1>3. NoOffer \in Offer /\ ~NoOffer.asking /\ offer' = NoOffer
  BY DEF OfferDestroyed, NoOffer, Offer, Choices
<1>4. /\ told' \in Told /\ told'.drop = told.drop /\ told'.astray = told.astray
      /\ told'.refused = told.refused /\ (~offer.asking => told'.source = told.source)
  BY <1>1 DEF OfferDestroyed, NotifyFinish, Source, Told
<1> QED
  BY <1>2, <1>3, <1>4

LEMMA TargetKeepsInv ==
  ASSUME Inv, NEW accepted \in BOOLEAN, NEW actions \in SUBSET Actions,
         NEW preferred \in Choices,
         Accept(accepted) \/ SetActions(actions, preferred) \/ Finish \/ DestroyOffer
  PROVE  Inv'
<1>1. /\ source \in Source /\ drag \in Drag /\ offer \in Offer /\ told \in Told
      /\ gone \subseteq Targets /\ (source.offer => offer.of \in Targets)
  BY DEF Inv, TypeOK
<1>2. CASE Accept(accepted)
  <2>1. /\ source' \in Source /\ source'.accepted = accepted /\ source'.offer = source.offer
        /\ source'.fresh = source.fresh /\ source'.action = source.action
        /\ source'.seat = source.seat /\ source'.actions = source.actions
        /\ told' \in Told /\ told'.accepted = accepted /\ told'.source = told.source
        /\ told'.target = told.target /\ told'.drop = told.drop /\ told'.astray = told.astray
        /\ told'.refused = told.refused /\ UNCHANGED <<drag, offer, gone>>
    BY <1>1, <1>2 DEF Accept, Source, Told
  <2> QED
    BY <1>1, <2>1
       DEF Inv, TypeOK, Fresh, FingerLeavesSeat, Live, SeatGoesWithDrop, Entered, Word, Available,
           ActionsAgree
<1>3. CASE SetActions(actions, preferred)
  <2> DEFINE o == [offer EXCEPT !.actions = actions, !.preferred = preferred]
  <2>1. /\ source.offer /\ ~source.fresh /\ UNCHANGED <<drag, gone>>
        /\ UpdateAction(source, o, told)
    BY <1>3 DEF SetActions, Inv, Fresh
  <2>2. o \in Offer /\ o.of = offer.of /\ o.asking = offer.asking
    BY <1>1 DEF Offer
  <2> HIDE DEF o
  <2> DEFINE s == source
  <2>3. s \in Source /\ UpdateAction(s, o, told) /\ s.offer /\ ~s.fresh /\ s.action = source.action
        /\ s.accepted = source.accepted /\ s.seat = source.seat
    BY <1>1, <2>1
  <2> HIDE DEF s
  <2> QED
    BY <2>1, <2>2, <2>3, UpdateKeepsInv
<1>4. CASE Finish
  <2>1. UNCHANGED <<drag, offer, gone>> /\ source.offer /\ ~source.fresh
    BY <1>4 DEF Finish, Inv, Fresh
  <2>2. CASE NotifyFinish /\ ~Premature
    <3>1. /\ source' \in Source /\ source' = [source EXCEPT !.offer = FALSE] /\ ~source.seat
          /\ told' \in Told /\ told'.astray = told.astray
      BY <1>1, <2>2 DEF NotifyFinish, Premature, Source, Told
    <3> QED
      BY <1>1, <2>1, <3>1, OverKeepsInv
  <2>3. CASE told' = [told EXCEPT !.refused = @ \/ GoodFaith] /\ UNCHANGED source
    <3>1. /\ told' \in Told /\ told'.accepted = told.accepted /\ told'.source = told.source
          /\ told'.target = told.target /\ told'.drop = told.drop /\ told'.astray = told.astray
      BY <1>1, <2>3 DEF Told, GoodFaith
    <3> QED
      BY <1>1, <2>1, <2>3, <3>1
         DEF Inv, TypeOK, Fresh, FingerLeavesSeat, Live, SeatGoesWithDrop, Entered, Word, Available,
           ActionsAgree
  <2> QED
    BY <1>4, <2>2, <2>3 DEF Finish
<1>5. CASE DestroyOffer
  <2>1. UNCHANGED <<drag, gone>> /\ OfferDestroyed
    BY <1>5 DEF DestroyOffer
  <2>2. ~source.fresh
    BY <1>5 DEF DestroyOffer, Inv, Fresh
  <2> QED
    BY <1>1, <2>1, <2>2, OfferDestroyedEnds, OverKeepsInv DEF Inv, Live
<1> QED
  BY <1>2, <1>3, <1>4, <1>5

LEMMA DisconnectKeepsInv ==
  ASSUME Inv, NEW t \in Targets, Disconnect(t)
  PROVE  Inv'
<1>1. /\ source \in Source /\ drag \in Drag /\ offer \in Offer /\ told \in Told
      /\ gone \subseteq Targets /\ drag.on /\ gone' \subseteq Targets /\ ~source.fresh
  BY DEF Inv, TypeOK, Fresh, Disconnect
<1>2. /\ drag' \in Drag /\ drag'.on /\ drag'.target \in {drag.target, None} /\ drag'.by = drag.by
  BY <1>1 DEF Disconnect, Drag
<1>3. CASE offer.of = t
  <2>1. OfferDestroyed
    BY <1>3 DEF Disconnect
  <2> QED
    BY <1>1, <1>2, <2>1, OfferDestroyedEnds, OverKeepsInv DEF Inv, Live
<1>4. CASE offer.of # t
  <2>1. UNCHANGED <<source, offer, told>>
    BY <1>4 DEF Disconnect
  <2> QED
    BY <1>1, <1>2, <2>1
       DEF Inv, TypeOK, Fresh, FingerLeavesSeat, Live, SeatGoesWithDrop, Entered, Word, Available,
           ActionsAgree
<1> QED
  BY <1>3, <1>4

LEMMA NextInv == Inv /\ [Next]_vars => Inv'
<1> SUFFICES ASSUME Inv, [Next]_vars PROVE Inv'
  OBVIOUS
<1>1. /\ "pointer" \in Devices /\ "NONE" \in Choices /\ TRUE \in BOOLEAN /\ {} \in SUBSET Actions
      /\ None \in Targets \cup {None} /\ {} \in SUBSET Buttons /\ "grab" \in Buttons
  BY DEF Devices, Choices, Buttons
<1>2. ASSUME NEW by \in Devices, NEW held \in SUBSET Buttons, NEW t \in Targets \cup {None},
             StartDrag(by, held, t)
      PROVE  Inv'
  BY <1>1, <1>2, DragKeepsInv
<1>3. ASSUME NEW t \in Targets \cup {None}, Motion(t) PROVE Inv'
  BY <1>1, <1>3, DragKeepsInv
<1>4. ASSUME NEW wish \in Choices, Modifiers(wish) PROVE Inv'
  BY <1>1, <1>4, DragKeepsInv
<1>5. ASSUME NEW b \in Buttons, Press(b) PROVE Inv'
  BY <1>1, <1>5, DragKeepsInv
<1>6. ASSUME NEW b \in Buttons, Release(b) PROVE Inv'
  BY <1>6, DropKeepsInv
<1>7. CASE TouchUp \/ Cancel \/ SourceDestroyed
  BY <1>1, <1>7, DropKeepsInv
<1>8. ASSUME NEW accepted \in BOOLEAN, Accept(accepted) PROVE Inv'
  BY <1>1, <1>8, TargetKeepsInv
<1>9. ASSUME NEW actions \in SUBSET Actions, NEW preferred \in Choices,
             SetActions(actions, preferred)
      PROVE  Inv'
  BY <1>1, <1>9, TargetKeepsInv
<1>10. CASE Finish \/ DestroyOffer
  BY <1>1, <1>10, TargetKeepsInv
<1>11. ASSUME NEW t \in Targets, Disconnect(t) PROVE Inv'
  BY <1>11, DisconnectKeepsInv
<1>12. CASE UNCHANGED vars
  BY <1>12
     DEF vars, Inv, TypeOK, Fresh, FingerLeavesSeat, Live, SeatGoesWithDrop, Entered, Word, Available, ActionsAgree
<1> QED
  BY <1>2, <1>3, <1>4, <1>5, <1>6, <1>7, <1>8, <1>9, <1>10, <1>11, <1>12 DEF Next

LEMMA Invariance == Spec => []Inv
  BY InitInv, NextInv, PTL DEF Spec

(* What the variables hold.                                                *)
THEOREM TypeCorrect == Spec => []TypeOK
  BY Invariance, PTL DEF Inv

(* Source and target have been told the same action, the one that counts,  *)
(* until the user is asked for it; whatever was passed before, dropped on  *)
(* with another button held or not, destroyed or disconnected.  Only what a*)
(* grab does that has outlived its drop is out of it.                      *)
THEOREM ActionsAlwaysAgree == Spec => []ActionsAgree
  BY Invariance, PTL DEF Inv

(* What the history says of the past is changed by a drop, by a finish, and*)
(* by a new offer, of which its target has been told nothing.              *)
LEMMA HistoryIsKept ==
  ASSUME Inv, Next,
         \A b \in Buttons : ~Release(b), ~TouchUp, ~Finish
  PROVE  /\ told'.drop => told.drop
         /\ told'.refused => told.refused
         /\ offer.of \notin Old /\ told'.finished => told.finished
<1>1. source \in Source /\ drag \in Drag /\ offer \in Offer /\ told \in Told
  BY DEF Inv, TypeOK
<1> DEFINE Kept(t) == told'.drop = t.drop /\ told'.refused = t.refused /\ told'.finished = t.finished
           Goal == /\ told'.drop => told.drop
                   /\ told'.refused => told.refused
                   /\ offer.of \notin Old /\ told'.finished => told.finished
<1>2. ASSUME NEW s, NEW o, NEW t \in Told, UpdateAction(s, o, t)
      PROVE  Kept(t)
  BY <1>2 DEF UpdateAction, Tell, Told
<1>3. ASSUME NEW d, NEW s \in Source, NEW t \in Targets \cup {None}, SetFocus(d, s, t)
      PROVE  Goal
  <2>1. /\ Anew(s) \in Told /\ ~Anew(s).drop /\ Anew(s).refused = told.refused
        /\ Anew(s).finished = told.finished
    BY <1>1 DEF Anew, Told, Choices, Source
  <2>2. told' = told \/ told' = Anew(s) \/ Enter(Left(d), s, t)
    BY <1>3 DEF SetFocus
  <2>3. CASE Enter(Left(d), s, t)
    <3>1. UpdateAction([s EXCEPT !.offer = TRUE, !.accepted = FALSE], [NoOffer EXCEPT !.of = t], Anew(s))
      BY <2>3 DEF Enter
    <3>2. Kept(Anew(s))
      BY <1>2, <2>1, <3>1
    <3> QED
      BY <2>1, <3>2
  <2> QED
    BY <2>1, <2>2, <2>3
<1>4. ASSUME NEW by \in Devices, NEW held \in SUBSET Buttons, NEW t \in Targets \cup {None},
             StartDrag(by, held, t)
      PROVE  Goal
  <2> DEFINE s == [source EXCEPT !.fresh = FALSE, !.seat = TRUE]
             d == [NoDrag EXCEPT !.on = TRUE, !.by = by, !.down = held]
  <2>1. s \in Source /\ SetFocus(d, s, t)
    BY <1>1, <1>4 DEF StartDrag, Source
  <2> HIDE DEF s, d
  <2> QED
    BY <1>3, <2>1
<1>5. ASSUME NEW t \in Targets \cup {None}, Motion(t) PROVE Goal
  BY <1>1, <1>3, <1>5 DEF Motion
<1>6. ASSUME NEW wish \in Choices, Modifiers(wish) PROVE Goal
  BY <1>1, <1>2, <1>6 DEF Modifiers
<1>7. ASSUME NEW b \in Buttons, Press(b) PROVE Goal
  BY <1>7 DEF Press
<1>8. CASE Cancel
  BY <1>8 DEF Cancel
<1>9. CASE SourceDestroyed
  BY <1>9 DEF SourceDestroyed, NothingTold
<1>10. ASSUME NEW accepted \in BOOLEAN, Accept(accepted) PROVE Goal
  BY <1>1, <1>10 DEF Accept, Told
<1>11. ASSUME NEW actions \in SUBSET Actions, NEW preferred \in Choices,
              SetActions(actions, preferred)
       PROVE  Goal
  BY <1>1, <1>2, <1>11 DEF SetActions
<1>12. CASE OfferDestroyed \/ UNCHANGED told
  <2>1. told' = told \/ (offer.of \in Old /\ NotifyFinish)
    BY <1>12 DEF OfferDestroyed
  <2> QED
    BY <1>1, <2>1 DEF NotifyFinish, Told
<1>13. ASSUME NEW t \in Targets, Disconnect(t) PROVE Goal
  BY <1>12, <1>13 DEF Disconnect
<1>14. CASE DestroyOffer
  BY <1>12, <1>14 DEF DestroyOffer
<1> QED
  BY <1>4, <1>5, <1>6, <1>7, <1>8, <1>9, <1>10, <1>11, <1>13, <1>14 DEF Next

(* A pointer drops only on a target that has itself accepted, for an       *)
(* action that both sides can take.                                        *)
THEOREM DropsAreWanted == Spec => DropIsWanted
<1>1. Inv /\ [Next]_vars =>
        [drag.by = "pointer" /\ ~told.drop /\ told'.drop =>
           /\ told.accepted /\ drag.target = offer.of
           /\ source.action \in source.actions \cap OfferActions(offer)]_vars
  <2> SUFFICES ASSUME Inv, Next, drag.by = "pointer", ~told.drop, told'.drop
               PROVE  /\ told.accepted /\ drag.target = offer.of
                      /\ source.action \in source.actions \cap OfferActions(offer)
    OBVIOUS
  <2>1. told \in Told
    BY DEF Inv, TypeOK
  <2>2. ASSUME NEW b \in Buttons, Release(b)
        PROVE  Drops(b) /\ source.offer
    BY <2>2 DEF Release
  <2>3. ~Finish
    BY <2>1 DEF Finish, NotifyFinish, Told
  <2>4. PICK b \in Buttons : Release(b)
    BY <2>3, HistoryIsKept DEF TouchUp
  <2>5. source.offer /\ drag.target # None /\ source.accepted /\ source.action # "NONE"
    BY <2>2, <2>4 DEF Drops, Wanted
  <2> QED
    BY <2>5 DEF Inv, Entered, Word, Available
<1> QED
  BY <1>1, Invariance, PTL DEF Spec, DropIsWanted

(* A source that is told of the end of the drag knows with which action it *)
(* ended, the user's own choice included, and the target that finishes has *)
(* had the drop (data_source_notify_finish()): data_offer_finish() tests   *)
(* neither.                                                                *)
THEOREM FinishesAreSettled == Spec => FinishedIsSettled
<1>1. Inv /\ [Next]_vars =>
        [~told.finished /\ told'.finished /\ offer.of \notin Old /\ ~told.astray =>
           /\ told.drop
           /\ told'.source = source.action /\ source.action \in {"COPY", "MOVE"}]_vars
  <2> SUFFICES ASSUME Inv, Next, ~told.finished, told'.finished, offer.of \notin Old, ~told.astray
               PROVE  /\ told.drop
                      /\ told'.source = source.action /\ source.action \in {"COPY", "MOVE"}
    OBVIOUS
  <2>1. source \in Source /\ drag \in Drag /\ offer \in Offer /\ told \in Told
    BY DEF Inv, TypeOK
  <2>2. \A b \in Buttons : ~Release(b)
    BY <2>1 DEF Release, Dropped, Told
  <2>3. ~TouchUp
    BY <2>1 DEF TouchUp, Told
  <2>4. Finish
    BY <2>2, <2>3, HistoryIsKept
  <2>5. /\ NotifyFinish /\ source.offer /\ ~source.seat /\ source.action \notin {"NONE", "ASK"}
    BY <2>1, <2>4 DEF Finish, Premature, Told
  <2>6. source.action \in {"COPY", "MOVE"}
    BY <2>1, <2>5 DEF Source, Choices, Actions
  <2>7. told.drop /\ (~offer.asking => told.source = source.action)
    BY <2>5 DEF Inv, ActionsAgree, SeatGoesWithDrop
  <2> QED
    BY <2>1, <2>5, <2>6, <2>7 DEF NotifyFinish, Told
<1> QED
  BY <1>1, Invariance, PTL DEF Spec, FinishedIsSettled
-----------------------------------------------------------------------------
(* After the drop.  The keyboard never asks for "ask", and a target prefers*)
(* an action that it can take.                                             *)
Wishes == source.wish # "ASK" /\ offer.preferred \in offer.actions \cup {"NONE"}

(* Until the drop the action is the one to be chosen now.                  *)
Chosen == source.offer /\ ~told.drop => source.action = ChooseAction(source, offer)

NoSeat == drag.by = "pointer" /\ told.drop => ~source.seat

(* The target has been told the action, or is to ask for it.               *)
TargetKnows ==
  drag.by = "pointer" /\ source.offer /\ offer.of \notin Old =>
    /\ ~told.drop => ~offer.asking /\ told.target = source.action
    /\ told.target \in {source.action, "ASK"}
    /\ offer.asking => told.target = "ASK"

(* What the target of a pointer's drop believes in is what has been chosen:*)
(* the seat no longer has a say, and what the user was asked for is what   *)
(* the target prefers.                                                     *)
BelievedIsRight ==
  drag.by = "pointer" /\ told.drop /\ source.offer /\ offer.of \notin Old =>
    (Believed \in {"COPY", "MOVE"} => Believed = source.action)

Refusals == told.refused => drag.by = "touch" /\ ~source.fresh

Heard == Wishes /\ Chosen /\ NoSeat /\ TargetKnows /\ BelievedIsRight /\ Refusals

(* Without a seat the preference of a target counts if it can be had; with *)
(* one, the user is asked only if no preference can be had but that.       *)
LEMMA PreferenceCounts ==
  ASSUME NEW s \in Source, NEW o \in Offer, o.of \notin Old,
         o.preferred \in o.actions \cup {"NONE"}, o.preferred \in s.actions
  PROVE  /\ ~s.seat => ChooseAction(s, o) = o.preferred
         /\ s.wish # "ASK" /\ ChooseAction(s, o) = "ASK" => o.preferred = "ASK"
<1>1. "NONE" \notin Actions /\ s.actions \subseteq Actions
  BY DEF Source, Actions
<1>2. o.preferred \in OfferActions(o) \cap s.actions
  BY <1>1 DEF OfferActions
<1> QED
  BY <1>2 DEF ChooseAction

(* With an offer gone there is nothing left to say but of the refusals.    *)
LEMMA NoOfferIsHeard ==
  ASSUME ~source'.offer, Wishes', NoSeat', Refusals'
  PROVE  Heard'
  BY DEF Heard, Chosen, TargetKnows, BelievedIsRight

LEMMA UpdateKeepsHeard ==
  ASSUME Inv, Heard, NEW s \in Source, NEW o \in Offer, UpdateAction(s, o, told), drag' = drag,
         source.offer, s.offer, ~s.fresh, s.action = source.action, s.seat = source.seat,
         s.actions = source.actions, s.wish # "ASK", o.of = offer.of, o.asking = offer.asking,
         o.preferred \in o.actions \cup {"NONE"}
  PROVE  Heard'
<1>1. told \in Told /\ drag \in Drag /\ offer.of \in Targets
  BY DEF Inv, TypeOK
<1>2. /\ source' \in Source /\ offer' = o
      /\ source'.action = ChooseAction(s, o) /\ ChooseAction(source', offer') = ChooseAction(s, o)
      /\ told'.drop = told.drop /\ told'.refused = told.refused
  BY <1>1, UpdateTells
<1>3. /\ source'.offer /\ ~source'.fresh /\ source'.seat = source.seat
      /\ source'.actions = source.actions /\ source'.wish = s.wish
  BY DEF UpdateAction, Source
<1>4. /\ o.asking => told'.target = told.target
      /\ ~o.asking /\ o.of \notin Old =>
           \/ told'.target = source'.action
           \/ source'.action = s.action /\ told'.target = told.target
  BY <1>1, <1>2 DEF UpdateAction, Tell, Told
<1>5. Wishes' /\ Chosen' /\ NoSeat' /\ Refusals'
  BY <1>1, <1>2, <1>3 DEF Heard, Wishes, Chosen, NoSeat, Refusals
<1>6. TargetKnows'
  BY <1>1, <1>2, <1>3, <1>4 DEF Heard, TargetKnows
<1>7. ASSUME drag.by = "pointer", told.drop, offer.of \notin Old, Believed' \in {"COPY", "MOVE"}
      PROVE  Believed' = source'.action
  <2>1. ~source'.seat
    BY <1>3, <1>7 DEF Heard, NoSeat
  <2>2. o.preferred \in source'.actions => source'.action = o.preferred
    BY <1>2, <1>7, <2>1, PreferenceCounts
  <2>3. told'.target \in {source'.action, "ASK"}
    BY <1>2, <1>3, <1>6, <1>7 DEF TargetKnows
  <2> QED
    BY <1>2, <1>7, <2>2, <2>3 DEF Believed
<1>8. BelievedIsRight'
  BY <1>2, <1>7 DEF BelievedIsRight
<1> QED
  BY <1>5, <1>6, <1>8 DEF Heard

LEMMA FocusKeepsHeard ==
  ASSUME Inv, Heard, NEW d \in Drag, NEW s \in Source, NEW t \in Targets \cup {None},
         SetFocus(d, s, t), ~s.fresh, s.wish = source.wish,
         \/ s = source /\ d.by = drag.by
         \/ source.fresh /\ ~s.offer
  PROVE  Heard'
<1>1. told \in Told /\ offer \in Offer /\ Wishes /\ s.wish # "ASK"
      /\ (source.fresh => ~told.drop /\ ~told.refused)
  BY DEF Inv, TypeOK, Fresh, Heard, Wishes
<1>2. Left(d).by = d.by /\ (told.refused => d.by = "touch")
  BY <1>1 DEF Left, Drag, Heard, Refusals
<1>3. /\ Anew(s) \in Told /\ ~Anew(s).drop /\ Anew(s).refused = told.refused
      /\ Anew(s).target = "NONE"
  BY <1>1 DEF Anew, Told, Choices, Source
<1>4. CASE t = None
  <2>1. source' = s /\ UNCHANGED <<offer, told>> /\ drag'.by = d.by
    BY <1>2, <1>4 DEF SetFocus
  <2>2. CASE s = source /\ d.by = drag.by
    BY <2>1, <2>2
       DEF Heard, Wishes, Chosen, NoSeat, TargetKnows, BelievedIsRight, Believed, Refusals
  <2>3. CASE source.fresh /\ ~s.offer
    BY <1>1, <2>1, <2>3, NoOfferIsHeard DEF Wishes, NoSeat, Refusals
  <2> QED
    BY <2>2, <2>3
<1>5. CASE t # None /\ t \in Deaf
  <2>1. /\ source' = [s EXCEPT !.offer = FALSE] /\ (offer' = NoOffer \/ offer' = offer)
        /\ told' = Anew(s) /\ drag'.by = d.by
    BY <1>2, <1>5 DEF SetFocus
  <2>2. Wishes' /\ ~source'.offer /\ ~source'.fresh
    BY <1>1, <2>1 DEF Wishes, NoOffer, Source
  <2> QED
    BY <1>2, <1>3, <2>1, <2>2, NoOfferIsHeard DEF NoSeat, Refusals
<1>6. CASE t \in Targets \ Deaf
  <2> DEFINE s1 == [s EXCEPT !.offer = TRUE, !.accepted = FALSE]
             o1 == [NoOffer EXCEPT !.of = t]
             t1 == Anew(s)
  <2>1. UpdateAction(s1, o1, t1) /\ drag' = [Left(d) EXCEPT !.target = t, !.view = t]
    BY <1>6, TargetsAssumption DEF SetFocus, Enter
  <2>2. /\ s1 \in Source /\ s1.wish # "ASK" /\ ~s1.fresh /\ s1.offer
        /\ o1 \in Offer /\ o1.of = t /\ o1.preferred = "NONE" /\ ~o1.asking /\ o1.actions = {}
    BY <1>1, <1>6 DEF Source, Offer, NoOffer, Choices
  <2>3. t1 \in Told /\ ~t1.drop /\ t1.refused = told.refused /\ t1.target = "NONE"
    BY <1>3
  <2>4. drag'.by = d.by
    BY <1>2, <2>1 DEF Left, Drag
  <2>5. t \notin Old => ChooseAction(s1, o1) = "NONE"
    BY <2>2 DEF ChooseAction, OfferActions
  <2> HIDE DEF s1, o1, t1
  <2>6. /\ offer' = o1 /\ source'.action = ChooseAction(s1, o1)
        /\ ChooseAction(source', offer') = ChooseAction(s1, o1)
        /\ ~told'.drop /\ told'.refused = told.refused
    BY <1>6, <2>1, <2>2, <2>3, UpdateTells
  <2>7. ~source'.fresh /\ source'.wish # "ASK"
    BY <2>1, <2>2 DEF UpdateAction, Source
  <2>8. t \notin Old => told'.target = source'.action
    BY <2>1, <2>2, <2>3, <2>5, <2>6 DEF UpdateAction, Tell, Told
  <2>9. Wishes' /\ Chosen' /\ NoSeat' /\ BelievedIsRight'
    BY <2>2, <2>6, <2>7 DEF Wishes, Chosen, NoSeat, BelievedIsRight
  <2>10. TargetKnows' /\ Refusals'
    BY <1>2, <2>2, <2>4, <2>6, <2>7, <2>8 DEF TargetKnows, Refusals
  <2> QED
    BY <2>9, <2>10 DEF Heard
<1> QED
  BY <1>4, <1>5, <1>6

LEMMA DragKeepsHeard ==
  ASSUME Inv, Heard, NEW by \in Devices, NEW held \in SUBSET Buttons, NEW t \in Targets \cup {None},
         NEW wish \in Choices, NEW b \in Buttons,
         StartDrag(by, held, t) \/ Motion(t) \/ Modifiers(wish) \/ Press(b)
  PROVE  Heard'
<1>1. source \in Source /\ drag \in Drag /\ offer \in Offer /\ told \in Told /\ Wishes
  BY DEF Inv, TypeOK, Heard
<1>2. CASE StartDrag(by, held, t)
  <2> DEFINE d == [NoDrag EXCEPT !.on = TRUE, !.by = by, !.down = held]
             s == [source EXCEPT !.fresh = FALSE, !.seat = TRUE]
  <2>1. source.fresh /\ SetFocus(d, s, t)
    BY <1>2 DEF StartDrag
  <2>2. /\ d \in Drag /\ s \in Source /\ s.wish = source.wish /\ s.offer = source.offer
        /\ ~s.fresh
    BY <1>1 DEF NoDrag, Drag, Devices, Buttons, Source
  <2>3. ~source.offer
    BY <2>1 DEF Inv, Fresh
  <2> HIDE DEF d, s
  <2> QED
    BY <2>1, <2>2, <2>3, FocusKeepsHeard
<1>3. CASE Motion(t)
  <2>1. drag.on /\ SetFocus(drag, source, t) /\ ~source.fresh
    BY <1>3 DEF Motion, Inv, Fresh
  <2> DEFINE d == drag
             s == source
  <2>2. /\ d \in Drag /\ s \in Source /\ SetFocus(d, s, t) /\ ~s.fresh
        /\ s.wish = source.wish /\ s = source /\ d.by = drag.by
    BY <1>1, <2>1
  <2> HIDE DEF d, s
  <2> QED
    BY <2>2, FocusKeepsHeard
<1>4. CASE Modifiers(wish)
  <2> DEFINE s == [source EXCEPT !.wish = wish]
  <2>1. drag' = drag /\ ~source.fresh
    BY <1>4 DEF Modifiers, Inv, Fresh
  <2>2. /\ s \in Source /\ s.wish # "ASK" /\ offer.preferred \in offer.actions \cup {"NONE"}
        /\ s.offer = source.offer /\ s.action = source.action /\ s.seat = source.seat
        /\ s.actions = source.actions /\ s.fresh = source.fresh
    BY <1>1, <1>4 DEF Source, Modifiers, Wishes
  <2>3. CASE source.offer /\ UpdateAction(s, offer, told)
    <3> HIDE DEF s
    <3> QED
      BY <1>1, <2>1, <2>2, <2>3, UpdateKeepsHeard
  <2>4. CASE ~source.offer /\ source' = s /\ UNCHANGED <<offer, told>>
    <3> HIDE DEF s
    <3> QED
      BY <2>1, <2>2, <2>4, NoOfferIsHeard DEF Heard, Wishes, NoSeat, Refusals
  <2> QED
    BY <1>4, <2>3, <2>4 DEF Modifiers
<1>5. CASE Press(b)
  <2>1. drag'.by = drag.by /\ UNCHANGED <<source, offer, told>>
    BY <1>1, <1>5 DEF Press, Drag
  <2> QED
    BY <2>1 DEF Heard, Wishes, Chosen, NoSeat, TargetKnows, BelievedIsRight, Believed, Refusals
<1> QED
  BY <1>2, <1>3, <1>4, <1>5

(* The drop itself: what the target has been told is what was chosen.      *)
LEMMA DroppedKeepsHeard ==
  ASSUME Inv, Heard, Dropped, drag.by = "pointer", drag'.by = drag.by
  PROVE  Heard'
<1>1. source \in Source /\ offer \in Offer /\ told \in Told /\ Wishes
  BY DEF Inv, TypeOK, Heard
<1>2. /\ source'.seat = FALSE /\ source'.wish = source.wish /\ source'.action = source.action
      /\ source'.actions = source.actions /\ source'.offer = source.offer
      /\ source'.fresh = source.fresh
  BY <1>1 DEF Dropped, Source
<1>3. /\ offer'.of = offer.of /\ offer'.actions = offer.actions
      /\ offer'.preferred = offer.preferred /\ offer'.asking = (source.action = "ASK")
      /\ told'.refused = told.refused /\ told'.target = told.target /\ told'.drop
  BY <1>1 DEF Dropped, Offer, Told
<1>4. Wishes' /\ Chosen' /\ NoSeat' /\ Refusals'
  BY <1>1, <1>2, <1>3 DEF Heard, Wishes, Chosen, NoSeat, Refusals
<1>5. TargetKnows'
  BY <1>2, <1>3 DEF Heard, TargetKnows
<1>6. Believed' = Believed
  BY <1>2, <1>3 DEF Believed
<1>7. ASSUME source.offer, offer.of \notin Old, ~told.drop, Believed \in {"COPY", "MOVE"}
      PROVE  Believed = source.action
  <2>1. told.target = source.action /\ source.action = ChooseAction(source, offer)
    BY <1>7 DEF Heard, TargetKnows, Chosen
  <2>2. ~(source.action = "ASK" /\ offer.preferred \in source.actions /\ offer.preferred # "ASK")
    BY <1>1, <1>7, <2>1, PreferenceCounts DEF Wishes
  <2> QED
    BY <1>7, <2>1, <2>2 DEF Believed
<1>8. BelievedIsRight'
  BY <1>2, <1>3, <1>6, <1>7 DEF Heard, BelievedIsRight
<1> QED
  BY <1>4, <1>5, <1>8 DEF Heard

LEMMA DropKeepsHeard ==
  ASSUME Inv, Heard, NEW b \in Buttons, Release(b) \/ TouchUp \/ Cancel \/ SourceDestroyed
  PROVE  Heard'
<1>1. source \in Source /\ drag \in Drag /\ offer \in Offer /\ told \in Told /\ Wishes
  BY DEF Inv, TypeOK, Heard
<1>2. ASSUME drag'.by = drag.by, UNCHANGED <<source, offer, told>>
      PROVE  Heard'
  BY <1>2 DEF Heard, Wishes, Chosen, NoSeat, TargetKnows, BelievedIsRight, Believed, Refusals
<1>3. CASE Release(b)
  <2>1. drag'.by = drag.by /\ drag.by = "pointer"
    <3>1. /\ [drag EXCEPT !.crashed = TRUE].by = drag.by
          /\ [drag EXCEPT !.down = @ \ {b}].by = drag.by
      BY <1>1 DEF Drag
    <3> QED
      BY <1>1, <1>3, <3>1, EndKeepsTarget DEF Release
  <2> QED
    BY <1>2, <1>3, <2>1, DroppedKeepsHeard DEF Release
<1>4. CASE Cancel
  BY <1>1, <1>2, <1>4, EndKeepsTarget DEF Cancel
<1>5. CASE TouchUp
  <2>1. /\ drag'.by = drag.by /\ drag.by = "touch" /\ UNCHANGED <<source, offer>>
        /\ told'.refused = told.refused
    BY <1>1, <1>5, EndKeepsTarget DEF TouchUp, Told
  <2>2. drag.on /\ ~source.fresh
    BY <1>5 DEF TouchUp, Inv, Fresh
  <2>3. Chosen'
    BY <1>1, <1>5, <2>1 DEF TouchUp, Told, Heard, Chosen
  <2> QED
    BY <2>1, <2>2, <2>3 DEF Heard, Wishes, NoSeat, TargetKnows, BelievedIsRight, Refusals
<1>6. CASE SourceDestroyed
  <2>1. PICK actions \in SUBSET Actions : source' = NewSource(actions)
    BY <1>6 DEF SourceDestroyed
  <2>2. Wishes' /\ ~source'.offer /\ ~told'.refused /\ ~told'.drop
    BY <1>6, <2>1 DEF SourceDestroyed, NewSource, NoOffer, NothingTold, Wishes
  <2> QED
    BY <2>2, NoOfferIsHeard DEF NoSeat, Refusals
<1> QED
  BY <1>3, <1>4, <1>5, <1>6

(* An offer destroyed leaves nothing to be answered.                       *)
LEMMA OfferDestroyedKeepsHeard ==
  ASSUME Inv, Heard, OfferDestroyed, drag'.by = drag.by
  PROVE  Heard'
<1>1. source \in Source
  BY DEF Inv, TypeOK
<1>2. /\ source' = [source EXCEPT !.offer = FALSE] /\ offer' = NoOffer
      /\ told'.drop = told.drop /\ told'.refused = told.refused
  BY OfferDestroyedEnds
<1>3. ~source'.offer /\ Wishes' /\ NoSeat' /\ Refusals'
  BY <1>1, <1>2 DEF Source, NoOffer, Heard, Wishes, NoSeat, Refusals
<1> QED
  BY <1>3, NoOfferIsHeard

LEMMA TargetKeepsHeard ==
  ASSUME Inv, Heard, NEW accepted \in BOOLEAN, NEW actions \in SUBSET Actions,
         NEW preferred \in Choices,
         Accept(accepted) \/ SetActions(actions, preferred) \/ Finish \/ DestroyOffer
  PROVE  Heard'
<1>1. source \in Source /\ drag \in Drag /\ offer \in Offer /\ told \in Told /\ Wishes
  BY DEF Inv, TypeOK, Heard
<1>2. CASE Accept(accepted)
  <2>1. /\ source'.seat = source.seat /\ source'.wish = source.wish
        /\ source'.action = source.action /\ source'.actions = source.actions
        /\ source'.offer = source.offer /\ source'.fresh = source.fresh /\ UNCHANGED <<drag, offer>>
        /\ told'.drop = told.drop /\ told'.refused = told.refused /\ told'.target = told.target
    BY <1>1, <1>2 DEF Accept, Source, Told
  <2>2. ChooseAction(source', offer) = ChooseAction(source, offer) /\ Believed' = Believed
    BY <2>1 DEF ChooseAction, Believed
  <2> QED
    BY <2>1, <2>2 DEF Heard, Wishes, Chosen, NoSeat, TargetKnows, BelievedIsRight, Refusals
<1>3. CASE SetActions(actions, preferred)
  <2> DEFINE o == [offer EXCEPT !.actions = actions, !.preferred = preferred]
             s == source
  <2>1. /\ source.offer /\ drag' = drag /\ UpdateAction(s, o, told) /\ ~source.fresh
    BY <1>3 DEF SetActions, Inv, Fresh
  <2>2. /\ o \in Offer /\ o.of = offer.of /\ o.asking = offer.asking
        /\ o.preferred \in o.actions \cup {"NONE"}
    BY <1>1, <1>3 DEF Offer, SetActions
  <2>3. /\ s \in Source /\ s.offer /\ ~s.fresh /\ s.action = source.action /\ s.seat = source.seat
        /\ s.actions = source.actions /\ s.wish # "ASK"
    BY <1>1, <2>1 DEF Wishes
  <2> HIDE DEF o, s
  <2> QED
    BY <2>1, <2>2, <2>3, UpdateKeepsHeard
<1>4. CASE Finish
  <2>1. source.offer /\ offer.of \notin Old /\ UNCHANGED <<drag, offer>>
    BY <1>4 DEF Finish
  <2>2. CASE NotifyFinish
    <3>1. /\ source'.wish = source.wish /\ source'.seat = source.seat /\ ~source'.offer
          /\ source'.fresh = source.fresh
          /\ told'.drop = told.drop /\ told'.refused = told.refused
      BY <1>1, <2>2 DEF NotifyFinish, Source, Told
    <3> QED
      BY <2>1, <3>1, NoOfferIsHeard DEF Heard, Wishes, NoSeat, Refusals
  <2>3. CASE /\ Premature \/ source.action \in {"NONE", "ASK"}
             /\ told' = [told EXCEPT !.refused = @ \/ GoodFaith] /\ UNCHANGED source
    <3>1. ASSUME GoodFaith, drag.by = "pointer" PROVE FALSE
      <4>1. /\ ~source.seat /\ source.accepted
            /\ Believed \in {"COPY", "MOVE"} /\ Believed = source.action
        BY <2>1, <3>1 DEF GoodFaith, Heard, NoSeat, BelievedIsRight, Inv, Word
      <4> QED
        BY <2>3, <4>1 DEF Premature
    <3>2. /\ told'.refused => told.refused \/ GoodFaith
          /\ told'.drop = told.drop /\ told'.target = told.target
      BY <1>1, <2>3 DEF Told
    <3>3. ~source.fresh /\ drag.by \in Devices
      BY <1>1, <2>1 DEF Inv, Fresh, Drag
    <3>4. Refusals'
      BY <2>1, <2>3, <3>1, <3>2, <3>3 DEF Heard, Refusals, Devices
    <3>5. Believed' = Believed
      BY <2>1, <2>3, <3>2 DEF Believed
    <3> QED
      BY <2>1, <2>3, <3>2, <3>4, <3>5 DEF Heard, Wishes, Chosen, NoSeat, TargetKnows, BelievedIsRight
  <2> QED
    BY <1>4, <2>2, <2>3 DEF Finish
<1>5. CASE DestroyOffer
  BY <1>5, OfferDestroyedKeepsHeard DEF DestroyOffer
<1> QED
  BY <1>2, <1>3, <1>4, <1>5

LEMMA DisconnectKeepsHeard ==
  ASSUME Inv, Heard, NEW t \in Targets, Disconnect(t)
  PROVE  Heard'
<1>1. drag'.by = drag.by
  BY DEF Disconnect, Inv, TypeOK, Drag
<1>2. CASE offer.of = t
  BY <1>1, <1>2, OfferDestroyedKeepsHeard DEF Disconnect
<1>3. CASE offer.of # t
  <2>1. UNCHANGED <<source, offer, told>>
    BY <1>3 DEF Disconnect
  <2> QED
    BY <1>1, <2>1 DEF Heard, Wishes, Chosen, NoSeat, TargetKnows, BelievedIsRight, Believed, Refusals
<1> QED
  BY <1>2, <1>3

LEMMA InitHeard == Init => Heard
<1> SUFFICES ASSUME Init PROVE Heard
  OBVIOUS
<1>1. PICK actions \in SUBSET Actions : source = NewSource(actions)
  BY DEF Init
<1> QED
  BY <1>1 DEF Init, NewSource, NoOffer, NothingTold, Heard, Wishes, Chosen, NoSeat, TargetKnows,
              BelievedIsRight, Refusals

LEMMA NextHeard == Inv /\ Heard /\ [Next]_vars => Heard'
<1> SUFFICES ASSUME Inv, Heard, [Next]_vars PROVE Heard'
  OBVIOUS
<1>1. /\ "pointer" \in Devices /\ "NONE" \in Choices /\ TRUE \in BOOLEAN /\ {} \in SUBSET Actions
      /\ None \in Targets \cup {None} /\ {} \in SUBSET Buttons /\ "grab" \in Buttons
  BY DEF Devices, Choices, Buttons
<1>2. ASSUME NEW by \in Devices, NEW held \in SUBSET Buttons, NEW t \in Targets \cup {None},
             StartDrag(by, held, t)
      PROVE  Heard'
  BY <1>1, <1>2, DragKeepsHeard
<1>3. ASSUME NEW t \in Targets \cup {None}, Motion(t) PROVE Heard'
  BY <1>1, <1>3, DragKeepsHeard
<1>4. ASSUME NEW wish \in Choices, Modifiers(wish) PROVE Heard'
  BY <1>1, <1>4, DragKeepsHeard
<1>5. ASSUME NEW b \in Buttons, Press(b) PROVE Heard'
  BY <1>1, <1>5, DragKeepsHeard
<1>6. ASSUME NEW b \in Buttons, Release(b) PROVE Heard'
  BY <1>6, DropKeepsHeard
<1>7. CASE TouchUp \/ Cancel \/ SourceDestroyed
  BY <1>1, <1>7, DropKeepsHeard
<1>8. ASSUME NEW accepted \in BOOLEAN, Accept(accepted) PROVE Heard'
  BY <1>1, <1>8, TargetKeepsHeard
<1>9. ASSUME NEW actions \in SUBSET Actions, NEW preferred \in Choices,
             SetActions(actions, preferred)
      PROVE  Heard'
  BY <1>1, <1>9, TargetKeepsHeard
<1>10. CASE Finish \/ DestroyOffer
  BY <1>1, <1>10, TargetKeepsHeard
<1>11. ASSUME NEW t \in Targets, Disconnect(t) PROVE Heard'
  BY <1>11, DisconnectKeepsHeard
<1>12. CASE UNCHANGED vars
  BY <1>12 DEF vars, Heard, Wishes, Chosen, NoSeat, TargetKnows, BelievedIsRight, Believed, Refusals
<1> QED
  BY <1>2, <1>3, <1>4, <1>5, <1>6, <1>7, <1>8, <1>9, <1>10, <1>11, <1>12 DEF Next

(* The target that a pointer has dropped on, that accepts and believes in  *)
(* an action, is not refused when it finishes, whether another button goes *)
(* on holding the grab or not: what it has been told and what              *)
(* data_offer_finish() tests never part after drag_grab_button().          *)
THEOREM FinishIsAlwaysTaken == Spec => []FinishIsTaken
<1>1. Heard => FinishIsTaken
  BY DEF Heard, Refusals, FinishIsTaken
<1> QED
  BY <1>1, InitInv, NextInv, InitHeard, NextHeard, PTL DEF Spec
=============================================================================
