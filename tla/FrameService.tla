---------------------------- MODULE FrameService ----------------------------
(***************************************************************************)
(* What the repaint cycle promises, whatever the backend: an output that   *)
(* is in use, awake and damaged gets a frame posted, at most one frame is  *)
(* in flight on it, every frame posted completes, and nothing is posted    *)
(* without damage or while rendering is stopped.  RepaintLoop and          *)
(* DrmRepaint implement it.                                                *)
(***************************************************************************)

CONSTANT Outputs

VARIABLES
  live,       \* outputs in use
  damaged,    \* outputs owed a frame
  inFlight,   \* outputs whose last frame has not completed
  awake       \* rendering has not been stopped

vars == <<live, damaged, inFlight, awake>>

TypeOK ==
  /\ live \in SUBSET Outputs
  /\ damaged \in SUBSET live
  /\ inFlight \in SUBSET live
  /\ awake \in BOOLEAN

Init == live = {} /\ damaged = {} /\ inFlight = {} /\ awake = TRUE

(* New damage reaches live outputs only.                                   *)
MoreDamage == damaged \subseteq damaged' /\ damaged' \subseteq live

Damage ==
  /\ awake
  /\ MoreDamage
  /\ UNCHANGED <<live, inFlight, awake>>

(* A frame may cause new damage, and put the outputs to sleep.             *)
Post(o) ==
  /\ awake
  /\ o \in damaged \ inFlight
  /\ inFlight' = inFlight \cup {o}
  /\ damaged \ {o} \subseteq damaged' /\ damaged' \subseteq live
  /\ awake' \in BOOLEAN
  /\ UNCHANGED live

Complete(o) ==
  /\ o \in inFlight
  /\ inFlight' = inFlight \ {o}
  /\ UNCHANGED <<live, damaged, awake>>

Add(o) ==
  /\ o \in Outputs \ live
  /\ live' = live \cup {o}
  /\ damaged' \in {damaged, damaged \cup {o}}
  /\ UNCHANGED <<inFlight, awake>>

Remove(o) ==
  /\ o \in live
  /\ live' = live \ {o}
  /\ damaged' = damaged \ {o}
  /\ inFlight' = inFlight \ {o}
  /\ UNCHANGED awake

(* Rendering stops, with or without forgetting the damage.                 *)
Sleep ==
  /\ awake' = FALSE
  /\ damaged' \in {damaged, {}}
  /\ UNCHANGED <<live, inFlight>>

Wake ==
  /\ ~awake
  /\ awake' = TRUE
  /\ MoreDamage
  /\ UNCHANGED <<live, inFlight>>

Next ==
  \/ \E o \in Outputs : Post(o) \/ Complete(o) \/ Add(o) \/ Remove(o)
  \/ Damage
  \/ Sleep
  \/ Wake

(* A live output owed a frame while awake gets it, unless rendering stops  *)
(* or the output goes first; and a frame in flight does not stay there.    *)
Owed(o) == awake /\ o \in damaged \ inFlight

Service ==
  \A o \in Outputs :
    /\ Owed(o) ~> (o \in inFlight \/ ~awake \/ o \notin live)
    /\ o \in inFlight ~> o \notin inFlight

Spec == Init /\ [][Next]_vars /\ Service
=============================================================================
