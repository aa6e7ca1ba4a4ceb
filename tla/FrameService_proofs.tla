------------------------ MODULE FrameService_proofs ------------------------
(***************************************************************************)
(* RepaintLoop keeps the cycle of each output closed, and every step of it *)
(* is a step of the abstract frame service: for any sets of outputs and    *)
(* surfaces, and for the Features of which the code allows it.             *)
(***************************************************************************)
EXTENDS RepaintLoop_proofs

(* The environment of the timer-driven backends as Weston's own frontend   *)
(* uses them: no enable hook fails, nobody calls weston_output_disable(),  *)
(* and a framebuffer comes back with its mode.                             *)
Orderly == Features \cap {"modechange", "enablefail", "disable"} = {}

(* Outputs that are not in use take no part in the cycle.                  *)
UnlistedIsIdle == \A o \in Outputs \ OutputList : out[o].status = "NOT_SCHEDULED"

CycleInv == UnlistedIsIdle /\ AwaitingIsInFlight /\ TimerCoversScheduled

-----------------------------------------------------------------------------
(* Scheduling only ever starts a cycle that does not run, and it leaves    *)
(* everything but the damage of a running one alone.                       *)
LEMMA ScheduleAllStatus ==
  ASSUME NEW records \in [Outputs -> OutputRec], NEW O \in SUBSET Outputs, NEW p
  PROVE  LET n == ScheduleAll(records, O, p)
         IN  \A o \in Outputs :
               /\ n[o].life = records[o].life
               /\ \/ n[o].status = records[o].status
                  \/ o \in O /\ n[o].status = "BEGIN_FROM_IDLE"
                       /\ records[o].status = "NOT_SCHEDULED"
               /\ records[o].needed => n[o].needed
               /\ n[o].needed => records[o].needed \/ (o \in O /\ ~Asleep(p))
<1>1. ASSUME NEW r \in OutputRec
      PROVE  LET n == ScheduleRepaint(r, p)
             IN  /\ n.life = r.life
                 /\ \/ n.status = r.status
                    \/ n.status = "BEGIN_FROM_IDLE" /\ r.status = "NOT_SCHEDULED"
                 /\ r.needed => n.needed
                 /\ n.needed => r.needed \/ ~Asleep(p)
  BY DEF ScheduleRepaint, Asserted, OutputRec
<1> QED
  BY <1>1 DEF ScheduleAll

(* A step that keeps the timers and the handler, and changes statuses only *)
(* as scheduling does, keeps the cycle closed.                             *)
LEMMA KeepsCycle ==
  ASSUME CycleInv, OutputList' = OutputList, UNCHANGED <<flip, visiting>>,
         armed => armed',
         \A o \in Outputs : \/ out'[o].status = out[o].status
                            \/ o \in OutputList /\ out'[o].status = "BEGIN_FROM_IDLE"
                                 /\ out[o].status = "NOT_SCHEDULED"
  PROVE  CycleInv'
  BY DEF CycleInv, UnlistedIsIdle, AwaitingIsInFlight, TimerCoversScheduled, OutputList

LEMMA ScheduleKeepsCycle ==
  ASSUME Inv, CycleInv, NEW O \in SUBSET OutputList, NEW p,
         out' = ScheduleAll(out, O, p), UNCHANGED <<flip, visiting, armed>>
  PROVE  CycleInv'
<1>1. O \in SUBSET Outputs
  BY DEF OutputList
<1>2. \A o \in Outputs :
        /\ out'[o].life = out[o].life
        /\ \/ out'[o].status = out[o].status
           \/ o \in O /\ out'[o].status = "BEGIN_FROM_IDLE"
                /\ out[o].status = "NOT_SCHEDULED"
  BY <1>1, ScheduleAllStatus DEF Inv, TypeOK
<1>3. OutputList' = OutputList
  BY <1>2, SameList
<1> QED
  BY <1>2, <1>3, KeepsCycle

(* Steps of one output's own cycle: its status moves on, and the timer is  *)
(* armed behind it.                                                        *)
LEMMA StepKeepsCycle ==
  ASSUME Inv, CycleInv, NEW o \in OutputList, NEW r,
         out' = [out EXCEPT ![o] = r], r.life = out[o].life,
         r.status = "AWAITING_COMPLETION" <=> o \in flip',
         flip' \ {o} = flip \ {o},
         visiting' = visiting,
         visiting \/ armed' = TimerArmed(out', armed)
  PROVE  CycleInv'
<1>1. o \in Outputs
  BY DEF OutputList
<1>2. /\ out'[o] = r
      /\ \A p \in Outputs \ {o} : out'[p] = out[p]
  BY <1>1 DEF Inv, TypeOK
<1>3. OutputList' = OutputList
  BY <1>2, SameList
<1>4. UnlistedIsIdle' /\ AwaitingIsInFlight'
  BY <1>2, <1>3 DEF CycleInv, UnlistedIsIdle, AwaitingIsInFlight, OutputList
<1>5. TimerCoversScheduled'
  <2>1. CASE visiting
    BY <2>1 DEF TimerCoversScheduled
  <2>2. CASE armed' = TimerArmed(out', armed)
    <3>1. DOMAIN out' = Outputs
      BY DEF Inv, TypeOK
    <3> QED
      BY <2>2, <3>1 DEF TimerCoversScheduled, TimerArmed, OutputList
  <2> QED
    BY <2>1, <2>2
<1> QED
  BY <1>4, <1>5 DEF CycleInv

-----------------------------------------------------------------------------
(* The actions.                                                            *)

LEMMA IdleRepaintCycle ==
  ASSUME Inv, CycleInv, NEW o \in Outputs, IdleRepaint(o)
  PROVE  CycleInv'
<1> DEFINE e == EnterRepaintLoop(out[o])
           r == FinishFrame(e, TRUE, TRUE)
<1>1. out[o] \in OutputRec /\ Sound(out[o]) /\ out[o].idle /\ out[o].status = "BEGIN_FROM_IDLE"
  BY DEF Inv, TypeOK, IdleRepaint, Sound
<1>2. o \in OutputList
  BY <1>1 DEF CycleInv, UnlistedIsIdle
<1>3. e \in OutputRec /\ Sound(e) /\ ~e.feedback /\ e.life = out[o].life
      /\ e.status = "AWAITING_COMPLETION"
  BY <1>1, EnterRepaintLoopSound
<1>4. r.life = out[o].life /\ r.status = "SCHEDULED"
  BY <1>3, FinishFrameSound
<1>5. out' = [out EXCEPT ![o] = r]
  BY DEF IdleRepaint
<1> HIDE DEF r
<1>6. o \notin flip
  BY <1>1 DEF Inv, FlipIsAwaited
<1> QED
  BY <1>2, <1>4, <1>5, <1>6, StepKeepsCycle DEF IdleRepaint

LEMMA FinishFrameHandlerCycle ==
  ASSUME Inv, CycleInv, NEW o \in Outputs, FinishFrameHandler(o)
  PROVE  CycleInv'
<1> DEFINE r == FinishFrame(out[o], TRUE, FALSE)
<1>1. /\ out[o] \in OutputRec
      /\ Sound(out[o])
      /\ out[o].status = "AWAITING_COMPLETION"
      /\ o \in OutputList
  BY DEF Inv, TypeOK, FinishFrameHandler, FlipIsAwaited
<1>2. r.life = out[o].life /\ r.status = "SCHEDULED"
  BY <1>1, FinishFrameSound
<1>3. out' = [out EXCEPT ![o] = r]
  BY DEF FinishFrameHandler
<1> HIDE DEF r
<1> QED
  BY <1>1, <1>2, <1>3, StepKeepsCycle DEF FinishFrameHandler

LEMMA VisitOutputCycle ==
  ASSUME Inv, CycleInv, NEW o \in Outputs, VisitOutput(o)
  PROVE  CycleInv'
<1>1. o \in OutputList /\ visiting /\ visiting' = visiting
  BY DEF VisitOutput, Inv, TypeOK
<1>2. TimerCoversScheduled'
  BY <1>1 DEF TimerCoversScheduled
<1>3. CASE UNCHANGED <<out, power, flip, surf>>
  BY <1>2, <1>3, SameList DEF CycleInv, UnlistedIsIdle, AwaitingIsInFlight
<1>4. CASE /\ ReadyToRepaint(out[o])
           /\ out' = [out EXCEPT ![o] = ScheduleRepaintReset(@)]
           /\ UNCHANGED <<power, flip, surf>>
  <2> DEFINE r == ScheduleRepaintReset(out[o])
  <2>1. r.life = out[o].life /\ r.status = "NOT_SCHEDULED"
    BY <1>1 DEF ScheduleRepaintReset, Inv, TypeOK, OutputRec, OutputList
  <2>2. o \notin flip'
    BY <1>4 DEF Inv, FlipIsAwaited, ReadyToRepaint
  <2>3. out' = [out EXCEPT ![o] = r]
    BY <1>4
  <2> HIDE DEF r
  <2> QED
    BY <1>1, <1>4, <2>1, <2>2, <2>3, StepKeepsCycle
<1>5. CASE ReadyToRepaint(out[o]) /\ RepaintOutput(o)
  <2>1. PICK taken \in BOOLEAN, D \in SUBSET OutputList :
          /\ flip' = flip \cup {o}
          /\ out' = ScheduleAll([out EXCEPT ![o] = RepaintDone(@, taken, TRUE)], D, power)
    BY <1>1, <1>5 DEF RepaintOutput
  <2> DEFINE r       == RepaintDone(out[o], taken, TRUE)
             painted == [out EXCEPT ![o] = r]
  <2>2. r \in OutputRec /\ r.life = out[o].life /\ r.status = "AWAITING_COMPLETION"
    <3>1. out[o] \in OutputRec /\ Sound(out[o]) /\ out[o].status = "SCHEDULED"
      BY <1>1, <1>5 DEF Inv, TypeOK, ReadyToRepaint, OutputList
    <3> QED
      BY <3>1, RepaintDoneSound
  <2>3. D \in SUBSET Outputs /\ out' = ScheduleAll(painted, D, power)
    BY <2>1 DEF OutputList
  <2> HIDE DEF r
  <2>4. /\ painted \in [Outputs -> OutputRec]
        /\ painted[o] = r
        /\ \A p \in Outputs \ {o} : painted[p] = out[p]
    BY <1>1, <2>2 DEF Inv, TypeOK, OutputList
  <2> HIDE DEF painted
  <2>5. \A p \in Outputs :
          /\ out'[p].life = painted[p].life
          /\ \/ out'[p].status = painted[p].status
             \/ p \in D /\ out'[p].status = "BEGIN_FROM_IDLE"
                  /\ painted[p].status = "NOT_SCHEDULED"
    <3> DEFINE n == ScheduleAll(painted, D, power)
    <3>1. \A p \in Outputs :
            /\ n[p].life = painted[p].life
            /\ \/ n[p].status = painted[p].status
               \/ p \in D /\ n[p].status = "BEGIN_FROM_IDLE"
                    /\ painted[p].status = "NOT_SCHEDULED"
      BY <2>3, <2>4, ScheduleAllStatus
    <3>2. out' = n
      BY <2>3
    <3> HIDE DEF n
    <3> QED
      BY <3>1, <3>2
  <2>6. OutputList' = OutputList
    BY <2>2, <2>4, <2>5, SameList
  <2>7. UnlistedIsIdle'
    <3>1. SUFFICES ASSUME NEW p \in Outputs \ OutputList
                   PROVE  out'[p].status = "NOT_SCHEDULED"
      BY <2>6 DEF UnlistedIsIdle
    <3>2. p # o /\ p \notin D
      BY <1>1
    <3> QED
      BY <2>4, <2>5, <3>2 DEF CycleInv, UnlistedIsIdle
  <2>8. AwaitingIsInFlight'
    <3>1. SUFFICES ASSUME NEW p \in OutputList
                   PROVE  out'[p].status = "AWAITING_COMPLETION" <=> p \in flip \cup {o}
      BY <2>1, <2>6 DEF AwaitingIsInFlight
    <3>2. CASE p = o
      BY <2>2, <2>4, <2>5, <3>2 DEF OutputList
    <3>3. CASE p # o
      BY <2>4, <2>5, <3>3 DEF OutputList, CycleInv, AwaitingIsInFlight
    <3> QED
      BY <3>2, <3>3
  <2> QED
    BY <1>2, <2>7, <2>8 DEF CycleInv
<1> QED
  BY <1>3, <1>4, <1>5 DEF VisitOutput

LEMMA RepaintTimerDoneCycle ==
  ASSUME Inv, CycleInv, RepaintTimerDone
  PROVE  CycleInv'
<1>1. /\ DOMAIN out' = Outputs
      /\ \A o \in Outputs : out'[o].life = out[o].life /\ out'[o].status = out[o].status
  BY DEF RepaintTimerDone, Inv, TypeOK, OutputRec
<1>2. OutputList' = OutputList
  BY <1>1, SameList
<1>3. TimerCoversScheduled'
  BY <1>1 DEF TimerCoversScheduled, RepaintTimerDone, TimerArmed, OutputList
<1> QED
  BY <1>1, <1>2, <1>3
  DEF CycleInv, UnlistedIsIdle, AwaitingIsInFlight, RepaintTimerDone, OutputList

LEMMA LifeCycleCycle ==
  ASSUME Orderly, Inv, CycleInv, NEW o \in Outputs,
         CreateOutput(o) \/ EnableOutput(o) \/ DestroyOutput(o)
  PROVE  CycleInv'
<1>1. /\ \A p \in Outputs \ {o} : out'[p] = out[p]
      /\ o \notin flip' /\ flip' \ {o} = flip \ {o}
      /\ UNCHANGED <<visiting, armed>>
  BY DEF CreateOutput, EnableOutput, DestroyOutput, StopTimer, Inv, TypeOK, OutputList, Listed
<1>2. \/ ~Listed(out'[o]) /\ out'[o].status = "NOT_SCHEDULED"
      \/ Listed(out'[o]) /\ out'[o].status = "BEGIN_FROM_IDLE"
      \/ Listed(out'[o]) /\ out'[o].status = "NOT_SCHEDULED"
  <2>1. CASE CreateOutput(o)
    BY <2>1 DEF CreateOutput, InitOutput, AbsentOutput, Listed, Inv, TypeOK
  <2>2. CASE DestroyOutput(o)
    BY <2>2 DEF DestroyOutput, AbsentOutput, Listed, Inv, TypeOK
  <2>3. CASE EnableOutput(o)
    <3>1. out'[o] = AddOutput(PrepareEnable(out[o], power))
      BY <2>3 DEF EnableOutput, Orderly, Inv, TypeOK
    <3>2. out[o] \in OutputRec /\ out[o].life = "pending" /\ out[o].status = "NOT_SCHEDULED"
      BY <2>3 DEF EnableOutput, CycleInv, UnlistedIsIdle, OutputList, Listed, Inv, TypeOK
    <3> QED
      BY <3>1, <3>2
      DEF AddOutput, PrepareEnable, ScheduleRepaint, Asserted, OutputRec, Listed
  <2> QED
    BY <2>1, <2>2, <2>3
<1>3. \A p \in Outputs \ {o} : p \in OutputList' <=> p \in OutputList
  BY <1>1 DEF OutputList
<1>4. UnlistedIsIdle'
  BY <1>1, <1>2, <1>3 DEF CycleInv, UnlistedIsIdle, OutputList
<1>5. AwaitingIsInFlight'
  BY <1>1, <1>2, <1>3 DEF CycleInv, AwaitingIsInFlight, OutputList
<1>6. TimerCoversScheduled'
  BY <1>1, <1>2, <1>3 DEF CycleInv, TimerCoversScheduled, OutputList
<1> QED
  BY <1>4, <1>5, <1>6 DEF CycleInv

(* Every step keeps the cycle closed.                                      *)
THEOREM NextCycle == Orderly /\ Inv /\ CycleInv /\ [Next]_vars => CycleInv'
<1> SUFFICES ASSUME Orderly, Inv, CycleInv, [Next]_vars PROVE CycleInv'
  OBVIOUS
<1>1. ASSUME NEW o \in Outputs, IdleRepaint(o) \/ FinishFrameHandler(o) \/ VisitOutput(o)
      PROVE  CycleInv'
  BY <1>1, IdleRepaintCycle, FinishFrameHandlerCycle, VisitOutputCycle
<1>2. ASSUME NEW o \in Outputs, CreateOutput(o) \/ EnableOutput(o) \/ DestroyOutput(o)
      PROVE  CycleInv'
  BY <1>2, LifeCycleCycle
<1>3. ASSUME NEW o \in Outputs, Tick(o) PROVE CycleInv'
  <2>1. \A p \in Outputs : out'[p].life = out[p].life /\ out'[p].status = out[p].status
    BY <1>3 DEF Tick, Inv, TypeOK, OutputRec
  <2> QED
    BY <1>3, <2>1, SameList, KeepsCycle DEF Tick
<1>4. ASSUME NEW o \in Outputs, Damage(o) PROVE CycleInv'
  BY <1>4, ScheduleKeepsCycle DEF Damage, OutputList
<1>5. ASSUME NEW o \in Outputs, DisableOutput(o) PROVE CycleInv'
  BY <1>5 DEF DisableOutput, Orderly
<1>6. ASSUME NEW s \in Surfaces, Commit(s) PROVE CycleInv'
  BY <1>6, ScheduleKeepsCycle DEF Commit
<1>7. CASE RepaintTimer
  BY <1>7, SameList
  DEF RepaintTimer, CycleInv, UnlistedIsIdle, AwaitingIsInFlight, TimerCoversScheduled
<1>8. CASE RepaintTimerDone
  BY <1>8, RepaintTimerDoneCycle
<1>9. CASE IdleTimeout
  BY <1>9, ScheduleKeepsCycle DEF IdleTimeout
<1>10. CASE Sleep
  BY <1>10, SameList, KeepsCycle DEF Sleep
<1>11. CASE Wake
  <2>1. CASE UNCHANGED out
    BY <1>11, <2>1, SameList, KeepsCycle DEF Wake
  <2>2. CASE out' = ScheduleAll(out, OutputList, "ACTIVE")
    BY <1>11, <2>2, ScheduleKeepsCycle DEF Wake
  <2> QED
    BY <1>11, <2>1, <2>2 DEF Wake
<1>12. CASE Unlock
  BY <1>12, ScheduleKeepsCycle DEF Unlock
<1>13. CASE LeaveSession
  <2>1. \A o \in Outputs : out'[o].life = out[o].life /\ out'[o].status = out[o].status
    BY <1>13 DEF LeaveSession, Inv, TypeOK, OutputRec
  <2> QED
    BY <1>13, <2>1, SameList, KeepsCycle DEF LeaveSession
<1>14. CASE EnterSession
  BY <1>14, ScheduleKeepsCycle DEF EnterSession, Orderly
<1>15. CASE UNCHANGED vars
  BY <1>15, SameList, KeepsCycle DEF vars
<1> QED
  BY <1>1, <1>2, <1>3, <1>4, <1>5, <1>6, <1>7, <1>8, <1>9, <1>10, <1>11, <1>12, <1>13,
     <1>14, <1>15 DEF Next

(* With an orderly environment an output awaits a completion exactly while *)
(* its backend will deliver one, what is scheduled has the timer armed,    *)
(* and feedback taken over by a repaint waits for a frame in flight.       *)
THEOREM CycleIsClosed ==
  ASSUME Orderly
  PROVE  Spec => [](AwaitingIsInFlight /\ TimerCoversScheduled /\ FeedbackIsInFlight)
<1>1. Init => CycleInv
  BY DEF Init, CycleInv, UnlistedIsIdle, AwaitingIsInFlight, TimerCoversScheduled,
         AbsentOutput, OutputList, Listed
<1>2. Inv /\ CycleInv /\ [Next]_vars => CycleInv'
  BY NextCycle
<1>3. Inv /\ CycleInv => AwaitingIsInFlight /\ TimerCoversScheduled /\ FeedbackIsInFlight
  BY DEF Inv, Sound, CycleInv, UnlistedIsIdle, AwaitingIsInFlight, FeedbackIsInFlight
<1>4. Spec => Init /\ [][Next]_vars
  BY DEF Spec
<1> QED
  BY <1>1, <1>2, <1>3, <1>4, Invariance, PTL

(* An output that is scheduled has the timer armed whenever no handler     *)
(* runs: output_repaint_timer_arm() is called wherever one could be left   *)
(* scheduled, so that the next repaint never hangs on another event.       *)
THEOREM ScheduledIsCovered ==
  ASSUME Orderly
  PROVE  Spec => []TimerCoversScheduled
  BY CycleIsClosed, PTL

-----------------------------------------------------------------------------
(* The frame service.                                                      *)

Damaged == {o \in OutputList : out[o].needed}

(* A step that keeps list, damage, flips and wakefulness is a stutter.     *)
LEMMA Stutters ==
  ASSUME \A o \in Outputs : out'[o].life = out[o].life /\ out'[o].needed = out[o].needed,
         flip' = flip, Asleep(power') <=> Asleep(power)
  PROVE  UNCHANGED FS!vars
<1>1. OutputList' = OutputList
  BY SameList
<1>2. Damaged' = Damaged
  BY <1>1 DEF Damaged, OutputList
<1>3. (~Asleep(power))' = ~Asleep(power)
  OBVIOUS
<1> QED
  BY <1>1, <1>2, <1>3 DEF FS!vars, Damaged

(* Scheduling in a given power state damages awake outputs only.           *)
LEMMA ScheduleDamages ==
  ASSUME Inv, NEW O \in SUBSET OutputList, NEW p, out' = ScheduleAll(out, O, p)
  PROVE  /\ OutputList' = OutputList
         /\ Damaged \subseteq Damaged' /\ Damaged' \subseteq OutputList
         /\ Asleep(p) => Damaged' = Damaged
<1>1. O \in SUBSET Outputs
  BY DEF OutputList
<1>2. \A o \in Outputs :
        /\ out'[o].life = out[o].life
        /\ out[o].needed => out'[o].needed
        /\ out'[o].needed => out[o].needed \/ (o \in O /\ ~Asleep(p))
  BY <1>1, ScheduleAllStatus DEF Inv, TypeOK
<1>3. OutputList' = OutputList
  BY <1>2, SameList
<1> QED
  BY <1>2, <1>3 DEF Damaged, OutputList

(* So it is a Damage step, a Wake, a Sleep that forgets nothing, or nothing.*)
LEMMA ScheduleRefines ==
  ASSUME Inv, NEW O \in SUBSET OutputList, out' = ScheduleAll(out, O, power'), flip' = flip
  PROVE  [FS!Next]_(FS!vars)
<1>1. /\ OutputList' = OutputList
      /\ Damaged \subseteq Damaged' /\ Damaged' \subseteq OutputList
      /\ Asleep(power') => Damaged' = Damaged
  BY ScheduleDamages
<1>2. CASE Asleep(power')
  <2>1. CASE Asleep(power)
    BY <1>1, <1>2, <2>1 DEF FS!vars, Damaged
  <2>2. CASE ~Asleep(power)
    <3>1. FS!Sleep
      BY <1>1, <1>2, <2>2 DEF FS!Sleep, Damaged
    <3> QED
      BY <3>1 DEF FS!Next
  <2> QED
    BY <2>1, <2>2
<1>3. CASE ~Asleep(power') /\ ~Asleep(power)
  <2>1. FS!Damage
    BY <1>1, <1>3 DEF FS!Damage, FS!MoreDamage, Damaged
  <2> QED
    BY <2>1 DEF FS!Next
<1>4. CASE ~Asleep(power') /\ Asleep(power)
  <2>1. FS!Wake
    BY <1>1, <1>4 DEF FS!Wake, FS!MoreDamage, Damaged
  <2> QED
    BY <2>1 DEF FS!Next
<1> QED
  BY <1>2, <1>3, <1>4

(* A repaint posts a frame.                                                *)
LEMMA RepaintPosts ==
  ASSUME Inv, NEW o \in Outputs, VisitOutput(o), ReadyToRepaint(out[o]),
         ~DropFromCycle(out[o], power), RepaintOutput(o)
  PROVE  FS!Post(o)
<1>1. PICK taken \in BOOLEAN, D \in SUBSET OutputList :
        /\ flip' = flip \cup {o}
        /\ out' = ScheduleAll([out EXCEPT ![o] = RepaintDone(@, taken, TRUE)], D, power)
  <2>1. o \in OutputList
    BY DEF VisitOutput, Inv, TypeOK
  <2> QED
    BY <2>1 DEF RepaintOutput
<1> DEFINE r       == RepaintDone(out[o], taken, TRUE)
           painted == [out EXCEPT ![o] = r]
           n       == ScheduleAll(painted, D, power)
<1>2. /\ ~Asleep(power)
      /\ o \in Damaged \ flip
  BY DEF DropFromCycle, ReadyToRepaint, VisitOutput, Damaged, Inv, TypeOK, FlipIsAwaited
<1>3. r \in OutputRec /\ r.life = out[o].life
  BY DEF RepaintDone, Inv, TypeOK, OutputRec, RepaintStatus
<1>4. D \in SUBSET Outputs /\ out' = n
  BY <1>1 DEF OutputList
<1> HIDE DEF r
<1>5. /\ painted \in [Outputs -> OutputRec]
      /\ painted[o] = r
      /\ \A p \in Outputs \ {o} : painted[p] = out[p]
  BY <1>3 DEF Inv, TypeOK
<1> HIDE DEF painted
<1>6. \A p \in Outputs :
        /\ n[p].life = painted[p].life
        /\ painted[p].needed => n[p].needed
        /\ n[p].needed => painted[p].needed \/ p \in D
  BY <1>4, <1>5, ScheduleAllStatus
<1> HIDE DEF n
<1>7. OutputList' = OutputList
  <2>1. \A p \in Outputs : out'[p].life = out[p].life
    BY <1>3, <1>4, <1>5, <1>6
  <2> QED
    BY <2>1, SameList
<1>8. Damaged \ {o} \subseteq Damaged' /\ Damaged' \subseteq OutputList
  BY <1>4, <1>5, <1>6, <1>7 DEF Damaged, OutputList
<1>9. flip' = flip \cup {o} /\ (~Asleep(power))' \in BOOLEAN
  BY <1>1 DEF Asleep
<1> QED
  BY <1>2, <1>7, <1>8, <1>9 DEF FS!Post, Damaged

LEMMA VisitRefines ==
  ASSUME Inv, NEW o \in Outputs, VisitOutput(o)
  PROVE  [FS!Next]_(FS!vars)
<1>1. CASE UNCHANGED <<out, power, flip, surf>>
  BY <1>1, Stutters
<1>2. CASE /\ out' = [out EXCEPT ![o] = ScheduleRepaintReset(@)]
           /\ UNCHANGED <<power, flip, surf>>
  <2>1. \A p \in Outputs : out'[p].life = out[p].life /\ out'[p].needed = out[p].needed
    BY <1>2 DEF ScheduleRepaintReset, Inv, TypeOK, OutputRec
  <2> QED
    BY <1>2, <2>1, Stutters
<1>3. CASE ReadyToRepaint(out[o]) /\ ~DropFromCycle(out[o], power) /\ RepaintOutput(o)
  BY <1>3, RepaintPosts DEF FS!Next
<1> QED
  BY <1>1, <1>2, <1>3 DEF VisitOutput

(* The backend's timer completes one.                                      *)
LEMMA FinishCompletes ==
  ASSUME Inv, NEW o \in Outputs, FinishFrameHandler(o)
  PROVE  FS!Complete(o)
<1> DEFINE r == FinishFrame(out[o], TRUE, FALSE)
<1>1. r.life = out[o].life /\ r.needed = out[o].needed
  BY DEF FinishFrame, Asserted, Inv, TypeOK, OutputRec
<1>2. out' = [out EXCEPT ![o] = r]
  BY DEF FinishFrameHandler
<1> HIDE DEF r
<1>3. \A p \in Outputs : out'[p].life = out[p].life /\ out'[p].needed = out[p].needed
  BY <1>1, <1>2 DEF Inv, TypeOK
<1>4. OutputList' = OutputList
  BY <1>3, SameList
<1>5. Damaged' = Damaged
  BY <1>3, <1>4 DEF Damaged, OutputList
<1> QED
  BY <1>4, <1>5 DEF FS!Complete, FinishFrameHandler, Damaged

(* Outputs that come and go.                                               *)
LEMMA LifeCycleRefines ==
  ASSUME Inv, NEW o \in Outputs,
         CreateOutput(o) \/ EnableOutput(o) \/ DisableOutput(o) \/ DestroyOutput(o)
  PROVE  [FS!Next]_(FS!vars)
<1>1. \A p \in Outputs \ {o} : out'[p] = out[p]
  BY DEF CreateOutput, EnableOutput, DisableOutput, DestroyOutput, Inv, TypeOK
<1>2. UNCHANGED power
  BY DEF CreateOutput, EnableOutput, DisableOutput, DestroyOutput
<1>3. CASE o \notin OutputList /\ o \notin OutputList' /\ flip' = flip
  <2>1. OutputList' = OutputList
    BY <1>1, <1>3 DEF OutputList
  <2>2. Damaged' = Damaged
    BY <1>1, <1>3, <2>1 DEF Damaged, OutputList
  <2> QED
    BY <1>2, <1>3, <2>1, <2>2 DEF FS!vars, Damaged
<1>4. CASE o \notin OutputList /\ o \in OutputList' /\ flip' = flip
  <2>1. OutputList' = OutputList \cup {o}
    BY <1>1, <1>4 DEF OutputList
  <2>2. Damaged' \in {Damaged, Damaged \cup {o}}
    BY <1>1, <1>4, <2>1 DEF Damaged, OutputList
  <2>3. FS!Add(o)
    BY <1>2, <1>4, <2>1, <2>2 DEF FS!Add, Damaged
  <2> QED
    BY <2>3 DEF FS!Next
<1>5. CASE o \in OutputList /\ o \notin OutputList' /\ flip' = flip \ {o}
  <2>1. OutputList' = OutputList \ {o}
    BY <1>1, <1>5 DEF OutputList
  <2>2. Damaged' = Damaged \ {o}
    BY <1>1, <1>5, <2>1 DEF Damaged, OutputList
  <2>3. FS!Remove(o)
    BY <1>2, <1>5, <2>1, <2>2 DEF FS!Remove, Damaged
  <2> QED
    BY <2>3 DEF FS!Next
<1>6. CreateOutput(o) => o \notin OutputList /\ o \notin OutputList' /\ flip' = flip
  BY DEF CreateOutput, OutputList, Listed, InitOutput, AbsentOutput, Inv, TypeOK
<1>7. EnableOutput(o) => o \notin OutputList /\ flip' = flip
  BY DEF EnableOutput, OutputList, Listed
<1>8. DisableOutput(o) => o \in OutputList /\ o \notin OutputList' /\ flip' = flip \ {o}
  <2> DEFINE r == [RemoveOutput([out[o] EXCEPT !.destroying = TRUE]) EXCEPT !.destroying = FALSE]
  <2>1. r.life = "pending"
    BY DEF RemoveOutput, Asserted, Inv, TypeOK, OutputRec
  <2>2. DisableOutput(o) => out'[o] = r
    BY DEF DisableOutput, Inv, TypeOK
  <2> HIDE DEF r
  <2> QED
    BY <2>1, <2>2 DEF DisableOutput, StopTimer, OutputList, Listed
<1>9. DestroyOutput(o) =>
        /\ o \notin OutputList' /\ flip' = flip \ {o}
        /\ o \notin OutputList => flip' = flip
  BY DEF DestroyOutput, StopTimer, AbsentOutput, OutputList, Listed, Inv, TypeOK
<1>10. \/ o \notin OutputList /\ o \notin OutputList' /\ flip' = flip
       \/ o \notin OutputList /\ o \in OutputList' /\ flip' = flip
       \/ o \in OutputList /\ o \notin OutputList' /\ flip' = flip \ {o}
  BY <1>6, <1>7, <1>8, <1>9
<1> QED
  BY <1>3, <1>4, <1>5, <1>10

(* Every step of the repaint cycle is a step of the frame service or none. *)
THEOREM StepRefines ==
  "modechange" \notin Features /\ Inv /\ [Next]_vars => [FS!Next]_(FS!vars)
<1> SUFFICES ASSUME "modechange" \notin Features, Inv, [Next]_vars
             PROVE  [FS!Next]_(FS!vars)
  OBVIOUS
<1>1. ASSUME NEW o \in Outputs, IdleRepaint(o) PROVE [FS!Next]_(FS!vars)
  <2> DEFINE r == FinishFrame(EnterRepaintLoop(out[o]), TRUE, TRUE)
  <2>1. r.life = out[o].life /\ r.needed = out[o].needed
    BY DEF FinishFrame, EnterRepaintLoop, Asserted, Inv, TypeOK, OutputRec
  <2>2. out' = [out EXCEPT ![o] = r]
    BY <1>1 DEF IdleRepaint
  <2> HIDE DEF r
  <2>3. \A p \in Outputs : out'[p].life = out[p].life /\ out'[p].needed = out[p].needed
    BY <2>1, <2>2 DEF Inv, TypeOK
  <2> QED
    BY <1>1, <2>3, Stutters DEF IdleRepaint
<1>2. ASSUME NEW o \in Outputs, FinishFrameHandler(o) PROVE [FS!Next]_(FS!vars)
  BY <1>2, FinishCompletes DEF FS!Next
<1>3. ASSUME NEW o \in Outputs, Tick(o) PROVE [FS!Next]_(FS!vars)
  <2>1. \A p \in Outputs : out'[p].life = out[p].life /\ out'[p].needed = out[p].needed
    BY <1>3 DEF Tick, Inv, TypeOK, OutputRec
  <2> QED
    BY <1>3, <2>1, Stutters DEF Tick
<1>4. ASSUME NEW o \in Outputs, VisitOutput(o) PROVE [FS!Next]_(FS!vars)
  BY <1>4, VisitRefines
<1>5. ASSUME NEW o \in Outputs, Damage(o) PROVE [FS!Next]_(FS!vars)
  BY <1>5, ScheduleRefines DEF Damage, OutputList
<1>6. ASSUME NEW o \in Outputs,
             CreateOutput(o) \/ EnableOutput(o) \/ DisableOutput(o) \/ DestroyOutput(o)
      PROVE  [FS!Next]_(FS!vars)
  BY <1>6, LifeCycleRefines
<1>7. ASSUME NEW s \in Surfaces, Commit(s) PROVE [FS!Next]_(FS!vars)
  BY <1>7, ScheduleRefines DEF Commit
<1>8. CASE RepaintTimer
  BY <1>8, Stutters DEF RepaintTimer
<1>9. CASE RepaintTimerDone
  <2>1. \A p \in Outputs : out'[p].life = out[p].life /\ out'[p].needed = out[p].needed
    BY <1>9 DEF RepaintTimerDone, Inv, TypeOK, OutputRec
  <2> QED
    BY <1>9, <2>1, Stutters DEF RepaintTimerDone
<1>10. CASE IdleTimeout
  BY <1>10, ScheduleRefines DEF IdleTimeout
<1>11. CASE Sleep
  <2>1. OutputList' = OutputList /\ Damaged' = Damaged /\ Asleep(power')
    BY <1>11 DEF Sleep, Asleep, OutputList, Damaged
  <2>2. FS!Sleep
    BY <1>11, <2>1 DEF FS!Sleep, Sleep, Damaged
  <2> QED
    BY <2>2 DEF FS!Next
<1>12. CASE Wake
  <2>1. CASE out' = ScheduleAll(out, OutputList, "ACTIVE")
    BY <1>12, <2>1, ScheduleRefines DEF Wake
  <2>2. CASE UNCHANGED out
    <3>1. OutputList' = OutputList /\ Damaged' = Damaged /\ ~Asleep(power')
      BY <1>12, <2>2 DEF Wake, Asleep, OutputList, Damaged
    <3>2. CASE Asleep(power)
      <4>1. FS!Wake
        BY <1>12, <3>1, <3>2 DEF FS!Wake, FS!MoreDamage, Wake, Damaged
      <4> QED
        BY <4>1 DEF FS!Next
    <3>3. CASE ~Asleep(power)
      BY <1>12, <2>2, <3>1, <3>3, Stutters DEF Wake
    <3> QED
      BY <3>2, <3>3
  <2> QED
    BY <1>12, <2>1, <2>2 DEF Wake
<1>13. CASE Unlock
  BY <1>13, ScheduleRefines DEF Unlock
<1>14. CASE LeaveSession
  <2>1. \A o \in Outputs : /\ out'[o].life = out[o].life
                           /\ o \in OutputList => ~out'[o].needed
    BY <1>14 DEF LeaveSession, Inv, TypeOK, OutputRec, OutputList
  <2>2. OutputList' = OutputList
    BY <2>1, SameList
  <2>3. Damaged' = {} /\ Asleep(power')
    BY <1>14, <2>1, <2>2 DEF LeaveSession, Asleep, Damaged, OutputList
  <2>4. FS!Sleep
    BY <1>14, <2>2, <2>3 DEF FS!Sleep, LeaveSession, Damaged
  <2> QED
    BY <2>4 DEF FS!Next
<1>15. CASE EnterSession
  BY <1>15, ScheduleRefines DEF EnterSession
<1>16. CASE UNCHANGED vars
  BY <1>16, Stutters DEF vars
<1> QED
  BY <1>1, <1>2, <1>3, <1>4, <1>5, <1>6, <1>7, <1>8, <1>9, <1>10, <1>11, <1>12, <1>13,
     <1>14, <1>15, <1>16 DEF Next

(* The repaint cycle on timer-driven backends implements what the frame    *)
(* service says of safety, as long as no framebuffer changes its mode.     *)
THEOREM Refinement ==
  ASSUME "modechange" \notin Features
  PROVE  Spec => FS!Init /\ [][FS!Next]_(FS!vars)
<1>1. Init => FS!Init
  BY DEF Init, FS!Init, AbsentOutput, OutputList, Listed, Asleep
<1>2. Inv /\ [Next]_vars => [FS!Next]_(FS!vars)
  BY StepRefines
<1>3. Spec => Init /\ [][Next]_vars
  BY DEF Spec
<1> QED
  BY <1>1, <1>2, <1>3, Invariance, PTL
=============================================================================
