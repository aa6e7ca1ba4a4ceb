------------------------- MODULE RepaintLoop_proofs -------------------------
(***************************************************************************)
(* Proofs about RepaintLoop, for any sets of outputs and surfaces and any  *)
(* Features: the types, the assertions of the repaint code, the idle       *)
(* sources, that damage is never left without a repaint on its way, and    *)
(* that surfaces are repainted on outputs that are in use.                 *)
(***************************************************************************)
EXTENDS RepaintLoop, TLAPS

(* What each operation of the cycle keeps true of one output record: no    *)
(* assertion has failed, the idle source is there exactly while it is      *)
(* waited for, and feedback is held only while a completion is awaited.    *)
Sound(r) ==
  /\ ~r.abort
  /\ r.idle <=> r.status = "BEGIN_FROM_IDLE"
  /\ r.feedback => r.status = "AWAITING_COMPLETION"

(* A backend's timer runs only for an output that awaits a completion.     *)
FlipIsAwaited == \A o \in flip : out[o].status = "AWAITING_COMPLETION"

(* The loop has outputs left to visit only while the handler runs.         *)
TodoIsVisited == todo # {} => visiting

(* The inductive invariant.                                                *)
Inv ==
  /\ TypeOK
  /\ \A o \in Outputs : Sound(out[o])
  /\ FlipIsAwaited
  /\ TodoIsVisited
  /\ NeededIsScheduled

-----------------------------------------------------------------------------
(* Operations on one output record.                                        *)

(* Scheduling keeps a record sound, starts the cycle if rendering has not  *)
(* been stopped, and never interrupts one that runs.                       *)
LEMMA ScheduleRepaintSound ==
  ASSUME NEW r \in OutputRec, Sound(r), NEW p
  PROVE  LET n == ScheduleRepaint(r, p)
         IN  /\ n \in OutputRec
             /\ Sound(n)
             /\ n.life = r.life
             /\ r.status # "NOT_SCHEDULED" => n.status = r.status
             /\ ~Asleep(p) => n.needed /\ n.status # "NOT_SCHEDULED"
             /\ Asleep(p) => n = r
  BY DEF ScheduleRepaint, Asserted, OutputRec, Sound, RepaintStatus

(* Finishing an awaited frame with a timestamp schedules the next one.     *)
LEMMA FinishFrameSound ==
  ASSUME NEW r \in OutputRec, Sound(r), r.status = "AWAITING_COMPLETION",
         NEW invalid \in BOOLEAN, invalid => ~r.feedback
  PROVE  LET n == FinishFrame(r, TRUE, invalid)
         IN  /\ n \in OutputRec
             /\ Sound(n)
             /\ n.life = r.life
             /\ n.status = "SCHEDULED"
             /\ n.needed = r.needed
  BY DEF FinishFrame, Asserted, OutputRec, Sound, RepaintStatus

(* The idle callback finds what it expects and moves the output on.        *)
LEMMA EnterRepaintLoopSound ==
  ASSUME NEW r \in OutputRec, Sound(r), r.idle
  PROVE  LET n == EnterRepaintLoop(r)
         IN  /\ n \in OutputRec
             /\ Sound(n)
             /\ ~n.feedback
             /\ n.life = r.life
             /\ n.status = "AWAITING_COMPLETION"
             /\ n.needed = r.needed
  BY DEF EnterRepaintLoop, Asserted, OutputRec, Sound, RepaintStatus

(* A repaint that succeeds awaits a completion.                            *)
LEMMA RepaintDoneSound ==
  ASSUME NEW r \in OutputRec, Sound(r), r.status = "SCHEDULED", NEW taken \in BOOLEAN
  PROVE  LET n == RepaintDone(r, taken, TRUE)
         IN  /\ n \in OutputRec
             /\ Sound(n)
             /\ n.life = r.life
             /\ n.status = "AWAITING_COMPLETION"
  BY DEF RepaintDone, OutputRec, Sound, RepaintStatus

(* Enabling schedules, whether or not the backend's hook succeeds.         *)
LEMMA EnableSound ==
  ASSUME NEW r \in OutputRec, Sound(r), r.life = "pending", NEW p
  PROVE  LET n == PrepareEnable(r, p)
             e == AddOutput(n)
         IN  /\ n \in OutputRec /\ Sound(n) /\ n.life = "pending"
             /\ e \in OutputRec /\ Sound(e) /\ e.life = "enabled"
             /\ ~Asleep(p) => e.status # "NOT_SCHEDULED"
  BY DEF PrepareEnable, AddOutput, ScheduleRepaint, Asserted, OutputRec, Sound,
         RepaintStatus, LifeState

(* Scheduling a set of outputs does that to each of them, and nothing to   *)
(* the others.                                                             *)
LEMMA ScheduleAllSound ==
  ASSUME NEW records \in [Outputs -> OutputRec],
         \A o \in Outputs : Sound(records[o]),
         NEW O \in SUBSET Outputs, NEW p
  PROVE  LET n == ScheduleAll(records, O, p)
         IN  /\ n \in [Outputs -> OutputRec]
             /\ \A o \in Outputs :
                  /\ Sound(n[o])
                  /\ n[o].life = records[o].life
                  /\ records[o].status # "NOT_SCHEDULED" => n[o].status = records[o].status
                  /\ o \in O /\ ~Asleep(p) => n[o].needed /\ n[o].status # "NOT_SCHEDULED"
                  /\ o \notin O \/ Asleep(p) => n[o] = records[o]
<1> DEFINE n == ScheduleAll(records, O, p)
<1>1. \A o \in Outputs : n[o] = IF o \in O THEN ScheduleRepaint(records[o], p)
                                          ELSE records[o]
  BY DEF ScheduleAll
<1>2. ASSUME NEW o \in Outputs
      PROVE  /\ n[o] \in OutputRec
             /\ Sound(n[o])
             /\ n[o].life = records[o].life
             /\ records[o].status # "NOT_SCHEDULED" => n[o].status = records[o].status
             /\ o \in O /\ ~Asleep(p) => n[o].needed /\ n[o].status # "NOT_SCHEDULED"
             /\ o \notin O \/ Asleep(p) => n[o] = records[o]
  <2>1. CASE o \in O
    BY <2>1, <1>1, ScheduleRepaintSound
  <2>2. CASE o \notin O
    BY <2>2, <1>1
  <2> QED
    BY <2>1, <2>2
<1>3. n \in [Outputs -> OutputRec]
  BY <1>2 DEF ScheduleAll
<1> QED
  BY <1>2, <1>3

-----------------------------------------------------------------------------
(* The steps.  A step that keeps each output's life keeps the list.        *)

LEMMA SameList ==
  ASSUME \A o \in Outputs : out'[o].life = out[o].life
  PROVE  OutputList' = OutputList
  BY DEF OutputList, Listed

(* Replacing one record by a sound one that is as alive.                   *)
LEMMA ReplaceOne ==
  ASSUME Inv, NEW o \in Outputs, NEW r \in OutputRec, Sound(r),
         r.life = out[o].life, out' = [out EXCEPT ![o] = r]
  PROVE  /\ out' \in [Outputs -> OutputRec]
         /\ \A p \in Outputs : Sound(out'[p])
         /\ OutputList' = OutputList
         /\ out'[o] = r
         /\ \A p \in Outputs \ {o} : out'[p] = out[p]
<1>1. /\ out' \in [Outputs -> OutputRec]
      /\ out'[o] = r
      /\ \A p \in Outputs \ {o} : out'[p] = out[p]
  BY DEF Inv, TypeOK
<1>2. \A p \in Outputs : Sound(out'[p]) /\ out'[p].life = out[p].life
  BY <1>1 DEF Inv
<1> QED
  BY <1>1, <1>2, SameList

(* Scheduling any outputs, with the compositor's state unchanged.          *)
LEMMA ScheduleStep ==
  ASSUME Inv, NEW O \in SUBSET OutputList, out' = ScheduleAll(out, O, power)
  PROVE  /\ out' \in [Outputs -> OutputRec]
         /\ \A o \in Outputs : Sound(out'[o])
         /\ OutputList' = OutputList
         /\ \A o \in Outputs : out[o].status # "NOT_SCHEDULED" => out'[o].status = out[o].status
         /\ power' = power /\ unlocking' = unlocking => NeededIsScheduled'
<1>1. O \in SUBSET Outputs
  BY DEF OutputList
<1>2. /\ out' \in [Outputs -> OutputRec]
      /\ \A o \in Outputs :
           /\ Sound(out'[o])
           /\ out'[o].life = out[o].life
           /\ out[o].status # "NOT_SCHEDULED" => out'[o].status = out[o].status
           /\ o \in O /\ ~Asleep(power) => out'[o].status # "NOT_SCHEDULED"
           /\ o \notin O \/ Asleep(power) => out'[o] = out[o]
  BY <1>1, ScheduleAllSound DEF Inv, TypeOK
<1>3. OutputList' = OutputList
  BY <1>2, SameList
<1>4. ASSUME power' = power, unlocking' = unlocking, ~Asleep(power), ~unlocking,
             NEW o \in OutputList, out'[o].needed
      PROVE  out'[o].status # "NOT_SCHEDULED"
  BY <1>2, <1>4 DEF Inv, NeededIsScheduled, OutputList
<1> QED
  BY <1>2, <1>3, <1>4 DEF NeededIsScheduled

-----------------------------------------------------------------------------
(* The initial state satisfies the invariant.                              *)
THEOREM InitInv == Init => Inv
<1> SUFFICES ASSUME Init PROVE Inv
  OBVIOUS
<1>1. AbsentOutput \in OutputRec /\ Sound(AbsentOutput) /\ ~Listed(AbsentOutput)
  BY DEF AbsentOutput, OutputRec, LifeState, RepaintStatus, Sound, Listed
<1>2. \A o \in Outputs : out[o] = AbsentOutput
  BY DEF Init
<1>3. TypeOK
  BY <1>1, <1>2 DEF Init, TypeOK, PowerState, SurfaceRec
<1>4. NeededIsScheduled
  BY <1>1, <1>2 DEF NeededIsScheduled, OutputList
<1> QED
  BY <1>1, <1>2, <1>3, <1>4 DEF Init, Inv, FlipIsAwaited, TodoIsVisited

(* The running handlers of one output: every step of the repaint cycle.    *)
LEMMA IdleRepaintInv ==
  ASSUME Inv, NEW o \in Outputs, IdleRepaint(o)
  PROVE  Inv'
<1> DEFINE e == EnterRepaintLoop(out[o])
           r == FinishFrame(e, TRUE, TRUE)
<1>1. out[o] \in OutputRec /\ Sound(out[o]) /\ out[o].idle
  BY DEF Inv, TypeOK, IdleRepaint
<1>2. e \in OutputRec /\ Sound(e) /\ ~e.feedback /\ e.life = out[o].life
      /\ e.status = "AWAITING_COMPLETION"
  BY <1>1, EnterRepaintLoopSound
<1>3. r \in OutputRec /\ Sound(r) /\ r.life = out[o].life /\ r.status = "SCHEDULED"
  BY <1>2, FinishFrameSound
<1>4. out' = [out EXCEPT ![o] = r]
  BY DEF IdleRepaint
<1>5. /\ out' \in [Outputs -> OutputRec]
      /\ \A p \in Outputs : Sound(out'[p])
      /\ OutputList' = OutputList
      /\ out'[o] = r
      /\ \A p \in Outputs \ {o} : out'[p] = out[p]
  BY <1>3, <1>4, ReplaceOne
<1>6. TypeOK'
  BY <1>5 DEF Inv, TypeOK, IdleRepaint, TimerArmed
<1>7. o \notin flip
  BY <1>1 DEF Inv, FlipIsAwaited, Sound
<1>8. FlipIsAwaited'
  BY <1>5, <1>7 DEF Inv, FlipIsAwaited, IdleRepaint, TypeOK, OutputList
<1>9. NeededIsScheduled'
  BY <1>3, <1>5 DEF Inv, NeededIsScheduled, IdleRepaint, OutputList
<1> QED
  BY <1>5, <1>6, <1>8, <1>9 DEF Inv, TodoIsVisited, IdleRepaint

LEMMA FinishFrameHandlerInv ==
  ASSUME Inv, NEW o \in Outputs, FinishFrameHandler(o)
  PROVE  Inv'
<1> DEFINE r == FinishFrame(out[o], TRUE, FALSE)
<1>1. /\ out[o] \in OutputRec
      /\ Sound(out[o])
      /\ out[o].status = "AWAITING_COMPLETION"
  BY DEF Inv, TypeOK, FinishFrameHandler, FlipIsAwaited
<1>2. r \in OutputRec /\ Sound(r) /\ r.life = out[o].life /\ r.status = "SCHEDULED"
  BY <1>1, FinishFrameSound
<1>3. out' = [out EXCEPT ![o] = r]
  BY DEF FinishFrameHandler
<1>4. /\ out' \in [Outputs -> OutputRec]
      /\ \A p \in Outputs : Sound(out'[p])
      /\ OutputList' = OutputList
      /\ out'[o] = r
      /\ \A p \in Outputs \ {o} : out'[p] = out[p]
  BY <1>2, <1>3, ReplaceOne
<1>5. TypeOK'
  BY <1>4 DEF Inv, TypeOK, FinishFrameHandler, TimerArmed
<1>6. FlipIsAwaited'
  BY <1>4 DEF Inv, FlipIsAwaited, FinishFrameHandler, TypeOK, OutputList
<1>7. NeededIsScheduled'
  BY <1>2, <1>4 DEF Inv, NeededIsScheduled, FinishFrameHandler, OutputList
<1> QED
  BY <1>4, <1>5, <1>6, <1>7 DEF Inv, TodoIsVisited, FinishFrameHandler

LEMMA TickInv ==
  ASSUME Inv, NEW o \in Outputs, Tick(o)
  PROVE  Inv'
<1> DEFINE r == [out[o] EXCEPT !.due = TRUE]
<1>1. r \in OutputRec /\ Sound(r) /\ r.life = out[o].life /\ r.status = out[o].status
      /\ r.needed = out[o].needed
  BY DEF Inv, TypeOK, OutputRec, Sound
<1>2. out' = [out EXCEPT ![o] = r]
  BY DEF Tick
<1>3. /\ out' \in [Outputs -> OutputRec]
      /\ \A p \in Outputs : Sound(out'[p])
      /\ OutputList' = OutputList
      /\ out'[o] = r
      /\ \A p \in Outputs \ {o} : out'[p] = out[p]
  BY <1>1, <1>2, ReplaceOne
<1>4. TypeOK'
  BY <1>3 DEF Inv, TypeOK, Tick
<1>5. FlipIsAwaited' /\ NeededIsScheduled'
  BY <1>1, <1>3 DEF Inv, FlipIsAwaited, NeededIsScheduled, Tick, TypeOK, OutputList
<1> QED
  BY <1>3, <1>4, <1>5 DEF Inv, TodoIsVisited, Tick

LEMMA RepaintTimerInv ==
  ASSUME Inv, RepaintTimer
  PROVE  Inv'
<1>1. OutputList' = OutputList
  BY DEF RepaintTimer, OutputList
<1> QED
  BY <1>1 DEF Inv, TypeOK, RepaintTimer, FlipIsAwaited, TodoIsVisited, NeededIsScheduled

LEMMA RepaintTimerDoneInv ==
  ASSUME Inv, RepaintTimerDone
  PROVE  Inv'
<1>1. \A o \in Outputs :
        /\ out'[o] \in OutputRec
        /\ Sound(out'[o])
        /\ out'[o].life = out[o].life
        /\ out'[o].status = out[o].status
        /\ out'[o].needed = out[o].needed
  BY DEF RepaintTimerDone, Inv, TypeOK, OutputRec, Sound
<1>2. out' \in [Outputs -> OutputRec]
  BY <1>1 DEF RepaintTimerDone
<1>3. OutputList' = OutputList
  BY <1>1, SameList
<1>4. TypeOK'
  BY <1>2, <1>3 DEF Inv, TypeOK, RepaintTimerDone, TimerArmed
<1>5. FlipIsAwaited' /\ NeededIsScheduled'
  BY <1>1, <1>3 DEF Inv, FlipIsAwaited, NeededIsScheduled, RepaintTimerDone, TypeOK, OutputList
<1> QED
  BY <1>1, <1>4, <1>5 DEF Inv, TodoIsVisited, RepaintTimerDone

(* A repaint: its output becomes awaited, and any may get damaged.         *)
LEMMA RepaintOutputInv ==
  ASSUME Inv, NEW o \in Outputs, VisitOutput(o), ReadyToRepaint(out[o]), RepaintOutput(o)
  PROVE  Inv'
<1>1. PICK placed \in [Surfaces -> SurfaceRec], D \in {{}, {o}, OutputList}, locks \in BOOLEAN :
        LET taken   == \E s \in Surfaces : placed[s].where = o /\ placed[s].fb
            painted == [out EXCEPT ![o] = RepaintDone(@, taken, TRUE)]
        IN  /\ surf' = TakenFrom(placed, o)
            /\ flip' = flip \cup {o}
            /\ out' = ScheduleAll(painted, D, power)
            /\ power' = IF locks THEN "SLEEPING" ELSE power
  BY DEF RepaintOutput
<1> DEFINE taken   == \E s \in Surfaces : placed[s].where = o /\ placed[s].fb
           r       == RepaintDone(out[o], taken, TRUE)
           painted == [out EXCEPT ![o] = r]
<1>2. o \in OutputList /\ D \in SUBSET OutputList /\ D \in SUBSET Outputs
  BY DEF Inv, TypeOK, VisitOutput, OutputList
<1>3. r \in OutputRec /\ Sound(r) /\ r.life = out[o].life /\ r.status = "AWAITING_COMPLETION"
  <2>1. out[o] \in OutputRec /\ Sound(out[o]) /\ out[o].status = "SCHEDULED" /\ taken \in BOOLEAN
    BY DEF Inv, TypeOK, ReadyToRepaint
  <2> HIDE DEF taken
  <2> QED
    BY <2>1, RepaintDoneSound
<1>4. out' = ScheduleAll(painted, D, power)
  BY <1>1
<1> HIDE DEF r
<1>5. /\ painted \in [Outputs -> OutputRec]
      /\ painted[o] = r
      /\ \A p \in Outputs \ {o} : painted[p] = out[p]
      /\ \A p \in Outputs : Sound(painted[p])
  BY <1>3 DEF Inv, TypeOK
<1> HIDE DEF painted, taken
<1>6. /\ out' \in [Outputs -> OutputRec]
      /\ \A p \in Outputs :
           /\ Sound(out'[p])
           /\ out'[p].life = painted[p].life
           /\ painted[p].status # "NOT_SCHEDULED" => out'[p].status = painted[p].status
           /\ p \in D /\ ~Asleep(power) => out'[p].status # "NOT_SCHEDULED"
           /\ p \notin D \/ Asleep(power) => out'[p] = painted[p]
  <2> DEFINE n == ScheduleAll(painted, D, power)
  <2>0. D \in SUBSET Outputs /\ painted \in [Outputs -> OutputRec]
        /\ \A p \in Outputs : Sound(painted[p])
    BY <1>2, <1>5
  <2>1. /\ n \in [Outputs -> OutputRec]
        /\ \A p \in Outputs :
             /\ Sound(n[p])
             /\ n[p].life = painted[p].life
             /\ painted[p].status # "NOT_SCHEDULED" => n[p].status = painted[p].status
             /\ p \in D /\ ~Asleep(power) => n[p].needed /\ n[p].status # "NOT_SCHEDULED"
             /\ p \notin D \/ Asleep(power) => n[p] = painted[p]
    BY <2>0, ScheduleAllSound
  <2>2. out' = n
    BY <1>4
  <2> HIDE DEF n
  <2> QED
    BY <2>1, <2>2
<1>7. OutputList' = OutputList
  BY <1>3, <1>5, <1>6, SameList
<1>8. surf' \in [Surfaces -> SurfaceRec] /\ power' \in PowerState
  <2>1. \A s \in Surfaces : [placed[s] EXCEPT !.cb = FALSE, !.fb = FALSE] \in SurfaceRec
    BY DEF SurfaceRec
  <2>2. TakenFrom(placed, o) \in [Surfaces -> SurfaceRec]
    BY <2>1 DEF TakenFrom
  <2>3. power' \in PowerState
    BY <1>1 DEF PowerState, Inv, TypeOK
  <2> QED
    BY <1>1, <2>2, <2>3
<1>9. TypeOK'
  <2>1. todo' \in SUBSET OutputList /\ flip' \in SUBSET OutputList
    BY <1>1, <1>2 DEF Inv, TypeOK, VisitOutput
  <2>2. UNCHANGED <<armed, visiting, unlocking, sessionOff, prevPower>>
    BY DEF VisitOutput
  <2> QED
    BY <1>6, <1>7, <1>8, <2>1, <2>2 DEF Inv, TypeOK
<1>10. FlipIsAwaited'
  <2>1. SUFFICES ASSUME NEW p \in flip \cup {o}
                 PROVE  out'[p].status = "AWAITING_COMPLETION"
    BY <1>1 DEF FlipIsAwaited
  <2>2. p \in Outputs /\ painted[p].status = "AWAITING_COMPLETION"
    BY <1>2, <1>3, <1>5 DEF Inv, FlipIsAwaited, TypeOK, OutputList
  <2> QED
    BY <1>6, <2>2
<1>11. NeededIsScheduled'
  <2>1. SUFFICES ASSUME ~Asleep(power'), ~unlocking, NEW p \in OutputList, out'[p].needed
                 PROVE  out'[p].status # "NOT_SCHEDULED"
    BY <1>7 DEF NeededIsScheduled, VisitOutput
  <2>2. power' = power
    BY <1>1, <2>1 DEF Asleep
  <2>3. CASE p = o
    BY <1>3, <1>5, <1>6, <2>3 DEF OutputList
  <2>4. CASE p # o
    BY <1>5, <1>6, <2>1, <2>2, <2>4 DEF Inv, NeededIsScheduled, OutputList
  <2> QED
    BY <2>3, <2>4
<1> QED
  BY <1>6, <1>9, <1>10, <1>11 DEF Inv, TodoIsVisited, VisitOutput

(* Dropping an output from the cycle: it needs nothing, or rendering has   *)
(* been stopped.                                                           *)
LEMMA DropFromCycleInv ==
  ASSUME Inv, NEW o \in Outputs, VisitOutput(o), ReadyToRepaint(out[o]),
         DropFromCycle(out[o], power),
         out' = [out EXCEPT ![o] = ScheduleRepaintReset(@)],
         UNCHANGED <<power, flip, surf>>
  PROVE  Inv'
<1> DEFINE r == ScheduleRepaintReset(out[o])
<1>1. /\ r \in OutputRec /\ Sound(r) /\ r.life = out[o].life
      /\ r.needed = out[o].needed
  BY DEF Inv, TypeOK, OutputRec, Sound, ScheduleRepaintReset, RepaintStatus, ReadyToRepaint
<1>2. /\ out' \in [Outputs -> OutputRec]
      /\ \A p \in Outputs : Sound(out'[p])
      /\ OutputList' = OutputList
      /\ out'[o] = r
      /\ \A p \in Outputs \ {o} : out'[p] = out[p]
  BY <1>1, ReplaceOne
<1>3. TypeOK'
  BY <1>2 DEF Inv, TypeOK, VisitOutput
<1>4. o \notin flip
  BY DEF Inv, FlipIsAwaited, ReadyToRepaint
<1>5. FlipIsAwaited'
  BY <1>2, <1>4 DEF Inv, FlipIsAwaited, TypeOK, OutputList
<1>6. NeededIsScheduled'
  BY <1>1, <1>2 DEF Inv, NeededIsScheduled, DropFromCycle, VisitOutput, OutputList
<1> QED
  BY <1>2, <1>3, <1>5, <1>6 DEF Inv, TodoIsVisited, VisitOutput

LEMMA VisitOutputInv ==
  ASSUME Inv, NEW o \in Outputs, VisitOutput(o)
  PROVE  Inv'
<1>1. CASE UNCHANGED <<out, power, flip, surf>>
  <2>1. OutputList' = OutputList
    BY <1>1, SameList
  <2> QED
    BY <1>1, <2>1
    DEF VisitOutput, Inv, TypeOK, FlipIsAwaited, TodoIsVisited, NeededIsScheduled
<1>2. CASE /\ ReadyToRepaint(out[o])
           /\ DropFromCycle(out[o], power)
           /\ out' = [out EXCEPT ![o] = ScheduleRepaintReset(@)]
           /\ UNCHANGED <<power, flip, surf>>
  BY <1>2, DropFromCycleInv
<1>3. CASE ReadyToRepaint(out[o]) /\ RepaintOutput(o)
  BY <1>3, RepaintOutputInv
<1> QED
  BY <1>1, <1>2, <1>3 DEF VisitOutput

-----------------------------------------------------------------------------
(* Clients, input, the shell, and the session.                             *)

(* Scheduling every output in the compositor's new state puts each of them *)
(* on its way.                                                             *)
LEMMA ScheduleEvery ==
  ASSUME Inv, NEW state, power' = state, out' = ScheduleAll(out, OutputList, state)
  PROVE  /\ out' \in [Outputs -> OutputRec]
         /\ \A o \in Outputs : Sound(out'[o])
         /\ OutputList' = OutputList
         /\ \A o \in Outputs : out[o].status # "NOT_SCHEDULED" => out'[o].status = out[o].status
         /\ NeededIsScheduled'
<1>1. OutputList \in SUBSET Outputs
  BY DEF OutputList
<1>2. /\ out' \in [Outputs -> OutputRec]
      /\ \A o \in Outputs :
           /\ Sound(out'[o])
           /\ out'[o].life = out[o].life
           /\ out[o].status # "NOT_SCHEDULED" => out'[o].status = out[o].status
           /\ o \in OutputList /\ ~Asleep(state) => out'[o].status # "NOT_SCHEDULED"
  BY <1>1, ScheduleAllSound DEF Inv, TypeOK
<1>3. OutputList' = OutputList
  BY <1>2, SameList
<1> QED
  BY <1>1, <1>2, <1>3 DEF NeededIsScheduled

(* The parts of the invariant a step cannot disturb that leaves the        *)
(* handler, the timers and the statuses of awaited outputs alone.          *)
LEMMA KeepsFlips ==
  ASSUME Inv, UNCHANGED <<flip, todo, visiting>>, OutputList' = OutputList,
         \A o \in Outputs : out[o].status # "NOT_SCHEDULED" => out'[o].status = out[o].status
  PROVE  FlipIsAwaited' /\ TodoIsVisited' /\ todo' \in SUBSET OutputList' /\ flip' \in SUBSET OutputList'
  BY DEF Inv, FlipIsAwaited, TodoIsVisited, TypeOK, OutputList

LEMMA CommitInv ==
  ASSUME Inv, NEW s \in Surfaces, Commit(s)
  PROVE  Inv'
<1>1. PICK O \in SUBSET OutputList : out' = ScheduleAll(out, O, power)
  BY DEF Commit
<1>2. /\ out' \in [Outputs -> OutputRec]
      /\ \A o \in Outputs : Sound(out'[o])
      /\ OutputList' = OutputList
      /\ \A o \in Outputs : out[o].status # "NOT_SCHEDULED" => out'[o].status = out[o].status
      /\ NeededIsScheduled'
  BY <1>1, ScheduleStep DEF Commit
<1>3. FlipIsAwaited' /\ TodoIsVisited' /\ todo' \in SUBSET OutputList' /\ flip' \in SUBSET OutputList'
  BY <1>2, KeepsFlips DEF Commit
<1>4. surf' \in [Surfaces -> SurfaceRec]
  BY DEF Commit, Inv, TypeOK, SurfaceRec
<1> QED
  BY <1>2, <1>3, <1>4 DEF Inv, TypeOK, Commit

LEMMA DamageInv ==
  ASSUME Inv, NEW o \in Outputs, Damage(o)
  PROVE  Inv'
<1>1. {o} \in SUBSET OutputList /\ out' = ScheduleAll(out, {o}, power)
  BY DEF Damage, OutputList
<1>2. /\ out' \in [Outputs -> OutputRec]
      /\ \A p \in Outputs : Sound(out'[p])
      /\ OutputList' = OutputList
      /\ \A p \in Outputs : out[p].status # "NOT_SCHEDULED" => out'[p].status = out[p].status
      /\ NeededIsScheduled'
  BY <1>1, ScheduleStep DEF Damage
<1>3. FlipIsAwaited' /\ TodoIsVisited' /\ todo' \in SUBSET OutputList' /\ flip' \in SUBSET OutputList'
  BY <1>2, KeepsFlips DEF Damage
<1> QED
  BY <1>2, <1>3 DEF Inv, TypeOK, Damage

LEMMA IdleTimeoutInv ==
  ASSUME Inv, IdleTimeout
  PROVE  Inv'
<1>1. /\ out' \in [Outputs -> OutputRec]
      /\ \A o \in Outputs : Sound(out'[o])
      /\ OutputList' = OutputList
      /\ \A o \in Outputs : out[o].status # "NOT_SCHEDULED" => out'[o].status = out[o].status
      /\ NeededIsScheduled'
  BY ScheduleEvery DEF IdleTimeout
<1>2. FlipIsAwaited' /\ TodoIsVisited' /\ todo' \in SUBSET OutputList' /\ flip' \in SUBSET OutputList'
  BY <1>1, KeepsFlips DEF IdleTimeout
<1> QED
  BY <1>1, <1>2 DEF Inv, TypeOK, IdleTimeout, PowerState

LEMMA SleepInv ==
  ASSUME Inv, Sleep
  PROVE  Inv'
<1>1. OutputList' = OutputList
  BY SameList DEF Sleep
<1>2. FlipIsAwaited' /\ TodoIsVisited' /\ todo' \in SUBSET OutputList' /\ flip' \in SUBSET OutputList'
  BY <1>1, KeepsFlips DEF Sleep
<1> QED
  BY <1>1, <1>2 DEF Inv, TypeOK, Sleep, PowerState, NeededIsScheduled, Asleep

LEMMA WakeInv ==
  ASSUME Inv, Wake
  PROVE  Inv'
<1>1. /\ out' \in [Outputs -> OutputRec]
      /\ \A o \in Outputs : Sound(out'[o])
      /\ OutputList' = OutputList
      /\ \A o \in Outputs : out[o].status # "NOT_SCHEDULED" => out'[o].status = out[o].status
      /\ NeededIsScheduled'
  <2>1. CASE out' = ScheduleAll(out, OutputList, "ACTIVE")
    BY <2>1, ScheduleEvery DEF Wake
  <2>2. CASE unlocking' = TRUE /\ UNCHANGED out
    BY <2>2, SameList DEF Wake, Inv, TypeOK, NeededIsScheduled
  <2> QED
    BY <2>1, <2>2 DEF Wake
<1>2. FlipIsAwaited' /\ TodoIsVisited' /\ todo' \in SUBSET OutputList' /\ flip' \in SUBSET OutputList'
  BY <1>1, KeepsFlips DEF Wake
<1> QED
  BY <1>1, <1>2 DEF Inv, TypeOK, Wake, PowerState

LEMMA UnlockInv ==
  ASSUME Inv, Unlock
  PROVE  Inv'
<1>1. /\ out' \in [Outputs -> OutputRec]
      /\ \A o \in Outputs : Sound(out'[o])
      /\ OutputList' = OutputList
      /\ \A o \in Outputs : out[o].status # "NOT_SCHEDULED" => out'[o].status = out[o].status
      /\ NeededIsScheduled'
  BY ScheduleEvery DEF Unlock
<1>2. FlipIsAwaited' /\ TodoIsVisited' /\ todo' \in SUBSET OutputList' /\ flip' \in SUBSET OutputList'
  BY <1>1, KeepsFlips DEF Unlock
<1> QED
  BY <1>1, <1>2 DEF Inv, TypeOK, Unlock

LEMMA LeaveSessionInv ==
  ASSUME Inv, LeaveSession
  PROVE  Inv'
<1>1. \A o \in Outputs :
        /\ out'[o] \in OutputRec
        /\ Sound(out'[o])
        /\ out'[o].life = out[o].life
        /\ out'[o].status = out[o].status
  BY DEF LeaveSession, Inv, TypeOK, OutputRec, Sound
<1>2. out' \in [Outputs -> OutputRec]
  BY <1>1 DEF LeaveSession
<1>3. OutputList' = OutputList
  BY <1>1, SameList
<1>4. FlipIsAwaited' /\ TodoIsVisited' /\ todo' \in SUBSET OutputList' /\ flip' \in SUBSET OutputList'
  BY <1>1, <1>3, KeepsFlips DEF LeaveSession
<1> QED
  BY <1>1, <1>2, <1>4 DEF Inv, TypeOK, LeaveSession, PowerState, NeededIsScheduled, Asleep

LEMMA EnterSessionInv ==
  ASSUME Inv, EnterSession
  PROVE  Inv'
<1>1. /\ out' \in [Outputs -> OutputRec]
      /\ \A o \in Outputs : Sound(out'[o])
      /\ OutputList' = OutputList
      /\ \A o \in Outputs : out[o].status # "NOT_SCHEDULED" => out'[o].status = out[o].status
      /\ NeededIsScheduled'
  BY ScheduleEvery DEF EnterSession
<1>2. flip' \in SUBSET flip /\ UNCHANGED <<todo, visiting>>
  BY DEF EnterSession
<1>3. FlipIsAwaited' /\ TodoIsVisited' /\ todo' \in SUBSET OutputList' /\ flip' \in SUBSET OutputList'
  BY <1>1, <1>2 DEF Inv, FlipIsAwaited, TodoIsVisited, TypeOK, OutputList
<1> QED
  BY <1>1, <1>3 DEF Inv, TypeOK, EnterSession

-----------------------------------------------------------------------------
(* The life cycle.  It runs outside of the handler, so no output that goes *)
(* is still to be visited.                                                 *)

LEMMA CreateOutputInv ==
  ASSUME Inv, NEW o \in Outputs, CreateOutput(o)
  PROVE  Inv'
<1>1. InitOutput \in OutputRec /\ Sound(InitOutput) /\ InitOutput.life = "pending"
  BY DEF InitOutput, AbsentOutput, OutputRec, Sound, LifeState, RepaintStatus
<1>2. /\ out' \in [Outputs -> OutputRec]
      /\ out'[o] = InitOutput
      /\ \A p \in Outputs \ {o} : out'[p] = out[p]
  BY <1>1 DEF CreateOutput, Inv, TypeOK
<1>3. OutputList' = OutputList /\ o \notin OutputList
  BY <1>1, <1>2 DEF OutputList, Listed, CreateOutput
<1>4. \A p \in OutputList : p \in Outputs \ {o} /\ out'[p] = out[p]
  BY <1>2, <1>3 DEF OutputList
<1>5. FlipIsAwaited' /\ NeededIsScheduled'
  BY <1>3, <1>4 DEF CreateOutput, Inv, TypeOK, FlipIsAwaited, NeededIsScheduled
<1>6. \A p \in Outputs : Sound(out'[p])
  BY <1>1, <1>2 DEF Inv
<1> QED
  BY <1>2, <1>3, <1>5, <1>6 DEF Inv, TypeOK, TodoIsVisited, CreateOutput

LEMMA EnableOutputInv ==
  ASSUME Inv, NEW o \in Outputs, EnableOutput(o)
  PROVE  Inv'
<1> DEFINE n == PrepareEnable(out[o], power)
           e == AddOutput(n)
<1>1. /\ n \in OutputRec /\ Sound(n) /\ n.life = "pending"
      /\ e \in OutputRec /\ Sound(e) /\ e.life = "enabled"
      /\ ~Asleep(power) => e.status # "NOT_SCHEDULED"
  BY EnableSound DEF EnableOutput, Inv, TypeOK
<1>2. PICK r \in {n, e} : out' = [out EXCEPT ![o] = r]
  BY DEF EnableOutput
<1>3. /\ r \in OutputRec
      /\ Sound(r)
      /\ Listed(r) /\ ~Asleep(power) => r.status # "NOT_SCHEDULED"
  BY <1>1, <1>2 DEF Listed
<1> HIDE DEF n, e
<1>4. /\ out' \in [Outputs -> OutputRec]
      /\ out'[o] = r
      /\ \A p \in Outputs \ {o} : out'[p] = out[p]
      /\ \A p \in Outputs : Sound(out'[p])
  BY <1>2, <1>3 DEF Inv, TypeOK
<1>5. o \notin OutputList /\ OutputList \subseteq OutputList' /\ OutputList' \subseteq OutputList \cup {o}
  BY <1>4 DEF OutputList, Listed, EnableOutput
<1>6. \A p \in OutputList : p \in Outputs \ {o} /\ out'[p] = out[p]
  BY <1>4, <1>5 DEF OutputList
<1>7. FlipIsAwaited'
  BY <1>6 DEF EnableOutput, Inv, TypeOK, FlipIsAwaited
<1>8. NeededIsScheduled'
  <2>1. SUFFICES ASSUME ~Asleep(power), ~unlocking, NEW p \in OutputList', out'[p].needed
                 PROVE  out'[p].status # "NOT_SCHEDULED"
    BY DEF NeededIsScheduled, EnableOutput
  <2>2. CASE p = o
    BY <1>3, <1>4, <2>1, <2>2 DEF OutputList
  <2>3. CASE p # o
    BY <1>5, <1>6, <2>1, <2>3 DEF Inv, NeededIsScheduled
  <2> QED
    BY <2>2, <2>3
<1>9. surf' \in [Surfaces -> SurfaceRec]
  <2>1. DirtyViews \in [Surfaces -> SurfaceRec]
    BY DEF DirtyViews, Inv, TypeOK, SurfaceRec
  <2> QED
    BY <2>1 DEF EnableOutput, Inv, TypeOK
<1> QED
  BY <1>4, <1>5, <1>7, <1>8, <1>9 DEF Inv, TypeOK, TodoIsVisited, EnableOutput

(* An output that leaves the list while the handler does not run takes its *)
(* timer along.                                                            *)
LEMMA LeavesList ==
  ASSUME Inv, NEW o \in Outputs, NEW r \in OutputRec, Sound(r), ~Listed(r),
         out' = [out EXCEPT ![o] = r], flip' = flip \ {o}, ~visiting,
         UNCHANGED <<power, armed, visiting, todo, unlocking, sessionOff, prevPower>>,
         surf' \in [Surfaces -> SurfaceRec]
  PROVE  Inv'
<1>1. /\ out' \in [Outputs -> OutputRec]
      /\ out'[o] = r
      /\ \A p \in Outputs \ {o} : out'[p] = out[p]
      /\ \A p \in Outputs : Sound(out'[p])
  BY DEF Inv, TypeOK
<1>2. OutputList' = OutputList \ {o}
  BY <1>1 DEF OutputList, Listed
<1>3. todo' = {}
  BY DEF Inv, TodoIsVisited
<1>4. TypeOK'
  BY <1>1, <1>2, <1>3 DEF Inv, TypeOK
<1>5. FlipIsAwaited' /\ NeededIsScheduled'
  BY <1>1, <1>2 DEF Inv, TypeOK, FlipIsAwaited, NeededIsScheduled, OutputList
<1> QED
  BY <1>1, <1>3, <1>4, <1>5 DEF Inv, TodoIsVisited

LEMMA DisableOutputInv ==
  ASSUME Inv, NEW o \in Outputs, DisableOutput(o)
  PROVE  Inv'
<1> DEFINE r == [RemoveOutput([out[o] EXCEPT !.destroying = TRUE]) EXCEPT !.destroying = FALSE]
<1>1. r \in OutputRec /\ Sound(r) /\ r.life = "pending"
  BY DEF DisableOutput, RemoveOutput, Asserted, Listed, Inv, TypeOK, OutputRec, Sound, LifeState
<1>2. out' = [out EXCEPT ![o] = r]
  BY DEF DisableOutput
<1> HIDE DEF r
<1>3. surf' \in [Surfaces -> SurfaceRec]
  BY DEF DisableOutput, Reassign
<1> QED
  BY <1>1, <1>2, <1>3, LeavesList DEF DisableOutput, StopTimer, Listed

LEMMA DestroyOutputInv ==
  ASSUME Inv, NEW o \in Outputs, DestroyOutput(o)
  PROVE  Inv'
<1>1. AbsentOutput \in OutputRec /\ Sound(AbsentOutput) /\ ~Listed(AbsentOutput)
  BY DEF AbsentOutput, OutputRec, LifeState, RepaintStatus, Sound, Listed
<1>2. surf' \in [Surfaces -> SurfaceRec]
  BY DEF DestroyOutput, Reassign, Inv, TypeOK
<1> QED
  BY <1>1, <1>2, LeavesList DEF DestroyOutput, StopTimer

-----------------------------------------------------------------------------
(* Every step keeps the invariant.                                         *)
THEOREM NextInv == Inv /\ [Next]_vars => Inv'
<1> SUFFICES ASSUME Inv, [Next]_vars PROVE Inv'
  OBVIOUS
<1>1. ASSUME NEW o \in Outputs,
             \/ IdleRepaint(o)
             \/ FinishFrameHandler(o)
             \/ Tick(o)
             \/ VisitOutput(o)
             \/ Damage(o)
             \/ CreateOutput(o)
             \/ EnableOutput(o)
             \/ DisableOutput(o)
             \/ DestroyOutput(o)
      PROVE  Inv'
  BY <1>1, IdleRepaintInv, FinishFrameHandlerInv, TickInv, VisitOutputInv, DamageInv,
     CreateOutputInv, EnableOutputInv, DisableOutputInv, DestroyOutputInv
<1>2. ASSUME NEW s \in Surfaces, Commit(s) PROVE Inv'
  BY <1>2, CommitInv
<1>3. CASE RepaintTimer
  BY <1>3, RepaintTimerInv
<1>4. CASE RepaintTimerDone
  BY <1>4, RepaintTimerDoneInv
<1>5. CASE IdleTimeout
  BY <1>5, IdleTimeoutInv
<1>6. CASE Sleep
  BY <1>6, SleepInv
<1>7. CASE Wake
  BY <1>7, WakeInv
<1>8. CASE Unlock
  BY <1>8, UnlockInv
<1>9. CASE LeaveSession
  BY <1>9, LeaveSessionInv
<1>10. CASE EnterSession
  BY <1>10, EnterSessionInv
<1>11. CASE UNCHANGED vars
  <2>1. OutputList' = OutputList
    BY <1>11, SameList DEF vars
  <2> QED
    BY <1>11, <2>1 DEF vars, Inv, TypeOK, FlipIsAwaited, TodoIsVisited, NeededIsScheduled
<1> QED
  BY <1>1, <1>2, <1>3, <1>4, <1>5, <1>6, <1>7, <1>8, <1>9, <1>10, <1>11 DEF Next

(* The invariant holds throughout.                                         *)
THEOREM Invariance == Spec => []Inv
<1>1. Spec => Init /\ [][Next]_vars
  BY DEF Spec
<1> QED
  BY <1>1, InitInv, NextInv, PTL

(* Each variable keeps its type; in particular a backend's timer and the   *)
(* handler's loop never refer to an output that has left the list.         *)
THEOREM TypeCorrect == Spec => []TypeOK
<1>1. Inv => TypeOK
  BY DEF Inv
<1> QED
  BY <1>1, Invariance, PTL

(* No assertion of the repaint code fails: weston_output_finish_frame() is *)
(* called only for an output that awaits a completion, and with an invalid *)
(* timestamp only if its feedback list is empty; idle_repaint() finds the  *)
(* status it expects; no idle source is added over another.                *)
THEOREM AssertionsHold == Spec => []NoAbort
<1>1. Inv => NoAbort
  BY DEF Inv, NoAbort, Running, Sound
<1> QED
  BY <1>1, Invariance, PTL

(* idle_repaint_source is set exactly while idle_repaint() is waited for.  *)
THEOREM IdleSourcesMatch == Spec => []IdleSourceMatches
<1>1. Inv => IdleSourceMatches
  BY DEF Inv, IdleSourceMatches, Sound
<1> QED
  BY <1>1, Invariance, PTL

(* Damage of an output that is in use and awake is never left without a    *)
(* repaint on its way, however the wakes, sleeps and session switches fall.*)
THEOREM DamageIsScheduled == Spec => []NeededIsScheduled
<1>1. Inv => NeededIsScheduled
  BY DEF Inv
<1> QED
  BY <1>1, Invariance, PTL
-----------------------------------------------------------------------------
(* The primary output of a surface.  weston_compositor_remove_output()     *)
(* looks at the surfaces that are shown on the output that goes; that none *)
(* is left behind needs every surface that has one to be shown there.      *)
Placement ==
  \A s \in Surfaces :
    /\ surf[s].where \in OutputList \cup {NoOutput}
    /\ surf[s].where # NoOutput => surf[s].shown

(* A view within some output is shown on the output it is assigned to.     *)
LEMMA PlacedIsShown ==
  ASSUME "offscreen" \notin Features, NEW r \in SurfaceRec, NEW O,
         NEW n \in UNION {Placed(r, p) : p \in O}, O \subseteq Outputs
  PROVE  n.where \in O /\ n.shown
<1>1. PICK p \in O : n \in Placed(r, p)
  OBVIOUS
<1>2. n = [r EXCEPT !.where = p, !.shown = TRUE]
  BY <1>1 DEF Placed
<1> QED
  BY <1>2 DEF SurfaceRec

LEMMA SameSurfaces ==
  ASSUME Placement, surf' = surf, OutputList \subseteq OutputList'
  PROVE  Placement'
  BY DEF Placement

LEMMA ScheduleKeepsLife ==
  ASSUME NEW records \in [Outputs -> OutputRec], NEW O, NEW p, NEW o \in Outputs
  PROVE  ScheduleAll(records, O, p)[o].life = records[o].life
  BY DEF ScheduleAll, ScheduleRepaint, Asserted, OutputRec

LEMMA RepaintPlaces ==
  ASSUME "offscreen" \notin Features, Inv, Placement, NEW o \in Outputs,
         RepaintOutput(o), OutputList' = OutputList
  PROVE  Placement'
<1>1. PICK placed \in [Surfaces -> SurfaceRec] : AssignOutputs(placed) /\ surf' = TakenFrom(placed, o)
  BY DEF RepaintOutput
<1>2. ASSUME NEW s \in Surfaces
      PROVE  /\ placed[s].where \in OutputList \cup {NoOutput}
             /\ placed[s].where # NoOutput => placed[s].shown
  <2>1. surf[s] \in SurfaceRec /\ OutputList \subseteq Outputs
    BY DEF Inv, TypeOK, OutputList
  <2>2. CASE surf[s].where = NoOutput
    <3>1. placed[s] \in UNION {Placed(surf[s], p) : p \in OutputList}
      BY <1>1, <2>2 DEF AssignOutputs
    <3> QED
      BY <2>1, <3>1, PlacedIsShown
  <2>3. CASE surf[s].where # NoOutput
    <3>1. placed[s] = surf[s]
      BY <1>1, <2>3 DEF AssignOutputs
    <3> QED
      BY <3>1 DEF Placement
  <2> QED
    BY <2>2, <2>3
<1>3. ASSUME NEW s \in Surfaces
      PROVE  surf'[s].where = placed[s].where /\ surf'[s].shown = placed[s].shown
  BY <1>1 DEF TakenFrom, SurfaceRec
<1> QED
  BY <1>2, <1>3 DEF Placement

LEMMA ReassignPlaces ==
  ASSUME "offscreen" \notin Features, Inv, Placement, NEW o \in Outputs,
         Reassign(o), OutputList' = OutputList \ {o}
  PROVE  Placement'
<1> SUFFICES ASSUME NEW s \in Surfaces
             PROVE  /\ surf'[s].where \in OutputList' \cup {NoOutput}
                    /\ surf'[s].where # NoOutput => surf'[s].shown
  BY DEF Placement
<1>1. surf[s] \in SurfaceRec /\ OutputList \ {o} \subseteq Outputs
  BY DEF Inv, TypeOK, OutputList
<1>2. CASE ~(surf[s].where = o /\ surf[s].shown)
  <2>1. surf'[s] = surf[s]
    BY <1>2 DEF Reassign
  <2>2. surf[s].where # o
    BY <1>2, ConfigAssumption DEF Placement
  <2> QED
    BY <2>1, <2>2 DEF Placement
<1>3. CASE surf[s].where = o /\ surf[s].shown /\ OutputList = {o}
  <2>1. surf'[s] = [surf[s] EXCEPT !.where = NoOutput, !.shown = FALSE]
    BY <1>3 DEF Reassign
  <2> QED
    BY <1>1, <2>1 DEF SurfaceRec
<1>4. CASE surf[s].where = o /\ surf[s].shown /\ OutputList # {o}
  <2>1. surf'[s] \in UNION {Placed(surf[s], p) : p \in OutputList \ {o}}
    BY <1>4 DEF Reassign
  <2> QED
    BY <1>1, <2>1, PlacedIsShown
<1> QED
  BY <1>2, <1>3, <1>4

LEMMA EnablePlaces ==
  ASSUME Inv, Placement, NEW o \in Outputs, EnableOutput(o)
  PROVE  Placement'
<1>1. OutputList \subseteq OutputList'
  BY DEF EnableOutput, Inv, TypeOK, OutputList, Listed
<1>2. CASE surf' = surf
  BY <1>1, <1>2, SameSurfaces
<1>3. CASE surf' = DirtyViews
  <2> SUFFICES ASSUME NEW s \in Surfaces
               PROVE  /\ surf'[s].where \in OutputList' \cup {NoOutput}
                      /\ surf'[s].where # NoOutput => surf'[s].shown
    BY DEF Placement
  <2>1. CASE surf[s].where \in OutputList
    BY <1>1, <1>3, <2>1 DEF DirtyViews, Placement
  <2>2. CASE surf[s].where \notin OutputList
    <3>1. surf'[s] = [surf[s] EXCEPT !.where = NoOutput, !.shown = FALSE] /\ surf[s] \in SurfaceRec
      BY <1>3, <2>2 DEF DirtyViews, Inv, TypeOK
    <3> QED
      BY <3>1 DEF SurfaceRec
  <2> QED
    BY <2>1, <2>2
<1> QED
  BY <1>2, <1>3 DEF EnableOutput

LEMMA NextPlaces ==
  ASSUME "offscreen" \notin Features, Inv, Placement, [Next]_vars
  PROVE  Placement'
<1>1. out \in [Outputs -> OutputRec] /\ OutputList \subseteq Outputs
  BY DEF Inv, TypeOK, OutputList
<1>2. ASSUME NEW o \in Outputs, VisitOutput(o) PROVE Placement'
  <2>1. CASE surf' = surf /\ out' = out
    BY <2>1, SameList, SameSurfaces
  <2>2. CASE surf' = surf /\ out' = [out EXCEPT ![o] = ScheduleRepaintReset(@)]
    <3>1. \A p \in Outputs : out'[p].life = out[p].life
      BY <1>1, <2>2 DEF ScheduleRepaintReset, OutputRec
    <3> QED
      BY <2>2, <3>1, SameList, SameSurfaces
  <2>3. CASE ReadyToRepaint(out[o]) /\ RepaintOutput(o)
    <3>1. PICK D \in {{}, {o}, OutputList}, taken \in BOOLEAN :
            out' = ScheduleAll([out EXCEPT ![o] = RepaintDone(@, taken, TRUE)], D, power)
      BY <2>3 DEF RepaintOutput
    <3>2. \A p \in Outputs : out'[p].life = out[p].life
      BY <1>1, <3>1 DEF ScheduleAll, ScheduleRepaint, Asserted, RepaintDone, OutputRec
    <3> QED
      BY <2>3, <3>2, SameList, RepaintPlaces
  <2> QED
    BY <1>2, <2>1, <2>2, <2>3 DEF VisitOutput
<1>3. ASSUME NEW o \in Outputs, EnableOutput(o) PROVE Placement'
  BY <1>3, EnablePlaces
<1>4. ASSUME NEW o \in Outputs, DisableOutput(o) PROVE Placement'
  <2>1. Reassign(o) /\ OutputList' = OutputList \ {o}
    BY <1>1, <1>4 DEF DisableOutput, RemoveOutput, Asserted, OutputList, Listed, OutputRec
  <2> QED
    BY <2>1, ReassignPlaces
<1>5. ASSUME NEW o \in Outputs, DestroyOutput(o) PROVE Placement'
  <2>1. OutputList' = OutputList \ {o}
    BY <1>1, <1>5 DEF DestroyOutput, AbsentOutput, OutputList, Listed
  <2>2. CASE Listed(out[o])
    BY <1>5, <2>1, <2>2, ReassignPlaces DEF DestroyOutput
  <2>3. CASE ~Listed(out[o])
    BY <1>5, <2>1, <2>3, SameSurfaces DEF DestroyOutput, OutputList
  <2> QED
    BY <2>2, <2>3
<1>6. ASSUME NEW o \in Outputs,
             IdleRepaint(o) \/ FinishFrameHandler(o) \/ Tick(o) \/ Damage(o) \/ CreateOutput(o)
      PROVE  Placement'
  <2>1. surf' = surf
    BY <1>6 DEF IdleRepaint, FinishFrameHandler, Tick, Damage, CreateOutput
  <2>2. CASE CreateOutput(o)
    <3>1. OutputList \subseteq OutputList'
      BY <1>1, <2>2 DEF CreateOutput, OutputList, Listed
    <3> QED
      BY <2>1, <3>1, SameSurfaces
  <2>3. CASE ~CreateOutput(o)
    <3>1. \A p \in Outputs : out'[p].life = out[p].life
      <4>1. out[o] \in OutputRec
        BY <1>1
      <4>2. CASE IdleRepaint(o)
        BY <1>1, <4>1, <4>2 DEF IdleRepaint, OutputRec, FinishFrame, EnterRepaintLoop, Asserted
      <4>3. CASE FinishFrameHandler(o)
        BY <1>1, <4>1, <4>3 DEF FinishFrameHandler, OutputRec, FinishFrame, Asserted
      <4>4. CASE Tick(o)
        BY <1>1, <4>1, <4>4 DEF Tick, OutputRec
      <4>5. CASE Damage(o)
        BY <1>1, <4>5, ScheduleKeepsLife DEF Damage
      <4> QED
        BY <1>6, <2>3, <4>2, <4>3, <4>4, <4>5
    <3> QED
      BY <2>1, <3>1, SameList, SameSurfaces
  <2> QED
    BY <2>2, <2>3
<1>7. ASSUME NEW s \in Surfaces, Commit(s) PROVE Placement'
  <2>1. \A t \in Surfaces : surf'[t].where = surf[t].where /\ surf'[t].shown = surf[t].shown
    BY <1>7 DEF Commit, Inv, TypeOK, SurfaceRec
  <2>2. \A p \in Outputs : out'[p].life = out[p].life
    BY <1>1, <1>7, ScheduleKeepsLife DEF Commit
  <2> QED
    BY <2>1, <2>2, SameList DEF Placement
<1>8. CASE \/ RepaintTimer \/ RepaintTimerDone \/ IdleTimeout \/ Sleep \/ Wake \/ Unlock
           \/ LeaveSession \/ EnterSession \/ UNCHANGED vars
  <2>1. surf' = surf
    BY <1>8 DEF RepaintTimer, RepaintTimerDone, IdleTimeout, Sleep, Wake, Unlock, LeaveSession,
                EnterSession, vars
  <2>2. \/ out' = out
        \/ out' = ScheduleAll(out, OutputList, "IDLE")
        \/ out' = ScheduleAll(out, OutputList, "ACTIVE")
        \/ out' = ScheduleAll(out, OutputList, power)
        \/ out' = ScheduleAll(out, OutputList, prevPower)
        \/ \A p \in Outputs : out'[p].life = out[p].life
    BY <1>1, <1>8 DEF RepaintTimer, RepaintTimerDone, IdleTimeout, Sleep, Wake, Unlock, LeaveSession,
                EnterSession, vars, OutputRec
  <2>3. \A p \in Outputs : out'[p].life = out[p].life
    BY <1>1, <2>2, ScheduleKeepsLife
  <2> QED
    BY <2>1, <2>3, SameList, SameSurfaces
<1> QED
  BY <1>2, <1>3, <1>4, <1>5, <1>6, <1>7, <1>8 DEF Next

(* The primary output of a surface is in use, whatever outputs come, go    *)
(* and fail, as long as no view lies outside of every output: what is      *)
(* assigned to an output is then shown on it, and so is assigned anew      *)
(* before the output goes.                                                 *)
THEOREM PrimaryOutputsAreListed ==
  ASSUME "offscreen" \notin Features
  PROVE  Spec => []PrimaryOutputIsListed
<1>1. Init => Placement
  BY DEF Init, Placement
<1>2. Inv /\ Placement /\ [Next]_vars => Placement'
  BY NextPlaces
<1>3. Placement => PrimaryOutputIsListed
  BY DEF Placement, PrimaryOutputIsListed
<1>4. Spec => Init /\ [][Next]_vars
  BY DEF Spec
<1> QED
  BY <1>1, <1>2, <1>3, <1>4, Invariance, PTL
=============================================================================
