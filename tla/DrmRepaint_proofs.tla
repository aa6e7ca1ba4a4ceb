------------------------- MODULE DrmRepaint_proofs -------------------------
(***************************************************************************)
(* Proofs about DrmRepaint, for any set of outputs.  With every feature,   *)
(* that is whatever fails: the backend's books of flips in flight and      *)
(* parked operations agree with the kernel's.  With those of the features  *)
(* for which the code allows it: no assertion of the backend or of the     *)
(* repaint code fails, every frame awaited has a flip coming, what is lit  *)
(* shows something, and the cycle implements FrameService.                 *)
(***************************************************************************)
EXTENDS DrmRepaint, TLAPS

(* Two records agree on the KMS side of an output, which the core's        *)
(* operations on the repaint cycle do not touch.                           *)
SameKms(r, n) ==
  /\ n.life = r.life /\ n.on = r.on /\ n.flip = r.flip /\ n.pending = r.pending
  /\ n.rewired = r.rewired
  /\ n.destroyPending = r.destroyPending /\ n.dpmsOff = r.dpmsOff

(* What the backend's record of output o has to do with the kernel: the    *)
(* parts of FlipHasEvent and DeferredHasFlip, that an output that is lit   *)
(* has its CRTC driven, and that nothing is left of an output that is      *)
(* gone, or of a handler that has returned.                                *)
Booked(o) ==
  /\ out[o].flip => o \in events
  /\ ~atomic => (o \in events => out[o].flip)
  /\ out[o].destroyPending \/ out[o].dpmsOff => out[o].flip
  /\ out[o].on => o \in active
  /\ ~Listed(out[o]) => out[o] = AbsentDrmOutput
  /\ ~visiting => out[o].pending = "none"

(* The inductive invariant.                                                *)
Inv ==
  /\ TypeOK
  /\ ~visiting => todo = {}
  /\ \A o \in Outputs : Booked(o)

-----------------------------------------------------------------------------
(* Operations on one record.                                               *)

(* Each field of the repaint cycle is apart from those of KMS.             *)
LEMMA FieldKms ==
  ASSUME NEW r \in DrmOutputRec, NEW b \in BOOLEAN
  PROVE  /\ [r EXCEPT !.abort = b] \in DrmOutputRec /\ SameKms(r, [r EXCEPT !.abort = b])
         /\ [r EXCEPT !.needed = b] \in DrmOutputRec /\ SameKms(r, [r EXCEPT !.needed = b])
         /\ [r EXCEPT !.idle = b] \in DrmOutputRec /\ SameKms(r, [r EXCEPT !.idle = b])
         /\ [r EXCEPT !.due = b] \in DrmOutputRec /\ SameKms(r, [r EXCEPT !.due = b])
         /\ [r EXCEPT !.feedback = b] \in DrmOutputRec /\ SameKms(r, [r EXCEPT !.feedback = b])
         /\ [r EXCEPT !.repainted = b] \in DrmOutputRec /\ SameKms(r, [r EXCEPT !.repainted = b])
BY DEF DrmOutputRec, SameKms

LEMMA StatusKms ==
  ASSUME NEW r \in DrmOutputRec, NEW s \in RepaintStatus
  PROVE  [r EXCEPT !.status = s] \in DrmOutputRec /\ SameKms(r, [r EXCEPT !.status = s])
BY DEF DrmOutputRec, SameKms

LEMMA ScheduleRepaintKms ==
  ASSUME NEW r \in DrmOutputRec, NEW p
  PROVE  ScheduleRepaint(r, p) \in DrmOutputRec /\ SameKms(r, ScheduleRepaint(r, p))
<1> DEFINE a == Asserted(r, ~r.idle)
           n == [a EXCEPT !.needed = TRUE]
           s == [n EXCEPT !.status = "BEGIN_FROM_IDLE"]
           i == [s EXCEPT !.idle = TRUE]
<1>1. a \in DrmOutputRec /\ SameKms(r, a)
  <2>1. (r.abort \/ ~~r.idle) \in BOOLEAN
    BY DEF DrmOutputRec
  <2> QED
    BY <2>1, FieldKms DEF Asserted
<1> HIDE DEF a
<1>2. n \in DrmOutputRec /\ SameKms(a, n)
  BY <1>1, FieldKms
<1> HIDE DEF n
<1>3. s \in DrmOutputRec /\ SameKms(n, s)
  BY <1>2, StatusKms DEF RepaintStatus
<1> HIDE DEF s
<1>4. i \in DrmOutputRec /\ SameKms(s, i)
  BY <1>3, FieldKms
<1>5. [r EXCEPT !.needed = TRUE] \in DrmOutputRec /\ SameKms(r, [r EXCEPT !.needed = TRUE])
  BY FieldKms
<1>6. \/ ScheduleRepaint(r, p) = r
      \/ ScheduleRepaint(r, p) = [r EXCEPT !.needed = TRUE]
      \/ ScheduleRepaint(r, p) = i
  BY DEF ScheduleRepaint, a, n, s
<1> HIDE DEF i
<1> QED
  BY <1>1, <1>2, <1>3, <1>4, <1>5, <1>6 DEF SameKms

LEMMA ResetKms ==
  ASSUME NEW r \in DrmOutputRec
  PROVE  ScheduleRepaintReset(r) \in DrmOutputRec /\ SameKms(r, ScheduleRepaintReset(r))
BY DEF ScheduleRepaintReset, DrmOutputRec, SameKms, RepaintStatus

LEMMA FinishFrameKms ==
  ASSUME NEW r \in DrmOutputRec, NEW stamp \in BOOLEAN, NEW invalid \in BOOLEAN
  PROVE  /\ FinishFrame(r, stamp, invalid) \in DrmOutputRec
         /\ SameKms(r, FinishFrame(r, stamp, invalid))
<1> DEFINE ok == /\ r.status = "AWAITING_COMPLETION"
                 /\ stamp \/ invalid
                 /\ stamp /\ invalid => ~r.feedback
           a == Asserted(r, ok)
           s == [a EXCEPT !.status = "SCHEDULED"]
           d == [s EXCEPT !.due = ~stamp]
           f == [d EXCEPT !.feedback = a.feedback /\ ~stamp]
<1>1. a \in DrmOutputRec /\ SameKms(r, a)
  <2>1. (r.abort \/ ~ok) \in BOOLEAN
    BY DEF DrmOutputRec
  <2> HIDE DEF ok
  <2> QED
    BY <2>1, FieldKms DEF Asserted
<1>2. FinishFrame(r, stamp, invalid) = f
  BY DEF FinishFrame
<1> HIDE DEF a
<1>3. s \in DrmOutputRec /\ SameKms(a, s)
  BY <1>1, StatusKms DEF RepaintStatus
<1> HIDE DEF s
<1>4. d \in DrmOutputRec /\ SameKms(s, d)
  BY <1>3, FieldKms
<1> HIDE DEF d
<1>5. (a.feedback /\ ~stamp) \in BOOLEAN
  BY <1>1 DEF DrmOutputRec
<1>6. f \in DrmOutputRec /\ SameKms(d, f)
  BY <1>4, <1>5, FieldKms
<1> HIDE DEF f
<1> QED
  BY <1>1, <1>2, <1>3, <1>4, <1>6 DEF SameKms

LEMMA EnterRepaintLoopKms ==
  ASSUME NEW r \in DrmOutputRec
  PROVE  EnterRepaintLoop(r) \in DrmOutputRec /\ SameKms(r, EnterRepaintLoop(r))
BY DEF EnterRepaintLoop, Asserted, DrmOutputRec, SameKms, RepaintStatus

LEMMA RepaintDoneKms ==
  ASSUME NEW r \in DrmOutputRec, NEW taken \in BOOLEAN, NEW ok \in BOOLEAN
  PROVE  RepaintDone(r, taken, ok) \in DrmOutputRec /\ SameKms(r, RepaintDone(r, taken, ok))
BY DEF RepaintDone, DrmOutputRec, SameKms, RepaintStatus

(* Applying a disabled state at once only switches the output off.         *)
LEMMA SyncOffKms ==
  ASSUME NEW r \in DrmOutputRec
  PROVE  LET n == SyncOff(r)
         IN  /\ n \in DrmOutputRec /\ ~n.on /\ ~n.rewired
             /\ n.life = r.life /\ n.flip = r.flip /\ n.pending = r.pending
             /\ n.destroyPending = r.destroyPending /\ n.dpmsOff = r.dpmsOff
<1> DEFINE off == [Asserted(r, ~r.flip) EXCEPT !.on = FALSE, !.rewired = FALSE]
<1>1. /\ off \in DrmOutputRec /\ ~off.on /\ ~off.rewired
      /\ off.life = r.life /\ off.flip = r.flip /\ off.pending = r.pending
      /\ off.destroyPending = r.destroyPending /\ off.dpmsOff = r.dpmsOff
  BY DEF Asserted, DrmOutputRec
<1>2. SyncOff(r) = off \/ SyncOff(r) = FinishFrame(off, TRUE, FALSE)
  BY DEF SyncOff
<1> HIDE DEF off
<1>3. SameKms(off, FinishFrame(off, TRUE, FALSE)) /\ FinishFrame(off, TRUE, FALSE) \in DrmOutputRec
  BY <1>1, FinishFrameKms
<1> QED
  BY <1>1, <1>2, <1>3 DEF SameKms

(* Applying a state puts it in flight.                                     *)
LEMMA AssignAsyncKms ==
  ASSUME NEW r \in DrmOutputRec, NEW level \in BOOLEAN
  PROVE  LET n == AssignAsync(r, level)
         IN  /\ n \in DrmOutputRec /\ n.flip /\ n.on = level /\ ~n.rewired
             /\ n.life = r.life /\ n.pending = r.pending
             /\ n.destroyPending = r.destroyPending /\ n.dpmsOff = r.dpmsOff
BY DEF AssignAsync, Asserted, DrmOutputRec

(* A flush either leaves a record's flip alone, or puts it in flight, or,  *)
(* with the legacy API, switches it off.                                   *)
LEMMA AppliedKms ==
  ASSUME NEW r \in DrmOutputRec, NEW accepted \in BOOLEAN
  PROVE  LET n == Applied(r, accepted)
         IN  /\ n \in DrmOutputRec /\ n.life = r.life /\ n.pending = "none"
             /\ n.destroyPending = r.destroyPending /\ n.dpmsOff = r.dpmsOff
             /\ r.flip => n.flip
             /\ n.flip /\ ~r.flip => accepted /\ (r.pending = "on" \/ (atomic /\ r.pending = "off"))
             /\ accepted /\ r.pending = "on" => n.flip /\ n.on
             /\ accepted /\ r.pending = "off" => ~n.on
             /\ r.pending = "none" => n = r
             /\ ~accepted /\ n.on => r.on
             /\ n.rewired => r.rewired
             /\ accepted /\ r.pending # "none" => ~n.rewired
<1> DEFINE clear == [r EXCEPT !.pending = "none"]
<1>1. /\ clear \in DrmOutputRec /\ clear.pending = "none" /\ clear.life = r.life
      /\ clear.on = r.on /\ clear.flip = r.flip /\ clear.rewired = r.rewired
      /\ clear.destroyPending = r.destroyPending /\ clear.dpmsOff = r.dpmsOff
  BY DEF DrmOutputRec
<1>2. CASE r.pending = "none"
  BY <1>2 DEF Applied
<1>3. CASE r.pending = "off" /\ ~atomic
  <2>1. Applied(r, accepted) = SyncOff(clear)
    BY <1>3 DEF Applied
  <2> HIDE DEF clear
  <2> QED
    BY <1>1, <1>3, <2>1, SyncOffKms
<1>4. CASE ~(r.pending = "none") /\ ~(r.pending = "off" /\ ~atomic) /\ accepted
  <2>1. Applied(r, accepted) = AssignAsync(clear, r.pending = "on")
    BY <1>4 DEF Applied
  <2>2. r.pending \in {"on", "off"}
    BY <1>4 DEF DrmOutputRec
  <2> DEFINE level == r.pending = "on"
             n     == AssignAsync(clear, level)
  <2> HIDE DEF clear
  <2>3. level \in BOOLEAN /\ (r.pending = "off" => ~level)
    OBVIOUS
  <2>4. n \in DrmOutputRec /\ n.flip /\ n.on = level /\ ~n.rewired
        /\ n.life = clear.life /\ n.pending = clear.pending
        /\ n.destroyPending = clear.destroyPending /\ n.dpmsOff = clear.dpmsOff
    <3> HIDE DEF level
    <3> QED
      BY <1>1, <2>3, AssignAsyncKms
  <2>5. Applied(r, accepted) = n
    BY <2>1
  <2>6. r.pending = "on" => level
    OBVIOUS
  <2>7. r.pending = "on" \/ (atomic /\ r.pending = "off")
    BY <1>4, <2>2
  <2> HIDE DEF n, level
  <2> QED
    BY <1>1, <1>4, <2>3, <2>4, <2>5, <2>6, <2>7
<1>5. CASE ~(r.pending = "none") /\ ~(r.pending = "off" /\ ~atomic) /\ ~accepted
  <2>1. Applied(r, accepted) = clear
    BY <1>5 DEF Applied
  <2> HIDE DEF clear
  <2> QED
    BY <1>1, <1>5, <2>1
<1> QED
  BY <1>2, <1>3, <1>4, <1>5

LEMMA PowerOnKms ==
  ASSUME NEW r \in DrmOutputRec
  PROVE  LET n == PowerOn(r)
         IN  /\ n \in DrmOutputRec
             /\ n.life = r.life /\ n.on = r.on /\ n.flip = r.flip /\ n.pending = r.pending
             /\ n.rewired = r.rewired
             /\ n.destroyPending = r.destroyPending /\ (n.dpmsOff => r.dpmsOff)
<1> DEFINE c == [r EXCEPT !.dpmsOff = FALSE]
<1>1. /\ c \in DrmOutputRec /\ ~c.dpmsOff
      /\ c.life = r.life /\ c.on = r.on /\ c.flip = r.flip /\ c.pending = r.pending
      /\ c.rewired = r.rewired
      /\ c.destroyPending = r.destroyPending
  BY DEF DrmOutputRec
<1>2. PowerOn(r) = r \/ PowerOn(r) = ScheduleRepaint(c, "ACTIVE")
  BY DEF PowerOn
<1> HIDE DEF c
<1> QED
  BY <1>1, <1>2, ScheduleRepaintKms DEF SameKms

(* Switched off within the handler, an output that is in flight is parked. *)
LEMMA PowerOffInLoopKms ==
  ASSUME NEW r \in DrmOutputRec
  PROVE  LET n == PowerOffInLoop(r)
         IN  /\ n \in DrmOutputRec
             /\ n.life = r.life /\ n.on = r.on /\ n.flip = r.flip
             /\ n.rewired = r.rewired
             /\ n.destroyPending = r.destroyPending
             /\ n.dpmsOff => r.dpmsOff \/ r.flip
<1>1. CASE ~r.on
  BY <1>1 DEF PowerOffInLoop
<1>2. CASE r.on /\ r.flip
  <2>1. PowerOffInLoop(r) = [r EXCEPT !.dpmsOff = TRUE]
    BY <1>2 DEF PowerOffInLoop
  <2> QED
    BY <1>2, <2>1 DEF DrmOutputRec
<1>3. CASE r.on /\ ~r.flip
  <2>1. PowerOffInLoop(r) = [r EXCEPT !.pending = "off"]
    BY <1>3 DEF PowerOffInLoop
  <2> QED
    BY <2>1 DEF DrmOutputRec
<1> QED
  BY <1>1, <1>2, <1>3

(* Scheduling a set of outputs.                                            *)
LEMMA ScheduleAllKms ==
  ASSUME NEW records \in [Outputs -> DrmOutputRec], NEW O, NEW p
  PROVE  LET n == ScheduleAll(records, O, p)
         IN  /\ n \in [Outputs -> DrmOutputRec]
             /\ \A o \in Outputs : /\ SameKms(records[o], n[o])
                                   /\ o \notin O => n[o] = records[o]
<1> DEFINE n == ScheduleAll(records, O, p)
<1>1. \A o \in Outputs : n[o] = IF o \in O THEN ScheduleRepaint(records[o], p)
                                          ELSE records[o]
  BY DEF ScheduleAll
<1>2. ASSUME NEW o \in Outputs
      PROVE  /\ n[o] \in DrmOutputRec /\ SameKms(records[o], n[o])
             /\ o \notin O => n[o] = records[o]
  <2>1. CASE o \in O
    BY <2>1, <1>1, ScheduleRepaintKms
  <2>2. CASE o \notin O
    BY <2>2, <1>1 DEF SameKms
  <2> QED
    BY <2>1, <2>2
<1>3. n \in [Outputs -> DrmOutputRec]
  BY <1>2 DEF ScheduleAll
<1> QED
  BY <1>2, <1>3

(* What the kernel takes is asked of it, and not busy; without a session   *)
(* it takes nothing, and an atomic commit as a whole.                      *)
LEMMA AnswerFacts ==
  ASSUME NEW C, NEW lit, NEW taken \in BOOLEAN, NEW A, Answer(C, lit, taken, A)
  PROVE  /\ A \subseteq C /\ A \cap events = {}
         /\ sessionOff => A = {} /\ ~taken
         /\ ~taken => A = {}
         /\ atomic /\ taken => A = C /\ (Unused \cup Blanked) \cap events = {}
         /\ "commitfail" \notin Features /\ ~sessionOff /\ ~Refused(C, lit) /\ C \cap events = {}
              => taken /\ A = C
<1>1. CASE atomic
  <2>1. taken => A = C /\ ~Refused(C, lit) /\ ~sessionOff
    BY <1>1 DEF Answer
  <2>2. taken => (C \cup Unused \cup Blanked) \cap events = {}
    BY <2>1 DEF Refused
  <2>3. ~taken => A = {}
    BY DEF Answer
  <2>4. taken \/ sessionOff \/ Refused(C, lit) \/ "commitfail" \in Features
    BY <1>1 DEF Answer
  <2> QED
    BY <1>1, <2>1, <2>2, <2>3, <2>4
<1>2. CASE ~atomic
  BY <1>2 DEF Answer
<1> QED
  BY <1>1, <1>2

-----------------------------------------------------------------------------
(* Steps in general.                                                       *)

LEMMA SameList ==
  ASSUME \A o \in Outputs : out'[o].life = out[o].life
  PROVE  OutputList' = OutputList
BY DEF OutputList, Listed

(* A step that does nothing to KMS.                                        *)
LEMMA KeepsBooks ==
  ASSUME Inv, out' \in [Outputs -> DrmOutputRec],
         \A o \in Outputs : /\ SameKms(out[o], out'[o])
                            /\ o \notin OutputList => out'[o] = out[o],
         UNCHANGED <<atomic, visiting, events, active, shown>>, todo' \in SUBSET todo,
         power' \in PowerState,
         armed' \in BOOLEAN, failed' \in BOOLEAN, stateInvalid' \in BOOLEAN,
         sessionOff' \in BOOLEAN
  PROVE  Inv'
<1>1. OutputList' = OutputList
  BY SameList DEF SameKms
<1>2. TypeOK'
  BY <1>1 DEF Inv, TypeOK
<1>3. ASSUME NEW o \in Outputs PROVE Booked(o)'
  BY DEF Inv, Booked, SameKms, Listed, OutputList
<1> QED
  BY <1>2, <1>3 DEF Inv

(* A step of one output that is in use, or comes into use.                 *)
LEMMA ReplaceOne ==
  ASSUME Inv, NEW o \in Outputs, NEW r \in DrmOutputRec,
         out' = [out EXCEPT ![o] = r], Listed(out[o]) => Listed(r),
         UNCHANGED <<atomic, visiting, todo>>,
         \A p \in Outputs \ {o} : /\ p \in events' <=> p \in events
                                  /\ p \in active' <=> p \in active,
         events' \in SUBSET Outputs, active' \in SUBSET Outputs, shown' \in SUBSET Outputs,
         power' \in PowerState,
         armed' \in BOOLEAN, failed' \in BOOLEAN, stateInvalid' \in BOOLEAN,
         sessionOff' \in BOOLEAN,
         Booked(o)'
  PROVE  Inv'
<1>1. /\ out' \in [Outputs -> DrmOutputRec]
      /\ out'[o] = r
      /\ \A p \in Outputs \ {o} : out'[p] = out[p]
  BY DEF Inv, TypeOK
<1>2. OutputList \subseteq OutputList'
  BY <1>1 DEF OutputList
<1>3. TypeOK'
  BY <1>1, <1>2 DEF Inv, TypeOK
<1>4. ASSUME NEW p \in Outputs \ {o} PROVE Booked(p)'
  BY <1>1 DEF Inv, Booked
<1> QED
  BY <1>3, <1>4 DEF Inv

LEMMA ScheduleKeepsBooks ==
  ASSUME Inv, NEW O \in SUBSET OutputList, NEW p, out' = ScheduleAll(out, O, p),
         UNCHANGED <<atomic, visiting, todo, events, active, shown>>,
         power' \in PowerState,
         armed' \in BOOLEAN, failed' \in BOOLEAN, stateInvalid' \in BOOLEAN,
         sessionOff' \in BOOLEAN
  PROVE  Inv'
<1>1. /\ out' \in [Outputs -> DrmOutputRec]
      /\ \A o \in Outputs : /\ SameKms(out[o], out'[o])
                            /\ o \notin O => out'[o] = out[o]
  BY ScheduleAllKms DEF Inv, TypeOK
<1> QED
  BY <1>1, KeepsBooks

(* Disabling outputs at once: each is as it was before or dark, and what   *)
(* is still lit is still driven.                                           *)
LEMMA ApplySyncBooks ==
  ASSUME NEW records \in [Outputs -> DrmOutputRec], NEW O \in SUBSET Outputs,
         ApplySync(records, O), active \in SUBSET Outputs, shown \in SUBSET Outputs,
         stateInvalid \in BOOLEAN,
         \A o \in Outputs : records[o].on => o \in active /\ o \in OutputList
  PROVE  /\ out' \in [Outputs -> DrmOutputRec]
         /\ active' \in SUBSET Outputs /\ shown' \in SUBSET Outputs /\ stateInvalid' \in BOOLEAN
         /\ \A o \in Outputs :
              /\ out'[o].on => o \in active'
              /\ \/ out'[o] = records[o]
                 \/ o \in O /\ out'[o] = SyncOff(records[o])
<1>1. PICK A \in SUBSET O :
    LET assigned == IF atomic THEN A ELSE O
        swept    == IF assigned = {} \/ sessionOff THEN {} ELSE Unused
        blanked  == IF A = {} THEN {} ELSE Blanked
    IN  /\ out' = [o \in Outputs |-> IF o \in assigned THEN SyncOff(records[o]) ELSE records[o]]
        /\ active' = active \ (A \cup swept)
        /\ shown' = shown \ (A \cup swept \cup blanked)
        /\ stateInvalid' = (stateInvalid /\ assigned = {})
  BY DEF ApplySync
<1> DEFINE assigned == IF atomic THEN A ELSE O
           swept    == IF assigned = {} \/ sessionOff THEN {} ELSE Unused
<1>2. /\ A \subseteq assigned /\ assigned \subseteq O
      /\ swept \subseteq Unused
      /\ out' = [o \in Outputs |-> IF o \in assigned THEN SyncOff(records[o]) ELSE records[o]]
      /\ active' = active \ (A \cup swept)
      /\ shown' \subseteq shown
      /\ stateInvalid' = (stateInvalid /\ assigned = {})
  BY <1>1
<1> HIDE DEF assigned, swept
<1>3. \A o \in Outputs :
        /\ SyncOff(records[o]) \in DrmOutputRec /\ ~SyncOff(records[o]).on
        /\ out'[o] = records[o] \/ (o \in O /\ out'[o] = SyncOff(records[o]))
        /\ o \in A => out'[o] = SyncOff(records[o])
  BY <1>2, SyncOffKms
<1>4. out' \in [Outputs -> DrmOutputRec]
  BY <1>2, <1>3
<1>5. active' \in SUBSET Outputs /\ shown' \in SUBSET Outputs /\ stateInvalid' \in BOOLEAN
  BY <1>2
<1>6. ASSUME NEW o \in Outputs, out'[o].on PROVE o \in active'
  <2>1. out'[o] = records[o] /\ o \notin A
    BY <1>3, <1>6
  <2>2. o \notin Unused
    BY <1>6, <2>1 DEF Unused
  <2> QED
    BY <1>2, <1>6, <2>1, <2>2
<1> QED
  BY <1>3, <1>4, <1>5, <1>6

-----------------------------------------------------------------------------
(* The actions.                                                            *)

LEMMA InitInv == Init => Inv
<1>1. AbsentDrmOutput \in DrmOutputRec
  BY DEF AbsentDrmOutput, DrmOutputRec, RepaintStatus
<1>2. ConfigAssumption => (Init => atomic \in BOOLEAN)
  BY DEF ConfigAssumption, Init
<1>3. /\ ~AbsentDrmOutput.flip /\ ~AbsentDrmOutput.destroyPending /\ ~AbsentDrmOutput.dpmsOff
      /\ ~AbsentDrmOutput.on /\ AbsentDrmOutput.pending = "none"
  BY DEF AbsentDrmOutput
<1> QED
  BY <1>1, <1>2, <1>3, ConfigAssumption DEF Init, Inv, TypeOK, Booked, PowerState

(* Whatever the backend's start_repaint_loop hook makes of it.             *)
LEMMA IdleRepaintInv ==
  ASSUME Inv, UNCHANGED atomic, NEW o \in Outputs, IdleRepaint(o)
  PROVE  Inv'
<1> DEFINE r == EnterRepaintLoop(out[o])
<1>1. out[o] \in DrmOutputRec /\ Booked(o) /\ out[o].idle
  BY DEF Inv, TypeOK, IdleRepaint
<1>2. Listed(out[o])
  BY <1>1 DEF Booked, AbsentDrmOutput
<1>3. r \in DrmOutputRec /\ SameKms(out[o], r)
  BY <1>1, EnterRepaintLoopKms
<1>4. /\ UNCHANGED <<visiting, todo, power, failed, stateInvalid, active, sessionOff>>
      /\ armed' \in BOOLEAN
  BY DEF IdleRepaint, TimerArmed, Inv, TypeOK
<1>5. ASSUME NEW n \in DrmOutputRec, SameKms(r, n), out' = [out EXCEPT ![o] = n],
             events' = events, shown' = shown
      PROVE  Inv'
  <2>1. /\ out' \in [Outputs -> DrmOutputRec]
        /\ \A p \in Outputs : /\ SameKms(out[p], out'[p])
                              /\ p \notin OutputList => out'[p] = out[p]
    BY <1>2, <1>3, <1>5 DEF Inv, TypeOK, SameKms, OutputList
  <2> QED
    BY <1>4, <1>5, <2>1, KeepsBooks DEF Inv, TypeOK
<1>6. ASSUME r.on, out' = [out EXCEPT ![o] = AssignAsync(r, TRUE)], events' = events \cup {o},
             shown' = shown \cup {o}
      PROVE  Inv'
  <2> DEFINE n == AssignAsync(r, TRUE)
  <2>1. n \in DrmOutputRec /\ n.flip /\ n.on /\ n.life = r.life /\ n.pending = r.pending
        /\ n.destroyPending = r.destroyPending /\ n.dpmsOff = r.dpmsOff
    BY <1>3, AssignAsyncKms
  <2> HIDE DEF n
  <2>2. out'[o] = n
    BY <1>6 DEF Inv, TypeOK, n
  <2>3. Booked(o)'
    BY <1>1, <1>2, <1>3, <1>4, <1>6, <2>1, <2>2 DEF Booked, SameKms, Listed
  <2>4. Listed(n)
    BY <1>2, <1>3, <2>1 DEF SameKms, Listed
  <2>5. out' = [out EXCEPT ![o] = n]
    BY <1>6 DEF n
  <2> QED
    BY <1>4, <1>6, <2>1, <2>3, <2>4, <2>5, ReplaceOne DEF Inv, TypeOK
<1>7. /\ FinishFrame(r, FALSE, TRUE) \in DrmOutputRec /\ SameKms(r, FinishFrame(r, FALSE, TRUE))
      /\ FinishFrame(r, TRUE, TRUE) \in DrmOutputRec /\ SameKms(r, FinishFrame(r, TRUE, TRUE))
      /\ SameKms(r, r)
  BY <1>3, FinishFrameKms DEF SameKms
<1>8. CASE /\ out' \in {[out EXCEPT ![o] = r], [out EXCEPT ![o] = FinishFrame(r, FALSE, TRUE)],
                        [out EXCEPT ![o] = FinishFrame(r, TRUE, TRUE)]}
           /\ events' = events /\ shown' = shown
  <2> HIDE DEF r
  <2> QED
    BY <1>3, <1>5, <1>7, <1>8
<1>9. CASE \E taken \in BOOLEAN, A \in SUBSET {o} :
             /\ r.on
             /\ events' = events \cup A
             /\ shown' = shown \cup A
             /\ out' = [out EXCEPT ![o] = IF o \in A THEN AssignAsync(r, TRUE)
                                          ELSE IF atomic THEN FinishFrame(r, FALSE, TRUE)
                                          ELSE r]
  <2> HIDE DEF r
  <2>1. PICK A \in SUBSET {o} :
             /\ r.on
             /\ events' = events \cup A
             /\ shown' = shown \cup A
             /\ out' = [out EXCEPT ![o] = IF o \in A THEN AssignAsync(r, TRUE)
                                          ELSE IF atomic THEN FinishFrame(r, FALSE, TRUE)
                                          ELSE r]
    BY <1>9
  <2>2. A = {} \/ A = {o}
    OBVIOUS
  <2>3. CASE A = {o}
    BY <1>6, <2>1, <2>3
  <2>4. CASE A = {}
    BY <1>8, <2>1, <2>4
  <2> QED
    BY <2>2, <2>3, <2>4
<1> QED
  BY <1>8, <1>9 DEF IdleRepaint

LEMMA TickInv ==
  ASSUME Inv, UNCHANGED atomic, NEW o \in Outputs, Tick(o)
  PROVE  Inv'
<1> DEFINE r == [out[o] EXCEPT !.due = TRUE]
<1>1. out[o] \in DrmOutputRec /\ Booked(o) /\ out[o].status = "SCHEDULED"
  BY DEF Inv, TypeOK, Tick
<1>2. o \in OutputList
  BY <1>1 DEF Booked, AbsentDrmOutput, OutputList
<1>3. r \in DrmOutputRec /\ SameKms(out[o], r)
  BY <1>1, FieldKms
<1>4. out' = [out EXCEPT ![o] = r]
  BY DEF Tick
<1> HIDE DEF r
<1>5. /\ out' \in [Outputs -> DrmOutputRec]
      /\ \A p \in Outputs : /\ SameKms(out[p], out'[p])
                            /\ p \notin OutputList => out'[p] = out[p]
  BY <1>2, <1>3, <1>4 DEF Inv, TypeOK, SameKms
<1> QED
  BY <1>5, KeepsBooks DEF Tick, Inv, TypeOK

(* A round of the handler's loop puts states aside, and parks outputs that *)
(* are in flight; nothing is applied.                                      *)
LEMMA LoopKeepsBooks ==
  ASSUME Inv, visiting, out' \in [Outputs -> DrmOutputRec],
         \A o \in Outputs : /\ out'[o].life = out[o].life /\ out'[o].on = out[o].on
                            /\ out'[o].flip = out[o].flip
                            /\ out'[o].destroyPending = out[o].destroyPending
                            /\ out'[o].dpmsOff => out[o].dpmsOff \/ out[o].flip
                            /\ o \notin OutputList => out'[o] = out[o],
         UNCHANGED <<atomic, visiting, armed, stateInvalid, events, active, shown, sessionOff>>,
         todo' \in SUBSET todo, power' \in PowerState, failed' \in BOOLEAN
  PROVE  Inv'
<1>1. OutputList' = OutputList
  BY SameList
<1>2. TypeOK'
  BY <1>1 DEF Inv, TypeOK
<1>3. ASSUME NEW o \in Outputs PROVE Booked(o)'
  BY DEF Inv, Booked, Listed, OutputList
<1> QED
  BY <1>2, <1>3 DEF Inv

(* The record of the output that is repainted.                             *)
Painted(o, taken, ok) ==
  [RepaintDone(Asserted(out[o], ~out[o].flip), taken, ok)
     EXCEPT !.pending = IF ok THEN "on" ELSE "none"]

LEMMA PaintedKms ==
  ASSUME NEW o \in Outputs, out[o] \in DrmOutputRec,
         NEW taken \in BOOLEAN, NEW ok \in BOOLEAN
  PROVE  LET n == Painted(o, taken, ok)
         IN  /\ n \in DrmOutputRec
             /\ n.life = out[o].life /\ n.on = out[o].on /\ n.flip = out[o].flip
             /\ n.rewired = out[o].rewired
             /\ n.destroyPending = out[o].destroyPending /\ n.dpmsOff = out[o].dpmsOff
<1> DEFINE a == Asserted(out[o], ~out[o].flip)
           d == RepaintDone(a, taken, ok)
<1>1. a \in DrmOutputRec /\ SameKms(out[o], a)
  <2>1. (out[o].abort \/ ~~out[o].flip) \in BOOLEAN
    BY DEF DrmOutputRec
  <2> QED
    BY <2>1, FieldKms DEF Asserted
<1> HIDE DEF a
<1>2. d \in DrmOutputRec /\ SameKms(a, d)
  BY <1>1, RepaintDoneKms
<1>3. Painted(o, taken, ok) = [d EXCEPT !.pending = IF ok THEN "on" ELSE "none"]
  BY DEF Painted, a
<1> HIDE DEF d
<1>4. d \in DrmOutputRec /\ SameKms(out[o], d)
  BY <1>1, <1>2 DEF SameKms
<1>5. (IF ok THEN "on" ELSE "none") \in {"none", "on", "off"}
  OBVIOUS
<1>6. ASSUME NEW level \in {"none", "on", "off"}
      PROVE  LET n == [d EXCEPT !.pending = level]
             IN  /\ n \in DrmOutputRec
                 /\ n.life = d.life /\ n.on = d.on /\ n.flip = d.flip /\ n.rewired = d.rewired
                 /\ n.destroyPending = d.destroyPending /\ n.dpmsOff = d.dpmsOff
  BY <1>4 DEF DrmOutputRec
<1> QED
  BY <1>3, <1>4, <1>5, <1>6 DEF SameKms

LEMMA VisitOutputInv ==
  ASSUME Inv, UNCHANGED atomic, NEW o \in Outputs, VisitOutput(o)
  PROVE  Inv'
<1>1. /\ visiting /\ o \in OutputList /\ power \in PowerState /\ failed \in BOOLEAN
      /\ out \in [Outputs -> DrmOutputRec]
      /\ UNCHANGED <<armed, visiting, stateInvalid, events, active, shown, sessionOff>>
  BY DEF VisitOutput, Inv, TypeOK
<1>2. CASE todo' = todo \ {o} /\ UNCHANGED <<out, power, failed>>
  BY <1>1, <1>2, LoopKeepsBooks
<1>3. CASE /\ out' = [out EXCEPT ![o] = ScheduleRepaintReset(@)]
           /\ todo' = todo \ {o} /\ UNCHANGED <<power, failed>>
  <2> DEFINE r == ScheduleRepaintReset(out[o])
  <2>1. r \in DrmOutputRec /\ SameKms(out[o], r) /\ out' = [out EXCEPT ![o] = r]
    BY <1>1, <1>3, ResetKms
  <2> HIDE DEF r
  <2>2. /\ out' \in [Outputs -> DrmOutputRec]
        /\ \A p \in Outputs : /\ SameKms(out[p], out'[p])
                              /\ p \notin OutputList => out'[p] = out[p]
    BY <1>1, <2>1 DEF SameKms
  <2> QED
    BY <1>1, <1>3, <2>2, LoopKeepsBooks DEF SameKms
<1>4. CASE RepaintOutput(o)
  <2>1. PICK taken \in BOOLEAN, drawn \in BOOLEAN, locks \in BOOLEAN,
             D \in {{}, {o}, OutputList} :
          LET ok      == drawn /\ ~out[o].destroyPending
              painted == RepaintDone(Asserted(out[o], ~out[o].flip), taken, ok)
              damaged == ScheduleAll([out EXCEPT ![o] =
                                        [painted EXCEPT !.pending = IF ok THEN "on" ELSE "none"]],
                                     D, power)
              slept   == [p \in Outputs |-> IF locks /\ Listed(damaged[p])
                                            THEN PowerOffInLoop(damaged[p]) ELSE damaged[p]]
          IN  /\ ~drawn => "renderfail" \in Features
              /\ locks => "sleeploop" \in Features /\ power = "IDLE" /\ out[o].on
              /\ out' = IF ok THEN slept ELSE [slept EXCEPT ![o] = ScheduleRepaintReset(@)]
              /\ power' = IF locks THEN "SLEEPING" ELSE power
              /\ failed' = ~ok
              /\ todo' = IF ok THEN todo \ {o} ELSE {}
    BY <1>4 DEF RepaintOutput
  <2> DEFINE ok      == drawn /\ ~out[o].destroyPending
             r       == Painted(o, taken, ok)
             records == [out EXCEPT ![o] = r]
             damaged == ScheduleAll(records, D, power)
             slept   == [p \in Outputs |-> IF locks /\ Listed(damaged[p])
                                           THEN PowerOffInLoop(damaged[p]) ELSE damaged[p]]
             reset   == [slept EXCEPT ![o] = ScheduleRepaintReset(@)]
  <2>2. ok \in BOOLEAN
    BY <1>1 DEF DrmOutputRec
  <2>3. /\ out' = IF ok THEN slept ELSE reset
        /\ power' = IF locks THEN "SLEEPING" ELSE power
        /\ failed' = ~ok
        /\ todo' = IF ok THEN todo \ {o} ELSE {}
    BY <2>1 DEF Painted
  <2> HIDE DEF ok
  <2>4. /\ r \in DrmOutputRec
        /\ r.life = out[o].life /\ r.on = out[o].on /\ r.flip = out[o].flip
        /\ r.destroyPending = out[o].destroyPending /\ r.dpmsOff = out[o].dpmsOff
    BY <1>1, <2>2, PaintedKms
  <2> HIDE DEF r
  <2>5. /\ records \in [Outputs -> DrmOutputRec] /\ records[o] = r
        /\ \A p \in Outputs \ {o} : records[p] = out[p]
    BY <1>1, <2>4
  <2> HIDE DEF records
  <2>6. /\ damaged \in [Outputs -> DrmOutputRec]
        /\ \A p \in Outputs : /\ SameKms(records[p], damaged[p])
                              /\ p \notin D => damaged[p] = records[p]
    BY <2>5, ScheduleAllKms
  <2> HIDE DEF damaged
  <2>7. ASSUME NEW p \in Outputs
        PROVE  /\ slept[p] \in DrmOutputRec
               /\ slept[p].life = damaged[p].life /\ slept[p].on = damaged[p].on
               /\ slept[p].flip = damaged[p].flip
               /\ slept[p].destroyPending = damaged[p].destroyPending
               /\ slept[p].dpmsOff => damaged[p].dpmsOff \/ damaged[p].flip
               /\ ~Listed(damaged[p]) => slept[p] = damaged[p]
    BY <2>6, PowerOffInLoopKms
  <2>8. slept \in [Outputs -> DrmOutputRec]
    BY <2>7
  <2> HIDE DEF slept
  <2>9. /\ reset \in [Outputs -> DrmOutputRec]
        /\ \A p \in Outputs : SameKms(slept[p], reset[p])
        /\ \A p \in Outputs \ {o} : reset[p] = slept[p]
    BY <2>8, ResetKms DEF SameKms
  <2> HIDE DEF reset
  <2>10. ASSUME NEW p \in Outputs, p \notin OutputList PROVE out'[p] = out[p]
    <3>1. p # o /\ p \notin D
      BY <1>1, <2>10
    <3>2. damaged[p] = out[p]
      BY <2>5, <2>6, <3>1
    <3> QED
      BY <2>3, <2>7, <2>9, <2>10, <3>1, <3>2 DEF OutputList
  <2>11. ASSUME NEW p \in Outputs
         PROVE  /\ out'[p].life = out[p].life /\ out'[p].on = out[p].on
                /\ out'[p].flip = out[p].flip
                /\ out'[p].destroyPending = out[p].destroyPending
                /\ out'[p].dpmsOff => out[p].dpmsOff \/ out[p].flip
    <3>1. out'[p] = slept[p] \/ SameKms(slept[p], out'[p])
      BY <2>3, <2>9
    <3>2. /\ damaged[p].life = out[p].life /\ damaged[p].on = out[p].on
          /\ damaged[p].flip = out[p].flip
          /\ damaged[p].destroyPending = out[p].destroyPending
          /\ damaged[p].dpmsOff = out[p].dpmsOff
      BY <2>4, <2>5, <2>6 DEF SameKms
    <3> QED
      BY <2>7, <3>1, <3>2 DEF SameKms
  <2>12. /\ out' \in [Outputs -> DrmOutputRec] /\ todo' \in SUBSET todo
         /\ power' \in PowerState /\ failed' \in BOOLEAN
    BY <1>1, <2>2, <2>3, <2>8, <2>9 DEF PowerState
  <2> QED
    BY <1>1, <2>10, <2>11, <2>12, LoopKeepsBooks
<1> QED
  BY <1>2, <1>3, <1>4 DEF VisitOutput

(* The handler returns: nothing is left pending.                           *)
LEMMA LeaveHandlerKms ==
  ASSUME NEW records \in [Outputs -> DrmOutputRec], LeaveHandler(records),
         armed \in BOOLEAN
  PROVE  /\ visiting' = FALSE /\ failed' = FALSE /\ armed' \in BOOLEAN
         /\ out' \in [Outputs -> DrmOutputRec]
         /\ \A o \in Outputs : /\ SameKms(records[o], out'[o])
                               /\ ~records[o].repainted => out'[o] = records[o]
<1>1. ASSUME NEW o \in Outputs
      PROVE  LET n == [records[o] EXCEPT !.repainted = FALSE]
             IN  /\ n \in DrmOutputRec /\ SameKms(records[o], n)
                 /\ ~records[o].repainted => n = records[o]
  <2>1. records[o] \in DrmOutputRec
    OBVIOUS
  <2>2. ~records[o].repainted => records[o] = [records[o] EXCEPT !.repainted = FALSE]
    BY <2>1 DEF DrmOutputRec
  <2> QED
    BY <2>1, <2>2, FieldKms
<1>2. /\ visiting' = FALSE /\ failed' = FALSE
      /\ out' = [o \in Outputs |-> [records[o] EXCEPT !.repainted = FALSE]]
      /\ armed' = TimerArmed(out', armed)
  BY DEF LeaveHandler
<1>3. out' \in [Outputs -> DrmOutputRec]
  BY <1>1, <1>2
<1>4. armed' \in BOOLEAN
  BY <1>2 DEF TimerArmed
<1> QED
  BY <1>1, <1>2, <1>3, <1>4

LEMMA RepaintCancelInv ==
  ASSUME Inv, UNCHANGED atomic, RepaintCancel
  PROVE  Inv'
<1> DEFINE clear(o)   == [out[o] EXCEPT !.pending = "none"]
           records[o \in Outputs] ==
             IF Listed(clear(o)) /\ clear(o).repainted THEN ScheduleRepaintReset(clear(o))
                                                       ELSE clear(o)
<1>1. ASSUME NEW o \in Outputs
      PROVE  /\ clear(o) \in DrmOutputRec /\ clear(o).pending = "none"
             /\ clear(o).life = out[o].life /\ clear(o).on = out[o].on
             /\ clear(o).flip = out[o].flip
             /\ clear(o).destroyPending = out[o].destroyPending
             /\ clear(o).dpmsOff = out[o].dpmsOff
             /\ out[o] = AbsentDrmOutput => clear(o) = AbsentDrmOutput
  <2>1. out[o] \in DrmOutputRec
    BY DEF Inv, TypeOK
  <2>2. out[o] = AbsentDrmOutput => clear(o) = AbsentDrmOutput
    BY DEF AbsentDrmOutput
  <2> QED
    BY <2>1, <2>2 DEF DrmOutputRec
<1>2. LeaveHandler(records)
  BY DEF RepaintCancel
<1> HIDE DEF clear
<1>3. ASSUME NEW o \in Outputs
      PROVE  /\ records[o] \in DrmOutputRec /\ SameKms(clear(o), records[o])
             /\ ~Listed(clear(o)) => records[o] = clear(o)
  BY <1>1, ResetKms DEF SameKms
<1>4. records \in [Outputs -> DrmOutputRec]
  BY <1>3
<1> HIDE DEF records
<1>5. /\ visiting' = FALSE /\ failed' = FALSE /\ armed' \in BOOLEAN
      /\ out' \in [Outputs -> DrmOutputRec]
      /\ \A o \in Outputs : /\ SameKms(records[o], out'[o])
                            /\ ~records[o].repainted => out'[o] = records[o]
  BY <1>2, <1>4, LeaveHandlerKms DEF Inv, TypeOK
<1>6. UNCHANGED <<power, todo, stateInvalid, events, active, shown, sessionOff>> /\ todo = {}
  BY DEF RepaintCancel
<1>7. ASSUME NEW o \in Outputs PROVE Booked(o)'
  <2>1. /\ out'[o].life = out[o].life /\ out'[o].on = out[o].on
        /\ out'[o].flip = out[o].flip /\ out'[o].pending = "none"
        /\ out'[o].destroyPending = out[o].destroyPending /\ out'[o].dpmsOff = out[o].dpmsOff
    BY <1>1, <1>3, <1>5 DEF SameKms
  <2>2. ~Listed(out[o]) => out'[o] = AbsentDrmOutput
    <3>1. SUFFICES ASSUME ~Listed(out[o]) PROVE out'[o] = AbsentDrmOutput
      OBVIOUS
    <3>2. out[o] = AbsentDrmOutput
      BY <3>1 DEF Inv, Booked
    <3>3. records[o] = AbsentDrmOutput
      BY <1>1, <1>3, <3>1, <3>2
    <3>4. ~AbsentDrmOutput.repainted
      BY DEF AbsentDrmOutput
    <3> QED
      BY <1>5, <3>3, <3>4
  <2>3. Booked(o)
    BY DEF Inv
  <2> QED
    BY <1>5, <1>6, <2>1, <2>2, <2>3 DEF Booked, Listed
<1> QED
  BY <1>5, <1>6, <1>7 DEF Inv, TypeOK

LEMMA RepaintFlushInv ==
  ASSUME Inv, UNCHANGED atomic, RepaintFlush
  PROVE  Inv'
<1> DEFINE C   == {o \in Outputs : out[o].pending # "none"}
           lit == {o \in C : out[o].pending = "on"}
<1>1. PICK taken \in BOOLEAN, A \in SUBSET C :
        LET swept   == IF taken THEN Unused ELSE {}
            blanked == IF taken THEN Blanked ELSE {}
        IN  /\ Answer(C, lit, taken, A)
            /\ LeaveHandler([o \in Outputs |-> Applied(out[o], o \in A)])
            /\ events' = events \cup (IF atomic THEN A \cup swept \cup blanked
                                                 ELSE A \cap lit)
            /\ active' = (active \ (swept \cup A)) \cup (A \cap lit)
            /\ shown' = (shown \ (swept \cup blanked \cup A)) \cup (A \cap lit)
            /\ stateInvalid' = (stateInvalid /\ atomic /\ ~taken)
  BY DEF RepaintFlush
<1> DEFINE swept   == IF taken THEN Unused ELSE {}
           blanked == IF taken THEN Blanked ELSE {}
           records[o \in Outputs] == Applied(out[o], o \in A)
<1>2. A \subseteq C /\ A \cap events = {} /\ C \subseteq Outputs
  <2>1. Answer(C, lit, taken, A) /\ C \subseteq Outputs
    BY <1>1
  <2> HIDE DEF C, lit
  <2>2. A \cap events = {}
    BY <2>1, AnswerFacts
  <2> QED
    BY <1>1, <2>1, <2>2
<1>3. /\ swept \subseteq Unused /\ Unused \subseteq active \ OutputList
      /\ blanked \subseteq shown
  BY DEF Unused, Blanked
<1>4. /\ LeaveHandler(records)
      /\ events' = events \cup (IF atomic THEN A \cup swept \cup blanked ELSE A \cap lit)
      /\ active' = (active \ (swept \cup A)) \cup (A \cap lit)
      /\ shown' = (shown \ (swept \cup blanked \cup A)) \cup (A \cap lit)
      /\ stateInvalid' = (stateInvalid /\ atomic /\ ~taken)
      /\ UNCHANGED <<power, todo, sessionOff>> /\ todo = {}
  BY <1>1 DEF RepaintFlush
<1> HIDE DEF swept, blanked
<1>5. ASSUME NEW o \in Outputs
      PROVE  LET r == out[o]
                 n == records[o]
             IN  /\ n \in DrmOutputRec /\ n.life = r.life /\ n.pending = "none"
                 /\ n.destroyPending = r.destroyPending /\ n.dpmsOff = r.dpmsOff
                 /\ r.flip => n.flip
                 /\ n.flip /\ ~r.flip =>
                      o \in A /\ (r.pending = "on" \/ (atomic /\ r.pending = "off"))
                 /\ o \in A /\ r.pending = "on" => n.flip /\ n.on
                 /\ o \in A /\ r.pending = "off" => ~n.on
                 /\ r.pending = "none" => n = r
                 /\ o \notin A /\ n.on => r.on
  <2> DEFINE accepted == o \in A
  <2>1. records[o] = Applied(out[o], accepted) /\ out[o] \in DrmOutputRec
        /\ accepted \in BOOLEAN
    BY DEF Inv, TypeOK
  <2>2. accepted <=> o \in A
    OBVIOUS
  <2> HIDE DEF accepted, records
  <2> QED
    BY <2>1, <2>2, AppliedKms
<1>6. records \in [Outputs -> DrmOutputRec]
  BY <1>5
<1> HIDE DEF records
<1>7. /\ visiting' = FALSE /\ failed' = FALSE /\ armed' \in BOOLEAN
      /\ out' \in [Outputs -> DrmOutputRec]
      /\ \A o \in Outputs : /\ SameKms(records[o], out'[o])
                            /\ ~records[o].repainted => out'[o] = records[o]
  BY <1>4, <1>6, LeaveHandlerKms DEF Inv, TypeOK
<1>8. ASSUME NEW o \in Outputs PROVE Booked(o)'
  <2>1. /\ out'[o].life = out[o].life /\ out'[o].pending = "none"
        /\ out'[o].on = records[o].on /\ out'[o].flip = records[o].flip
        /\ out'[o].destroyPending = out[o].destroyPending /\ out'[o].dpmsOff = out[o].dpmsOff
    BY <1>5, <1>7 DEF SameKms
  <2>2. ~Listed(out[o]) => out'[o] = AbsentDrmOutput
    <3>1. SUFFICES ASSUME ~Listed(out[o]) PROVE out'[o] = AbsentDrmOutput
      OBVIOUS
    <3>2. out[o] = AbsentDrmOutput
      BY <3>1 DEF Inv, Booked
    <3>3. out[o].pending = "none" /\ ~out[o].repainted
      BY <3>2 DEF AbsentDrmOutput
    <3> QED
      BY <1>5, <1>7, <3>2, <3>3
  <2>3. out'[o].flip => o \in events'
    BY <1>2, <1>4, <1>5, <2>1 DEF Inv, Booked
  <2>4. ~atomic => (o \in events' => out'[o].flip)
    BY <1>2, <1>4, <1>5, <2>1 DEF Inv, Booked
  <2>5. out'[o].on => o \in active'
    <3>1. SUFFICES ASSUME out'[o].on PROVE o \in active'
      OBVIOUS
    <3>2. CASE o \in A
      <4>1. out[o].pending \in {"on", "off"}
        BY <1>2, <3>2 DEF Inv, TypeOK, DrmOutputRec
      <4> QED
        BY <1>2, <1>4, <1>5, <2>1, <3>1, <3>2, <4>1
    <3>3. CASE o \notin A
      <4>1. out[o].on
        BY <1>5, <2>1, <3>1, <3>3
      <4>2. o \in active /\ o \in OutputList
        BY <4>1 DEF Inv, Booked, AbsentDrmOutput, OutputList
      <4> QED
        BY <1>3, <1>4, <3>3, <4>2
    <3> QED
      BY <3>2, <3>3
  <2>6. out'[o].destroyPending \/ out'[o].dpmsOff => out'[o].flip
    BY <1>5, <2>1 DEF Inv, Booked
  <2> QED
    BY <2>1, <2>2, <2>3, <2>4, <2>5, <2>6 DEF Booked, Listed
<1>9. OutputList' = OutputList
  <2>1. \A o \in Outputs : out'[o].life = out[o].life
    BY <1>5, <1>7 DEF SameKms
  <2> QED
    BY <2>1, SameList
<1>10. /\ events' \in SUBSET Outputs /\ active' \in SUBSET Outputs /\ shown' \in SUBSET Outputs
       /\ stateInvalid' \in BOOLEAN
  BY <1>2, <1>3, <1>4 DEF Inv, TypeOK
<1> QED
  BY <1>4, <1>7, <1>8, <1>9, <1>10 DEF Inv, TypeOK

(* The kernel's answer: the output is destroyed, or goes dark, or carries  *)
(* on; with the atomic API an output that is gone has none.                *)
LEMMA FlipEventInv ==
  ASSUME Inv, UNCHANGED atomic, NEW o \in Outputs, FlipEvent(o)
  PROVE  Inv'
<1> DEFINE a == Asserted(out[o], out[o].flip)
           r == [a EXCEPT !.flip = FALSE]
<1>1. out[o] \in DrmOutputRec /\ Booked(o)
  BY DEF Inv, TypeOK
<1>2. a \in DrmOutputRec /\ SameKms(out[o], a)
  <2>1. (out[o].abort \/ ~out[o].flip) \in BOOLEAN
    BY <1>1 DEF DrmOutputRec
  <2> QED
    BY <1>1, <2>1, FieldKms DEF Asserted
<1>3. /\ ~visiting /\ o \in events /\ events' = events \ {o}
      /\ UNCHANGED <<power, visiting, todo, failed, sessionOff>>
      /\ todo = {} /\ armed' \in BOOLEAN
  BY DEF FlipEvent, TimerArmed, Inv, TypeOK
<1>4. \/ /\ atomic /\ ~Listed(r)
         /\ UNCHANGED <<out, stateInvalid, active, shown>>
      \/ /\ Listed(r) \/ ~atomic
         /\ r.destroyPending
         /\ out' = [out EXCEPT ![o] = AbsentDrmOutput]
         /\ stateInvalid' = TRUE
         /\ UNCHANGED <<active, shown>>
      \/ /\ Listed(r) \/ ~atomic
         /\ ~r.destroyPending /\ r.dpmsOff
         /\ ApplySync([out EXCEPT ![o] = [r EXCEPT !.dpmsOff = FALSE]], {o})
      \/ /\ Listed(r) \/ ~atomic
         /\ ~r.destroyPending /\ ~r.dpmsOff
         /\ out' = [out EXCEPT ![o] =
                      IF ~r.on /\ r.status # "AWAITING_COMPLETION" THEN r
                      ELSE FinishFrame(r, TRUE, FALSE)]
         /\ UNCHANGED <<stateInvalid, active, shown>>
  BY DEF FlipEvent
<1> HIDE DEF a
<1>5. /\ r \in DrmOutputRec /\ ~r.flip /\ r.life = out[o].life /\ r.on = out[o].on
      /\ r.pending = "none" /\ r.destroyPending = out[o].destroyPending
      /\ r.dpmsOff = out[o].dpmsOff
  BY <1>1, <1>2, <1>3 DEF Booked, SameKms, DrmOutputRec
<1> HIDE DEF r
<1>6. Listed(r) \/ ~atomic => o \in OutputList /\ Listed(r)
  BY <1>1, <1>3, <1>5 DEF Booked, OutputList, Listed, AbsentDrmOutput
<1>7. ASSUME \A p \in Outputs \ {o} : Booked(p)', Booked(o)',
             out' \in [Outputs -> DrmOutputRec], active' \in SUBSET Outputs,
             shown' \in SUBSET Outputs, stateInvalid' \in BOOLEAN
      PROVE  Inv'
  BY <1>3, <1>7 DEF Inv, TypeOK
<1>8. CASE atomic /\ ~Listed(r) /\ UNCHANGED <<out, stateInvalid, active, shown>>
  <2>1. ~out[o].flip
    BY <1>1, <1>5, <1>8 DEF Booked, Listed, AbsentDrmOutput
  <2>2. ASSUME NEW p \in Outputs PROVE Booked(p)'
    BY <1>3, <1>8, <2>1 DEF Inv, Booked
  <2> QED
    BY <1>7, <1>8, <2>2 DEF Inv, TypeOK
<1>9. ASSUME NEW n \in DrmOutputRec, out' = [out EXCEPT ![o] = n], ~n.flip, ~n.destroyPending,
             ~n.dpmsOff, n.on => out[o].on, n.pending = "none",
             ~Listed(n) => n = AbsentDrmOutput,
             stateInvalid' \in BOOLEAN, active' = active, shown' = shown
      PROVE  Inv'
  <2>1. /\ out' \in [Outputs -> DrmOutputRec]
        /\ out'[o] = n
        /\ \A p \in Outputs \ {o} : out'[p] = out[p]
    BY <1>9 DEF Inv, TypeOK
  <2>2. Booked(o)'
    BY <1>1, <1>3, <1>9, <2>1 DEF Booked
  <2>3. ASSUME NEW p \in Outputs \ {o} PROVE Booked(p)'
    BY <1>3, <1>9, <2>1 DEF Inv, Booked
  <2> QED
    BY <1>7, <1>9, <2>1, <2>2, <2>3 DEF Inv, TypeOK
<1>10. CASE /\ out' = [out EXCEPT ![o] = AbsentDrmOutput]
            /\ stateInvalid' = TRUE /\ UNCHANGED <<active, shown>>
  <2>1. AbsentDrmOutput \in DrmOutputRec
    BY DEF AbsentDrmOutput, DrmOutputRec, RepaintStatus
  <2>2. /\ ~AbsentDrmOutput.flip /\ ~AbsentDrmOutput.destroyPending
        /\ ~AbsentDrmOutput.dpmsOff /\ ~AbsentDrmOutput.on
        /\ AbsentDrmOutput.pending = "none"
    BY DEF AbsentDrmOutput
  <2> QED
    BY <1>9, <1>10, <2>1, <2>2
<1>11. CASE /\ Listed(r) \/ ~atomic
            /\ ~r.destroyPending /\ r.dpmsOff
            /\ ApplySync([out EXCEPT ![o] = [r EXCEPT !.dpmsOff = FALSE]], {o})
  <2> DEFINE d       == [r EXCEPT !.dpmsOff = FALSE]
             records == [out EXCEPT ![o] = d]
  <2>1. /\ d \in DrmOutputRec /\ ~d.flip /\ d.life = out[o].life /\ d.on = out[o].on
        /\ d.pending = "none" /\ d.destroyPending = r.destroyPending /\ ~d.dpmsOff
    BY <1>5 DEF DrmOutputRec
  <2> HIDE DEF d
  <2>2. /\ records \in [Outputs -> DrmOutputRec] /\ records[o] = d
        /\ \A p \in Outputs \ {o} : records[p] = out[p]
    BY <2>1 DEF Inv, TypeOK
  <2>3. ApplySync(records, {o})
    BY <1>11 DEF d
  <2> HIDE DEF records
  <2>4. \A p \in Outputs : out[p].on => p \in active /\ p \in OutputList
    BY DEF Inv, Booked, AbsentDrmOutput, OutputList
  <2>5. \A p \in Outputs : records[p].on => p \in active /\ p \in OutputList
    BY <2>1, <2>2, <2>4
  <2>6. /\ out' \in [Outputs -> DrmOutputRec]
        /\ active' \in SUBSET Outputs /\ shown' \in SUBSET Outputs /\ stateInvalid' \in BOOLEAN
        /\ \A p \in Outputs :
             /\ out'[p].on => p \in active'
             /\ \/ out'[p] = records[p]
                \/ p \in {o} /\ out'[p] = SyncOff(records[p])
    BY <2>2, <2>3, <2>5, ApplySyncBooks DEF Inv, TypeOK
  <2>7. Booked(o)'
    <3>1. /\ ~out'[o].flip /\ out'[o].pending = "none" /\ ~out'[o].destroyPending
          /\ ~out'[o].dpmsOff /\ out'[o].life = out[o].life
      BY <1>11, <2>1, <2>2, <2>6, SyncOffKms
    <3>2. Listed(out'[o])
      BY <1>5, <1>6, <1>11, <3>1 DEF Listed
    <3> QED
      BY <1>3, <2>6, <3>1, <3>2 DEF Booked
  <2>8. ASSUME NEW p \in Outputs \ {o} PROVE Booked(p)'
    <3>1. out'[p] = out[p]
      BY <2>2, <2>6
    <3> QED
      BY <1>3, <2>6, <3>1 DEF Inv, Booked
  <2> QED
    BY <1>7, <2>6, <2>7, <2>8
<1>12. CASE /\ Listed(r) \/ ~atomic
            /\ ~r.destroyPending /\ ~r.dpmsOff
            /\ out' = [out EXCEPT ![o] =
                         IF ~r.on /\ r.status # "AWAITING_COMPLETION" THEN r
                         ELSE FinishFrame(r, TRUE, FALSE)]
            /\ UNCHANGED <<stateInvalid, active, shown>>
  <2> DEFINE n == IF ~r.on /\ r.status # "AWAITING_COMPLETION" THEN r
                  ELSE FinishFrame(r, TRUE, FALSE)
  <2>1. n \in DrmOutputRec /\ SameKms(r, n)
    BY <1>5, FinishFrameKms DEF SameKms
  <2>2. out' = [out EXCEPT ![o] = n]
    BY <1>12
  <2> HIDE DEF n
  <2>3. /\ ~n.flip /\ ~n.destroyPending /\ ~n.dpmsOff /\ (n.on => out[o].on)
        /\ n.pending = "none" /\ Listed(n)
    BY <1>5, <1>6, <1>12, <2>1 DEF SameKms, Listed
  <2> QED
    BY <1>9, <1>12, <2>1, <2>2, <2>3 DEF Inv, TypeOK
<1> QED
  BY <1>4, <1>8, <1>10, <1>11, <1>12

(* The compositor goes to sleep: what is in flight is parked.              *)
LEMMA SleepInv ==
  ASSUME Inv, UNCHANGED atomic, Sleep
  PROVE  Inv'
<1> DEFINE lit    == {o \in OutputList : out[o].on}
           parked == {o \in lit : out[o].flip}
           records[o \in Outputs] ==
             IF o \in parked THEN [out[o] EXCEPT !.dpmsOff = TRUE] ELSE out[o]
<1>1. /\ ~visiting /\ power' = "SLEEPING" /\ ApplySync(records, lit \ parked)
      /\ armed' \in BOOLEAN
      /\ UNCHANGED <<visiting, todo, failed, events, sessionOff>>
  BY DEF Sleep, PowerOffAll, TimerArmed, Inv, TypeOK
<1>2. ASSUME NEW o \in Outputs
      PROVE  /\ records[o] \in DrmOutputRec
             /\ records[o].life = out[o].life /\ records[o].on = out[o].on
             /\ records[o].flip = out[o].flip /\ records[o].pending = out[o].pending
             /\ records[o].destroyPending = out[o].destroyPending
             /\ records[o].dpmsOff => out[o].dpmsOff \/ out[o].flip
             /\ ~Listed(out[o]) => records[o] = out[o]
  BY DEF Inv, TypeOK, DrmOutputRec, OutputList
<1>3. records \in [Outputs -> DrmOutputRec]
  BY <1>2
<1>4. \A o \in Outputs : out[o].on => o \in active /\ o \in OutputList
  BY DEF Inv, Booked, AbsentDrmOutput, OutputList
<1>5. lit \ parked \in SUBSET OutputList /\ OutputList \in SUBSET Outputs
  BY DEF OutputList
<1> HIDE DEF records, parked, lit
<1>6. /\ out' \in [Outputs -> DrmOutputRec]
      /\ active' \in SUBSET Outputs /\ shown' \in SUBSET Outputs /\ stateInvalid' \in BOOLEAN
      /\ \A o \in Outputs :
           /\ out'[o].on => o \in active'
           /\ \/ out'[o] = records[o]
              \/ o \in lit \ parked /\ out'[o] = SyncOff(records[o])
  <2>1. lit \ parked \in SUBSET Outputs
    BY <1>5
  <2>2. \A o \in Outputs : records[o].on => o \in active /\ o \in OutputList
    BY <1>2, <1>4
  <2> QED
    BY <1>1, <1>3, <2>1, <2>2, ApplySyncBooks DEF Inv, TypeOK
<1>7. ASSUME NEW o \in Outputs
      PROVE  /\ out'[o].life = out[o].life /\ out'[o].flip = out[o].flip
             /\ out'[o].pending = out[o].pending
             /\ out'[o].destroyPending = out[o].destroyPending
             /\ out'[o].dpmsOff => out[o].dpmsOff \/ out[o].flip
             /\ ~Listed(out[o]) => out'[o] = out[o]
  <2>1. CASE out'[o] = records[o]
    BY <1>2, <2>1
  <2>2. CASE o \in lit \ parked /\ out'[o] = SyncOff(records[o])
    BY <1>2, <1>5, <2>2, SyncOffKms DEF OutputList
  <2> QED
    BY <1>6, <2>1, <2>2
<1>8. ASSUME NEW o \in Outputs PROVE Booked(o)'
  <2>1. Booked(o)
    BY DEF Inv
  <2> QED
    BY <1>1, <1>6, <1>7, <2>1 DEF Booked, Listed
<1> QED
  BY <1>1, <1>6, <1>8 DEF Inv, TypeOK, PowerState

(* Outputs are switched on and damaged: a power-off that is parked may be  *)
(* withdrawn, and nothing else happens to KMS.                             *)
LEMMA PowerOnAllKms ==
  ASSUME Inv, NEW D \in SUBSET OutputList,
         out' = ScheduleAll([o \in Outputs |-> IF Listed(out[o]) THEN PowerOn(out[o])
                                                                ELSE out[o]], D, "ACTIVE")
  PROVE  /\ out' \in [Outputs -> DrmOutputRec]
         /\ \A o \in Outputs :
              /\ out'[o].life = out[o].life /\ out'[o].on = out[o].on
              /\ out'[o].flip = out[o].flip /\ out'[o].pending = out[o].pending
              /\ out'[o].destroyPending = out[o].destroyPending /\ out'[o].rewired = out[o].rewired
              /\ out'[o].dpmsOff => out[o].dpmsOff
              /\ ~Listed(out[o]) => out'[o] = out[o]
<1> DEFINE records[o \in Outputs] == IF Listed(out[o]) THEN PowerOn(out[o]) ELSE out[o]
<1>1. ASSUME NEW o \in Outputs
      PROVE  /\ records[o] \in DrmOutputRec
             /\ records[o].life = out[o].life /\ records[o].on = out[o].on
             /\ records[o].flip = out[o].flip /\ records[o].pending = out[o].pending
             /\ records[o].destroyPending = out[o].destroyPending
             /\ records[o].rewired = out[o].rewired
             /\ records[o].dpmsOff => out[o].dpmsOff
             /\ ~Listed(out[o]) => records[o] = out[o]
  <2>1. out[o] \in DrmOutputRec
    BY DEF Inv, TypeOK
  <2> QED
    BY <2>1, PowerOnKms
<1>2. records \in [Outputs -> DrmOutputRec]
  BY <1>1
<1>3. out' = ScheduleAll(records, D, "ACTIVE")
  OBVIOUS
<1> HIDE DEF records
<1>4. /\ out' \in [Outputs -> DrmOutputRec]
      /\ \A o \in Outputs : /\ SameKms(records[o], out'[o])
                            /\ o \notin D => out'[o] = records[o]
  BY <1>2, <1>3, ScheduleAllKms
<1>5. \A o \in Outputs : ~Listed(out[o]) => o \notin D
  BY DEF OutputList
<1> QED
  BY <1>1, <1>4, <1>5 DEF SameKms

LEMMA PowerOnAllInv ==
  ASSUME Inv, NEW D \in SUBSET OutputList, ~visiting,
         out' = ScheduleAll([o \in Outputs |-> IF Listed(out[o]) THEN PowerOn(out[o])
                                                                ELSE out[o]], D, "ACTIVE"),
         power' = "ACTIVE", stateInvalid' \in BOOLEAN, sessionOff' \in BOOLEAN,
         UNCHANGED <<atomic, armed, visiting, todo, failed, events, active, shown>>
  PROVE  Inv'
<1>1. /\ out' \in [Outputs -> DrmOutputRec]
      /\ \A o \in Outputs :
           /\ out'[o].life = out[o].life /\ out'[o].on = out[o].on
           /\ out'[o].flip = out[o].flip /\ out'[o].pending = out[o].pending
           /\ out'[o].destroyPending = out[o].destroyPending /\ out'[o].rewired = out[o].rewired
           /\ out'[o].dpmsOff => out[o].dpmsOff
           /\ ~Listed(out[o]) => out'[o] = out[o]
  BY PowerOnAllKms
<1>2. ASSUME NEW o \in Outputs PROVE Booked(o)'
  <2>1. Booked(o)
    BY DEF Inv
  <2> QED
    BY <1>1, <2>1 DEF Booked, Listed
<1>3. todo = {}
  BY DEF Inv
<1> QED
  BY <1>1, <1>2, <1>3 DEF Inv, TypeOK, PowerState

(* Outputs that come and go.                                               *)
LEMMA LifeCycleInv ==
  ASSUME Inv, UNCHANGED atomic, NEW o \in Outputs, EnableOutput(o) \/ DestroyOutput(o) \/ HeadsChanged(o)
  PROVE  Inv'
<1>1. /\ ~visiting /\ todo = {}
      /\ UNCHANGED <<power, armed, visiting, todo, failed, events, active, shown, sessionOff>>
      /\ stateInvalid' \in BOOLEAN
  BY DEF EnableOutput, DestroyOutput, HeadsChanged, Inv, TypeOK
<1>2. out[o] \in DrmOutputRec /\ Booked(o)
  BY DEF Inv, TypeOK
<1>3. ASSUME NEW n \in DrmOutputRec, out' = [out EXCEPT ![o] = n],
             n.flip = out[o].flip, n.pending = out[o].pending,
             n.destroyPending \/ n.dpmsOff => n.flip, n.on => out[o].on,
             ~Listed(n) => n = AbsentDrmOutput
      PROVE  Inv'
  <2>1. /\ out' \in [Outputs -> DrmOutputRec] /\ out'[o] = n
        /\ \A p \in Outputs \ {o} : out'[p] = out[p]
    BY <1>3 DEF Inv, TypeOK
  <2>2. Booked(o)'
    BY <1>1, <1>2, <1>3, <2>1 DEF Booked
  <2>3. ASSUME NEW p \in Outputs \ {o} PROVE Booked(p)'
    BY <1>1, <2>1 DEF Inv, Booked
  <2> QED
    BY <1>1, <2>1, <2>2, <2>3 DEF Inv, TypeOK
<1>4. CASE EnableOutput(o)
  <2> DEFINE n == AddOutput(PrepareEnable(InitDrmOutput, power))
  <2>1. /\ n \in DrmOutputRec /\ n.flip = FALSE /\ n.pending = "none"
        /\ ~n.destroyPending /\ ~n.dpmsOff /\ ~n.on /\ Listed(n)
    BY DEF AddOutput, PrepareEnable, ScheduleRepaint, Asserted, InitDrmOutput,
           AbsentDrmOutput, DrmOutputRec, RepaintStatus, Listed
  <2>2. out' = [out EXCEPT ![o] = n]
    BY <1>4 DEF EnableOutput
  <2> HIDE DEF n
  <2>3. out[o].flip = FALSE /\ out[o].pending = "none"
    BY <1>2, <1>4 DEF EnableOutput, Booked, Listed, AbsentDrmOutput
  <2> QED
    BY <1>3, <2>1, <2>2, <2>3
<1>5. ASSUME NEW d \in BOOLEAN, NEW w \in BOOLEAN, Listed(out[o]), d => out[o].flip,
             \/ out' = [out EXCEPT ![o] = ScheduleRepaint([@ EXCEPT !.destroyPending = d], power)]
             \/ out' = ScheduleAll([out EXCEPT ![o].rewired = w], {o}, power)
      PROVE  Inv'
  <2> DEFINE r == IF out' = ScheduleAll([out EXCEPT ![o].rewired = w], {o}, power)
                  THEN [out[o] EXCEPT !.rewired = w] ELSE [out[o] EXCEPT !.destroyPending = d]
             n == ScheduleRepaint(r, power)
  <2>1. /\ r \in DrmOutputRec /\ r.flip = out[o].flip /\ r.pending = out[o].pending
        /\ r.on = out[o].on /\ Listed(r) /\ r.dpmsOff = out[o].dpmsOff
        /\ r.destroyPending \/ r.dpmsOff => r.flip
    BY <1>2, <1>5 DEF DrmOutputRec, Listed, Booked
  <2>2. out' = [out EXCEPT ![o] = n]
    <3>1. CASE out' = ScheduleAll([out EXCEPT ![o].rewired = w], {o}, power)
      <4>1. /\ [out EXCEPT ![o].rewired = w] \in [Outputs -> DrmOutputRec]
            /\ [out EXCEPT ![o].rewired = w][o] = r
            /\ \A p \in Outputs \ {o} : [out EXCEPT ![o].rewired = w][p] = out[p]
        BY <2>1, <3>1 DEF Inv, TypeOK
      <4> HIDE DEF r
      <4>2. out' = [p \in Outputs |-> IF p = o THEN n ELSE out[p]]
        BY <3>1, <4>1 DEF ScheduleAll
      <4> HIDE DEF n
      <4> QED
        BY <4>2 DEF Inv, TypeOK
    <3>2. CASE out' # ScheduleAll([out EXCEPT ![o].rewired = w], {o}, power)
      BY <1>5, <3>2
    <3> QED
      BY <3>1, <3>2
  <2> HIDE DEF r
  <2>3. n \in DrmOutputRec /\ SameKms(r, n)
    BY <2>1, ScheduleRepaintKms
  <2> HIDE DEF n
  <2> QED
    BY <1>3, <2>1, <2>2, <2>3 DEF SameKms, Listed
<1>6. CASE ~out[o].flip /\ out' = [out EXCEPT ![o] = AbsentDrmOutput]
  <2>1. AbsentDrmOutput \in DrmOutputRec
    BY DEF AbsentDrmOutput, DrmOutputRec, RepaintStatus
  <2>2. /\ AbsentDrmOutput.flip = FALSE /\ ~AbsentDrmOutput.destroyPending
        /\ ~AbsentDrmOutput.dpmsOff /\ ~AbsentDrmOutput.on
        /\ AbsentDrmOutput.pending = "none"
    BY DEF AbsentDrmOutput
  <2>3. out[o].pending = "none" /\ out[o].flip = FALSE
    BY <1>1, <1>2, <1>6 DEF Booked, DrmOutputRec
  <2> QED
    BY <1>3, <1>6, <2>1, <2>2, <2>3
<1>7. CASE DestroyOutput(o)
  <2>1. Listed(out[o]) /\ out' = [out EXCEPT ![o] =
               IF @.flip THEN ScheduleRepaint([@ EXCEPT !.destroyPending = TRUE], power)
               ELSE AbsentDrmOutput]
    BY <1>7 DEF DestroyOutput
  <2>2. CASE out[o].flip
    BY <1>5, <2>1, <2>2
  <2>3. CASE ~out[o].flip
    BY <1>6, <2>1, <2>3
  <2> QED
    BY <2>2, <2>3
<1>8. CASE HeadsChanged(o)
  BY <1>5, <1>8 DEF HeadsChanged
<1> QED
  BY <1>4, <1>7, <1>8

LEMMA NextInv == Inv /\ [Next]_vars => Inv'
<1> SUFFICES ASSUME Inv, [Next]_vars PROVE Inv'
  OBVIOUS
<1>1. CASE UNCHANGED vars
  <2>1. \A o \in Outputs : SameKms(out[o], out'[o])
    BY <1>1 DEF vars, SameKms
  <2> QED
    BY <1>1, <2>1, KeepsBooks DEF vars, Inv, TypeOK
<1> SUFFICES ASSUME Next PROVE Inv'
  BY <1>1
<1>2. UNCHANGED atomic
  BY DEF Next
<1>3. /\ power \in PowerState /\ armed \in BOOLEAN /\ failed \in BOOLEAN
      /\ stateInvalid \in BOOLEAN /\ sessionOff \in BOOLEAN
      /\ out \in [Outputs -> DrmOutputRec]
  BY DEF Inv, TypeOK
<1>4. ASSUME NEW o \in Outputs, IdleRepaint(o) PROVE Inv'
  BY <1>2, <1>4, IdleRepaintInv
<1>5. ASSUME NEW o \in Outputs, Tick(o) PROVE Inv'
  BY <1>2, <1>5, TickInv
<1>6. ASSUME NEW o \in Outputs, VisitOutput(o) PROVE Inv'
  BY <1>2, <1>6, VisitOutputInv
<1>7. ASSUME NEW o \in Outputs, FlipEvent(o) PROVE Inv'
  BY <1>2, <1>7, FlipEventInv
<1>8. ASSUME NEW o \in Outputs, Damage(o) PROVE Inv'
  BY <1>2, <1>3, <1>8, ScheduleKeepsBooks DEF Damage, OutputList
<1>9. ASSUME NEW o \in Outputs, EnableOutput(o) \/ DestroyOutput(o) \/ HeadsChanged(o)
      PROVE  Inv'
  BY <1>2, <1>9, LifeCycleInv
<1>11. CASE RepaintTimer
  BY <1>2, <1>11 DEF RepaintTimer, Inv, TypeOK, Booked, OutputList
<1>12. CASE RepaintFlush
  BY <1>2, <1>12, RepaintFlushInv
<1>13. CASE RepaintCancel
  BY <1>2, <1>13, RepaintCancelInv
<1>14. CASE IdleTimeout
  BY <1>2, <1>3, <1>14, ScheduleKeepsBooks DEF IdleTimeout, PowerState
<1>15. CASE Sleep
  BY <1>2, <1>15, SleepInv
<1>16. CASE Wake
  <2>1. PICK D \in {{}, OutputList} :
          out' = ScheduleAll([o \in Outputs |-> IF Listed(out[o]) THEN PowerOn(out[o])
                                                                 ELSE out[o]], D, "ACTIVE")
    BY <1>16 DEF Wake
  <2>2. D \in SUBSET OutputList
    OBVIOUS
  <2> QED
    BY <1>2, <1>3, <1>16, <2>1, <2>2, PowerOnAllInv DEF Wake
<1>17. CASE LeaveSession
  <2>1. ASSUME NEW o \in Outputs
        PROVE  LET n == [out[o] EXCEPT !.needed = FALSE]
               IN  n \in DrmOutputRec /\ SameKms(out[o], n)
    BY <1>3, FieldKms
  <2>2. out' = [o \in Outputs |-> IF Listed(out[o]) THEN [out[o] EXCEPT !.needed = FALSE]
                                                   ELSE out[o]]
    BY <1>17 DEF LeaveSession
  <2>3. out' \in [Outputs -> DrmOutputRec]
    BY <1>3, <2>1, <2>2
  <2>4. \A o \in Outputs : /\ SameKms(out[o], out'[o])
                           /\ o \notin OutputList => out'[o] = out[o]
    BY <2>1, <2>2 DEF SameKms, OutputList
  <2> QED
    BY <1>2, <1>3, <1>17, <2>3, <2>4, KeepsBooks DEF LeaveSession, PowerState
<1>18. CASE EnterSession
  BY <1>2, <1>3, <1>18, PowerOnAllInv DEF EnterSession
<1> QED
  BY <1>4, <1>5, <1>6, <1>7, <1>8, <1>9, <1>11, <1>12, <1>13, <1>14, <1>15, <1>16,
     <1>17, <1>18 DEF Next

LEMMA Invariance == Spec => []Inv
<1>1. Init => Inv
  BY InitInv
<1>2. Inv /\ [Next]_vars => Inv'
  BY NextInv
<1> QED
  BY <1>1, <1>2, PTL DEF Spec

(* Every state that is applied and not complete has an event coming, and   *)
(* with the legacy API an event has an output that waits for it, whatever  *)
(* the kernel refuses and whenever outputs go and come back.               *)
THEOREM FlipsHaveEvents == Spec => []FlipHasEvent
<1>1. Inv => FlipHasEvent
  <2>1. ASSUME Inv, NEW o \in Outputs, out[o].flip PROVE o \in events /\ Listed(out[o])
    BY <2>1 DEF Inv, Booked, AbsentDrmOutput
  <2>2. ASSUME Inv, ~atomic, NEW o \in events PROVE o \in Outputs /\ out[o].flip
    BY <2>2 DEF Inv, Booked, TypeOK
  <2> QED
    BY <2>1, <2>2 DEF FlipHasEvent
<1> QED
  BY <1>1, Invariance, PTL

(* A power-off or destruction is parked only for an event that comes.      *)
THEOREM DeferredHaveFlips == Spec => []DeferredHasFlip
<1>1. Inv => DeferredHasFlip
  BY DEF Inv, Booked, DeferredHasFlip
<1> QED
  BY <1>1, Invariance, PTL

(* Types, and that the handler only visits outputs that are in use.        *)
THEOREM TypeCorrect == Spec => []TypeOK
<1>1. Inv => TypeOK
  BY DEF Inv
<1> QED
  BY <1>1, Invariance, PTL

-----------------------------------------------------------------------------
(* The cycle.  What the kernel refuses, what a sleep meets in flight with  *)
(* the atomic API, a predecessor's event, and a commit that starts afresh  *)
(* beside an output that is in use can leave an output's cycle broken (see *)
(* the README); without those, it never breaks.                            *)
Steady ==
  /\ AtomicFeatures \subseteq {"vt", "novblank"}
  /\ LegacyFeatures \subseteq {"vt", "sleepevent", "sleeploop"}

Awaiting(r) == r.status = "AWAITING_COMPLETION"

(* The core's side of a record.                                            *)
Sound(r) ==
  /\ ~r.abort
  /\ r.idle <=> r.status = "BEGIN_FROM_IDLE"
  /\ r.feedback => Awaiting(r)

(* An output awaits a completion exactly while a state of its is put aside *)
(* or in flight; a power-off may be put aside at any time.                 *)
Closed(r) ==
  /\ Sound(r)
  /\ r.flip => Awaiting(r) /\ r.pending = "none"
  /\ Awaiting(r) => r.flip \/ r.pending # "none"
  /\ r.pending = "on" => Awaiting(r)
  /\ atomic => r.pending # "off" /\ ~r.dpmsOff

(* And nothing is put aside that the kernel will refuse: no event is owed  *)
(* for it but by its own flip, and the session is there.                   *)
CycleInv ==
  /\ \A o \in Outputs : /\ Closed(out[o])
                        /\ Listed(out[o]) /\ o \in events => out[o].flip
                        /\ out[o].pending # "none" => ~sessionOff
  /\ sessionOff => Asleep(power)
  /\ ~failed

(* A commit of the running handler takes in output o, or will.             *)
Covered(o) ==
  \/ out[o].pending = "on"
  \/ out[o].needed /\ (visiting => o \in todo /\ ReadyToRepaint(out[o]))

(* What is lit is shown.  With the atomic API, a commit that starts afresh *)
(* touches nothing in use but what is part of it: as long as state_invalid *)
(* is set, an output that shows something is the only one, and is about to *)
(* be repainted; and nothing left of outputs that are gone is in flight.   *)
SweepInv ==
  /\ \A o \in Outputs : out[o].on => o \in shown
  /\ atomic =>
       /\ power # "SLEEPING" /\ (power = "OFFSCREEN" => sessionOff)
       /\ sessionOff => Alone \/ OutputList \cap shown = {}
       /\ \A o \in Outputs :
            /\ ~Listed(out[o]) /\ o \in events => o \notin active \cup shown
            /\ out[o].rewired => stateInvalid \/ ~out[o].on
            /\ out[o].destroyPending => Alone
            /\ stateInvalid /\ ~sessionOff /\ o \in shown /\ Listed(out[o])
                 => Alone /\ Covered(o)

(* Operations on one record.                                               *)
LEMMA ScheduleRepaintSound ==
  ASSUME NEW r \in DrmOutputRec, Sound(r), NEW p
  PROVE  LET n == ScheduleRepaint(r, p)
         IN  Sound(n) /\ (Awaiting(n) <=> Awaiting(r))
<1>1. \/ ScheduleRepaint(r, p) = r
      \/ ScheduleRepaint(r, p) = [r EXCEPT !.needed = TRUE]
      \/ /\ r.status = "NOT_SCHEDULED"
         /\ ScheduleRepaint(r, p) = [Asserted(r, ~r.idle) EXCEPT !.needed = TRUE,
                                       !.status = "BEGIN_FROM_IDLE", !.idle = TRUE]
  BY DEF ScheduleRepaint
<1> DEFINE n == ScheduleRepaint(r, p)
<1>2. CASE n = r
  BY <1>2
<1>3. CASE n = [r EXCEPT !.needed = TRUE]
  BY <1>3 DEF Sound, Awaiting, DrmOutputRec
<1>4. CASE /\ r.status = "NOT_SCHEDULED"
           /\ n = [Asserted(r, ~r.idle) EXCEPT !.needed = TRUE,
                     !.status = "BEGIN_FROM_IDLE", !.idle = TRUE]
  <2>1. /\ n.abort = (r.abort \/ ~~r.idle) /\ n.status = "BEGIN_FROM_IDLE"
        /\ n.idle = TRUE /\ n.feedback = r.feedback
    BY <1>4 DEF Asserted, DrmOutputRec
  <2>2. n \in DrmOutputRec
    BY ScheduleRepaintKms
  <2> HIDE DEF n
  <2>3. Sound(n) /\ (Awaiting(n) <=> Awaiting(r))
    BY <1>4, <2>1, <2>2 DEF Sound, Awaiting, DrmOutputRec
  <2> QED
    BY <2>3 DEF n
<1> QED
  BY <1>1, <1>2, <1>3, <1>4

LEMMA ResetSound ==
  ASSUME NEW r \in DrmOutputRec, Sound(r), r.status = "SCHEDULED"
  PROVE  LET n == ScheduleRepaintReset(r) IN Sound(n) /\ ~Awaiting(n)
BY DEF ScheduleRepaintReset, Sound, Awaiting, DrmOutputRec

(* A frame that is awaited is finished, with a timestamp or, at the start  *)
(* of the loop, when there is no feedback yet, without one.                *)
LEMMA FinishFrameSound ==
  ASSUME NEW r \in DrmOutputRec, Sound(r), Awaiting(r),
         NEW stamp \in BOOLEAN, NEW invalid \in BOOLEAN,
         stamp \/ invalid, invalid => ~r.feedback
  PROVE  LET n == FinishFrame(r, stamp, invalid) IN Sound(n) /\ n.status = "SCHEDULED"
<1> DEFINE n == FinishFrame(r, stamp, invalid)
<1>1. /\ n.abort = (r.abort \/ ~(/\ r.status = "AWAITING_COMPLETION"
                                 /\ stamp \/ invalid
                                 /\ stamp /\ invalid => ~r.feedback))
      /\ n.status = "SCHEDULED" /\ n.idle = r.idle
      /\ n.feedback = (r.feedback /\ ~stamp)
  BY DEF FinishFrame, Asserted, DrmOutputRec
<1>2. n \in DrmOutputRec
  BY FinishFrameKms
<1> HIDE DEF n
<1>3. Sound(n)
  BY <1>1, <1>2 DEF Sound, Awaiting, DrmOutputRec
<1> QED
  BY <1>1, <1>3 DEF n

LEMMA EnterRepaintLoopSound ==
  ASSUME NEW r \in DrmOutputRec, Sound(r), r.idle
  PROVE  LET n == EnterRepaintLoop(r) IN Sound(n) /\ Awaiting(n) /\ ~n.feedback
BY DEF EnterRepaintLoop, Asserted, Sound, Awaiting, DrmOutputRec

(* A step that leaves KMS alone keeps a record closed if it is sound after *)
(* and awaits what it did.                                                 *)
LEMMA SameKmsClosed ==
  ASSUME NEW r, NEW n, Closed(r), SameKms(r, n), Sound(n), Awaiting(n) <=> Awaiting(r)
  PROVE  Closed(n)
BY DEF Closed, SameKms

LEMMA ScheduleClosed ==
  ASSUME NEW r \in DrmOutputRec, Closed(r), NEW p
  PROVE  LET n == ScheduleRepaint(r, p) IN Closed(n) /\ (Awaiting(n) <=> Awaiting(r))
<1> DEFINE n == ScheduleRepaint(r, p)
<1>1. Sound(n) /\ (Awaiting(n) <=> Awaiting(r)) /\ SameKms(r, n)
  BY ScheduleRepaintSound, ScheduleRepaintKms DEF Closed
<1> HIDE DEF n
<1>2. Closed(n)
  BY <1>1, SameKmsClosed
<1> QED
  BY <1>1, <1>2 DEF n

LEMMA ScheduleAllClosed ==
  ASSUME NEW records \in [Outputs -> DrmOutputRec], \A o \in Outputs : Closed(records[o]),
         NEW O, NEW p
  PROVE  LET n == ScheduleAll(records, O, p)
         IN  \A o \in Outputs : Closed(n[o]) /\ (Awaiting(n[o]) <=> Awaiting(records[o]))
<1> DEFINE n == ScheduleAll(records, O, p)
<1>1. \A o \in Outputs : n[o] = IF o \in O THEN ScheduleRepaint(records[o], p)
                                          ELSE records[o]
  BY DEF ScheduleAll
<1> HIDE DEF n
<1>2. ASSUME NEW o \in Outputs
      PROVE  Closed(n[o]) /\ (Awaiting(n[o]) <=> Awaiting(records[o]))
  <2>1. CASE o \in O
    BY <1>1, <2>1, ScheduleClosed
  <2>2. CASE o \notin O
    BY <1>1, <2>2
  <2> QED
    BY <2>1, <2>2
<1> QED
  BY <1>2 DEF n

(* Applying a state that was put aside.                                    *)
LEMMA AssignAsyncClosed ==
  ASSUME NEW r \in DrmOutputRec, Sound(r), Awaiting(r), ~r.flip, r.pending = "none",
         atomic => ~r.dpmsOff, NEW level \in BOOLEAN
  PROVE  LET n == AssignAsync(r, level) IN Closed(n) /\ Awaiting(n)
<1> DEFINE n == AssignAsync(r, level)
<1>1. /\ n.abort = (r.abort \/ ~~r.flip) /\ n.status = r.status /\ n.idle = r.idle
      /\ n.feedback = r.feedback
      /\ n.flip /\ n.pending = r.pending /\ n.dpmsOff = r.dpmsOff
  BY DEF AssignAsync, Asserted, DrmOutputRec
<1>2. n \in DrmOutputRec
  BY AssignAsyncKms
<1> HIDE DEF n
<1>3. Closed(n) /\ Awaiting(n)
  BY <1>1, <1>2 DEF Closed, Sound, Awaiting, DrmOutputRec
<1> QED
  BY <1>3 DEF n

(* Disabling an output finishes the frame that is awaited, if there is one *)
(* and the API is the legacy one.                                          *)
LEMMA SyncOffClosed ==
  ASSUME NEW r \in DrmOutputRec, Sound(r), ~r.flip, r.pending = "none", ~atomic
  PROVE  LET n == SyncOff(r)
         IN  /\ Closed(n) /\ ~Awaiting(n)
             /\ n.life = r.life /\ n.flip = r.flip /\ n.pending = r.pending
             /\ n.needed = r.needed
<1> DEFINE off == [Asserted(r, ~r.flip) EXCEPT !.on = FALSE, !.rewired = FALSE]
<1>1. /\ off \in DrmOutputRec /\ off.abort = (r.abort \/ ~~r.flip)
      /\ off.status = r.status /\ off.idle = r.idle /\ off.feedback = r.feedback
      /\ off.needed = r.needed
  BY DEF Asserted, DrmOutputRec
<1>2. SyncOff(r) = IF Awaiting(r) THEN FinishFrame(off, TRUE, FALSE) ELSE off
  BY DEF SyncOff, Awaiting
<1> HIDE DEF off
<1>3. Sound(off) /\ (Awaiting(off) <=> Awaiting(r))
  BY <1>1 DEF Sound, Awaiting
<1>4. FinishFrame(off, TRUE, FALSE).needed = off.needed
  BY <1>1 DEF FinishFrame, Asserted, DrmOutputRec
<1>5. Sound(SyncOff(r)) /\ ~Awaiting(SyncOff(r)) /\ SyncOff(r).needed = r.needed
  <2>1. CASE Awaiting(r)
    <3>1. Sound(FinishFrame(off, TRUE, FALSE)) /\ FinishFrame(off, TRUE, FALSE).status = "SCHEDULED"
      BY <1>1, <1>3, <2>1, FinishFrameSound
    <3> QED
      BY <1>1, <1>2, <1>4, <2>1, <3>1 DEF Awaiting
  <2>2. CASE ~Awaiting(r)
    BY <1>1, <1>2, <1>3, <2>2
  <2> QED
    BY <2>1, <2>2
<1> QED
  BY <1>5, SyncOffKms DEF Closed

-----------------------------------------------------------------------------
(* Steps.                                                                  *)

(* What follows from the two invariants for an output outside of the       *)
(* handler and inside.                                                     *)
LEMMA CycleFacts ==
  ASSUME Inv, CycleInv, NEW o \in Outputs
  PROVE  /\ out[o] \in DrmOutputRec /\ Closed(out[o]) /\ Booked(o)
         /\ Listed(out[o]) /\ o \in events => out[o].flip
         /\ out[o].pending # "none" => ~sessionOff /\ Listed(out[o]) /\ o \notin events
         /\ ~visiting => out[o].pending = "none" /\ (Awaiting(out[o]) => out[o].flip)
         /\ out[o].flip => Listed(out[o])
<1>1. out[o] \in DrmOutputRec /\ Closed(out[o]) /\ Booked(o)
      /\ (Listed(out[o]) /\ o \in events => out[o].flip)
      /\ (out[o].pending # "none" => ~sessionOff)
  BY DEF Inv, TypeOK, CycleInv
<1>2. ~Listed(out[o]) => out[o].pending = "none" /\ ~out[o].flip
  BY <1>1 DEF Booked, AbsentDrmOutput
<1>3. ~visiting => out[o].pending = "none"
  BY <1>1 DEF Booked
<1> QED
  BY <1>1, <1>2, <1>3 DEF Closed

(* A step in which nothing is put aside, put in flight or completed.       *)
LEMMA KeepsCycle ==
  ASSUME Inv, CycleInv,
         \A o \in Outputs : /\ Closed(out'[o])
                            /\ out'[o].life = out[o].life /\ out'[o].flip = out[o].flip
                            /\ out'[o].pending = out[o].pending,
         UNCHANGED <<atomic, events>>, ~failed', sessionOff' => Asleep(power'),
         sessionOff' => sessionOff \/ ~visiting
  PROVE  CycleInv'
<1>1. ASSUME NEW o \in Outputs
      PROVE  /\ Closed(out[o])'
             /\ (Listed(out[o]) /\ o \in events => out[o].flip)'
             /\ (out[o].pending # "none" => ~sessionOff)'
  <2>1. Closed(out[o])'
    BY DEF Closed
  <2>2. (Listed(out[o]) /\ o \in events => out[o].flip)'
    BY CycleFacts DEF Listed
  <2>3. (out[o].pending # "none" => ~sessionOff)'
    BY CycleFacts
  <2> QED
    BY <2>1, <2>2, <2>3
<1> QED
  BY <1>1 DEF CycleInv

LEMMA ScheduleKeepsCycle ==
  ASSUME Inv, CycleInv, NEW O, NEW p, out' = ScheduleAll(out, O, p),
         UNCHANGED <<atomic, events>>, ~failed', sessionOff' => Asleep(power'),
         sessionOff' => sessionOff \/ ~visiting
  PROVE  CycleInv'
<1>1. \A o \in Outputs : Closed(out'[o]) /\ SameKms(out[o], out'[o])
  BY CycleFacts, ScheduleAllClosed, ScheduleAllKms DEF Inv, TypeOK
<1> QED
  BY <1>1, KeepsCycle DEF SameKms

(* A step of one output.                                                   *)
LEMMA OneKeepsCycle ==
  ASSUME Inv, CycleInv, NEW o \in Outputs, NEW r, out' = [out EXCEPT ![o] = r],
         Closed(r), Listed(r) /\ o \in events' => r.flip,
         r.pending # "none" => ~sessionOff,
         \A p \in Outputs \ {o} : p \in events' => p \in events,
         UNCHANGED <<atomic, power, sessionOff>>, ~failed'
  PROVE  CycleInv'
<1>1. out'[o] = r /\ \A p \in Outputs \ {o} : out'[p] = out[p]
  BY DEF Inv, TypeOK
<1>2. ASSUME NEW p \in Outputs
      PROVE  /\ Closed(out[p])'
             /\ (Listed(out[p]) /\ p \in events => out[p].flip)'
             /\ (out[p].pending # "none" => ~sessionOff)'
  <2>1. CASE p = o
    <3>1. Closed(out[p])'
      BY <1>1, <2>1 DEF Closed
    <3> QED
      BY <1>1, <2>1, <3>1
  <2>2. CASE p # o
    <3>1. Closed(out[p])'
      BY <1>1, <2>2, CycleFacts DEF Closed
    <3> QED
      BY <1>1, <2>2, <3>1, CycleFacts
  <2> QED
    BY <2>1, <2>2
<1> QED
  BY <1>2 DEF CycleInv

(* The start of the loop.                                                  *)
LEMMA IdleRepaintCycle ==
  ASSUME Steady, Inv, CycleInv, UNCHANGED atomic, NEW o \in Outputs, IdleRepaint(o)
  PROVE  CycleInv'
<1> DEFINE r == EnterRepaintLoop(out[o])
<1>1. /\ out[o] \in DrmOutputRec /\ Closed(out[o]) /\ Booked(o)
      /\ out[o].pending = "none" /\ out[o].idle
      /\ Listed(out[o]) /\ o \in events => out[o].flip
  BY CycleFacts DEF IdleRepaint
<1>2. out[o].status = "BEGIN_FROM_IDLE" /\ ~out[o].flip /\ ~out[o].destroyPending
  BY <1>1 DEF Closed, Sound, Awaiting, Booked
<1>3. /\ r \in DrmOutputRec /\ SameKms(out[o], r)
      /\ Sound(r) /\ Awaiting(r) /\ ~r.feedback
  <2>1. Sound(out[o])
    BY <1>1 DEF Closed
  <2> QED
    BY <1>1, <2>1, EnterRepaintLoopKms, EnterRepaintLoopSound
<1>4. /\ UNCHANGED <<power, failed, sessionOff>> /\ ~failed'
  BY DEF IdleRepaint, CycleInv
<1>5. ASSUME NEW stamp \in BOOLEAN, out' = [out EXCEPT ![o] = FinishFrame(r, stamp, TRUE)],
             events' = events
      PROVE  CycleInv'
  <2> DEFINE n == FinishFrame(r, stamp, TRUE)
  <2>1. Sound(n) /\ ~Awaiting(n) /\ SameKms(r, n)
    <3> HIDE DEF r
    <3>1. Sound(n) /\ n.status = "SCHEDULED"
      BY <1>3, FinishFrameSound
    <3> QED
      BY <1>3, <3>1, FinishFrameKms DEF Awaiting
  <2>2. out' = [out EXCEPT ![o] = n]
    BY <1>5
  <2> HIDE DEF n, r
  <2>3. Closed(n) /\ ~n.flip /\ n.pending = "none" /\ Listed(n) = Listed(out[o])
    BY <1>1, <1>2, <1>3, <2>1 DEF Closed, SameKms, Listed
  <2> QED
    BY <1>1, <1>2, <1>4, <1>5, <2>2, <2>3, OneKeepsCycle
<1>6. ASSUME out' = [out EXCEPT ![o] = AssignAsync(r, TRUE)], events' = events \cup {o}
      PROVE  CycleInv'
  <2> DEFINE n == AssignAsync(r, TRUE)
  <2>1. r.pending = "none" /\ ~r.flip /\ (atomic => ~r.dpmsOff)
    <3> HIDE DEF r
    <3> QED
      BY <1>1, <1>2, <1>3 DEF SameKms, Closed
  <2>2. Closed(n) /\ n.flip /\ n.pending = "none"
    <3> HIDE DEF r
    <3> QED
      BY <1>3, <2>1, AssignAsyncClosed, AssignAsyncKms
  <2>3. out' = [out EXCEPT ![o] = n]
    BY <1>6
  <2> HIDE DEF n
  <2> QED
    BY <1>4, <1>6, <2>2, <2>3, OneKeepsCycle
<1> HIDE DEF r
<1>7. CASE events' = events /\ out' \in {[out EXCEPT ![o] = FinishFrame(r, FALSE, TRUE)],
                                         [out EXCEPT ![o] = FinishFrame(r, TRUE, TRUE)]}
  BY <1>5, <1>7
<1>8. CASE /\ "novblank" \in Features
           /\ \E taken \in BOOLEAN, A \in SUBSET {o} :
                /\ events' = events \cup A
                /\ out' = [out EXCEPT ![o] = IF o \in A THEN AssignAsync(r, TRUE)
                                             ELSE IF atomic THEN FinishFrame(r, FALSE, TRUE)
                                             ELSE r]
  <2>1. PICK A \in SUBSET {o} :
          /\ events' = events \cup A
          /\ out' = [out EXCEPT ![o] = IF o \in A THEN AssignAsync(r, TRUE)
                                       ELSE IF atomic THEN FinishFrame(r, FALSE, TRUE)
                                       ELSE r]
    BY <1>8
  <2>2. A = {} \/ A = {o}
    OBVIOUS
  <2>3. atomic
    BY <1>8 DEF Features, Steady
  <2>4. CASE A = {o}
    BY <1>6, <2>1, <2>4
  <2>5. CASE A = {}
    BY <1>7, <2>1, <2>3, <2>5
  <2> QED
    BY <2>2, <2>4, <2>5
<1>9. ~r.destroyPending
  BY <1>2, <1>3 DEF SameKms
<1> QED
  BY <1>7, <1>8, <1>9 DEF IdleRepaint, r

(* A repaint puts a state aside, and the last frame of a fade-out puts a   *)
(* power-off in its place or parks it.                                     *)
LEMMA PaintedClosed ==
  ASSUME NEW o \in Outputs, out[o] \in DrmOutputRec, Closed(out[o]),
         out[o].status = "SCHEDULED", NEW taken \in BOOLEAN
  PROVE  LET n == Painted(o, taken, TRUE)
         IN  Closed(n) /\ Awaiting(n) /\ n.pending = "on"
<1> DEFINE n == Painted(o, taken, TRUE)
<1>1. ~out[o].flip
  BY DEF Closed, Awaiting
<1>2. /\ n.abort = (out[o].abort \/ ~~out[o].flip)
      /\ n.idle = out[o].idle /\ n.status = "AWAITING_COMPLETION"
      /\ n.pending = "on" /\ n.flip = out[o].flip /\ n.dpmsOff = out[o].dpmsOff
  BY DEF Painted, RepaintDone, Asserted, DrmOutputRec
<1>3. n \in DrmOutputRec
  BY PaintedKms
<1> HIDE DEF n
<1>4. Closed(n) /\ Awaiting(n)
  BY <1>1, <1>2, <1>3 DEF Closed, Sound, Awaiting, DrmOutputRec
<1> QED
  BY <1>2, <1>4 DEF n

LEMMA PowerOffInLoopClosed ==
  ASSUME NEW r \in DrmOutputRec, Closed(r), ~atomic
  PROVE  LET n == PowerOffInLoop(r)
         IN  Closed(n) /\ (n.pending # "none" => r.pending # "none" \/ ~r.flip)
<1>1. CASE ~r.on
  BY <1>1 DEF PowerOffInLoop, Closed
<1>2. CASE r.on /\ r.flip
  <2> DEFINE n == [r EXCEPT !.dpmsOff = TRUE]
  <2>1. /\ n.abort = r.abort /\ n.idle = r.idle /\ n.status = r.status
        /\ n.feedback = r.feedback /\ n.flip = r.flip /\ n.pending = r.pending
    BY DEF DrmOutputRec
  <2>2. PowerOffInLoop(r) = n
    BY <1>2 DEF PowerOffInLoop
  <2> HIDE DEF n
  <2>3. Closed(n)
    BY <2>1 DEF Closed, Sound, Awaiting
  <2> QED
    BY <2>1, <2>2, <2>3
<1>3. CASE r.on /\ ~r.flip
  <2> DEFINE n == [r EXCEPT !.pending = "off"]
  <2>1. /\ n.abort = r.abort /\ n.idle = r.idle /\ n.status = r.status
        /\ n.feedback = r.feedback /\ n.flip = r.flip /\ n.pending = "off"
    BY DEF DrmOutputRec
  <2>2. PowerOffInLoop(r) = n
    BY <1>3 DEF PowerOffInLoop
  <2> HIDE DEF n
  <2>3. Closed(n)
    BY <1>3, <2>1 DEF Closed, Sound, Awaiting
  <2> QED
    BY <1>3, <2>2, <2>3
<1> QED
  BY <1>1, <1>2, <1>3 DEF DrmOutputRec

LEMMA VisitOutputCycle ==
  ASSUME Steady, Inv, CycleInv, UNCHANGED atomic, NEW o \in Outputs, VisitOutput(o)
  PROVE  CycleInv'
<1>1. /\ visiting /\ UNCHANGED <<events, sessionOff>>
      /\ o \in OutputList
      /\ out \in [Outputs -> DrmOutputRec]
  BY DEF VisitOutput, Inv, TypeOK
<1>2. CASE UNCHANGED <<out, power, failed>>
  BY <1>1, <1>2, CycleFacts, KeepsCycle DEF CycleInv
<1>3. CASE /\ ReadyToRepaint(out[o])
           /\ out' = [out EXCEPT ![o] = ScheduleRepaintReset(@)]
           /\ UNCHANGED <<power, failed>>
  <2> DEFINE r == ScheduleRepaintReset(out[o])
  <2>1. out[o].status = "SCHEDULED" /\ out[o] \in DrmOutputRec /\ Closed(out[o])
        /\ (Listed(out[o]) /\ o \in events => out[o].flip)
        /\ (out[o].pending # "none" => ~sessionOff)
    BY <1>3, CycleFacts DEF ReadyToRepaint
  <2>2. Sound(r) /\ ~Awaiting(r)
    BY <2>1, ResetSound DEF Closed
  <2>3. SameKms(out[o], r)
    BY <2>1, ResetKms
  <2>4. out' = [out EXCEPT ![o] = r]
    BY <1>3
  <2> HIDE DEF r
  <2>5. Closed(r)
    BY <2>1, <2>2, <2>3, SameKmsClosed DEF Awaiting
  <2> QED
    BY <1>1, <1>3, <2>1, <2>3, <2>4, <2>5, OneKeepsCycle DEF SameKms, Listed, CycleInv
<1>4. CASE ReadyToRepaint(out[o]) /\ ~DropFromCycle(out[o], power) /\ RepaintOutput(o)
  <2>1. PICK taken \in BOOLEAN, drawn \in BOOLEAN, locks \in BOOLEAN,
             D \in {{}, {o}, OutputList} :
          LET ok      == drawn /\ ~out[o].destroyPending
              painted == RepaintDone(Asserted(out[o], ~out[o].flip), taken, ok)
              damaged == ScheduleAll([out EXCEPT ![o] =
                                        [painted EXCEPT !.pending = IF ok THEN "on" ELSE "none"]],
                                     D, power)
              slept   == [p \in Outputs |-> IF locks /\ Listed(damaged[p])
                                            THEN PowerOffInLoop(damaged[p]) ELSE damaged[p]]
          IN  /\ ~drawn => "renderfail" \in Features
              /\ locks => "sleeploop" \in Features /\ power = "IDLE" /\ out[o].on
              /\ out' = IF ok THEN slept ELSE [slept EXCEPT ![o] = ScheduleRepaintReset(@)]
              /\ power' = IF locks THEN "SLEEPING" ELSE power
              /\ failed' = ~ok
              /\ todo' = IF ok THEN todo \ {o} ELSE {}
    BY <1>4 DEF RepaintOutput
  <2>2. /\ out[o].status = "SCHEDULED" /\ out[o] \in DrmOutputRec /\ Closed(out[o])
        /\ Booked(o) /\ ~Asleep(power) /\ ~sessionOff
    BY <1>4, CycleFacts DEF ReadyToRepaint, DropFromCycle, CycleInv
  <2>3. ~out[o].flip /\ ~out[o].destroyPending
    BY <2>2 DEF Closed, Awaiting, Booked
  <2>4. (drawn /\ ~out[o].destroyPending) = TRUE
    BY <2>1, <2>3 DEF Features, Steady
  <2>5. locks => ~atomic
    BY <2>1 DEF Features, Steady
  <2> DEFINE r       == Painted(o, taken, TRUE)
             records == [out EXCEPT ![o] = r]
             damaged == ScheduleAll(records, D, power)
             slept   == [p \in Outputs |-> IF locks /\ Listed(damaged[p])
                                           THEN PowerOffInLoop(damaged[p]) ELSE damaged[p]]
  <2>6. out' = slept /\ ~failed' /\ power' = IF locks THEN "SLEEPING" ELSE power
    BY <2>1, <2>4 DEF Painted
  <2>7. /\ r \in DrmOutputRec /\ Closed(r) /\ r.life = out[o].life /\ r.flip = out[o].flip
    BY <2>2, PaintedKms, PaintedClosed
  <2> HIDE DEF r
  <2>8. /\ records \in [Outputs -> DrmOutputRec]
        /\ \A p \in Outputs : /\ Closed(records[p]) /\ records[p].life = out[p].life
                              /\ records[p].flip = out[p].flip
    <3>1. /\ records \in [Outputs -> DrmOutputRec] /\ records[o] = r
          /\ \A p \in Outputs \ {o} : records[p] = out[p]
      BY <1>1, <2>7
    <3> HIDE DEF records
    <3>2. ASSUME NEW p \in Outputs
          PROVE  /\ Closed(records[p]) /\ records[p].life = out[p].life
                 /\ records[p].flip = out[p].flip
      <4>1. CASE p = o
        BY <2>7, <3>1, <4>1
      <4>2. CASE p # o
        BY <3>1, <4>2, CycleFacts
      <4> QED
        BY <4>1, <4>2
    <3> QED
      BY <3>1, <3>2
  <2> HIDE DEF records
  <2>9. /\ damaged \in [Outputs -> DrmOutputRec]
        /\ \A p \in Outputs : Closed(damaged[p]) /\ SameKms(records[p], damaged[p])
    BY <2>8, ScheduleAllKms, ScheduleAllClosed
  <2> HIDE DEF damaged
  <2>10. ASSUME NEW p \in Outputs
         PROVE  /\ Closed(slept[p])
                /\ slept[p].life = damaged[p].life /\ slept[p].flip = damaged[p].flip
    <3>1. CASE locks /\ Listed(damaged[p])
      BY <2>5, <2>9, <3>1, PowerOffInLoopClosed, PowerOffInLoopKms
    <3>2. CASE ~(locks /\ Listed(damaged[p]))
      BY <2>9, <3>2
    <3> QED
      BY <3>1, <3>2
  <2> HIDE DEF slept
  <2>11. ASSUME NEW p \in Outputs
         PROVE  /\ Closed(out[p])'
                /\ (Listed(out[p]) /\ p \in events => out[p].flip)'
                /\ (out[p].pending # "none" => ~sessionOff)'
    <3>1. Closed(out'[p]) /\ out'[p].life = out[p].life /\ out'[p].flip = out[p].flip
      BY <2>6, <2>8, <2>9, <2>10 DEF SameKms
    <3>2. Closed(out[p])'
      BY <3>1 DEF Closed
    <3>3. Listed(out[p]) /\ p \in events => out[p].flip
      BY CycleFacts
    <3> QED
      BY <1>1, <2>2, <3>1, <3>2, <3>3 DEF Listed
  <2> QED
    BY <1>1, <2>2, <2>6, <2>11 DEF CycleInv
<1> QED
  BY <1>2, <1>3, <1>4 DEF VisitOutput

(* The kernel takes everything that was put aside.                         *)
LEMMA AppliedClosed ==
  ASSUME NEW r \in DrmOutputRec, Closed(r)
  PROVE  LET n == Applied(r, r.pending # "none")
         IN  /\ Closed(n)
             /\ r.pending = "on" => n.flip
             /\ n.pending = "none"
             /\ r.pending = "on" => Awaiting(n)
             /\ r.pending = "none" => n = r
<1> DEFINE clear == [r EXCEPT !.pending = "none"]
<1>1. CASE r.pending = "none"
  BY <1>1 DEF Applied
<1>2. ASSUME r.pending # "none"
      PROVE  /\ clear \in DrmOutputRec /\ Sound(clear) /\ ~clear.flip /\ clear.pending = "none"
             /\ (Awaiting(clear) <=> Awaiting(r)) /\ (atomic => ~clear.dpmsOff)
  <2>1. /\ clear \in DrmOutputRec /\ clear.abort = r.abort /\ clear.idle = r.idle
        /\ clear.status = r.status /\ clear.feedback = r.feedback /\ clear.flip = r.flip
        /\ clear.pending = "none" /\ clear.dpmsOff = r.dpmsOff
    BY DEF DrmOutputRec
  <2> HIDE DEF clear
  <2> QED
    BY <1>2, <2>1 DEF Closed, Sound, Awaiting
<1>3. CASE r.pending = "off"
  <2>1. ~atomic
    BY <1>3 DEF Closed
  <2>2. Applied(r, r.pending # "none") = SyncOff(clear)
    BY <1>3, <2>1 DEF Applied
  <2> HIDE DEF clear
  <2> QED
    BY <1>2, <1>3, <2>1, <2>2, SyncOffClosed
<1>4. CASE r.pending = "on"
  <2>1. Applied(r, r.pending # "none") = AssignAsync(clear, TRUE)
    BY <1>4 DEF Applied
  <2>2. Awaiting(r)
    BY <1>4 DEF Closed
  <2> HIDE DEF clear
  <2>3. /\ Closed(AssignAsync(clear, TRUE)) /\ Awaiting(AssignAsync(clear, TRUE))
        /\ AssignAsync(clear, TRUE).flip /\ AssignAsync(clear, TRUE).pending = "none"
    BY <1>2, <1>4, <2>2, AssignAsyncClosed, AssignAsyncKms
  <2> QED
    BY <1>4, <2>1, <2>3
<1> QED
  BY <1>1, <1>3, <1>4 DEF DrmOutputRec

(* When the handler's loop is over, what a commit that starts afresh would *)
(* take from an output in use is given to it by the same commit.           *)
LEMMA ShownIsCommitted ==
  ASSUME Inv, SweepInv, visiting, todo = {}, atomic, stateInvalid, ~sessionOff,
         NEW o \in shown, Listed(out[o])
  PROVE  out[o].pending = "on"
BY DEF SweepInv, Covered, Inv, TypeOK

(* So the kernel has no reason to refuse it.                               *)
LEMMA NotRefused ==
  ASSUME Inv, CycleInv, SweepInv, visiting, todo = {}, atomic, ~sessionOff,
         NEW C, C = {o \in Outputs : out[o].pending # "none"},
         NEW lit, lit = {o \in C : out[o].pending = "on"}
  PROVE  ~Refused(C, lit)
<1>1. C \cap events = {}
  BY CycleFacts
<1>2. ASSUME NEW o \in Unused PROVE o \notin events
  <2>1. o \in active /\ o \in Outputs /\ ~Listed(out[o])
    BY <1>2 DEF Unused, OutputList, Inv, TypeOK
  <2> QED
    BY <2>1 DEF SweepInv
<1>3. ASSUME NEW o \in Blanked PROVE o \notin events
  <2>1. o \in shown /\ o \in Outputs /\ stateInvalid
    BY <1>3 DEF Blanked, Inv, TypeOK
  <2>2. CASE Listed(out[o])
    <3>1. out[o].pending = "on"
      BY <2>1, <2>2, ShownIsCommitted
    <3> QED
      BY <2>1, <3>1, CycleFacts
  <2>3. CASE ~Listed(out[o])
    BY <2>1, <2>3 DEF SweepInv
  <2> QED
    BY <2>2, <2>3
<1>4. ASSUME ~AllowModeset(C, lit), NEW o \in lit PROVE ~out[o].rewired
  BY <1>4 DEF AllowModeset, SweepInv
<1> QED
  BY <1>1, <1>2, <1>3, <1>4 DEF Refused

LEMMA RepaintFlushCycle ==
  ASSUME Steady, Inv, CycleInv, SweepInv, UNCHANGED atomic, RepaintFlush
  PROVE  CycleInv'
<1> DEFINE C   == {o \in Outputs : out[o].pending # "none"}
           lit == {o \in C : out[o].pending = "on"}
<1>1. PICK taken \in BOOLEAN, A \in SUBSET C :
        LET swept   == IF taken THEN Unused ELSE {}
            blanked == IF taken THEN Blanked ELSE {}
        IN  /\ Answer(C, lit, taken, A)
            /\ LeaveHandler([o \in Outputs |-> Applied(out[o], o \in A)])
            /\ events' = events \cup (IF atomic THEN A \cup swept \cup blanked
                                                 ELSE A \cap lit)
  BY DEF RepaintFlush
<1>2. C \cap events = {} /\ (C # {} => ~sessionOff)
  BY CycleFacts
<1>3. A = C /\ (sessionOff => ~taken)
  <2>1. "commitfail" \notin Features
    BY DEF Features, Steady
  <2>2. ~sessionOff => ~atomic \/ ~Refused(C, lit)
    BY NotRefused DEF RepaintFlush
  <2>3. Answer(C, lit, taken, A)
    BY <1>1
  <2> HIDE DEF C, lit
  <2>4. sessionOff => A = {} /\ ~taken
    BY <2>3 DEF Answer
  <2>5. ~sessionOff => A = C
    BY <1>2, <2>1, <2>2, <2>3 DEF Answer
  <2> QED
    BY <1>2, <2>4, <2>5
<1>4. /\ LeaveHandler([o \in Outputs |-> Applied(out[o], o \in A)])
      /\ UNCHANGED <<power, sessionOff>>
      /\ events' \subseteq events \cup Unused \cup (IF taken THEN Blanked ELSE {})
                                \cup (IF atomic THEN A ELSE lit)
  BY <1>1, <1>3 DEF RepaintFlush
<1> DEFINE records[o \in Outputs] == Applied(out[o], out[o].pending # "none")
<1>5. LeaveHandler(records)
  <2>1. \A o \in Outputs : (o \in A) = (out[o].pending # "none")
    BY <1>3
  <2>2. records = [o \in Outputs |-> Applied(out[o], o \in A)]
    BY <2>1
  <2> QED
    BY <1>4, <2>2
<1>6. ASSUME NEW o \in Outputs
      PROVE  /\ records[o] \in DrmOutputRec /\ records[o].life = out[o].life
             /\ Closed(records[o])
             /\ out[o].pending = "on" => records[o].flip
             /\ records[o].pending = "none"
             /\ out[o].pending = "none" => records[o] = out[o]
  <2>1. out[o] \in DrmOutputRec /\ Closed(out[o]) /\ (out[o].pending # "none") \in BOOLEAN
    BY CycleFacts
  <2> QED
    BY <2>1, AppliedClosed, AppliedKms
<1>7. records \in [Outputs -> DrmOutputRec]
  BY <1>6
<1> HIDE DEF records
<1>8. ~failed' /\ \A o \in Outputs : out'[o] = [records[o] EXCEPT !.repainted = FALSE]
  BY <1>5 DEF LeaveHandler
<1>9. ASSUME NEW o \in Outputs
      PROVE  /\ Closed(out[o])'
             /\ (Listed(out[o]) /\ o \in events => out[o].flip)'
             /\ (out[o].pending # "none" => ~sessionOff)'
  <2>1. /\ out'[o].abort = records[o].abort /\ out'[o].idle = records[o].idle
        /\ out'[o].status = records[o].status /\ out'[o].feedback = records[o].feedback
        /\ out'[o].flip = records[o].flip /\ out'[o].pending = "none"
        /\ out'[o].dpmsOff = records[o].dpmsOff /\ out'[o].life = out[o].life
    <3> DEFINE r == records[o]
               n == [r EXCEPT !.repainted = FALSE]
    <3>1. out'[o] = n /\ r \in DrmOutputRec /\ r.pending = "none" /\ r.life = out[o].life
      BY <1>6, <1>8
    <3> HIDE DEF r
    <3>2. /\ n.abort = r.abort /\ n.idle = r.idle /\ n.status = r.status
          /\ n.feedback = r.feedback /\ n.flip = r.flip /\ n.pending = r.pending
          /\ n.dpmsOff = r.dpmsOff /\ n.life = r.life
      BY <3>1 DEF DrmOutputRec
    <3> QED
      BY <3>1, <3>2 DEF r
  <2>2. Closed(out[o])'
    BY <1>6, <2>1 DEF Closed, Sound, Awaiting
  <2>3. ASSUME Listed(out[o]), o \in events' PROVE records[o].flip
    <3>1. o \notin Unused
      BY <2>3 DEF Unused, OutputList
    <3>2. CASE o \in events
      BY <1>6, <2>3, <3>2, CycleFacts
    <3>3. CASE o \in (IF atomic THEN A ELSE lit)
      <4>1. out[o].pending = "on"
        BY <1>3, <3>3, CycleFacts DEF Closed, DrmOutputRec
      <4> QED
        BY <1>6, <4>1
    <3>4. CASE taken /\ o \in Blanked
      <4>1. out[o].pending = "on"
        BY <1>3, <2>3, <3>4, ShownIsCommitted DEF Blanked, RepaintFlush
      <4> QED
        BY <1>6, <4>1
    <3> QED
      BY <1>4, <2>3, <3>1, <3>2, <3>3, <3>4
  <2> QED
    BY <2>1, <2>2, <2>3 DEF Listed
<1> QED
  BY <1>4, <1>8, <1>9 DEF CycleInv

(* The kernel's answer to an output that waits for it.                     *)
LEMMA AbsentClosed == Closed(AbsentDrmOutput) /\ ~Listed(AbsentDrmOutput)
                        /\ AbsentDrmOutput.pending = "none"
BY DEF Closed, Sound, Awaiting, AbsentDrmOutput, Listed

LEMMA FlipEventCycle ==
  ASSUME Steady, Inv, CycleInv, UNCHANGED atomic, NEW o \in Outputs, FlipEvent(o)
  PROVE  CycleInv'
<1> DEFINE a == Asserted(out[o], out[o].flip)
           r == [a EXCEPT !.flip = FALSE]
<1>1. /\ out[o] \in DrmOutputRec /\ Closed(out[o]) /\ Booked(o)
      /\ out[o].pending = "none"
      /\ Listed(out[o]) /\ o \in events => out[o].flip
  BY CycleFacts DEF FlipEvent
<1>2. /\ ~visiting /\ o \in events /\ events' = events \ {o}
      /\ UNCHANGED <<power, sessionOff>> /\ ~failed'
  BY DEF FlipEvent, CycleInv
<1>3. /\ r.abort = (out[o].abort \/ ~out[o].flip) /\ r.idle = out[o].idle
      /\ r.status = out[o].status /\ r.feedback = out[o].feedback /\ r.flip = FALSE
      /\ r.pending = "none" /\ r.dpmsOff = out[o].dpmsOff /\ r.life = out[o].life
      /\ r \in DrmOutputRec
  BY <1>1 DEF Asserted, DrmOutputRec
<1>4. \/ /\ atomic /\ ~Listed(r)
         /\ UNCHANGED out
      \/ /\ Listed(r) \/ ~atomic
         /\ out' = [out EXCEPT ![o] = AbsentDrmOutput]
      \/ /\ Listed(r) \/ ~atomic
         /\ r.dpmsOff
         /\ ApplySync([out EXCEPT ![o] = [r EXCEPT !.dpmsOff = FALSE]], {o})
      \/ /\ Listed(r) \/ ~atomic
         /\ out' = [out EXCEPT ![o] =
                      IF ~r.on /\ r.status # "AWAITING_COMPLETION" THEN r
                      ELSE FinishFrame(r, TRUE, FALSE)]
  BY DEF FlipEvent
<1> HIDE DEF r
<1>5. Listed(r) \/ ~atomic => out[o].flip /\ Awaiting(r) /\ Sound(r)
  <2>1. Listed(r) \/ ~atomic => out[o].flip
    BY <1>1, <1>2, <1>3 DEF Booked, Listed
  <2>2. out[o].flip => Awaiting(r) /\ Sound(r)
    BY <1>1, <1>3 DEF Closed, Sound, Awaiting
  <2> QED
    BY <2>1, <2>2
<1>6. CASE UNCHANGED out /\ atomic /\ ~Listed(r)
  <2>1. ASSUME NEW p \in Outputs
        PROVE  /\ Closed(out[p])'
               /\ (Listed(out[p]) /\ p \in events => out[p].flip)'
               /\ (out[p].pending # "none" => ~sessionOff)'
    <3>1. Closed(out[p])'
      BY <1>6, CycleFacts DEF Closed
    <3> QED
      BY <1>2, <1>6, <3>1, CycleFacts
  <2> QED
    BY <1>2, <2>1 DEF CycleInv
<1>7. ASSUME NEW n, out' = [out EXCEPT ![o] = n], Closed(n), n.pending = "none"
      PROVE  CycleInv'
  BY <1>2, <1>7, OneKeepsCycle
<1>8. CASE out' = [out EXCEPT ![o] = AbsentDrmOutput]
  BY <1>7, <1>8, AbsentClosed
<1>9. CASE /\ Listed(r) \/ ~atomic
           /\ r.dpmsOff
           /\ ApplySync([out EXCEPT ![o] = [r EXCEPT !.dpmsOff = FALSE]], {o})
  <2> DEFINE d       == [r EXCEPT !.dpmsOff = FALSE]
             records == [out EXCEPT ![o] = d]
  <2>1. ~atomic
    BY <1>1, <1>3, <1>9 DEF Closed
  <2>2. /\ d \in DrmOutputRec /\ d.abort = r.abort /\ d.idle = r.idle /\ d.status = r.status
        /\ d.feedback = r.feedback /\ d.flip = FALSE /\ d.pending = "none"
    BY <1>3 DEF DrmOutputRec
  <2>3. out' = [p \in Outputs |-> IF p \in {o} THEN SyncOff(records[p]) ELSE records[p]]
    BY <1>9, <2>1 DEF ApplySync
  <2> HIDE DEF d
  <2>4. records[o] = d /\ \A p \in Outputs \ {o} : records[p] = out[p]
    BY DEF Inv, TypeOK
  <2> HIDE DEF records
  <2>5. out' = [out EXCEPT ![o] = SyncOff(d)]
    BY <2>3, <2>4 DEF Inv, TypeOK
  <2>6. Closed(SyncOff(d)) /\ SyncOff(d).pending = "none"
    <3>1. Sound(d)
      BY <1>5, <1>9, <2>2 DEF Sound, Awaiting
    <3> QED
      BY <2>1, <2>2, <3>1, SyncOffClosed
  <2> QED
    BY <1>7, <2>5, <2>6
<1>10. CASE /\ Listed(r) \/ ~atomic
            /\ out' = [out EXCEPT ![o] =
                         IF ~r.on /\ r.status # "AWAITING_COMPLETION" THEN r
                         ELSE FinishFrame(r, TRUE, FALSE)]
  <2> DEFINE n == FinishFrame(r, TRUE, FALSE)
  <2>1. out' = [out EXCEPT ![o] = n]
    BY <1>5, <1>10 DEF Awaiting
  <2>2. Sound(n) /\ n.status = "SCHEDULED" /\ SameKms(r, n)
    BY <1>3, <1>5, <1>10, FinishFrameSound, FinishFrameKms
  <2> HIDE DEF n
  <2>3. Closed(n) /\ n.pending = "none"
    BY <1>1, <1>3, <2>2 DEF Closed, SameKms, Awaiting
  <2> QED
    BY <1>7, <2>1, <2>3
<1> QED
  BY <1>4, <1>6, <1>8, <1>9, <1>10

(* Only the legacy API is put to sleep by an event; there is no frame to   *)
(* finish of an output that is not in flight.                              *)
LEMMA SleepCycle ==
  ASSUME Steady, Inv, CycleInv, UNCHANGED atomic, Sleep
  PROVE  CycleInv'
<1> DEFINE lit    == {o \in OutputList : out[o].on}
           parked == {o \in lit : out[o].flip}
           records[o \in Outputs] ==
             IF o \in parked THEN [out[o] EXCEPT !.dpmsOff = TRUE] ELSE out[o]
<1>1. ~atomic
  BY DEF Sleep, Features, Steady
<1>2. /\ ~visiting /\ power' = "SLEEPING" /\ ~sessionOff /\ UNCHANGED <<events, sessionOff>>
      /\ ~failed'
  BY DEF Sleep, CycleInv
<1>3. out' = [o \in Outputs |-> IF o \in lit \ parked THEN SyncOff(records[o]) ELSE records[o]]
  <2>1. ApplySync(records, lit \ parked)
    BY DEF Sleep, PowerOffAll
  <2> HIDE DEF records, lit, parked
  <2> QED
    BY <1>1, <2>1 DEF ApplySync
<1>4. ASSUME NEW o \in Outputs
      PROVE  /\ Closed(out'[o])
             /\ out'[o].life = out[o].life /\ out'[o].flip = out[o].flip
             /\ out'[o].pending = out[o].pending
  <2>1. out[o] \in DrmOutputRec /\ Closed(out[o]) /\ out[o].pending = "none"
    BY <1>2, CycleFacts
  <2>2. CASE o \in parked
    <3> DEFINE n == [out[o] EXCEPT !.dpmsOff = TRUE]
    <3>1. out'[o] = n
      BY <1>3, <2>2
    <3>2. /\ n.abort = out[o].abort /\ n.idle = out[o].idle /\ n.status = out[o].status
          /\ n.feedback = out[o].feedback /\ n.flip = out[o].flip
          /\ n.pending = out[o].pending /\ n.life = out[o].life
      BY <2>1 DEF DrmOutputRec
    <3> HIDE DEF n
    <3> QED
      BY <1>1, <2>1, <3>1, <3>2 DEF Closed, Sound, Awaiting
  <2>3. CASE o \in lit \ parked
    <3>1. ~out[o].flip /\ out'[o] = SyncOff(out[o]) /\ Sound(out[o])
      BY <1>3, <2>1, <2>3 DEF Closed
    <3> QED
      BY <1>1, <2>1, <3>1, SyncOffClosed
  <2>4. CASE o \notin lit
    BY <1>3, <2>1, <2>4
  <2> QED
    BY <2>2, <2>3, <2>4
<1>5. Asleep(power')
  BY <1>2 DEF Asleep
<1> QED
  BY <1>2, <1>4, <1>5, KeepsCycle

LEMMA PowerOnClosed ==
  ASSUME NEW r \in DrmOutputRec, Closed(r)
  PROVE  Closed(PowerOn(r)) /\ PowerOn(r).needed \in BOOLEAN
                            /\ (r.needed => PowerOn(r).needed)
<1> DEFINE c == [r EXCEPT !.dpmsOff = FALSE]
<1>1. /\ c \in DrmOutputRec /\ c.abort = r.abort /\ c.idle = r.idle /\ c.status = r.status
      /\ c.feedback = r.feedback /\ c.flip = r.flip /\ c.pending = r.pending /\ ~c.dpmsOff
      /\ c.needed = r.needed
  BY DEF DrmOutputRec
<1> HIDE DEF c
<1>2. Closed(c)
  BY <1>1 DEF Closed, Sound, Awaiting
<1>3. Closed(ScheduleRepaint(c, "ACTIVE"))
  BY <1>1, <1>2, ScheduleClosed
<1>4. PowerOn(r) = r \/ PowerOn(r) = ScheduleRepaint(c, "ACTIVE")
  BY DEF PowerOn, c
<1>5. ScheduleRepaint(c, "ACTIVE").needed
  BY <1>1 DEF ScheduleRepaint, Asserted, Asleep, DrmOutputRec
<1>6. PowerOn(r) \in DrmOutputRec
  BY PowerOnKms
<1> QED
  BY <1>3, <1>4, <1>5, <1>6 DEF DrmOutputRec

LEMMA PowerOnAllCycle ==
  ASSUME Inv, CycleInv, NEW D \in SUBSET OutputList,
         out' = ScheduleAll([o \in Outputs |-> IF Listed(out[o]) THEN PowerOn(out[o])
                                                                ELSE out[o]], D, "ACTIVE"),
         UNCHANGED <<atomic, events>>, ~failed', ~sessionOff'
  PROVE  CycleInv'
<1> DEFINE records[o \in Outputs] == IF Listed(out[o]) THEN PowerOn(out[o]) ELSE out[o]
<1>1. ASSUME NEW o \in Outputs PROVE records[o] \in DrmOutputRec /\ Closed(records[o])
  BY CycleFacts, PowerOnKms, PowerOnClosed
<1>2. records \in [Outputs -> DrmOutputRec]
  BY <1>1
<1>3. out' = ScheduleAll(records, D, "ACTIVE")
  OBVIOUS
<1> HIDE DEF records
<1>4. \A o \in Outputs : Closed(out'[o])
  BY <1>1, <1>2, <1>3, ScheduleAllClosed
<1>5. \A o \in Outputs : /\ out'[o].life = out[o].life /\ out'[o].flip = out[o].flip
                         /\ out'[o].pending = out[o].pending
  BY PowerOnAllKms
<1> QED
  BY <1>4, <1>5, KeepsCycle

LEMMA LifeCycleCycle ==
  ASSUME Steady, Inv, CycleInv, UNCHANGED atomic, NEW o \in Outputs,
         EnableOutput(o) \/ DestroyOutput(o) \/ HeadsChanged(o)
  PROVE  CycleInv'
<1>1. /\ out[o] \in DrmOutputRec /\ Closed(out[o]) /\ out[o].pending = "none"
      /\ UNCHANGED <<power, events, sessionOff>> /\ ~failed'
  BY CycleFacts DEF EnableOutput, DestroyOutput, HeadsChanged, CycleInv
<1>2. CASE EnableOutput(o)
  <2> DEFINE s == ScheduleRepaint(InitDrmOutput, power)
             n == AddOutput(PrepareEnable(InitDrmOutput, power))
  <2>1. o \notin events
    BY <1>2 DEF EnableOutput, Features, Steady
  <2>2. /\ s.abort = FALSE /\ (s.idle <=> s.status = "BEGIN_FROM_IDLE")
        /\ s.status # "AWAITING_COMPLETION" /\ s.flip = FALSE /\ s.pending = "none"
        /\ s.dpmsOff = FALSE /\ s.life = "pending" /\ n.feedback = FALSE
        /\ n.abort = FALSE /\ n.idle = s.idle /\ n.status = s.status /\ n.flip = FALSE
        /\ n.pending = "none" /\ n.dpmsOff = FALSE
    BY DEF AddOutput, PrepareEnable, ScheduleRepaint, Asserted, InitDrmOutput, AbsentDrmOutput
  <2>3. out' = [out EXCEPT ![o] = n]
    BY <1>2 DEF EnableOutput
  <2> HIDE DEF n, s
  <2>4. Closed(n)
    BY <2>2 DEF Closed, Sound, Awaiting
  <2> QED
    BY <1>1, <2>1, <2>2, <2>3, <2>4, OneKeepsCycle
<1>3. CASE out[o].flip /\ out' = [out EXCEPT ![o] =
                                     ScheduleRepaint([@ EXCEPT !.destroyPending = TRUE], power)]
  <2> DEFINE r == [out[o] EXCEPT !.destroyPending = TRUE]
             n == ScheduleRepaint(r, power)
  <2>1. /\ r \in DrmOutputRec
        /\ r.abort = out[o].abort /\ r.idle = out[o].idle /\ r.status = out[o].status
        /\ r.feedback = out[o].feedback /\ r.flip = out[o].flip
        /\ r.pending = out[o].pending /\ r.dpmsOff = out[o].dpmsOff
    BY <1>1 DEF DrmOutputRec
  <2>2. out' = [out EXCEPT ![o] = n]
    BY <1>3
  <2> HIDE DEF r
  <2>3. Closed(r)
    BY <1>1, <2>1 DEF Closed, Sound, Awaiting
  <2>4. Closed(n) /\ SameKms(r, n)
    BY <2>1, <2>3, ScheduleClosed, ScheduleRepaintKms
  <2> HIDE DEF n
  <2> QED
    BY <1>1, <1>3, <2>1, <2>2, <2>4, OneKeepsCycle DEF SameKms
<1>4. CASE out' = [out EXCEPT ![o] = AbsentDrmOutput]
  BY <1>1, <1>4, AbsentClosed, OneKeepsCycle
<1>5. CASE HeadsChanged(o)
  <2>1. PICK w \in BOOLEAN : out' = ScheduleAll([out EXCEPT ![o].rewired = w], {o}, power)
    BY <1>5 DEF HeadsChanged
  <2> DEFINE records == [out EXCEPT ![o].rewired = w]
  <2>2. \A p \in Outputs :
          LET n == records[p]
          IN  /\ n \in DrmOutputRec
              /\ n.abort = out[p].abort /\ n.idle = out[p].idle /\ n.status = out[p].status
              /\ n.feedback = out[p].feedback /\ n.flip = out[p].flip /\ n.life = out[p].life
              /\ n.pending = out[p].pending /\ n.dpmsOff = out[p].dpmsOff
    <3>1. ASSUME NEW r \in DrmOutputRec
          PROVE  LET n == [r EXCEPT !.rewired = w]
                 IN  /\ n \in DrmOutputRec
                     /\ n.abort = r.abort /\ n.idle = r.idle /\ n.status = r.status
                     /\ n.feedback = r.feedback /\ n.flip = r.flip /\ n.life = r.life
                     /\ n.pending = r.pending /\ n.dpmsOff = r.dpmsOff
      BY DEF DrmOutputRec
    <3>2. out \in [Outputs -> DrmOutputRec]
      BY DEF Inv, TypeOK
    <3>3. \A p \in Outputs : records[p] = out[p] \/ records[p] = [out[p] EXCEPT !.rewired = w]
      BY <3>2
    <3> HIDE DEF records
    <3>4. ASSUME NEW p \in Outputs, records[p] = [out[p] EXCEPT !.rewired = w]
          PROVE  LET n == records[p]
                 IN  /\ n \in DrmOutputRec
                     /\ n.abort = out[p].abort /\ n.idle = out[p].idle /\ n.status = out[p].status
                     /\ n.feedback = out[p].feedback /\ n.flip = out[p].flip /\ n.life = out[p].life
                     /\ n.pending = out[p].pending /\ n.dpmsOff = out[p].dpmsOff
      BY <3>1, <3>2, <3>4
    <3> QED
      BY <3>2, <3>3, <3>4
  <2>3. records \in [Outputs -> DrmOutputRec]
    BY <2>2 DEF Inv, TypeOK
  <2> HIDE DEF records
  <2>4. ASSUME NEW p \in Outputs PROVE Closed(records[p])
    BY <2>2, CycleFacts DEF Closed, Sound, Awaiting
  <2>5. \A p \in Outputs : Closed(out'[p]) /\ SameKms(records[p], out'[p])
    BY <2>1, <2>3, <2>4, ScheduleAllClosed, ScheduleAllKms DEF records
  <2>6. \A p \in Outputs : /\ out'[p].life = out[p].life /\ out'[p].flip = out[p].flip
                           /\ out'[p].pending = out[p].pending
    BY <2>2, <2>5 DEF SameKms
  <2>7. sessionOff' => Asleep(power')
    BY <1>1 DEF CycleInv, Asleep
  <2> QED
    BY <1>1, <2>5, <2>6, <2>7, KeepsCycle
<1> QED
  BY <1>2, <1>3, <1>4, <1>5 DEF DestroyOutput

LEMMA NextCycle == Steady /\ Inv /\ CycleInv /\ SweepInv /\ [Next]_vars => CycleInv'
<1> SUFFICES ASSUME Steady, Inv, CycleInv, SweepInv, [Next]_vars PROVE CycleInv'
  OBVIOUS
<1>1. CASE UNCHANGED vars
  BY <1>1, CycleFacts, KeepsCycle DEF vars, CycleInv
<1> SUFFICES ASSUME Next PROVE CycleInv'
  BY <1>1
<1>2. UNCHANGED atomic
  BY DEF Next
<1>3. ~failed /\ (sessionOff => Asleep(power))
  BY DEF CycleInv
<1>4. ASSUME NEW o \in Outputs, IdleRepaint(o) PROVE CycleInv'
  BY <1>2, <1>4, IdleRepaintCycle
<1>5. ASSUME NEW o \in Outputs, Tick(o) PROVE CycleInv'
  <2> DEFINE n == [out[o] EXCEPT !.due = TRUE]
  <2>1. /\ out[o] \in DrmOutputRec /\ Closed(out[o])
        /\ Listed(out[o]) /\ o \in events => out[o].flip
        /\ out[o].pending # "none" => ~sessionOff
    BY CycleFacts
  <2>2. /\ n.abort = out[o].abort /\ n.idle = out[o].idle /\ n.status = out[o].status
        /\ n.feedback = out[o].feedback /\ n.flip = out[o].flip /\ n.life = out[o].life
        /\ n.pending = out[o].pending /\ n.dpmsOff = out[o].dpmsOff
    BY <2>1 DEF DrmOutputRec
  <2>3. out' = [out EXCEPT ![o] = n]
    BY <1>5 DEF Tick
  <2> HIDE DEF n
  <2>4. Closed(n)
    BY <2>1, <2>2 DEF Closed, Sound, Awaiting
  <2>5. Listed(n) /\ o \in events' => n.flip
    BY <1>5, <2>1, <2>2 DEF Tick, Listed
  <2> QED
    BY <1>2, <1>3, <1>5, <2>1, <2>2, <2>3, <2>4, <2>5, OneKeepsCycle DEF Tick
<1>6. ASSUME NEW o \in Outputs, VisitOutput(o) PROVE CycleInv'
  BY <1>2, <1>6, VisitOutputCycle
<1>7. ASSUME NEW o \in Outputs, FlipEvent(o) PROVE CycleInv'
  BY <1>2, <1>7, FlipEventCycle
<1>8. ASSUME NEW o \in Outputs, Damage(o) PROVE CycleInv'
  BY <1>2, <1>3, <1>8, ScheduleKeepsCycle DEF Damage
<1>9. ASSUME NEW o \in Outputs, EnableOutput(o) \/ DestroyOutput(o) \/ HeadsChanged(o)
      PROVE  CycleInv'
  BY <1>2, <1>9, LifeCycleCycle
<1>11. CASE RepaintTimer
  BY <1>2, <1>3, <1>11, CycleFacts, KeepsCycle DEF RepaintTimer
<1>12. CASE RepaintFlush
  BY <1>2, <1>12, RepaintFlushCycle
<1>13. CASE RepaintCancel
  BY <1>3, <1>13 DEF RepaintCancel
<1>14. CASE IdleTimeout
  BY <1>2, <1>3, <1>14, ScheduleKeepsCycle DEF IdleTimeout
<1>15. CASE Sleep
  BY <1>2, <1>15, SleepCycle
<1>16. CASE Wake
  <2>1. PICK D \in {{}, OutputList} :
          out' = ScheduleAll([o \in Outputs |-> IF Listed(out[o]) THEN PowerOn(out[o])
                                                                 ELSE out[o]], D, "ACTIVE")
    BY <1>16 DEF Wake
  <2>2. D \in SUBSET OutputList
    OBVIOUS
  <2> QED
    BY <1>2, <1>3, <1>16, <2>1, <2>2, PowerOnAllCycle DEF Wake
<1>17. CASE LeaveSession
  <2>1. ASSUME NEW o \in Outputs
        PROVE  /\ Closed(out'[o])
               /\ out'[o].life = out[o].life /\ out'[o].flip = out[o].flip
               /\ out'[o].pending = out[o].pending
    <3> DEFINE n == [out[o] EXCEPT !.needed = FALSE]
    <3>1. out[o] \in DrmOutputRec /\ Closed(out[o])
      BY CycleFacts
    <3>2. /\ n.abort = out[o].abort /\ n.idle = out[o].idle /\ n.status = out[o].status
          /\ n.feedback = out[o].feedback /\ n.flip = out[o].flip /\ n.life = out[o].life
          /\ n.pending = out[o].pending /\ n.dpmsOff = out[o].dpmsOff
      BY <3>1 DEF DrmOutputRec
    <3>3. out'[o] = n \/ out'[o] = out[o]
      BY <1>17 DEF LeaveSession
    <3> HIDE DEF n
    <3>4. Closed(n)
      BY <3>1, <3>2 DEF Closed, Sound, Awaiting
    <3> QED
      BY <3>1, <3>2, <3>3, <3>4
  <2> QED
    BY <1>2, <1>3, <1>17, <2>1, KeepsCycle DEF LeaveSession, Asleep
<1>18. CASE EnterSession
  BY <1>2, <1>3, <1>18, PowerOnAllCycle DEF EnterSession
<1> QED
  BY <1>4, <1>5, <1>6, <1>7, <1>8, <1>9, <1>11, <1>12, <1>13, <1>14, <1>15, <1>16,
     <1>17, <1>18 DEF Next

-----------------------------------------------------------------------------
(* What a commit that starts afresh sweeps away.                           *)

LEMMA ScheduleRepaintDamages ==
  ASSUME NEW r \in DrmOutputRec, NEW p
  PROVE  LET n == ScheduleRepaint(r, p)
         IN  /\ r.needed => n.needed
             /\ Asleep(p) => n = r
             /\ ~Asleep(p) => n.needed
             /\ n.status = "BEGIN_FROM_IDLE" => n.needed \/ n = r
<1>1. \/ Asleep(p) /\ ScheduleRepaint(r, p) = r
      \/ /\ ~Asleep(p)
         /\ ScheduleRepaint(r, p) = [r EXCEPT !.needed = TRUE]
      \/ /\ ~Asleep(p)
         /\ ScheduleRepaint(r, p) = [Asserted(r, ~r.idle) EXCEPT !.needed = TRUE,
                                       !.status = "BEGIN_FROM_IDLE", !.idle = TRUE]
  BY DEF ScheduleRepaint
<1>2. [r EXCEPT !.needed = TRUE].needed
  BY DEF DrmOutputRec
<1>3. [Asserted(r, ~r.idle) EXCEPT !.needed = TRUE, !.status = "BEGIN_FROM_IDLE",
                                   !.idle = TRUE].needed
  BY DEF Asserted, DrmOutputRec
<1> QED
  BY <1>1, <1>2, <1>3

LEMMA FinishFrameDamage ==
  ASSUME NEW r \in DrmOutputRec, NEW stamp \in BOOLEAN, NEW invalid \in BOOLEAN
  PROVE  LET n == FinishFrame(r, stamp, invalid)
         IN  n.needed = r.needed /\ n.status = "SCHEDULED"
BY DEF FinishFrame, Asserted, DrmOutputRec

(* A step that does nothing to the kernel's side, and leaves what is to be *)
(* repainted to be repainted.                                              *)
LEMMA KeepsSweep ==
  ASSUME Inv, SweepInv,
         \A o \in Outputs : /\ out'[o].life = out[o].life /\ out'[o].on = out[o].on
                            /\ out'[o].rewired = out[o].rewired
                            /\ out'[o].destroyPending = out[o].destroyPending
                            /\ out[o].pending = "on" => out'[o].pending = "on"
                            /\ out[o].needed => out'[o].needed
                            /\ visiting /\ ReadyToRepaint(out[o]) => ReadyToRepaint(out'[o]),
         UNCHANGED <<atomic, visiting, todo, stateInvalid, active, shown, sessionOff>>,
         events' \subseteq events,
         power' = power \/ power' \in {"ACTIVE", "IDLE"}
  PROVE  SweepInv'
<1>1. OutputList' = OutputList /\ (Alone' <=> Alone)
  BY SameList DEF Alone
<1>2. ASSUME NEW o \in Outputs, out'[o].on PROVE o \in shown'
  BY <1>2 DEF SweepInv
<1>3. ASSUME atomic', NEW o \in Outputs
      PROVE  /\ (~Listed(out[o]) /\ o \in events => o \notin active \cup shown)'
             /\ (out[o].rewired => stateInvalid \/ ~out[o].on)'
             /\ (out[o].destroyPending => Alone)'
             /\ (stateInvalid /\ ~sessionOff /\ o \in shown /\ Listed(out[o])
                   => Alone /\ Covered(o))'
  BY <1>1, <1>3 DEF SweepInv, Covered, Listed
<1>4. ASSUME atomic'
      PROVE  /\ power' # "SLEEPING" /\ (power' = "OFFSCREEN" => sessionOff')
             /\ sessionOff' => Alone' \/ OutputList' \cap shown' = {}
  BY <1>1, <1>4 DEF SweepInv
<1> QED
  BY <1>2, <1>3, <1>4 DEF SweepInv

LEMMA ScheduleKeepsSweep ==
  ASSUME Inv, SweepInv, NEW O, NEW p, out' = ScheduleAll(out, O, p),
         UNCHANGED <<atomic, visiting, todo, stateInvalid, events, active, shown, sessionOff>>,
         ~visiting,
         power' = power \/ power' \in {"ACTIVE", "IDLE"}
  PROVE  SweepInv'
<1>1. out \in [Outputs -> DrmOutputRec]
  BY DEF Inv, TypeOK
<1>2. ASSUME NEW o \in Outputs
      PROVE  SameKms(out[o], out'[o]) /\ (out[o].needed => out'[o].needed)
  <2>1. out'[o] = ScheduleRepaint(out[o], p) \/ out'[o] = out[o]
    BY DEF ScheduleAll
  <2> QED
    BY <1>1, <2>1, ScheduleRepaintKms, ScheduleRepaintDamages DEF SameKms
<1> QED
  BY <1>2, KeepsSweep DEF SameKms

(* Dark outputs of the legacy API lose nothing that is lit.                *)
LEMMA ApplySyncShown ==
  ASSUME ~atomic, NEW records \in [Outputs -> DrmOutputRec], NEW O \in SUBSET Outputs,
         ApplySync(records, O),
         \A o \in Outputs : records[o].on => o \in shown /\ o \in OutputList
  PROVE  \A o \in Outputs : out'[o].on => o \in shown'
<1>1. PICK A \in SUBSET O :
    LET swept == IF O = {} \/ sessionOff THEN {} ELSE Unused
    IN  /\ out' = [o \in Outputs |-> IF o \in O THEN SyncOff(records[o]) ELSE records[o]]
        /\ shown' = shown \ (A \cup swept \cup (IF A = {} THEN {} ELSE Blanked))
  BY DEF ApplySync
<1>2. Blanked = {} /\ Unused \cap OutputList = {}
  BY DEF Blanked, Unused
<1>3. ASSUME NEW o \in Outputs, out'[o].on PROVE o \in shown'
  <2>1. o \notin O
    BY <1>1, <1>3, SyncOffKms
  <2>2. out'[o] = records[o]
    BY <1>1, <2>1
  <2> QED
    BY <1>1, <1>2, <1>3, <2>1, <2>2
<1> QED
  BY <1>3

LEMMA EnterRepaintLoopDamage ==
  ASSUME NEW r \in DrmOutputRec
  PROVE  EnterRepaintLoop(r).needed = r.needed
BY DEF EnterRepaintLoop, Asserted, DrmOutputRec

LEMMA IdleRepaintSweep ==
  ASSUME Steady, Inv, CycleInv, SweepInv, UNCHANGED atomic, NEW o \in Outputs, IdleRepaint(o)
  PROVE  SweepInv'
<1> DEFINE r == EnterRepaintLoop(out[o])
<1>1. /\ out[o] \in DrmOutputRec /\ out[o].pending = "none" /\ ~visiting
      /\ out[o].idle
      /\ UNCHANGED <<visiting, todo, stateInvalid, active, power, sessionOff>>
  BY CycleFacts DEF IdleRepaint
<1>2. o \in OutputList
  BY <1>1 DEF Inv, Booked, AbsentDrmOutput, OutputList
<1>3. r \in DrmOutputRec /\ SameKms(out[o], r) /\ r.needed = out[o].needed
  BY <1>1, EnterRepaintLoopKms, EnterRepaintLoopDamage
<1>4. ASSUME NEW n \in DrmOutputRec, out' = [out EXCEPT ![o] = n], SameKms(r, n),
             n.needed = r.needed, UNCHANGED <<events, shown>>
      PROVE  SweepInv'
  <2>1. out'[o] = n /\ \A p \in Outputs \ {o} : out'[p] = out[p]
    BY <1>4 DEF Inv, TypeOK
  <2>2. \A p \in Outputs : SameKms(out[p], out'[p]) /\ out'[p].needed = out[p].needed
    BY <1>3, <1>4, <2>1 DEF SameKms
  <2> QED
    BY <1>1, <1>4, <2>2, KeepsSweep DEF SameKms
<1>5. ASSUME NEW stamp \in BOOLEAN, NEW invalid \in BOOLEAN,
             out' = [out EXCEPT ![o] = FinishFrame(r, stamp, invalid)],
             UNCHANGED <<events, shown>>
      PROVE  SweepInv'
  <2> HIDE DEF r
  <2>1. /\ FinishFrame(r, stamp, invalid) \in DrmOutputRec
        /\ SameKms(r, FinishFrame(r, stamp, invalid))
        /\ FinishFrame(r, stamp, invalid).needed = r.needed
    BY <1>3, FinishFrameKms, FinishFrameDamage
  <2> QED
    BY <1>4, <1>5, <2>1
<1>6. ASSUME ~stateInvalid, r.on, out' = [out EXCEPT ![o] = AssignAsync(r, TRUE)],
             events' = events \cup {o}, shown' = shown \cup {o}
      PROVE  SweepInv'
  <2> DEFINE n == AssignAsync(r, TRUE)
  <2>1. /\ n.on /\ n.life = out[o].life /\ ~n.rewired
        /\ n.destroyPending = out[o].destroyPending
    <3> HIDE DEF r
    <3> QED
      BY <1>3, AssignAsyncKms DEF SameKms
  <2> HIDE DEF n, r
  <2>2. out'[o] = n /\ \A p \in Outputs \ {o} : out'[p] = out[p]
    BY <1>6 DEF Inv, TypeOK, n
  <2>3. OutputList' = OutputList /\ (Alone' <=> Alone)
    BY <2>1, <2>2, SameList DEF Alone
  <2>4. o \in shown
    BY <1>3, <1>6 DEF SweepInv, SameKms
  <2>5. shown' = shown
    BY <1>6, <2>4
  <2>6. ASSUME NEW p \in Outputs, out'[p].on PROVE p \in shown'
    BY <2>2, <2>4, <2>5, <2>6 DEF SweepInv
  <2>7. ASSUME atomic', NEW p \in Outputs
        PROVE  /\ (~Listed(out[p]) /\ p \in events => p \notin active \cup shown)'
               /\ (out[p].rewired => stateInvalid \/ ~out[p].on)'
               /\ (out[p].destroyPending => Alone)'
               /\ (stateInvalid /\ ~sessionOff /\ p \in shown /\ Listed(out[p])
                     => Alone /\ Covered(p))'
    BY <1>1, <1>2, <1>6, <2>1, <2>2, <2>3, <2>5, <2>7 DEF SweepInv, OutputList, Listed
  <2> QED
    BY <1>1, <2>3, <2>5, <2>6, <2>7 DEF SweepInv
<1> HIDE DEF r
<1>7. SameKms(r, r)
  BY DEF SameKms
<1>8. CASE /\ out' \in {[out EXCEPT ![o] = r], [out EXCEPT ![o] = FinishFrame(r, FALSE, TRUE)],
                        [out EXCEPT ![o] = FinishFrame(r, TRUE, TRUE)]}
           /\ UNCHANGED <<events, shown>>
  BY <1>3, <1>4, <1>5, <1>7, <1>8
<1>9. CASE \E taken \in BOOLEAN, A \in SUBSET {o} :
             /\ r.on /\ ~stateInvalid
             /\ events' = events \cup A
             /\ shown' = shown \cup A
             /\ out' = [out EXCEPT ![o] = IF o \in A THEN AssignAsync(r, TRUE)
                                          ELSE IF atomic THEN FinishFrame(r, FALSE, TRUE)
                                          ELSE r]
  <2>1. PICK A \in SUBSET {o} :
             /\ r.on /\ ~stateInvalid
             /\ events' = events \cup A
             /\ shown' = shown \cup A
             /\ out' = [out EXCEPT ![o] = IF o \in A THEN AssignAsync(r, TRUE)
                                          ELSE IF atomic THEN FinishFrame(r, FALSE, TRUE)
                                          ELSE r]
    BY <1>9
  <2>2. A = {} \/ A = {o}
    OBVIOUS
  <2>3. CASE A = {o}
    BY <1>6, <2>1, <2>3
  <2>4. CASE A = {}
    BY <1>8, <2>1, <2>4
  <2> QED
    BY <2>2, <2>3, <2>4
<1> QED
  BY <1>8, <1>9 DEF IdleRepaint, r

(* The handler enters its loop when an output is due: if one shows         *)
(* something while state_invalid is set, it is that one.                   *)
LEMMA RepaintTimerSweep ==
  ASSUME Steady, Inv, SweepInv, UNCHANGED atomic, RepaintTimer
  PROVE  SweepInv'
<1>1. /\ UNCHANGED <<out, power, stateInvalid, events, active, shown, sessionOff>>
      /\ ~visiting /\ visiting' /\ todo' = OutputList
      /\ atomic => \E o \in OutputList : ReadyToRepaint(out[o])
  BY DEF RepaintTimer, Apart, Features, Steady
<1>2. OutputList' = OutputList /\ (Alone' <=> Alone)
  BY <1>1, SameList DEF Alone
<1>3. ASSUME atomic, NEW o \in Outputs,
             stateInvalid /\ ~sessionOff /\ o \in shown /\ Listed(out[o])
      PROVE  Alone' /\ Covered(o)'
  <2>1. Alone /\ out[o].needed /\ o \in OutputList
    BY <1>1, <1>3 DEF SweepInv, Covered, Inv, Booked, OutputList
  <2>2. ReadyToRepaint(out[o])
    BY <1>1, <1>3, <2>1 DEF Alone
  <2> QED
    BY <1>1, <1>2, <2>1, <2>2 DEF Covered
<1> QED
  BY <1>1, <1>2, <1>3 DEF SweepInv, Listed

(* A repaint of output o: nothing applied changes, and with the atomic API *)
(* it leaves a state of o put aside.                                       *)
LEMMA RepaintOutputKms ==
  ASSUME Steady, Inv, CycleInv, NEW o \in OutputList, out[o].status = "SCHEDULED",
         RepaintOutput(o)
  PROVE  /\ \A p \in Outputs : /\ out'[p].life = out[p].life /\ out'[p].on = out[p].on
                               /\ out'[p].rewired = out[p].rewired
                               /\ out'[p].destroyPending = out[p].destroyPending
         /\ atomic => out'[o].pending = "on" /\ power' = power
<1>1. PICK taken \in BOOLEAN, drawn \in BOOLEAN, locks \in BOOLEAN,
           D \in {{}, {o}, OutputList} :
        LET ok      == drawn /\ ~out[o].destroyPending
            painted == RepaintDone(Asserted(out[o], ~out[o].flip), taken, ok)
            damaged == ScheduleAll([out EXCEPT ![o] =
                                      [painted EXCEPT !.pending = IF ok THEN "on" ELSE "none"]],
                                   D, power)
            slept   == [p \in Outputs |-> IF locks /\ Listed(damaged[p])
                                          THEN PowerOffInLoop(damaged[p]) ELSE damaged[p]]
        IN  /\ ~drawn => "renderfail" \in Features
            /\ locks => "sleeploop" \in Features /\ power = "IDLE" /\ out[o].on
            /\ out' = IF ok THEN slept ELSE [slept EXCEPT ![o] = ScheduleRepaintReset(@)]
            /\ power' = IF locks THEN "SLEEPING" ELSE power
            /\ failed' = ~ok
            /\ todo' = IF ok THEN todo \ {o} ELSE {}
  BY DEF RepaintOutput
<1>2. /\ out[o] \in DrmOutputRec /\ o \in Outputs /\ Closed(out[o]) /\ Booked(o)
      /\ out \in [Outputs -> DrmOutputRec]
  BY CycleFacts DEF OutputList, Inv, TypeOK
<1>3. (drawn /\ ~out[o].destroyPending) = TRUE
  BY <1>1, <1>2 DEF Closed, Awaiting, Booked, Features, Steady
<1>4. locks => ~atomic
  BY <1>1 DEF Features, Steady
<1> DEFINE r       == Painted(o, taken, TRUE)
           records == [out EXCEPT ![o] = r]
           damaged == ScheduleAll(records, D, power)
           slept   == [p \in Outputs |-> IF locks /\ Listed(damaged[p])
                                         THEN PowerOffInLoop(damaged[p]) ELSE damaged[p]]
<1>5. out' = slept /\ power' = IF locks THEN "SLEEPING" ELSE power
  BY <1>1, <1>3 DEF Painted
<1>6. /\ r \in DrmOutputRec /\ r.pending = "on"
      /\ r.life = out[o].life /\ r.on = out[o].on /\ r.rewired = out[o].rewired
      /\ r.destroyPending = out[o].destroyPending
  BY <1>2, PaintedKms, PaintedClosed
<1> HIDE DEF r
<1>7. /\ records \in [Outputs -> DrmOutputRec] /\ records[o] = r
      /\ \A p \in Outputs \ {o} : records[p] = out[p]
  BY <1>2, <1>6
<1> HIDE DEF records
<1>8. /\ damaged \in [Outputs -> DrmOutputRec]
      /\ \A p \in Outputs : SameKms(records[p], damaged[p])
  BY <1>7, ScheduleAllKms
<1> HIDE DEF damaged
<1>9. ASSUME NEW p \in Outputs
      PROVE  /\ out'[p].life = damaged[p].life /\ out'[p].on = damaged[p].on
             /\ out'[p].rewired = damaged[p].rewired
             /\ out'[p].destroyPending = damaged[p].destroyPending
             /\ atomic => out'[p] = damaged[p]
  <2>1. CASE locks /\ Listed(damaged[p])
    BY <1>4, <1>5, <1>8, <2>1, PowerOffInLoopKms
  <2>2. CASE ~(locks /\ Listed(damaged[p]))
    BY <1>5, <2>2
  <2> QED
    BY <2>1, <2>2
<1>10. ASSUME NEW p \in Outputs
       PROVE  /\ out'[p].life = out[p].life /\ out'[p].on = out[p].on
              /\ out'[p].rewired = out[p].rewired
              /\ out'[p].destroyPending = out[p].destroyPending
  <2>1. CASE p = o
    BY <1>6, <1>7, <1>8, <1>9, <2>1 DEF SameKms
  <2>2. CASE p # o
    BY <1>7, <1>8, <1>9, <2>2 DEF SameKms
  <2> QED
    BY <2>1, <2>2
<1>11. atomic => out'[o].pending = "on" /\ power' = power
  BY <1>2, <1>4, <1>5, <1>6, <1>7, <1>8, <1>9 DEF SameKms
<1> QED
  BY <1>10, <1>11

(* A round of the loop: an output that shows something is the only one, so *)
(* it is the one visited, and it is repainted.                             *)
LEMMA VisitOutputSweep ==
  ASSUME Steady, Inv, CycleInv, SweepInv, UNCHANGED atomic, NEW o \in Outputs, VisitOutput(o)
  PROVE  SweepInv'
<1>1. /\ visiting /\ o \in todo /\ o \in OutputList
      /\ out \in [Outputs -> DrmOutputRec]
      /\ UNCHANGED <<visiting, stateInvalid, events, active, shown, sessionOff>>
  BY DEF VisitOutput, Inv, TypeOK
<1>2. out[o] \in DrmOutputRec /\ Closed(out[o])
  BY CycleFacts
<1>3. ASSUME \A p \in Outputs : /\ out'[p].life = out[p].life /\ out'[p].on = out[p].on
                                /\ out'[p].rewired = out[p].rewired
                                /\ out'[p].destroyPending = out[p].destroyPending,
             atomic => power' = power,
             ASSUME atomic, stateInvalid, ~sessionOff, o \in shown, Covered(o)
             PROVE  Covered(o)'
      PROVE  SweepInv'
  <2>1. OutputList' = OutputList /\ (Alone' <=> Alone)
    BY <1>3, SameList DEF Alone
  <2>2. ASSUME NEW p \in Outputs, out'[p].on PROVE p \in shown'
    BY <1>1, <1>3, <2>2 DEF SweepInv
  <2>3. ASSUME atomic', NEW p \in Outputs, stateInvalid', ~sessionOff', p \in shown',
               Listed(out'[p])
        PROVE  Alone' /\ Covered(p)'
    <3>1. Alone /\ Covered(p) /\ p \in OutputList
      BY <1>1, <1>3, <2>3 DEF SweepInv, Listed, OutputList
    <3>2. p = o
      BY <1>1, <3>1 DEF Alone
    <3> QED
      BY <1>1, <1>3, <2>1, <2>3, <3>1, <3>2
  <2>4. ASSUME atomic', NEW p \in Outputs
        PROVE  /\ (~Listed(out[p]) /\ p \in events => p \notin active \cup shown)'
               /\ (out[p].rewired => stateInvalid \/ ~out[p].on)'
               /\ (out[p].destroyPending => Alone)'
    BY <1>1, <1>3, <2>1, <2>4 DEF SweepInv, Listed
  <2>5. ASSUME atomic'
        PROVE  /\ power' # "SLEEPING" /\ (power' = "OFFSCREEN" => sessionOff')
               /\ sessionOff' => Alone' \/ OutputList' \cap shown' = {}
    BY <1>1, <1>3, <2>1, <2>5 DEF SweepInv
  <2> QED
    BY <2>2, <2>3, <2>4, <2>5 DEF SweepInv
<1>4. CASE ~ReadyToRepaint(out[o]) /\ UNCHANGED <<out, power, failed>>
  BY <1>1, <1>3, <1>4 DEF Covered
<1>5. CASE /\ ReadyToRepaint(out[o]) /\ DropFromCycle(out[o], power)
           /\ out' = [out EXCEPT ![o] = ScheduleRepaintReset(@)]
           /\ UNCHANGED <<power, failed>>
  <2> DEFINE r == ScheduleRepaintReset(out[o])
  <2>1. SameKms(out[o], r) /\ out'[o] = r /\ \A p \in Outputs \ {o} : out'[p] = out[p]
    BY <1>1, <1>2, <1>5, ResetKms
  <2> HIDE DEF r
  <2>2. \A p \in Outputs : /\ out'[p].life = out[p].life /\ out'[p].on = out[p].on
                           /\ out'[p].rewired = out[p].rewired
                           /\ out'[p].destroyPending = out[p].destroyPending
    BY <2>1 DEF SameKms
  <2>3. ASSUME atomic, ~sessionOff PROVE ~Covered(o)
    <3>1. ~out[o].needed
      BY <1>5, <2>3 DEF DropFromCycle, Asleep, SweepInv
    <3>2. out[o].pending # "on"
      BY <1>2, <1>5 DEF ReadyToRepaint, Closed, Awaiting
    <3> QED
      BY <3>1, <3>2 DEF Covered
  <2> QED
    BY <1>3, <1>5, <2>2, <2>3
<1>6. CASE ReadyToRepaint(out[o]) /\ ~DropFromCycle(out[o], power) /\ RepaintOutput(o)
  <2>1. out[o].status = "SCHEDULED"
    BY <1>6 DEF ReadyToRepaint
  <2>2. /\ \A p \in Outputs : /\ out'[p].life = out[p].life /\ out'[p].on = out[p].on
                              /\ out'[p].rewired = out[p].rewired
                              /\ out'[p].destroyPending = out[p].destroyPending
        /\ atomic => out'[o].pending = "on" /\ power' = power
    BY <1>1, <1>6, <2>1, RepaintOutputKms
  <2> QED
    BY <1>3, <2>2 DEF Covered
<1> QED
  BY <1>4, <1>5, <1>6 DEF VisitOutput

(* The flush: all that is shown by an output in use is in it.              *)
LEMMA RepaintFlushSweep ==
  ASSUME Steady, Inv, CycleInv, SweepInv, UNCHANGED atomic, RepaintFlush
  PROVE  SweepInv'
<1> DEFINE C   == {o \in Outputs : out[o].pending # "none"}
           lit == {o \in C : out[o].pending = "on"}
           records[o \in Outputs] == Applied(out[o], o \in C)
<1>1. PICK taken \in BOOLEAN, A \in SUBSET C :
        LET swept   == IF taken THEN Unused ELSE {}
            blanked == IF taken THEN Blanked ELSE {}
        IN  /\ Answer(C, lit, taken, A)
            /\ LeaveHandler([o \in Outputs |-> Applied(out[o], o \in A)])
            /\ events' = events \cup (IF atomic THEN A \cup swept \cup blanked
                                                 ELSE A \cap lit)
            /\ active' = (active \ (swept \cup A)) \cup (A \cap lit)
            /\ shown' = (shown \ (swept \cup blanked \cup A)) \cup (A \cap lit)
            /\ stateInvalid' = (stateInvalid /\ atomic /\ ~taken)
  BY DEF RepaintFlush
<1>2. C \cap events = {} /\ (C # {} => ~sessionOff)
  BY CycleFacts
<1>3. A = C /\ (taken <=> ~sessionOff)
  <2>1. "commitfail" \notin Features
    BY DEF Features, Steady
  <2>2. ~sessionOff => ~atomic \/ ~Refused(C, lit)
    BY NotRefused DEF RepaintFlush
  <2>3. Answer(C, lit, taken, A)
    BY <1>1
  <2> HIDE DEF C, lit
  <2> QED
    BY <1>2, <2>1, <2>2, <2>3 DEF Answer
<1>4. UNCHANGED <<power, todo, sessionOff>> /\ todo = {} /\ visiting
  BY DEF RepaintFlush
<1>5. LeaveHandler(records)
  BY <1>1, <1>3
<1>6. ASSUME NEW o \in Outputs
      PROVE  LET n == records[o]
             IN  /\ n \in DrmOutputRec /\ n.life = out[o].life
                 /\ n.destroyPending = out[o].destroyPending
                 /\ o \in C /\ out[o].pending = "off" => ~n.on
                 /\ o \notin C => n = out[o]
                 /\ o \in C => ~n.rewired
  <2> DEFINE b == o \in C
  <2>1. b \in BOOLEAN /\ (b <=> out[o].pending # "none") /\ out[o] \in DrmOutputRec
    BY DEF Inv, TypeOK
  <2>2. records[o] = Applied(out[o], b)
    OBVIOUS
  <2>3. b <=> o \in C
    OBVIOUS
  <2> HIDE DEF b, records, C
  <2> QED
    BY <2>1, <2>2, <2>3, AppliedKms
<1>7. records \in [Outputs -> DrmOutputRec]
  BY <1>6
<1> HIDE DEF records
<1>8. \A o \in Outputs : SameKms(records[o], out'[o])
  BY <1>5, <1>7, LeaveHandlerKms DEF Inv, TypeOK
<1>9. ASSUME NEW o \in Outputs
      PROVE  /\ out'[o].life = out[o].life /\ out'[o].destroyPending = out[o].destroyPending
             /\ o \in C /\ out[o].pending = "off" => ~out'[o].on
             /\ o \notin C => out'[o].on = out[o].on /\ out'[o].rewired = out[o].rewired
             /\ o \in C => ~out'[o].rewired
  BY <1>6, <1>8 DEF SameKms
<1>10. OutputList' = OutputList /\ (Alone' <=> Alone)
  BY <1>9, SameList DEF Alone
<1>11. ASSUME NEW o \in Outputs, o \notin C, out[o].on
       PROVE  o \notin Unused /\ (taken => o \notin Blanked)
  <2>1. Listed(out[o]) /\ o \in OutputList
    BY <1>11 DEF Inv, Booked, AbsentDrmOutput, OutputList
  <2>2. ASSUME taken, o \in Blanked PROVE FALSE
    <3>1. out[o].pending = "on"
      BY <1>3, <1>4, <2>1, <2>2, ShownIsCommitted DEF Blanked
    <3> QED
      BY <1>11, <3>1
  <2> QED
    BY <2>1, <2>2 DEF Unused
<1>12. ASSUME NEW o \in Outputs, out'[o].on PROVE o \in shown'
  <2>1. CASE o \in C
    <3>1. o \in lit
      BY <1>9, <1>12, <2>1 DEF Inv, TypeOK, DrmOutputRec
    <3> QED
      BY <1>1, <1>3, <3>1
  <2>2. CASE o \notin C
    <3>1. out[o].on /\ o \in shown
      BY <1>9, <1>12, <2>2 DEF SweepInv
    <3> QED
      BY <1>1, <1>3, <1>11, <2>2, <3>1
  <2> QED
    BY <2>1, <2>2
<1>13. ASSUME atomic', NEW o \in Outputs
       PROVE  /\ (~Listed(out[o]) /\ o \in events => o \notin active \cup shown)'
              /\ (out[o].rewired => stateInvalid \/ ~out[o].on)'
              /\ (out[o].destroyPending => Alone)'
              /\ (stateInvalid /\ ~sessionOff /\ o \in shown /\ Listed(out[o])
                    => Alone /\ Covered(o))'
  <2>1. ASSUME ~Listed(out'[o]), o \in events' PROVE o \notin active' \cup shown'
    <3>1. ~Listed(out[o]) /\ o \notin C /\ o \notin OutputList
      BY <1>9, <2>1, CycleFacts DEF Listed, OutputList
    <3>2. CASE o \in events
      BY <1>1, <1>3, <1>13, <3>1, <3>2 DEF SweepInv
    <3>3. CASE o \notin events
      <4>1. taken /\ o \in Unused \cup Blanked /\ stateInvalid
        BY <1>1, <1>3, <1>13, <2>1, <3>1, <3>3 DEF Unused, Blanked
      <4>2. Unused = active \ OutputList /\ Blanked = shown
        BY <1>13, <4>1 DEF Unused, Blanked
      <4> QED
        BY <1>1, <1>3, <3>1, <4>1, <4>2
    <3> QED
      BY <3>2, <3>3
  <2>2. ASSUME out'[o].rewired, out'[o].on PROVE stateInvalid'
    <3>1. o \notin C /\ out[o].rewired /\ out[o].on /\ stateInvalid
      BY <1>9, <1>13, <2>2 DEF SweepInv
    <3>2. ~taken
      BY <1>11, <1>13, <3>1 DEF Blanked, SweepInv
    <3> QED
      BY <1>1, <1>13, <3>1, <3>2
  <2>3. ~(stateInvalid' /\ ~sessionOff')
    BY <1>1, <1>3, <1>4
  <2>4. out'[o].destroyPending => Alone'
    BY <1>9, <1>10, <1>13 DEF SweepInv
  <2> QED
    BY <2>1, <2>2, <2>3, <2>4
<1>14. ASSUME atomic'
       PROVE  /\ power' # "SLEEPING" /\ (power' = "OFFSCREEN" => sessionOff')
              /\ sessionOff' => Alone' \/ OutputList' \cap shown' = {}
  <2>1. sessionOff => shown' = shown
    BY <1>1, <1>2, <1>3
  <2> QED
    BY <1>4, <1>10, <1>14, <2>1 DEF SweepInv
<1> QED
  BY <1>12, <1>13, <1>14 DEF SweepInv

(* A step of the only output, or of one that becomes the only one.         *)
LEMMA AloneSweep ==
  ASSUME Inv, SweepInv, ~visiting, NEW o \in Outputs, OutputList \subseteq {o},
         NEW n, out' = [out EXCEPT ![o] = n],
         n.on => o \in shown,
         n.rewired => stateInvalid' \/ ~n.on,
         Listed(n) /\ ~sessionOff /\ o \in shown => n.needed,
         ~Listed(n) => o \notin events',
         events' \subseteq events,
         UNCHANGED <<atomic, visiting, active, shown, power, sessionOff>>
  PROVE  SweepInv'
<1>1. out'[o] = n /\ \A p \in Outputs \ {o} : out'[p] = out[p]
  BY DEF Inv, TypeOK
<1>2. \A p \in Outputs \ {o} : ~Listed(out[p]) /\ out[p] = AbsentDrmOutput
  BY DEF OutputList, Inv, Booked
<1>3. OutputList' \subseteq {o}
  BY <1>1, <1>2 DEF OutputList
<1>4. Alone'
  BY <1>3 DEF Alone
<1>5. ASSUME NEW p \in Outputs, out'[p].on PROVE p \in shown'
  BY <1>1, <1>5 DEF SweepInv
<1>6. ASSUME atomic', NEW p \in Outputs
      PROVE  /\ (~Listed(out[p]) /\ p \in events => p \notin active \cup shown)'
             /\ (out[p].rewired => stateInvalid \/ ~out[p].on)'
             /\ (out[p].destroyPending => Alone)'
             /\ (stateInvalid /\ ~sessionOff /\ p \in shown /\ Listed(out[p])
                   => Alone /\ Covered(p))'
  <2>1. CASE p = o
    BY <1>1, <1>4, <1>6, <2>1 DEF Covered
  <2>2. CASE p # o
    BY <1>1, <1>2, <1>4, <1>6, <2>2 DEF SweepInv, AbsentDrmOutput
  <2> QED
    BY <2>1, <2>2
<1> QED
  BY <1>4, <1>5, <1>6 DEF SweepInv

LEMMA LegacySweep ==
  ASSUME ~atomic, UNCHANGED atomic, \A o \in Outputs : out'[o].on => o \in shown'
  PROVE  SweepInv'
BY DEF SweepInv

LEMMA FlipEventSweep ==
  ASSUME Steady, Inv, CycleInv, SweepInv, UNCHANGED atomic, NEW o \in Outputs, FlipEvent(o)
  PROVE  SweepInv'
<1> DEFINE a == Asserted(out[o], out[o].flip)
           r == [a EXCEPT !.flip = FALSE]
<1>1. /\ out[o] \in DrmOutputRec /\ Closed(out[o]) /\ Booked(o)
      /\ ~visiting /\ events' = events \ {o}
      /\ UNCHANGED <<visiting, todo, power, sessionOff>>
  BY CycleFacts DEF FlipEvent
<1>2. /\ r.on = out[o].on /\ r.rewired = out[o].rewired /\ r.life = out[o].life
      /\ r.destroyPending = out[o].destroyPending /\ r.dpmsOff = out[o].dpmsOff
      /\ r.needed = out[o].needed /\ r.pending = out[o].pending /\ r \in DrmOutputRec
  BY <1>1 DEF Asserted, DrmOutputRec
<1>3. \/ UNCHANGED <<out, stateInvalid, active, shown>>
      \/ /\ Listed(r) \/ ~atomic
         /\ r.destroyPending
         /\ out' = [out EXCEPT ![o] = AbsentDrmOutput]
         /\ UNCHANGED <<active, shown>>
      \/ /\ r.dpmsOff
         /\ ApplySync([out EXCEPT ![o] = [r EXCEPT !.dpmsOff = FALSE]], {o})
      \/ /\ out' = [out EXCEPT ![o] =
                      IF ~r.on /\ r.status # "AWAITING_COMPLETION" THEN r
                      ELSE FinishFrame(r, TRUE, FALSE)]
         /\ UNCHANGED <<stateInvalid, active, shown>>
  BY DEF FlipEvent
<1> HIDE DEF r
<1>4. CASE UNCHANGED <<out, stateInvalid, active, shown>>
  BY <1>1, <1>4, KeepsSweep
<1>5. CASE /\ Listed(r) \/ ~atomic
           /\ r.destroyPending
           /\ out' = [out EXCEPT ![o] = AbsentDrmOutput]
           /\ UNCHANGED <<active, shown>>
  <2>1. ~AbsentDrmOutput.on /\ ~AbsentDrmOutput.rewired /\ ~Listed(AbsentDrmOutput)
    BY DEF AbsentDrmOutput, Listed
  <2>2. CASE atomic
    <3>1. OutputList \subseteq {o}
      BY <1>2, <1>5, <2>2 DEF SweepInv, Alone, OutputList, Listed
    <3> QED
      BY <1>1, <1>5, <2>1, <3>1, AloneSweep
  <2>3. CASE ~atomic
    <3>1. \A p \in Outputs : out'[p].on => p \in shown'
      BY <1>5, <2>1 DEF SweepInv, Inv, TypeOK
    <3> QED
      BY <2>3, <3>1, LegacySweep
  <2> QED
    BY <2>2, <2>3
<1>6. CASE r.dpmsOff /\ ApplySync([out EXCEPT ![o] = [r EXCEPT !.dpmsOff = FALSE]], {o})
  <2> DEFINE d       == [r EXCEPT !.dpmsOff = FALSE]
             records == [out EXCEPT ![o] = d]
  <2>1. ~atomic
    BY <1>1, <1>2, <1>6 DEF Closed
  <2>2. d \in DrmOutputRec /\ d.on = out[o].on
    BY <1>2 DEF DrmOutputRec
  <2> HIDE DEF d
  <2>3. records \in [Outputs -> DrmOutputRec] /\ \A p \in Outputs : records[p].on = out[p].on
    BY <2>2 DEF Inv, TypeOK
  <2>4. ApplySync(records, {o})
    BY <1>6 DEF d
  <2> HIDE DEF records
  <2>5. \A p \in Outputs : records[p].on => p \in shown /\ p \in OutputList
    BY <2>3 DEF SweepInv, Inv, Booked, AbsentDrmOutput, OutputList
  <2>6. \A p \in Outputs : out'[p].on => p \in shown'
    BY <2>1, <2>3, <2>4, <2>5, ApplySyncShown
  <2> QED
    BY <2>1, <2>6, LegacySweep
<1>7. CASE /\ out' = [out EXCEPT ![o] =
                        IF ~r.on /\ r.status # "AWAITING_COMPLETION" THEN r
                        ELSE FinishFrame(r, TRUE, FALSE)]
           /\ UNCHANGED <<stateInvalid, active, shown>>
  <2> DEFINE n == IF ~r.on /\ r.status # "AWAITING_COMPLETION" THEN r
                  ELSE FinishFrame(r, TRUE, FALSE)
  <2>1. /\ n.on = out[o].on /\ n.rewired = out[o].rewired /\ n.life = out[o].life
        /\ n.destroyPending = out[o].destroyPending
        /\ n.needed = out[o].needed /\ n.pending = out[o].pending
    BY <1>2, FinishFrameKms, FinishFrameDamage DEF SameKms
  <2>2. out'[o] = n /\ \A p \in Outputs \ {o} : out'[p] = out[p]
    BY <1>7 DEF Inv, TypeOK
  <2> HIDE DEF n
  <2>3. \A p \in Outputs : /\ out'[p].life = out[p].life /\ out'[p].on = out[p].on
                           /\ out'[p].rewired = out[p].rewired
                           /\ out'[p].destroyPending = out[p].destroyPending
                           /\ out[p].pending = "on" => out'[p].pending = "on"
                           /\ out[p].needed => out'[p].needed
    BY <2>1, <2>2
  <2> QED
    BY <1>1, <1>7, <2>3, KeepsSweep
<1> QED
  BY <1>3, <1>4, <1>5, <1>6, <1>7

LEMMA SleepSweep ==
  ASSUME Steady, Inv, SweepInv, UNCHANGED atomic, Sleep
  PROVE  SweepInv'
<1> DEFINE lit    == {o \in OutputList : out[o].on}
           parked == {o \in lit : out[o].flip}
           records[o \in Outputs] ==
             IF o \in parked THEN [out[o] EXCEPT !.dpmsOff = TRUE] ELSE out[o]
<1>1. ~atomic
  BY DEF Sleep, Features, Steady
<1>2. ApplySync(records, lit \ parked)
  BY DEF Sleep, PowerOffAll
<1>3. lit \ parked \in SUBSET Outputs
  BY DEF OutputList
<1>4. ASSUME NEW o \in Outputs
      PROVE  records[o] \in DrmOutputRec /\ records[o].on = out[o].on
  <2>1. out[o] \in DrmOutputRec
    BY DEF Inv, TypeOK
  <2>2. [out[o] EXCEPT !.dpmsOff = TRUE] \in DrmOutputRec
        /\ [out[o] EXCEPT !.dpmsOff = TRUE].on = out[o].on
    BY <2>1 DEF DrmOutputRec
  <2> QED
    BY <2>1, <2>2
<1>5. records \in [Outputs -> DrmOutputRec]
  BY <1>4
<1> HIDE DEF records, parked, lit
<1>6. \A o \in Outputs : records[o].on => o \in shown /\ o \in OutputList
  BY <1>4 DEF SweepInv, Inv, Booked, AbsentDrmOutput, OutputList
<1>7. \A o \in Outputs : out'[o].on => o \in shown'
  BY <1>1, <1>2, <1>3, <1>5, <1>6, ApplySyncShown
<1> QED
  BY <1>1, <1>7, LegacySweep

(* Switching on damages what it switches on, and with D what is in D.      *)
LEMMA PowerOnAllDamage ==
  ASSUME Inv, CycleInv, NEW D \in SUBSET OutputList,
         out' = ScheduleAll([o \in Outputs |-> IF Listed(out[o]) THEN PowerOn(out[o])
                                                                ELSE out[o]], D, "ACTIVE")
  PROVE  \A o \in Outputs : out[o].needed \/ o \in D => out'[o].needed
<1> DEFINE records[o \in Outputs] == IF Listed(out[o]) THEN PowerOn(out[o]) ELSE out[o]
<1>1. ASSUME NEW o \in Outputs
      PROVE  records[o] \in DrmOutputRec /\ (out[o].needed => records[o].needed)
  BY CycleFacts, PowerOnKms, PowerOnClosed
<1>2. \A o \in Outputs : out'[o] = IF o \in D THEN ScheduleRepaint(records[o], "ACTIVE")
                                               ELSE records[o]
  BY DEF ScheduleAll
<1> HIDE DEF records
<1> QED
  BY <1>1, <1>2, ScheduleRepaintDamages DEF Asleep

LEMMA WakeSweep ==
  ASSUME Inv, CycleInv, SweepInv, UNCHANGED atomic, Wake
  PROVE  SweepInv'
<1>1. PICK D \in {{}, OutputList} :
        out' = ScheduleAll([o \in Outputs |-> IF Listed(out[o]) THEN PowerOn(out[o])
                                                               ELSE out[o]], D, "ACTIVE")
  BY DEF Wake
<1>2. D \in SUBSET OutputList
  OBVIOUS
<1>3. \A o \in Outputs :
        /\ out'[o].life = out[o].life /\ out'[o].on = out[o].on
        /\ out'[o].pending = out[o].pending /\ out'[o].rewired = out[o].rewired
        /\ out'[o].destroyPending = out[o].destroyPending
  BY <1>1, <1>2, PowerOnAllKms
<1>4. \A o \in Outputs : out[o].needed => out'[o].needed
  BY <1>1, <1>2, PowerOnAllDamage
<1> QED
  BY <1>3, <1>4, KeepsSweep DEF Wake

(* The session comes back to one output, or to dark ones.                  *)
LEMMA EnterSessionSweep ==
  ASSUME Inv, CycleInv, SweepInv, UNCHANGED atomic, EnterSession
  PROVE  SweepInv'
<1>1. /\ ~visiting /\ sessionOff /\ ~sessionOff' /\ power' = "ACTIVE" /\ stateInvalid'
      /\ UNCHANGED <<visiting, events, active, shown>>
      /\ out' = ScheduleAll([o \in Outputs |-> IF Listed(out[o]) THEN PowerOn(out[o])
                                                                 ELSE out[o]],
                            OutputList, "ACTIVE")
  BY DEF EnterSession
<1>2. \A o \in Outputs :
        /\ out'[o].life = out[o].life /\ out'[o].on = out[o].on
        /\ out'[o].destroyPending = out[o].destroyPending
  BY <1>1, PowerOnAllKms
<1>3. \A o \in OutputList : out'[o].needed
  BY <1>1, PowerOnAllDamage DEF OutputList
<1>4. OutputList' = OutputList /\ (Alone' <=> Alone)
  BY <1>2, SameList DEF Alone
<1>5. ASSUME NEW o \in Outputs, out'[o].on PROVE o \in shown'
  BY <1>1, <1>2, <1>5 DEF SweepInv
<1>6. ASSUME atomic', NEW o \in Outputs
      PROVE  /\ (~Listed(out[o]) /\ o \in events => o \notin active \cup shown)'
             /\ (out[o].destroyPending => Alone)'
  BY <1>1, <1>2, <1>4, <1>6 DEF SweepInv, Listed
<1>7. ASSUME atomic', NEW o \in Outputs, o \in shown', Listed(out'[o])
      PROVE  Alone' /\ Covered(o)'
  <2>1. o \in OutputList /\ o \in shown
    BY <1>1, <1>2, <1>7 DEF Listed, OutputList
  <2> QED
    BY <1>1, <1>3, <1>4, <1>7, <2>1 DEF SweepInv, Covered
<1> QED
  BY <1>1, <1>5, <1>6, <1>7 DEF SweepInv

LEMMA LeaveSessionSweep ==
  ASSUME Steady, Inv, SweepInv, UNCHANGED atomic, LeaveSession
  PROVE  SweepInv'
<1>1. /\ sessionOff' /\ power' = "OFFSCREEN"
      /\ UNCHANGED <<visiting, stateInvalid, events, active, shown>>
      /\ atomic => Alone
  BY DEF LeaveSession, Apart, Features, Steady
<1>2. ASSUME NEW o \in Outputs
      PROVE  /\ out'[o].life = out[o].life /\ out'[o].on = out[o].on
             /\ out'[o].rewired = out[o].rewired
             /\ out'[o].destroyPending = out[o].destroyPending
  <2>1. out[o] \in DrmOutputRec
    BY DEF Inv, TypeOK
  <2> DEFINE n == [out[o] EXCEPT !.needed = FALSE]
  <2>2. out'[o] = out[o] \/ out'[o] = n
    BY DEF LeaveSession
  <2>3. SameKms(out[o], n)
    BY <2>1, FieldKms
  <2> HIDE DEF n
  <2> QED
    BY <2>2, <2>3 DEF SameKms
<1>3. OutputList' = OutputList /\ (Alone' <=> Alone)
  BY <1>2, SameList DEF Alone
<1>4. ASSUME NEW o \in Outputs, out'[o].on PROVE o \in shown'
  BY <1>1, <1>2, <1>4 DEF SweepInv
<1>5. ASSUME atomic', NEW o \in Outputs
      PROVE  /\ (~Listed(out[o]) /\ o \in events => o \notin active \cup shown)'
             /\ (out[o].rewired => stateInvalid \/ ~out[o].on)'
  BY <1>1, <1>2, <1>5 DEF SweepInv, Listed
<1> QED
  BY <1>1, <1>3, <1>4, <1>5 DEF SweepInv

(* A new output comes to no other, or to dark ones.                        *)
LEMMA EnableOutputSweep ==
  ASSUME Steady, Inv, SweepInv, UNCHANGED atomic, NEW o \in Outputs, EnableOutput(o)
  PROVE  SweepInv'
<1> DEFINE n == AddOutput(PrepareEnable(InitDrmOutput, power))
<1>1. /\ ~visiting /\ ~Listed(out[o]) /\ out' = [out EXCEPT ![o] = n]
      /\ UNCHANGED <<visiting, stateInvalid, events, active, shown, power, sessionOff>>
  BY DEF EnableOutput, Listed
<1>2. /\ ~n.on /\ ~n.rewired /\ ~n.destroyPending /\ Listed(n)
      /\ ~Asleep(power) => n.needed
  BY DEF AddOutput, PrepareEnable, ScheduleRepaint, Asserted, InitDrmOutput, AbsentDrmOutput,
         Listed
<1> HIDE DEF n
<1>3. out'[o] = n /\ \A p \in Outputs \ {o} : out'[p] = out[p]
  BY <1>1 DEF Inv, TypeOK
<1>4. CASE ~atomic
  <2>1. \A p \in Outputs : out'[p].on => p \in shown'
    BY <1>1, <1>2, <1>3 DEF SweepInv
  <2> QED
    BY <1>4, <2>1, LegacySweep
<1>5. CASE atomic /\ OutputList = {}
  <2>1. ~sessionOff => n.needed
    BY <1>2, <1>5 DEF SweepInv, Asleep
  <2> QED
    BY <1>1, <1>2, <1>5, <2>1, AloneSweep
<1>6. CASE /\ atomic
           /\ \A p \in OutputList : ~out[p].destroyPending
           /\ stateInvalid \/ sessionOff => (OutputList \cup {o}) \cap shown = {}
  <2>1. OutputList' \subseteq OutputList \cup {o}
    BY <1>3 DEF OutputList
  <2>2. ASSUME NEW p \in Outputs, out'[p].on PROVE p \in shown'
    BY <1>1, <1>2, <1>3, <2>2 DEF SweepInv
  <2>3. ASSUME NEW p \in Outputs
        PROVE  /\ (~Listed(out[p]) /\ p \in events => p \notin active \cup shown)'
               /\ (out[p].rewired => stateInvalid \/ ~out[p].on)'
               /\ ~out'[p].destroyPending
    <3>1. ~out[p].destroyPending
      BY <1>6 DEF Inv, Booked, AbsentDrmOutput, OutputList
    <3> QED
      BY <1>1, <1>2, <1>3, <1>6, <3>1 DEF SweepInv
  <2>4. ASSUME NEW p \in Outputs, stateInvalid', p \in shown', Listed(out'[p])
        PROVE  FALSE
    BY <1>1, <1>6, <2>1, <2>4 DEF OutputList
  <2>5. sessionOff' => OutputList' \cap shown' = {}
    BY <1>1, <1>6, <2>1
  <2>6. power' # "SLEEPING" /\ (power' = "OFFSCREEN" => sessionOff')
    BY <1>1, <1>6 DEF SweepInv
  <2> QED
    BY <2>2, <2>3, <2>4, <2>5, <2>6 DEF SweepInv
<1>7. atomic => ~Apart
  BY DEF Apart, Features, Steady
<1> QED
  BY <1>4, <1>5, <1>6, <1>7 DEF EnableOutput

LEMMA DestroyOutputSweep ==
  ASSUME Steady, Inv, CycleInv, SweepInv, UNCHANGED atomic, NEW o \in Outputs,
         DestroyOutput(o) \/ HeadsChanged(o)
  PROVE  SweepInv'
<1>1. /\ ~visiting /\ o \in OutputList /\ stateInvalid' /\ (atomic => OutputList \subseteq {o})
      /\ UNCHANGED <<visiting, events, active, shown, power, sessionOff>>
      /\ out[o] \in DrmOutputRec /\ out \in [Outputs -> DrmOutputRec]
  BY DEF DestroyOutput, HeadsChanged, Apart, Features, Steady, Alone, OutputList, Inv, TypeOK
<1>2. PICK n : /\ out' = [out EXCEPT ![o] = n]
               /\ n.on => out[o].on
               /\ Listed(n) /\ ~Asleep(power) => n.needed
               /\ ~Listed(n) => o \notin events
  <2>1. CASE HeadsChanged(o)
    <3>1. PICK w \in BOOLEAN : out' = ScheduleAll([out EXCEPT ![o].rewired = w], {o}, power)
      BY <2>1 DEF HeadsChanged
    <3> DEFINE r == [out[o] EXCEPT !.rewired = w]
               n == ScheduleRepaint(r, power)
    <3>2. r \in DrmOutputRec /\ r.on = out[o].on /\ r.life = out[o].life
      BY <1>1 DEF DrmOutputRec
    <3>3. out' = [out EXCEPT ![o] = n]
      BY <1>1, <3>1 DEF ScheduleAll
    <3> HIDE DEF r
    <3>4. SameKms(r, n) /\ (~Asleep(power) => n.needed)
      BY <3>2, ScheduleRepaintKms, ScheduleRepaintDamages
    <3> HIDE DEF n
    <3>5. Listed(n)
      BY <1>1, <3>2, <3>4 DEF SameKms, Listed, OutputList
    <3> QED
      BY <3>2, <3>3, <3>4, <3>5 DEF SameKms
  <2>2. CASE DestroyOutput(o) /\ out[o].flip
    <3> DEFINE r == [out[o] EXCEPT !.destroyPending = TRUE]
               n == ScheduleRepaint(r, power)
    <3>1. r \in DrmOutputRec /\ r.on = out[o].on /\ r.life = out[o].life
      BY <1>1 DEF DrmOutputRec
    <3>2. out' = [out EXCEPT ![o] = n]
      BY <2>2 DEF DestroyOutput
    <3> HIDE DEF r
    <3>3. SameKms(r, n) /\ (~Asleep(power) => n.needed)
      BY <3>1, ScheduleRepaintKms, ScheduleRepaintDamages
    <3> HIDE DEF n
    <3>4. Listed(n)
      BY <1>1, <3>1, <3>3 DEF SameKms, Listed, OutputList
    <3> QED
      BY <3>1, <3>2, <3>3, <3>4 DEF SameKms
  <2>3. CASE DestroyOutput(o) /\ ~out[o].flip
    <3>1. out' = [out EXCEPT ![o] = AbsentDrmOutput]
      BY <2>3 DEF DestroyOutput
    <3>2. o \notin events
      BY <1>1, <2>3, CycleFacts DEF OutputList
    <3>3. ~AbsentDrmOutput.on /\ ~Listed(AbsentDrmOutput)
      BY DEF AbsentDrmOutput, Listed
    <3> QED
      BY <3>1, <3>2, <3>3
  <2> QED
    BY <2>1, <2>2, <2>3
<1>3. n.on => o \in shown
  BY <1>1, <1>2 DEF SweepInv
<1>4. CASE ~atomic
  <2>1. out'[o] = n /\ \A p \in Outputs \ {o} : out'[p] = out[p]
    BY <1>1, <1>2
  <2>2. \A p \in Outputs : out'[p].on => p \in shown'
    BY <1>1, <1>3, <2>1 DEF SweepInv
  <2> QED
    BY <1>4, <2>2, LegacySweep
<1>5. CASE atomic
  <2>1. ~sessionOff => ~Asleep(power)
    BY <1>5 DEF SweepInv, Asleep
  <2> QED
    BY <1>1, <1>2, <1>3, <1>5, <2>1, AloneSweep
<1> QED
  BY <1>4, <1>5

LEMMA NextSweep == Steady /\ Inv /\ CycleInv /\ SweepInv /\ [Next]_vars => SweepInv'
<1> SUFFICES ASSUME Steady, Inv, CycleInv, SweepInv, [Next]_vars PROVE SweepInv'
  OBVIOUS
<1>1. CASE UNCHANGED vars
  BY <1>1, KeepsSweep DEF vars
<1> SUFFICES ASSUME Next PROVE SweepInv'
  BY <1>1
<1>2. UNCHANGED atomic
  BY DEF Next
<1>3. ASSUME NEW o \in Outputs, IdleRepaint(o) PROVE SweepInv'
  BY <1>2, <1>3, IdleRepaintSweep
<1>4. ASSUME NEW o \in Outputs, Tick(o) PROVE SweepInv'
  <2> DEFINE n == [out[o] EXCEPT !.due = TRUE]
  <2>1. /\ SameKms(out[o], n) /\ n.needed = out[o].needed
        /\ ReadyToRepaint(out[o]) => ReadyToRepaint(n)
    <3>1. out[o] \in DrmOutputRec
      BY DEF Inv, TypeOK
    <3>2. /\ n.needed = out[o].needed /\ n.status = out[o].status /\ n.due
      BY <3>1 DEF DrmOutputRec
    <3>3. SameKms(out[o], n)
      BY <3>1, FieldKms
    <3> HIDE DEF n
    <3> QED
      BY <3>2, <3>3 DEF ReadyToRepaint
  <2>2. out'[o] = n /\ \A p \in Outputs \ {o} : out'[p] = out[p]
    BY <1>4 DEF Tick, Inv, TypeOK
  <2> HIDE DEF n
  <2>3. \A p \in Outputs : /\ out'[p].life = out[p].life /\ out'[p].on = out[p].on
                           /\ out'[p].rewired = out[p].rewired
                           /\ out'[p].destroyPending = out[p].destroyPending
                           /\ out[p].pending = "on" => out'[p].pending = "on"
                           /\ out[p].needed => out'[p].needed
                           /\ ReadyToRepaint(out[p]) => ReadyToRepaint(out'[p])
    BY <2>1, <2>2 DEF SameKms
  <2> QED
    BY <1>2, <1>4, <2>3, KeepsSweep DEF Tick
<1>5. ASSUME NEW o \in Outputs, VisitOutput(o) PROVE SweepInv'
  BY <1>2, <1>5, VisitOutputSweep
<1>6. ASSUME NEW o \in Outputs, FlipEvent(o) PROVE SweepInv'
  BY <1>2, <1>6, FlipEventSweep
<1>7. ASSUME NEW o \in Outputs, Damage(o) PROVE SweepInv'
  BY <1>2, <1>7, ScheduleKeepsSweep DEF Damage
<1>8. ASSUME NEW o \in Outputs, EnableOutput(o) PROVE SweepInv'
  BY <1>2, <1>8, EnableOutputSweep
<1>9. ASSUME NEW o \in Outputs, DestroyOutput(o) \/ HeadsChanged(o) PROVE SweepInv'
  BY <1>2, <1>9, DestroyOutputSweep
<1>11. CASE RepaintTimer
  BY <1>2, <1>11, RepaintTimerSweep
<1>12. CASE RepaintFlush
  BY <1>2, <1>12, RepaintFlushSweep
<1>13. CASE RepaintCancel
  BY <1>13 DEF RepaintCancel, CycleInv
<1>14. CASE IdleTimeout
  BY <1>2, <1>14, ScheduleKeepsSweep DEF IdleTimeout
<1>15. CASE Sleep
  BY <1>2, <1>15, SleepSweep
<1>16. CASE Wake
  BY <1>2, <1>16, WakeSweep
<1>17. CASE LeaveSession
  BY <1>2, <1>17, LeaveSessionSweep
<1>18. CASE EnterSession
  BY <1>2, <1>18, EnterSessionSweep
<1> QED
  BY <1>3, <1>4, <1>5, <1>6, <1>7, <1>8, <1>9, <1>11, <1>12, <1>13, <1>14, <1>15, <1>16,
     <1>17, <1>18 DEF Next


LEMMA InitSweep == Init => SweepInv
<1>1. ~AbsentDrmOutput.on /\ ~AbsentDrmOutput.rewired /\ ~AbsentDrmOutput.destroyPending
  BY DEF AbsentDrmOutput
<1> QED
  BY <1>1 DEF Init, SweepInv, OutputList

LEMMA CycleInvariance ==
  ASSUME Steady PROVE Spec => [](CycleInv /\ SweepInv)
<1>1. Init => CycleInv /\ SweepInv
  BY AbsentClosed, InitSweep DEF Init, CycleInv
<1>2. Inv /\ CycleInv /\ SweepInv /\ [Next]_vars => CycleInv' /\ SweepInv'
  BY NextCycle, NextSweep
<1>3. Spec => Init /\ [][Next]_vars
  BY DEF Spec
<1> QED
  BY <1>1, <1>2, <1>3, Invariance, PTL

(* No assertion of the repaint code or the backend fails: no state is      *)
(* applied over an incomplete one, no event arrives that nobody expects,   *)
(* and a frame is finished only when one is awaited.  That is so as long   *)
(* as no commit with state_invalid set meets another output in use.        *)
THEOREM AssertionsHold ==
  ASSUME Steady PROVE Spec => []NoAbort
<1>1. CycleInv => NoAbort
  BY DEF CycleInv, Closed, Sound, NoAbort, Running
<1> QED
  BY <1>1, CycleInvariance, PTL

(* Under the same condition, whatever awaits a completion has a flip in    *)
(* flight, and with it, by FlipsHaveEvents, an event that will come.       *)
THEOREM AwaitedFlips ==
  ASSUME Steady PROVE Spec => []AwaitingHasFlip
<1>1. Inv /\ CycleInv => AwaitingHasFlip
  BY CycleFacts DEF AwaitingHasFlip, Awaiting, OutputList
<1> QED
  BY <1>1, Invariance, CycleInvariance, PTL

(* And what the backend takes for lit has its CRTC driven and a plane of   *)
(* it shown: no commit has swept it away with what is not in use.          *)
THEOREM LitIsShown ==
  ASSUME Steady PROVE Spec => []OnIsShown
<1>1. Inv /\ SweepInv => OnIsShown
  BY DEF Inv, Booked, SweepInv, OnIsShown, OutputList
<1> QED
  BY <1>1, Invariance, CycleInvariance, PTL

-----------------------------------------------------------------------------
(* The frame service.  A power-off put aside within the repaint handler    *)
(* may end the frames of several outputs at once, which is not a step of   *)
(* the service; without it each step is.                                   *)
Rendering == Steady /\ "sleeploop" \notin LegacyFeatures

Damaged == {o \in OutputList : out[o].needed}
Flying  == {o \in OutputList : Awaiting(out[o])}

(* A cycle that begins has damage to show, unless the session is away.     *)
DamageInv ==
  /\ ~sessionOff => \A o \in Outputs : out[o].status = "BEGIN_FROM_IDLE" => out[o].needed
  /\ \A o \in Outputs : out[o].pending # "off"
  /\ atomic /\ Asleep(power) => sessionOff

LEMMA InFlightIsFlying ==
  ASSUME \A o \in Outputs : Closed(out[o])
  PROVE  InFlight = Flying
BY DEF InFlight, Flying, Closed, Awaiting, OutputList

LEMMA InFlightIsFlyingNext ==
  ASSUME \A o \in Outputs : Closed(out[o])'
  PROVE  InFlight' = Flying'
BY DEF InFlight, Flying, Closed, Awaiting, OutputList

(* A step an onlooker does not see.                                        *)
LEMMA Stutters ==
  ASSUME CycleInv, CycleInv', DamageInv, UNCHANGED <<atomic, sessionOff>>,
         Asleep(power') <=> Asleep(power),
         \A o \in Outputs : /\ out'[o].life = out[o].life /\ out'[o].needed = out[o].needed
                            /\ Awaiting(out'[o]) <=> Awaiting(out[o])
                            /\ out'[o].status = "BEGIN_FROM_IDLE" => out[o].status = "BEGIN_FROM_IDLE"
                            /\ out'[o].pending # "off"
  PROVE  DamageInv' /\ [FS!Next]_(FS!vars)
<1>1. OutputList' = OutputList
  BY SameList
<1>2. Damaged' = Damaged /\ Flying' = Flying
  BY <1>1 DEF Damaged, Flying, OutputList, Awaiting
<1>3. InFlight' = InFlight
  BY <1>2, InFlightIsFlying, InFlightIsFlyingNext DEF CycleInv
<1>4. (~Asleep(power))' = ~Asleep(power)
  OBVIOUS
<1>5. UNCHANGED FS!vars
  BY <1>1, <1>2, <1>3, <1>4 DEF FS!vars, Damaged
<1>6. DamageInv'
  BY DEF DamageInv
<1> QED
  BY <1>5, <1>6

(* A step that schedules: more damage, a wake, or nothing.                 *)
LEMMA Schedules ==
  ASSUME CycleInv, CycleInv', DamageInv, UNCHANGED atomic,
         \A o \in Outputs : /\ out'[o].life = out[o].life
                            /\ Awaiting(out'[o]) <=> Awaiting(out[o])
                            /\ out[o].needed => out'[o].needed
                            /\ Asleep(power') => (out'[o].needed => out[o].needed)
                            /\ out'[o].pending # "off",
         ~sessionOff' => \A o \in Outputs : out'[o].status = "BEGIN_FROM_IDLE" => out'[o].needed,
         atomic /\ Asleep(power') => sessionOff',
         Asleep(power') => Asleep(power)
  PROVE  DamageInv' /\ [FS!Next]_(FS!vars)
<1>1. OutputList' = OutputList
  BY SameList
<1>2. /\ Damaged \subseteq Damaged' /\ Damaged' \subseteq OutputList
      /\ Asleep(power') => Damaged' = Damaged
      /\ Flying' = Flying
  BY <1>1 DEF Damaged, Flying, OutputList, Awaiting
<1>3. InFlight' = InFlight
  BY <1>2, InFlightIsFlying, InFlightIsFlyingNext DEF CycleInv
<1>4. DamageInv'
  BY DEF DamageInv
<1>5. CASE Asleep(power')
  BY <1>1, <1>2, <1>3, <1>4, <1>5 DEF FS!vars, Damaged
<1>6. CASE ~Asleep(power') /\ ~Asleep(power)
  <2>1. FS!Damage
    BY <1>1, <1>2, <1>3, <1>6 DEF FS!Damage, FS!MoreDamage, Damaged
  <2> QED
    BY <1>4, <2>1 DEF FS!Next
<1>7. CASE ~Asleep(power') /\ Asleep(power)
  <2>1. FS!Wake
    BY <1>1, <1>2, <1>3, <1>7 DEF FS!Wake, FS!MoreDamage, Damaged
  <2> QED
    BY <1>4, <2>1 DEF FS!Next
<1> QED
  BY <1>5, <1>6, <1>7

(* Scheduling outputs while the power state stays as awake as it was.      *)
LEMMA ScheduleAllStep ==
  ASSUME Inv, CycleInv, CycleInv', DamageInv, NEW O, NEW p,
         out' = ScheduleAll(out, O, p), UNCHANGED <<atomic, sessionOff>>,
         Asleep(p) <=> Asleep(power'), Asleep(power') <=> Asleep(power)
  PROVE  DamageInv' /\ [FS!Next]_(FS!vars)
<1>1. ASSUME NEW o \in Outputs
      PROVE  /\ out'[o].life = out[o].life
             /\ Awaiting(out'[o]) <=> Awaiting(out[o])
             /\ out[o].needed => out'[o].needed
             /\ Asleep(power') => (out'[o].needed => out[o].needed)
             /\ out'[o].pending # "off"
             /\ ~sessionOff => (out'[o].status = "BEGIN_FROM_IDLE" => out'[o].needed)
  <2>1. out[o] \in DrmOutputRec /\ Closed(out[o]) /\ out[o].pending # "off"
        /\ (~sessionOff => (out[o].status = "BEGIN_FROM_IDLE" => out[o].needed))
    BY CycleFacts DEF DamageInv
  <2>2. out'[o] = IF o \in O THEN ScheduleRepaint(out[o], p) ELSE out[o]
    BY DEF ScheduleAll
  <2>3. CASE o \in O
    BY <2>1, <2>2, <2>3, ScheduleClosed, ScheduleRepaintKms, ScheduleRepaintDamages
    DEF SameKms
  <2>4. CASE o \notin O
    BY <2>1, <2>2, <2>4
  <2> QED
    BY <2>3, <2>4
<1>2. atomic /\ Asleep(power') => sessionOff'
  BY DEF DamageInv
<1> QED
  BY <1>1, <1>2, Schedules

(* One output is scheduled after a change that an onlooker does not see.   *)
LEMMA OneScheduled ==
  ASSUME Inv, CycleInv, CycleInv', DamageInv, UNCHANGED <<atomic, sessionOff, power>>,
         NEW o \in Outputs, NEW r \in DrmOutputRec,
         r.life = out[o].life, r.needed = out[o].needed,
         r.status = out[o].status, r.pending = out[o].pending,
         out' = [out EXCEPT ![o] = ScheduleRepaint(r, power)]
  PROVE  DamageInv' /\ [FS!Next]_(FS!vars)
<1> DEFINE n == ScheduleRepaint(r, power)
<1>1. /\ out[o] \in DrmOutputRec /\ out[o].pending # "off"
      /\ (~sessionOff => (out[o].status = "BEGIN_FROM_IDLE" => out[o].needed))
  BY CycleFacts DEF DamageInv
<1>2. /\ n.life = r.life /\ n.pending = r.pending
      /\ r.needed => n.needed
      /\ Asleep(power) => n = r
      /\ n.status = "BEGIN_FROM_IDLE" => n.needed \/ n = r
  BY ScheduleRepaintKms, ScheduleRepaintDamages DEF SameKms
<1>3. \/ n.status = r.status
      \/ r.status = "NOT_SCHEDULED" /\ n.status = "BEGIN_FROM_IDLE"
  <2> DEFINE e == [r EXCEPT !.needed = TRUE]
             b == [Asserted(r, ~r.idle) EXCEPT !.needed = TRUE,
                     !.status = "BEGIN_FROM_IDLE", !.idle = TRUE]
  <2>1. e.status = r.status
    BY DEF DrmOutputRec
  <2>2. b.status = "BEGIN_FROM_IDLE"
    BY DEF Asserted, DrmOutputRec
  <2>3. n = r \/ n = e \/ (r.status = "NOT_SCHEDULED" /\ n = b)
    BY DEF ScheduleRepaint
  <2> HIDE DEF n, e, b
  <2> QED
    BY <2>1, <2>2, <2>3
<1>4. out'[o] = n /\ \A p \in Outputs \ {o} : out'[p] = out[p]
  BY DEF Inv, TypeOK
<1> HIDE DEF n
<1>5. ASSUME NEW p \in Outputs
      PROVE  /\ out'[p].life = out[p].life
             /\ Awaiting(out'[p]) <=> Awaiting(out[p])
             /\ out[p].needed => out'[p].needed
             /\ Asleep(power') => (out'[p].needed => out[p].needed)
             /\ out'[p].pending # "off"
             /\ ~sessionOff => (out'[p].status = "BEGIN_FROM_IDLE" => out'[p].needed)
  <2>1. CASE p = o
    BY <1>1, <1>2, <1>3, <1>4, <2>1 DEF Awaiting
  <2>2. CASE p # o
    BY <1>4, <2>2 DEF DamageInv
  <2> QED
    BY <2>1, <2>2
<1>6. atomic /\ Asleep(power') => sessionOff'
  BY DEF DamageInv
<1> QED
  BY <1>5, <1>6, Schedules

(* Outputs switched on: a wake, or damage while it is awake.               *)
LEMMA PowerOnAllStep ==
  ASSUME Inv, CycleInv, CycleInv', DamageInv, NEW D \in SUBSET OutputList, UNCHANGED atomic,
         out' = ScheduleAll([o \in Outputs |-> IF Listed(out[o]) THEN PowerOn(out[o])
                                                                ELSE out[o]], D, "ACTIVE"),
         power' = "ACTIVE", D = OutputList \/ ~sessionOff
  PROVE  DamageInv' /\ [FS!Next]_(FS!vars)
<1> DEFINE records[o \in Outputs] == IF Listed(out[o]) THEN PowerOn(out[o]) ELSE out[o]
<1>1. ASSUME NEW o \in Outputs
      PROVE  /\ records[o] \in DrmOutputRec /\ Closed(records[o])
             /\ out[o].needed => records[o].needed
             /\ Awaiting(records[o]) <=> Awaiting(out[o])
             /\ ~sessionOff => (records[o].status = "BEGIN_FROM_IDLE" => records[o].needed)
  <2>1. out[o] \in DrmOutputRec /\ Closed(out[o])
        /\ (~sessionOff => (out[o].status = "BEGIN_FROM_IDLE" => out[o].needed))
    BY CycleFacts DEF DamageInv
  <2> DEFINE c == [out[o] EXCEPT !.dpmsOff = FALSE]
  <2>2. /\ c \in DrmOutputRec /\ c.status = out[o].status /\ c.needed = out[o].needed
    BY <2>1 DEF DrmOutputRec
  <2>3. PowerOn(out[o]) = out[o] \/ PowerOn(out[o]) = ScheduleRepaint(c, "ACTIVE")
    BY DEF PowerOn
  <2> HIDE DEF c
  <2>4. /\ ScheduleRepaint(c, "ACTIVE").needed
        /\ ScheduleRepaint(c, "ACTIVE").status = "AWAITING_COMPLETION"
             <=> c.status = "AWAITING_COMPLETION"
    <3>1. ScheduleRepaint(c, "ACTIVE").needed
      BY <2>2, ScheduleRepaintDamages DEF Asleep
    <3>2. ScheduleRepaint(c, "ACTIVE").status \in {c.status, "BEGIN_FROM_IDLE"}
          /\ (c.status # "NOT_SCHEDULED" => ScheduleRepaint(c, "ACTIVE").status = c.status)
      BY <2>2 DEF ScheduleRepaint, Asserted, DrmOutputRec
    <3> QED
      BY <3>1, <3>2
  <2>5. /\ PowerOn(out[o]) \in DrmOutputRec /\ Closed(PowerOn(out[o]))
    BY <2>1, PowerOnKms, PowerOnClosed
  <2> QED
    BY <2>1, <2>2, <2>3, <2>4, <2>5 DEF Awaiting
<1>2. out' = ScheduleAll(records, D, "ACTIVE")
  OBVIOUS
<1>3. \A o \in Outputs : Listed(records[o]) = Listed(out[o])
  BY CycleFacts, PowerOnKms DEF Listed
<1> HIDE DEF records
<1>4. ASSUME NEW o \in Outputs
      PROVE  /\ out[o].needed => out'[o].needed
             /\ Awaiting(out'[o]) <=> Awaiting(out[o])
             /\ out'[o].status = "BEGIN_FROM_IDLE" => out'[o].needed
  <2>1. out'[o] = IF o \in D THEN ScheduleRepaint(records[o], "ACTIVE") ELSE records[o]
    BY <1>2 DEF ScheduleAll
  <2>2. CASE o \in D
    BY <1>1, <2>1, <2>2, ScheduleClosed, ScheduleRepaintDamages DEF Asleep
  <2>3. CASE o \notin D /\ ~sessionOff
    BY <1>1, <2>1, <2>3
  <2>4. CASE o \notin D /\ o \notin OutputList
    <3>1. out'[o] = AbsentDrmOutput /\ out[o] = AbsentDrmOutput
      BY <2>4, PowerOnAllKms, CycleFacts DEF Booked, OutputList
    <3> QED
      BY <3>1 DEF AbsentDrmOutput
  <2> QED
    BY <2>2, <2>3, <2>4
<1>5. \A o \in Outputs : out'[o].life = out[o].life /\ out'[o].pending = out[o].pending
  BY PowerOnAllKms
<1>6. ~Asleep(power')
  BY DEF Asleep
<1> QED
  BY <1>4, <1>5, <1>6, Schedules DEF DamageInv

-----------------------------------------------------------------------------
(* The other kinds of steps an onlooker sees.                              *)

(* A frame of output o is posted; it may damage any output.                *)
LEMMA Posts ==
  ASSUME CycleInv, CycleInv', DamageInv, UNCHANGED <<atomic, sessionOff, power>>,
         NEW o \in OutputList, out[o].needed, ~Awaiting(out[o]), ~Asleep(power),
         Awaiting(out'[o]),
         \A p \in Outputs : /\ out'[p].life = out[p].life
                            /\ p # o => /\ Awaiting(out'[p]) <=> Awaiting(out[p])
                                        /\ out[p].needed => out'[p].needed
                            /\ ~sessionOff =>
                                 (out'[p].status = "BEGIN_FROM_IDLE" => out'[p].needed)
                            /\ out'[p].pending # "off"
  PROVE  DamageInv' /\ [FS!Next]_(FS!vars)
<1>1. OutputList' = OutputList
  BY SameList
<1>2. /\ Damaged \ {o} \subseteq Damaged' /\ Damaged' \subseteq OutputList
      /\ Flying' = Flying \cup {o} /\ o \in Damaged \ Flying
  BY <1>1 DEF Damaged, Flying, OutputList
<1>3. InFlight = Flying /\ InFlight' = Flying'
  BY InFlightIsFlying, InFlightIsFlyingNext DEF CycleInv
<1>4. FS!Post(o)
  BY <1>1, <1>2, <1>3 DEF FS!Post, Damaged
<1>5. o \in Outputs
  BY DEF OutputList
<1>6. DamageInv'
  BY DEF DamageInv
<1> QED
  BY <1>4, <1>5, <1>6 DEF FS!Next

(* The frame in flight on output o completes.                              *)
LEMMA Completes ==
  ASSUME CycleInv, CycleInv', DamageInv, UNCHANGED <<atomic, sessionOff, power>>,
         NEW o \in OutputList, Awaiting(out[o]), ~Awaiting(out'[o]),
         \A p \in Outputs : /\ out'[p].life = out[p].life /\ out'[p].needed = out[p].needed
                            /\ p # o => (Awaiting(out'[p]) <=> Awaiting(out[p]))
                            /\ out'[p].status = "BEGIN_FROM_IDLE" => out[p].status = "BEGIN_FROM_IDLE"
                            /\ out'[p].pending # "off"
  PROVE  DamageInv' /\ [FS!Next]_(FS!vars)
<1>1. OutputList' = OutputList
  BY SameList
<1>2. Damaged' = Damaged /\ Flying' = Flying \ {o} /\ o \in Flying
  BY <1>1 DEF Damaged, Flying, OutputList
<1>3. InFlight = Flying /\ InFlight' = Flying'
  BY InFlightIsFlying, InFlightIsFlyingNext DEF CycleInv
<1>4. FS!Complete(o)
  BY <1>1, <1>2, <1>3 DEF FS!Complete, Damaged
<1>5. o \in Outputs
  BY DEF OutputList
<1>6. DamageInv'
  BY DEF DamageInv
<1> QED
  BY <1>4, <1>5, <1>6 DEF FS!Next

(* Output o is gone.                                                       *)
LEMMA Removes ==
  ASSUME Inv, CycleInv, CycleInv', DamageInv, UNCHANGED <<atomic, sessionOff, power>>,
         NEW o \in OutputList, out' = [out EXCEPT ![o] = AbsentDrmOutput]
  PROVE  DamageInv' /\ [FS!Next]_(FS!vars)
<1>1. /\ o \in Outputs /\ out'[o] = AbsentDrmOutput
      /\ \A p \in Outputs \ {o} : out'[p] = out[p]
  BY DEF Inv, TypeOK, OutputList
<1>2. OutputList' = OutputList \ {o}
  BY <1>1 DEF OutputList, Listed, AbsentDrmOutput
<1>3. Damaged' = Damaged \ {o} /\ Flying' = Flying \ {o}
  BY <1>1, <1>2 DEF Damaged, Flying, Awaiting, OutputList
<1>4. InFlight = Flying /\ InFlight' = Flying'
  BY InFlightIsFlying, InFlightIsFlyingNext DEF CycleInv
<1>5. FS!Remove(o)
  BY <1>2, <1>3, <1>4 DEF FS!Remove, Damaged
<1>6. DamageInv'
  BY <1>1 DEF DamageInv, AbsentDrmOutput
<1> QED
  BY <1>1, <1>5, <1>6 DEF FS!Next

(* Rendering stops: the damage is kept, or forgotten on every output.      *)
LEMMA Sleeps ==
  ASSUME CycleInv, CycleInv', DamageInv, UNCHANGED atomic, Asleep(power'),
         atomic => sessionOff',
         \A p \in Outputs : /\ out'[p].life = out[p].life
                            /\ Awaiting(out'[p]) <=> Awaiting(out[p])
                            /\ out'[p].pending # "off",
         \/ \A p \in OutputList : ~out'[p].needed
         \/ \A p \in OutputList : out'[p].needed = out[p].needed,
         ~sessionOff' => \A p \in Outputs : out'[p].status = "BEGIN_FROM_IDLE" => out'[p].needed
  PROVE  DamageInv' /\ [FS!Next]_(FS!vars)
<1>1. OutputList' = OutputList
  BY SameList
<1>2. Damaged' \in {Damaged, {}} /\ Flying' = Flying
  BY <1>1 DEF Damaged, Flying, OutputList, Awaiting
<1>3. InFlight = Flying /\ InFlight' = Flying'
  BY InFlightIsFlying, InFlightIsFlyingNext DEF CycleInv
<1>4. FS!Sleep
  BY <1>1, <1>2, <1>3 DEF FS!Sleep, Damaged
<1>5. DamageInv'
  BY DEF DamageInv
<1> QED
  BY <1>4, <1>5 DEF FS!Next

(* A step of one output that an onlooker does not see.                     *)
LEMMA OneStutters ==
  ASSUME Inv, CycleInv, CycleInv', DamageInv, UNCHANGED <<atomic, sessionOff, power>>,
         NEW o \in Outputs, NEW n, out' = [out EXCEPT ![o] = n],
         n.life = out[o].life, n.needed = out[o].needed,
         Awaiting(n) <=> Awaiting(out[o]), n.pending # "off",
         n.status = "BEGIN_FROM_IDLE" => out[o].status = "BEGIN_FROM_IDLE"
  PROVE  DamageInv' /\ [FS!Next]_(FS!vars)
<1>1. out'[o] = n /\ \A p \in Outputs \ {o} : out'[p] = out[p]
  BY DEF Inv, TypeOK
<1>2. \A p \in Outputs : /\ out'[p].life = out[p].life /\ out'[p].needed = out[p].needed
                         /\ Awaiting(out'[p]) <=> Awaiting(out[p])
                         /\ out'[p].status = "BEGIN_FROM_IDLE" => out[p].status = "BEGIN_FROM_IDLE"
                         /\ out'[p].pending # "off"
  BY <1>1 DEF DamageInv
<1> QED
  BY <1>2, Stutters

(* Finishing a frame and switching off leave the damage, and restart the   *)
(* cycle if they do anything to it.                                        *)
LEMMA SyncOffDamage ==
  ASSUME NEW r \in DrmOutputRec
  PROVE  LET n == SyncOff(r)
         IN  n.needed = r.needed /\ n.status \in {r.status, "SCHEDULED"}
<1> DEFINE off == [Asserted(r, ~r.flip) EXCEPT !.on = FALSE, !.rewired = FALSE]
<1>1. off \in DrmOutputRec /\ off.needed = r.needed /\ off.status = r.status
  BY DEF Asserted, DrmOutputRec
<1>2. SyncOff(r) = off \/ SyncOff(r) = FinishFrame(off, TRUE, FALSE)
  BY DEF SyncOff
<1> HIDE DEF off
<1> QED
  BY <1>1, <1>2, FinishFrameDamage

(* A flush leaves the damage and the cycle of what it puts on the screen.  *)
LEMMA AppliedDamage ==
  ASSUME NEW r \in DrmOutputRec, NEW accepted \in BOOLEAN, r.pending # "off"
  PROVE  LET n == Applied(r, accepted)
         IN  n.needed = r.needed /\ n.status = r.status
BY DEF Applied, AssignAsync, Asserted, DrmOutputRec

-----------------------------------------------------------------------------
(* The steps of the specification.                                         *)

LEMMA IdleRepaintStep ==
  ASSUME Rendering, Inv, CycleInv, CycleInv', DamageInv, UNCHANGED atomic,
         NEW o \in Outputs, IdleRepaint(o)
  PROVE  DamageInv' /\ [FS!Next]_(FS!vars)
<1> DEFINE r == EnterRepaintLoop(out[o])
<1>1. /\ out[o] \in DrmOutputRec /\ Closed(out[o]) /\ Booked(o) /\ out[o].idle
      /\ out[o].pending = "none" /\ UNCHANGED <<power, sessionOff>>
  BY CycleFacts DEF IdleRepaint
<1>2. out[o].status = "BEGIN_FROM_IDLE" /\ ~out[o].flip /\ ~Awaiting(out[o]) /\ Listed(out[o])
  BY <1>1 DEF Closed, Sound, Awaiting, Booked, AbsentDrmOutput
<1>3. /\ r \in DrmOutputRec /\ SameKms(out[o], r) /\ r.needed = out[o].needed
  <2>1. r.needed = out[o].needed
    BY <1>1 DEF EnterRepaintLoop, Asserted, DrmOutputRec
  <2> QED
    BY <1>1, <2>1, EnterRepaintLoopKms
<1>4. ASSUME NEW stamp \in BOOLEAN, out' = [out EXCEPT ![o] = FinishFrame(r, stamp, TRUE)]
      PROVE  DamageInv' /\ [FS!Next]_(FS!vars)
  <2> DEFINE n == FinishFrame(r, stamp, TRUE)
  <2> HIDE DEF r
  <2>1. SameKms(r, n) /\ n.needed = r.needed /\ n.status = "SCHEDULED"
    BY <1>3, FinishFrameKms, FinishFrameDamage
  <2>2. out' = [out EXCEPT ![o] = n]
    BY <1>4
  <2> HIDE DEF n
  <2> QED
    BY <1>1, <1>2, <1>3, <2>1, <2>2, OneStutters DEF SameKms, Awaiting
<1>5. ASSUME atomic, ~sessionOff, out' = [out EXCEPT ![o] = AssignAsync(r, TRUE)]
      PROVE  DamageInv' /\ [FS!Next]_(FS!vars)
  <2> DEFINE n == AssignAsync(r, TRUE)
  <2>2. ~Asleep(power) /\ out[o].needed
    BY <1>2, <1>5 DEF DamageInv
  <2>3. n.life = out[o].life /\ n.pending = "none" /\ n.flip
    <3> HIDE DEF r
    <3> QED
      BY <1>1, <1>3, AssignAsyncKms DEF SameKms
  <2>4. out'[o] = n /\ \A p \in Outputs \ {o} : out'[p] = out[p]
    BY <1>5 DEF Inv, TypeOK
  <2> HIDE DEF n
  <2>5. Awaiting(out'[o])
    BY <2>3, <2>4 DEF CycleInv, Closed, Awaiting
  <2>6. \A p \in Outputs : /\ out'[p].life = out[p].life
                           /\ p # o => /\ Awaiting(out'[p]) <=> Awaiting(out[p])
                                       /\ out[p].needed => out'[p].needed
                           /\ ~sessionOff =>
                                (out'[p].status = "BEGIN_FROM_IDLE" => out'[p].needed)
                           /\ out'[p].pending # "off"
    BY <2>3, <2>4, <2>5 DEF DamageInv, Awaiting
  <2>7. o \in OutputList
    BY <1>2 DEF OutputList
  <2> QED
    BY <1>1, <1>2, <2>2, <2>5, <2>6, <2>7, Posts
<1> HIDE DEF r
<1>6. CASE /\ "novblank" \in Features
           /\ \E taken \in BOOLEAN, A \in SUBSET {o} :
                /\ Answer({o}, {o}, taken, A)
                /\ out' = [out EXCEPT ![o] = IF o \in A THEN AssignAsync(r, TRUE)
                                             ELSE IF atomic THEN FinishFrame(r, FALSE, TRUE)
                                             ELSE r]
  <2>1. PICK taken \in BOOLEAN, A \in SUBSET {o} :
          /\ Answer({o}, {o}, taken, A)
          /\ out' = [out EXCEPT ![o] = IF o \in A THEN AssignAsync(r, TRUE)
                                       ELSE IF atomic THEN FinishFrame(r, FALSE, TRUE)
                                       ELSE r]
    BY <1>6
  <2>2. atomic
    BY <1>6 DEF Features, Rendering, Steady
  <2>3. CASE o \in A
    <3>1. ~sessionOff
      BY <2>1, <2>3 DEF Answer
    <3> QED
      BY <1>5, <2>1, <2>2, <2>3, <3>1
  <2>4. CASE o \notin A
    BY <1>4, <2>1, <2>2, <2>4
  <2> QED
    BY <2>3, <2>4
<1>7. ~r.destroyPending
  BY <1>1, <1>2, <1>3 DEF SameKms, Booked
<1> QED
  BY <1>4, <1>6, <1>7 DEF IdleRepaint, r

LEMMA VisitOutputStep ==
  ASSUME Rendering, Inv, CycleInv, CycleInv', DamageInv, UNCHANGED atomic,
         NEW o \in Outputs, VisitOutput(o)
  PROVE  DamageInv' /\ [FS!Next]_(FS!vars)
<1>1. /\ visiting /\ UNCHANGED sessionOff /\ o \in OutputList
      /\ out[o] \in DrmOutputRec /\ Closed(out[o]) /\ Booked(o) /\ out[o].pending # "off"
  BY CycleFacts DEF VisitOutput, Inv, TypeOK, DamageInv
<1>2. CASE UNCHANGED <<out, power>>
  <2>1. \A p \in Outputs : /\ out'[p].life = out[p].life /\ out'[p].needed = out[p].needed
                           /\ Awaiting(out'[p]) <=> Awaiting(out[p])
                           /\ out'[p].status = "BEGIN_FROM_IDLE" => out[p].status = "BEGIN_FROM_IDLE"
                           /\ out'[p].pending # "off"
    BY <1>2 DEF DamageInv
  <2> QED
    BY <1>1, <1>2, <2>1, Stutters
<1>3. CASE /\ ReadyToRepaint(out[o])
           /\ out' = [out EXCEPT ![o] = ScheduleRepaintReset(@)]
           /\ UNCHANGED power
  <2> DEFINE n == ScheduleRepaintReset(out[o])
  <2>1. /\ n.life = out[o].life /\ n.needed = out[o].needed /\ n.pending = out[o].pending
        /\ n.status = "NOT_SCHEDULED"
    BY <1>1 DEF ScheduleRepaintReset, DrmOutputRec
  <2>2. out' = [out EXCEPT ![o] = n]
    BY <1>3
  <2> HIDE DEF n
  <2>3. ~Awaiting(n) /\ ~Awaiting(out[o])
    BY <1>3, <2>1 DEF Awaiting, ReadyToRepaint
  <2> QED
    BY <1>1, <1>3, <2>1, <2>2, <2>3, OneStutters
<1>4. CASE ReadyToRepaint(out[o]) /\ ~DropFromCycle(out[o], power) /\ RepaintOutput(o)
  <2>1. PICK taken \in BOOLEAN, drawn \in BOOLEAN, locks \in BOOLEAN,
             D \in {{}, {o}, OutputList} :
          LET ok      == drawn /\ ~out[o].destroyPending
              painted == RepaintDone(Asserted(out[o], ~out[o].flip), taken, ok)
              damaged == ScheduleAll([out EXCEPT ![o] =
                                        [painted EXCEPT !.pending = IF ok THEN "on" ELSE "none"]],
                                     D, power)
              slept   == [p \in Outputs |-> IF locks /\ Listed(damaged[p])
                                            THEN PowerOffInLoop(damaged[p]) ELSE damaged[p]]
          IN  /\ ~drawn => "renderfail" \in Features
              /\ locks => "sleeploop" \in Features /\ power = "IDLE" /\ out[o].on
              /\ out' = IF ok THEN slept ELSE [slept EXCEPT ![o] = ScheduleRepaintReset(@)]
              /\ power' = IF locks THEN "SLEEPING" ELSE power
              /\ failed' = ~ok
              /\ todo' = IF ok THEN todo \ {o} ELSE {}
    BY <1>4 DEF RepaintOutput
  <2>2. out[o].status = "SCHEDULED" /\ ~Asleep(power) /\ out[o].needed
    BY <1>4 DEF ReadyToRepaint, DropFromCycle
  <2>3. ~Awaiting(out[o]) /\ ~out[o].flip /\ ~out[o].destroyPending
    BY <1>1, <2>2 DEF Closed, Awaiting, Booked
  <2>4. (drawn /\ ~out[o].destroyPending) = TRUE /\ locks = FALSE
    BY <2>1, <2>3 DEF Features, Rendering, Steady
  <2> DEFINE r       == Painted(o, taken, TRUE)
             records == [out EXCEPT ![o] = r]
             damaged == ScheduleAll(records, D, power)
  <2>5. power' = power /\ out' = damaged
    <3>1. [p \in Outputs |-> damaged[p]] = damaged
      BY DEF ScheduleAll
    <3> QED
      BY <2>1, <2>4, <3>1 DEF Painted
  <2>6. /\ r \in DrmOutputRec /\ Closed(r) /\ r.life = out[o].life
        /\ Awaiting(r) /\ r.pending = "on"
    BY <1>1, <2>2, PaintedKms, PaintedClosed
  <2> HIDE DEF r
  <2>7. records[o] = r /\ \A p \in Outputs \ {o} : records[p] = out[p]
    BY DEF Inv, TypeOK
  <2> HIDE DEF records
  <2>8. ASSUME NEW p \in Outputs
        PROVE  /\ records[p] \in DrmOutputRec /\ Closed(records[p])
               /\ records[p].life = out[p].life /\ records[p].pending # "off"
               /\ ~sessionOff =>
                    (records[p].status = "BEGIN_FROM_IDLE" => records[p].needed)
    <3>1. CASE p = o
      BY <2>6, <2>7, <3>1 DEF Awaiting
    <3>2. CASE p # o
      BY <2>7, <3>2, CycleFacts DEF DamageInv
    <3> QED
      BY <3>1, <3>2
  <2>9. ASSUME NEW p \in Outputs
        PROVE  /\ damaged[p].life = records[p].life
               /\ damaged[p].pending = records[p].pending
               /\ Awaiting(damaged[p]) <=> Awaiting(records[p])
               /\ records[p].needed => damaged[p].needed
               /\ ~sessionOff =>
                    (damaged[p].status = "BEGIN_FROM_IDLE" => damaged[p].needed)
    <3>1. damaged[p] = IF p \in D THEN ScheduleRepaint(records[p], power) ELSE records[p]
      BY DEF ScheduleAll
    <3>2. CASE p \in D
      BY <2>2, <2>8, <3>1, <3>2, ScheduleRepaintKms, ScheduleClosed, ScheduleRepaintDamages
      DEF SameKms
    <3>3. CASE p \notin D
      BY <2>8, <3>1, <3>3
    <3> QED
      BY <3>2, <3>3
  <2> HIDE DEF damaged
  <2>10. \A p \in Outputs : /\ out'[p].life = out[p].life
                            /\ p # o => /\ Awaiting(out'[p]) <=> Awaiting(out[p])
                                        /\ out[p].needed => out'[p].needed
                            /\ ~sessionOff =>
                                 (out'[p].status = "BEGIN_FROM_IDLE" => out'[p].needed)
                            /\ out'[p].pending # "off"
    BY <2>5, <2>7, <2>8, <2>9
  <2>11. Awaiting(out'[o])
    BY <2>5, <2>6, <2>7, <2>9
  <2> QED
    BY <1>1, <2>2, <2>3, <2>5, <2>10, <2>11, Posts
<1> QED
  BY <1>2, <1>3, <1>4 DEF VisitOutput

LEMMA RepaintFlushStep ==
  ASSUME Rendering, Inv, CycleInv, CycleInv', DamageInv, UNCHANGED atomic, RepaintFlush
  PROVE  DamageInv' /\ [FS!Next]_(FS!vars)
<1>1. PICK A : LeaveHandler([o \in Outputs |-> Applied(out[o], o \in A)])
  BY DEF RepaintFlush
<1>2. UNCHANGED <<power, sessionOff>>
  BY DEF RepaintFlush
<1>3. ASSUME NEW o \in Outputs
      PROVE  /\ out'[o].life = out[o].life /\ out'[o].needed = out[o].needed
             /\ Awaiting(out'[o]) <=> Awaiting(out[o])
             /\ out'[o].status = "BEGIN_FROM_IDLE" => out[o].status = "BEGIN_FROM_IDLE"
             /\ out'[o].pending # "off"
  <2> DEFINE b == o \in A
             n == Applied(out[o], b)
  <2>1. out[o] \in DrmOutputRec /\ out[o].pending # "off" /\ b \in BOOLEAN
    BY CycleFacts DEF DamageInv
  <2>2. out'[o] = [n EXCEPT !.repainted = FALSE]
    BY <1>1 DEF LeaveHandler
  <2> HIDE DEF b
  <2>3. /\ n \in DrmOutputRec /\ n.life = out[o].life /\ n.pending = "none"
        /\ n.needed = out[o].needed /\ n.status = out[o].status
    BY <2>1, AppliedKms, AppliedDamage
  <2> HIDE DEF n
  <2> QED
    BY <2>2, <2>3 DEF DrmOutputRec, Awaiting
<1> QED
  BY <1>2, <1>3, Stutters

LEMMA FlipEventStep ==
  ASSUME Rendering, Inv, CycleInv, CycleInv', DamageInv, UNCHANGED atomic,
         NEW o \in Outputs, FlipEvent(o)
  PROVE  DamageInv' /\ [FS!Next]_(FS!vars)
<1> DEFINE a == Asserted(out[o], out[o].flip)
           r == [a EXCEPT !.flip = FALSE]
<1>1. /\ out[o] \in DrmOutputRec /\ Closed(out[o]) /\ Booked(o)
      /\ o \in events /\ UNCHANGED <<power, sessionOff>>
      /\ out[o].pending = "none"
  BY CycleFacts DEF FlipEvent
<1>2. /\ r.abort = (out[o].abort \/ ~out[o].flip) /\ r.idle = out[o].idle
      /\ r.status = out[o].status /\ r.feedback = out[o].feedback /\ r.flip = FALSE
      /\ r.pending = "none" /\ r.dpmsOff = out[o].dpmsOff /\ r.life = out[o].life
      /\ r.needed = out[o].needed /\ r \in DrmOutputRec
  BY <1>1 DEF Asserted, DrmOutputRec
<1>3. \/ /\ atomic /\ ~Listed(r)
         /\ UNCHANGED out
      \/ /\ Listed(r) \/ ~atomic
         /\ out' = [out EXCEPT ![o] = AbsentDrmOutput]
      \/ /\ Listed(r) \/ ~atomic
         /\ r.dpmsOff
         /\ ApplySync([out EXCEPT ![o] = [r EXCEPT !.dpmsOff = FALSE]], {o})
      \/ /\ Listed(r) \/ ~atomic
         /\ out' = [out EXCEPT ![o] =
                      IF ~r.on /\ r.status # "AWAITING_COMPLETION" THEN r
                      ELSE FinishFrame(r, TRUE, FALSE)]
  BY DEF FlipEvent
<1> HIDE DEF r
<1>4. ASSUME Listed(r) \/ ~atomic
      PROVE  /\ o \in OutputList /\ Awaiting(out[o]) /\ Awaiting(r)
             /\ Sound(r)
  <2>1. out[o].flip
    BY <1>1, <1>2, <1>4, CycleFacts DEF Booked, Listed
  <2> QED
    BY <1>1, <1>2, <2>1, CycleFacts DEF Closed, Sound, Awaiting, OutputList
<1>5. CASE UNCHANGED out
  <2>1. \A p \in Outputs : /\ out'[p].life = out[p].life /\ out'[p].needed = out[p].needed
                           /\ Awaiting(out'[p]) <=> Awaiting(out[p])
                           /\ out'[p].status = "BEGIN_FROM_IDLE" => out[p].status = "BEGIN_FROM_IDLE"
                           /\ out'[p].pending # "off"
    BY <1>5 DEF DamageInv
  <2> QED
    BY <1>1, <2>1, Stutters
<1>6. CASE (Listed(r) \/ ~atomic) /\ out' = [out EXCEPT ![o] = AbsentDrmOutput]
  BY <1>1, <1>4, <1>6, Removes
<1>7. ASSUME Listed(r) \/ ~atomic, NEW n, out' = [out EXCEPT ![o] = n],
             n.life = r.life, n.needed = r.needed, n.pending = "none", n.status = "SCHEDULED"
      PROVE  DamageInv' /\ [FS!Next]_(FS!vars)
  <2>1. out'[o] = n /\ \A p \in Outputs \ {o} : out'[p] = out[p]
    BY <1>7 DEF Inv, TypeOK
  <2>2. \A p \in Outputs : /\ out'[p].life = out[p].life /\ out'[p].needed = out[p].needed
                           /\ p # o => (Awaiting(out'[p]) <=> Awaiting(out[p]))
                           /\ out'[p].status = "BEGIN_FROM_IDLE" => out[p].status = "BEGIN_FROM_IDLE"
                           /\ out'[p].pending # "off"
    BY <1>2, <1>7, <2>1 DEF DamageInv
  <2>3. ~Awaiting(out'[o])
    BY <1>7, <2>1 DEF Awaiting
  <2> QED
    BY <1>1, <1>4, <1>7, <2>2, <2>3, Completes
<1>8. CASE /\ Listed(r) \/ ~atomic
           /\ r.dpmsOff
           /\ ApplySync([out EXCEPT ![o] = [r EXCEPT !.dpmsOff = FALSE]], {o})
  <2> DEFINE d       == [r EXCEPT !.dpmsOff = FALSE]
             records == [out EXCEPT ![o] = d]
  <2>1. ~atomic
    BY <1>1, <1>2, <1>8 DEF Closed
  <2>2. /\ d \in DrmOutputRec /\ d.abort = r.abort /\ d.idle = r.idle /\ d.status = r.status
        /\ d.feedback = r.feedback /\ d.flip = FALSE /\ d.pending = "none"
        /\ d.life = r.life /\ d.needed = r.needed
    BY <1>2 DEF DrmOutputRec
  <2>3. out' = [p \in Outputs |-> IF p \in {o} THEN SyncOff(records[p]) ELSE records[p]]
    BY <1>8, <2>1 DEF ApplySync
  <2> HIDE DEF d
  <2>4. records[o] = d /\ \A p \in Outputs \ {o} : records[p] = out[p]
    BY DEF Inv, TypeOK
  <2> HIDE DEF records
  <2>5. out' = [out EXCEPT ![o] = SyncOff(d)]
    BY <2>3, <2>4 DEF Inv, TypeOK
  <2>6. /\ SyncOff(d).life = r.life /\ SyncOff(d).needed = r.needed
        /\ SyncOff(d).pending = "none" /\ SyncOff(d).status = "SCHEDULED"
    <3>1. Sound(d) /\ d.status = "AWAITING_COMPLETION"
      BY <1>4, <1>8, <2>2 DEF Sound, Awaiting
    <3>2. Closed(SyncOff(d)) /\ ~Awaiting(SyncOff(d))
      BY <2>1, <2>2, <3>1, SyncOffClosed
    <3> QED
      BY <2>1, <2>2, <3>1, <3>2, SyncOffClosed, SyncOffDamage DEF Awaiting
  <2> QED
    BY <1>7, <1>8, <2>5, <2>6
<1>9. CASE /\ Listed(r) \/ ~atomic
           /\ out' = [out EXCEPT ![o] =
                        IF ~r.on /\ r.status # "AWAITING_COMPLETION" THEN r
                        ELSE FinishFrame(r, TRUE, FALSE)]
  <2> DEFINE n == FinishFrame(r, TRUE, FALSE)
  <2>1. out' = [out EXCEPT ![o] = n]
    BY <1>4, <1>9 DEF Awaiting
  <2>2. SameKms(r, n) /\ n.needed = r.needed /\ n.status = "SCHEDULED"
    BY <1>2, FinishFrameKms, FinishFrameDamage
  <2> HIDE DEF n
  <2>3. n.life = r.life /\ n.pending = "none"
    BY <1>2, <2>2 DEF SameKms
  <2> QED
    BY <1>7, <1>9, <2>1, <2>2, <2>3
<1> QED
  BY <1>3, <1>5, <1>6, <1>8, <1>9

LEMMA SleepStep ==
  ASSUME Rendering, Inv, CycleInv, CycleInv', DamageInv, UNCHANGED atomic, Sleep
  PROVE  DamageInv' /\ [FS!Next]_(FS!vars)
<1> DEFINE lit    == {o \in OutputList : out[o].on}
           parked == {o \in lit : out[o].flip}
           records[o \in Outputs] ==
             IF o \in parked THEN [out[o] EXCEPT !.dpmsOff = TRUE] ELSE out[o]
<1>1. ~atomic /\ ~visiting /\ Asleep(power')
  BY DEF Sleep, Features, Rendering, Steady, Asleep
<1>2. out' = [o \in Outputs |-> IF o \in lit \ parked THEN SyncOff(records[o]) ELSE records[o]]
  <2>1. ApplySync(records, lit \ parked)
    BY DEF Sleep, PowerOffAll
  <2> HIDE DEF records, lit, parked
  <2> QED
    BY <1>1, <2>1 DEF ApplySync
<1>3. ASSUME NEW o \in Outputs
      PROVE  /\ out'[o].life = out[o].life /\ out'[o].needed = out[o].needed
             /\ Awaiting(out'[o]) <=> Awaiting(out[o])
             /\ out'[o].status = "BEGIN_FROM_IDLE" => out[o].status = "BEGIN_FROM_IDLE"
             /\ out'[o].pending # "off"
  <2>1. /\ out[o] \in DrmOutputRec /\ Closed(out[o]) /\ out[o].pending = "none"
        /\ Awaiting(out[o]) => out[o].flip
    BY <1>1, CycleFacts
  <2>2. CASE o \in parked
    <3> DEFINE n == [out[o] EXCEPT !.dpmsOff = TRUE]
    <3>1. out'[o] = n
      BY <1>2, <2>2
    <3>2. /\ n.status = out[o].status /\ n.needed = out[o].needed
          /\ n.pending = out[o].pending /\ n.life = out[o].life
      BY <2>1 DEF DrmOutputRec
    <3> HIDE DEF n
    <3> QED
      BY <2>1, <3>1, <3>2 DEF Awaiting
  <2>3. CASE o \in lit \ parked
    <3>1. ~out[o].flip /\ out'[o] = SyncOff(out[o]) /\ Sound(out[o])
      BY <1>2, <2>1, <2>3 DEF Closed
    <3>2. /\ ~Awaiting(SyncOff(out[o])) /\ SyncOff(out[o]).life = out[o].life
          /\ SyncOff(out[o]).pending = "none" /\ SyncOff(out[o]).needed = out[o].needed
      BY <1>1, <2>1, <3>1, SyncOffClosed
    <3>3. SyncOff(out[o]).status \in {out[o].status, "SCHEDULED"}
      BY <2>1, SyncOffDamage
    <3> QED
      BY <2>1, <3>1, <3>2, <3>3
  <2>4. CASE o \notin lit
    BY <1>2, <2>1, <2>4
  <2> QED
    BY <2>2, <2>3, <2>4
<1>4. UNCHANGED sessionOff
  BY DEF Sleep
<1> QED
  BY <1>1, <1>3, <1>4, Sleeps DEF DamageInv, OutputList

LEMMA LeaveSessionStep ==
  ASSUME Rendering, Inv, CycleInv, CycleInv', DamageInv, UNCHANGED atomic, LeaveSession
  PROVE  DamageInv' /\ [FS!Next]_(FS!vars)
<1>1. Asleep(power') /\ sessionOff'
  BY DEF LeaveSession, Asleep
<1>2. ASSUME NEW o \in Outputs
      PROVE  /\ out'[o].life = out[o].life
             /\ Awaiting(out'[o]) <=> Awaiting(out[o])
             /\ out'[o].pending # "off"
             /\ Listed(out[o]) => out'[o].needed = FALSE
  <2> DEFINE n == [out[o] EXCEPT !.needed = FALSE]
  <2>1. out[o] \in DrmOutputRec /\ out[o].pending # "off"
    BY CycleFacts DEF DamageInv
  <2>2. /\ n.status = out[o].status /\ n.needed = FALSE
        /\ n.pending = out[o].pending /\ n.life = out[o].life
    BY <2>1 DEF DrmOutputRec
  <2>3. out'[o] = IF Listed(out[o]) THEN n ELSE out[o]
    BY DEF LeaveSession
  <2> HIDE DEF n
  <2> QED
    BY <2>1, <2>2, <2>3 DEF Awaiting
<1> QED
  BY <1>1, <1>2, Sleeps DEF OutputList

LEMMA LifeCycleStep ==
  ASSUME Rendering, Inv, CycleInv, CycleInv', DamageInv, UNCHANGED atomic,
         NEW o \in Outputs, EnableOutput(o) \/ DestroyOutput(o) \/ HeadsChanged(o)
  PROVE  DamageInv' /\ [FS!Next]_(FS!vars)
<1>1. /\ out[o] \in DrmOutputRec /\ out[o].pending = "none"
      /\ UNCHANGED <<power, sessionOff>>
  BY CycleFacts DEF EnableOutput, DestroyOutput, HeadsChanged
<1>2. CASE EnableOutput(o)
  <2> DEFINE s == ScheduleRepaint(InitDrmOutput, power)
             n == AddOutput(PrepareEnable(InitDrmOutput, power))
  <2>1. /\ n.life = "enabled" /\ n.pending = "none" /\ n.needed \in BOOLEAN
        /\ n.status = "BEGIN_FROM_IDLE" => n.needed
        /\ n.status # "AWAITING_COMPLETION"
    BY DEF AddOutput, PrepareEnable, ScheduleRepaint, Asserted, InitDrmOutput, AbsentDrmOutput
  <2>2. out' = [out EXCEPT ![o] = n] /\ out[o].life = "absent"
    BY <1>2 DEF EnableOutput
  <2> HIDE DEF n
  <2>3. out'[o] = n /\ \A p \in Outputs \ {o} : out'[p] = out[p]
    BY <2>2 DEF Inv, TypeOK
  <2>4. OutputList' = OutputList \cup {o} /\ o \notin OutputList
    BY <2>1, <2>2, <2>3 DEF OutputList, Listed
  <2>5. Damaged' \in {Damaged, Damaged \cup {o}} /\ Flying' = Flying
    BY <2>1, <2>3, <2>4 DEF Damaged, Flying, Awaiting, OutputList
  <2>6. InFlight = Flying /\ InFlight' = Flying'
    BY InFlightIsFlying, InFlightIsFlyingNext DEF CycleInv
  <2>7. FS!Add(o)
    BY <1>1, <2>4, <2>5, <2>6 DEF FS!Add, Damaged
  <2>8. DamageInv'
    BY <1>1, <2>1, <2>3 DEF DamageInv
  <2> QED
    BY <2>7, <2>8 DEF FS!Next
<1>3. CASE DestroyOutput(o) /\ out[o].flip
  <2> DEFINE r == [out[o] EXCEPT !.destroyPending = TRUE]
  <2>1. /\ r \in DrmOutputRec /\ r.life = out[o].life /\ r.needed = out[o].needed
        /\ r.pending = out[o].pending /\ r.status = out[o].status
    BY <1>1 DEF DrmOutputRec
  <2>2. out' = [out EXCEPT ![o] = ScheduleRepaint(r, power)]
    BY <1>3 DEF DestroyOutput
  <2> HIDE DEF r
  <2> QED
    BY <1>1, <2>1, <2>2, OneScheduled
<1>4. CASE Listed(out[o]) /\ out' = [out EXCEPT ![o] = AbsentDrmOutput]
  BY <1>1, <1>4, Removes DEF OutputList
<1>5. CASE HeadsChanged(o)
  <2>1. PICK w \in BOOLEAN : out' = ScheduleAll([out EXCEPT ![o].rewired = w], {o}, power)
    BY <1>5 DEF HeadsChanged
  <2> DEFINE r == [out[o] EXCEPT !.rewired = w]
  <2>2. /\ r \in DrmOutputRec /\ r.life = out[o].life /\ r.needed = out[o].needed
        /\ r.pending = out[o].pending /\ r.status = out[o].status
    BY <1>1 DEF DrmOutputRec
  <2>3. out' = [out EXCEPT ![o] = ScheduleRepaint(r, power)]
    BY <2>1 DEF ScheduleAll, Inv, TypeOK
  <2> HIDE DEF r
  <2> QED
    BY <1>1, <2>2, <2>3, OneScheduled
<1> QED
  BY <1>2, <1>3, <1>4, <1>5 DEF DestroyOutput

LEMMA NextStep ==
  Rendering /\ Inv /\ CycleInv /\ CycleInv' /\ DamageInv /\ [Next]_vars
    => DamageInv' /\ [FS!Next]_(FS!vars)
<1> SUFFICES ASSUME Rendering, Inv, CycleInv, CycleInv', DamageInv, [Next]_vars
             PROVE  DamageInv' /\ [FS!Next]_(FS!vars)
  OBVIOUS
<1>1. ASSUME UNCHANGED <<atomic, out, power, sessionOff>>
      PROVE  DamageInv' /\ [FS!Next]_(FS!vars)
  <2>1. \A o \in Outputs : /\ out'[o].life = out[o].life /\ out'[o].needed = out[o].needed
                           /\ Awaiting(out'[o]) <=> Awaiting(out[o])
                           /\ out'[o].status = "BEGIN_FROM_IDLE" => out[o].status = "BEGIN_FROM_IDLE"
                           /\ out'[o].pending # "off"
    BY <1>1 DEF DamageInv
  <2> QED
    BY <1>1, <2>1, Stutters
<1>2. CASE UNCHANGED vars
  BY <1>1, <1>2 DEF vars
<1> SUFFICES ASSUME Next PROVE DamageInv' /\ [FS!Next]_(FS!vars)
  BY <1>2
<1>3. UNCHANGED atomic
  BY DEF Next
<1>4. ASSUME NEW o \in Outputs, IdleRepaint(o) PROVE DamageInv' /\ [FS!Next]_(FS!vars)
  BY <1>3, <1>4, IdleRepaintStep
<1>5. ASSUME NEW o \in Outputs, Tick(o) PROVE DamageInv' /\ [FS!Next]_(FS!vars)
  <2> DEFINE n == [out[o] EXCEPT !.due = TRUE]
  <2>1. out[o] \in DrmOutputRec /\ out[o].pending # "off"
    BY CycleFacts DEF DamageInv
  <2>2. /\ n.life = out[o].life /\ n.needed = out[o].needed /\ n.pending = out[o].pending
        /\ n.status = out[o].status
    BY <2>1 DEF DrmOutputRec
  <2>3. out' = [out EXCEPT ![o] = n] /\ UNCHANGED <<sessionOff, power>>
    BY <1>5 DEF Tick
  <2> HIDE DEF n
  <2> QED
    BY <1>3, <2>1, <2>2, <2>3, OneStutters DEF Awaiting
<1>6. ASSUME NEW o \in Outputs, VisitOutput(o) PROVE DamageInv' /\ [FS!Next]_(FS!vars)
  BY <1>3, <1>6, VisitOutputStep
<1>7. ASSUME NEW o \in Outputs, FlipEvent(o) PROVE DamageInv' /\ [FS!Next]_(FS!vars)
  BY <1>3, <1>7, FlipEventStep
<1>8. ASSUME NEW o \in Outputs, Damage(o) PROVE DamageInv' /\ [FS!Next]_(FS!vars)
  BY <1>3, <1>8, ScheduleAllStep DEF Damage
<1>9. ASSUME NEW o \in Outputs, EnableOutput(o) \/ DestroyOutput(o) \/ HeadsChanged(o)
      PROVE  DamageInv' /\ [FS!Next]_(FS!vars)
  BY <1>3, <1>9, LifeCycleStep
<1>11. CASE RepaintTimer
  BY <1>1, <1>3, <1>11 DEF RepaintTimer
<1>12. CASE RepaintFlush
  BY <1>3, <1>12, RepaintFlushStep
<1>13. CASE RepaintCancel
  BY <1>13 DEF RepaintCancel, CycleInv
<1>14. CASE IdleTimeout
  BY <1>3, <1>14, ScheduleAllStep DEF IdleTimeout, Asleep
<1>15. CASE Sleep
  BY <1>3, <1>15, SleepStep
<1>16. CASE Wake
  <2>1. PICK D \in {{}, OutputList} :
          out' = ScheduleAll([o \in Outputs |-> IF Listed(out[o]) THEN PowerOn(out[o])
                                                                 ELSE out[o]], D, "ACTIVE")
    BY <1>16 DEF Wake
  <2>2. D \in SUBSET OutputList /\ power' = "ACTIVE" /\ ~sessionOff
    BY <1>16 DEF Wake
  <2> QED
    BY <1>3, <2>1, <2>2, PowerOnAllStep
<1>17. CASE LeaveSession
  BY <1>3, <1>17, LeaveSessionStep
<1>18. CASE EnterSession
  BY <1>3, <1>18, PowerOnAllStep DEF EnterSession
<1> QED
  BY <1>4, <1>5, <1>6, <1>7, <1>8, <1>9, <1>11, <1>12, <1>13, <1>14, <1>15, <1>16,
     <1>17, <1>18 DEF Next

LEMMA InitStep == Init => DamageInv /\ FS!Init
<1> SUFFICES ASSUME Init PROVE DamageInv /\ FS!Init
  OBVIOUS
<1>1. OutputList = {} /\ ~Asleep(power)
  BY DEF Init, OutputList, Listed, AbsentDrmOutput, Asleep
<1>2. InFlight = {}
  BY <1>1 DEF InFlight
<1>3. FS!Init
  BY <1>1, <1>2 DEF FS!Init
<1>4. DamageInv
  BY <1>1 DEF Init, DamageInv, AbsentDrmOutput
<1> QED
  BY <1>3, <1>4

(* The repaint cycle over KMS implements the frame service, with whatever  *)
(* set of outputs: weston_output_repaint() posts at most one frame for     *)
(* each output, only for damage and while awake, and a frame in flight     *)
(* ends once, when it is completed or the output is gone.                  *)
THEOREM Refinement ==
  ASSUME Rendering PROVE Spec => FS!Init /\ [][FS!Next]_(FS!vars)
<1>1. Init => DamageInv /\ FS!Init
  BY InitStep
<1>2. Inv /\ CycleInv /\ CycleInv' /\ DamageInv /\ [Next]_vars
        => DamageInv' /\ [FS!Next]_(FS!vars)
  BY NextStep
<1>3. Spec => Init /\ [][Next]_vars
  BY DEF Spec
<1>4. Rendering => Steady
  BY DEF Rendering
<1>5. Spec => [](CycleInv /\ SweepInv)
  BY <1>4, CycleInvariance
<1> QED
  BY <1>1, <1>2, <1>3, <1>5, Invariance, PTL
=============================================================================
