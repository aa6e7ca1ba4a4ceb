------------------------- MODULE XdgToplevel_proofs -------------------------
(***************************************************************************)
(* Theorems about XdgToplevel: types, and that a client knows what the     *)
(* shell wants once nothing is scheduled, for sizes, lengths of the list   *)
(* of configures and buffer margins of any bound.                          *)
(*                                                                         *)
(* ClientKnows is not inductive: an acknowledgement changes what the next  *)
(* decision is compared with.  LastIsTold ties that to what was sent: the  *)
(* newest configure in flight, or with none in flight the one that was     *)
(* acknowledged last, is the last one sent.                                *)
(***************************************************************************)
EXTENDS XdgToplevel, SequenceTheorems, TLAPS

(* What the comparison looks at.                                           *)
LastIsTold ==
  /\ top.list # <<>> => top.list[Len(top.list)] = told
  /\ top.list = <<>> /\ top.configured => top.next = told

(* Nothing happens to a toplevel before the shell knows it.                *)
AddedFirst == ~top.added => ~top.configured /\ top.list = <<>> /\ ~top.idle

(* A state that binds the client comes with a size.                        *)
SizedHasSize == top.pending.state.mode = "sized" => top.pending.size # 0

Inv == TypeOK /\ LastIsTold /\ AddedFirst /\ SizedHasSize /\ ClientKnows

(* A decision of the shell, seen from outside of the hooks.                *)
Decided(t, u) ==
  /\ u = [t EXCEPT !.pending = u.pending, !.idle = u.idle, !.added = TRUE]
  /\ u.pending \in Confs
  /\ u.pending.state.mode = "sized" => u.pending.size # 0
  /\ u.idle = ~PendingSame(u)

LEMMA SizesInNat == 0 \in Sizes /\ Sizes \subseteq Nat
  BY ConfigAssumption DEF Sizes

LEMMA ActivatedDecides ==
  ASSUME NEW t \in Toplevel, NEW active \in BOOLEAN, t.added,
         t.pending.state.mode = "sized" => t.pending.size # 0
  PROVE  Decided(t, SetActivated(t, active))
  BY DEF Decided, SetActivated, ScheduleConfigure, PendingSame, Configured, Toplevel, Confs, States

LEMMA SizeDecides ==
  ASSUME NEW t \in Toplevel, NEW size \in Sizes, t.added,
         t.pending.state.mode = "sized" => size # 0
  PROVE  Decided(t, SetSize(t, size))
  BY DEF Decided, SetSize, ScheduleConfigure, PendingSame, Configured, Toplevel, Confs, States

LEMMA ModeDecides ==
  ASSUME NEW t \in Toplevel, NEW mode \in Modes, NEW size \in SizesFor(mode), t.added
  PROVE  Decided(t, ShellSetMode(t, mode, size))
<1>1. size \in Sizes /\ (mode = "sized" => size # 0)
  BY SizesInNat DEF SizesFor
<1> DEFINE u == SetMode(t, mode)
<1>2. /\ u \in Toplevel /\ u.added /\ u.pending.state.mode = mode
      /\ u = [t EXCEPT !.pending = u.pending, !.idle = u.idle]
  BY DEF SetMode, ScheduleConfigure, PendingSame, Toplevel, Confs, States
<1>3. Decided(u, SetSize(u, size))
  BY <1>1, <1>2, SizeDecides
<1> QED
  BY <1>2, <1>3 DEF ShellSetMode, Decided, Toplevel

(* A decision keeps the invariant, whatever it is, and misjudged or not.   *)
LEMMA DecisionKeepsInv ==
  ASSUME Inv, NEW t \in Toplevel, Decided(t, top'),
         t = [top EXCEPT !.pending = t.pending, !.idle = t.idle, !.added = t.added],
         top.added \/ ~top.configured,
         blind' = Misjudged(top) \/ ~top.configured, blind' \in BOOLEAN, grabbed' \in BOOLEAN, told' = told
  PROVE  Inv'
<1>1. /\ top' \in Toplevel /\ top'.added /\ top'.list = top.list /\ top'.configured = top.configured
      /\ top'.current = top.current /\ top'.width = top.width /\ top'.next = top.next
      /\ top'.pending \in Confs /\ top \in Toplevel /\ told \in Confs
      /\ top'.idle = ~PendingSame(top')
  BY DEF Inv, TypeOK, Decided, Toplevel, PendingSame
<1>2. TypeOK' /\ LastIsTold' /\ AddedFirst' /\ SizedHasSize'
  BY <1>1 DEF Inv, TypeOK, LastIsTold, AddedFirst, SizedHasSize, Decided
<1>3. ASSUME ~top'.idle, ~blind' PROVE /\ told.state = top'.pending.state
                                       /\ told.state.mode = "sized" => told.size = top'.pending.size
  <2>1. /\ top.configured
        /\ top'.pending.state = Configured(top').state
        /\ top'.pending.size \in {0, Configured(top').size}
    BY <1>1, <1>3 DEF PendingSame
  <2>2. CASE top.list # <<>>
    BY <1>1, <1>2, <2>1, <2>2 DEF Configured, LastIsTold, SizedHasSize
  <2>3. CASE top.list = <<>>
    <3>1. top.next = told /\ ~Misjudged(top)
      BY <1>3, <2>1, <2>3 DEF Inv, LastIsTold
    <3>2. top.current = told.state /\ (told.state.mode = "sized" => top.width \in {0, told.size})
      BY <2>1, <2>3, <3>1 DEF Misjudged
    <3> QED
      BY <1>1, <1>2, <2>1, <2>3, <3>2 DEF Configured, SizedHasSize
  <2> QED
    BY <2>2, <2>3
<1> QED
  BY <1>2, <1>3 DEF Inv, ClientKnows

(* Toplevels the shell is told of have not been configured: something is   *)
(* always scheduled for them.                                              *)
LEMMA EnsureAddedSchedules ==
  ASSUME Inv
  PROVE  LET t == EnsureAdded(top) IN
         /\ t \in Toplevel /\ t.added
         /\ t = [top EXCEPT !.pending = t.pending, !.idle = t.idle, !.added = t.added]
         /\ t.pending.state.mode = "sized" => t.pending.size # 0
         /\ ~top.added => t.idle
<1>1. top \in Toplevel /\ (top.pending.state.mode = "sized" => top.pending.size # 0)
  BY DEF Inv, TypeOK, SizedHasSize
<1>2. CASE top.added
  <2>1. EnsureAdded(top) = top
    BY <1>2 DEF EnsureAdded
  <2> QED
    BY <1>1, <1>2, <2>1 DEF Toplevel
<1>3. CASE ~top.added
  <2> DEFINE a == [top EXCEPT !.pending.state.active = FALSE]
             i == [a EXCEPT !.idle = TRUE]
             t == [i EXCEPT !.idle = TRUE, !.added = TRUE]
  <2>1. /\ a \in Toplevel /\ ~a.configured
        /\ a = [top EXCEPT !.pending = a.pending]
        /\ a.pending.state.mode = "sized" => a.pending.size # 0
    BY <1>1, <1>3 DEF Inv, AddedFirst, Toplevel, Confs, States
  <2> HIDE DEF a
  <2>2. SetActivated(top, FALSE) = i
    BY <2>1 DEF SetActivated, ScheduleConfigure, PendingSame, a, Toplevel
  <2>3. i \in Toplevel /\ ~i.configured
    BY <2>1 DEF Toplevel
  <2>4. ScheduleConfigure(i) = [i EXCEPT !.idle = TRUE]
    BY <2>3 DEF ScheduleConfigure, PendingSame
  <2>5. EnsureAdded(top) = t
    BY <1>3, <2>2, <2>3, <2>4 DEF EnsureAdded, Toplevel
  <2>6. /\ t \in Toplevel /\ t.added /\ t.idle /\ t.pending = a.pending
        /\ t = [top EXCEPT !.pending = t.pending, !.idle = t.idle, !.added = t.added]
    BY <1>1, <2>1 DEF Toplevel
  <2> QED
    BY <2>1, <2>5, <2>6
<1> QED
  BY <1>2, <1>3

(* The list without its first i elements.                                  *)
Cut(s, i, r) == /\ r = <<>> => i = Len(s)
                /\ r # <<>> => r[Len(r)] = s[Len(s)]

LEMMA SuffixIsCut ==
  ASSUME NEW S, NEW s \in Seq(S), NEW i \in 1..Len(s)
  PROVE  Cut(s, i, SubSeq(s, i + 1, Len(s)))
<1> DEFINE r == SubSeq(s, i + 1, Len(s))
<1>1. CASE i = Len(s)
  <2>1. r = <<>>
    BY <1>1, SubSeqEmpty
  <2> QED
    BY <1>1, <2>1 DEF Cut
<1>2. CASE i # Len(s)
  <2>1. /\ i + 1 \in Int /\ Len(s) \in Int /\ i + 1 <= Len(s)
        /\ Len(s) - i \in 1..(Len(s) - (i + 1) + 1) /\ \A j \in (i + 1)..Len(s) : s[j] \in S
    BY <1>2
  <2>2. Len(r) = Len(s) - i /\ r[Len(s) - i] = s[Len(s)]
    BY <2>1, SubSeqProperties
  <2> HIDE DEF r
  <2>3. r # <<>> /\ r[Len(r)] = s[Len(s)]
    BY <2>1, <2>2
  <2> QED
    BY <2>3 DEF Cut, r
<1> QED
  BY <1>1, <1>2

(* What acknowledging and committing leave of the invariant.               *)
LEMMA AckedKeepsInv ==
  ASSUME Inv, NEW i \in DOMAIN top.list, UNCHANGED <<grabbed, told, blind>>,
         top' \in Toplevel, top'.list = Acked(top, i).list, top'.next = Acked(top, i).next,
         top'.configured, top'.added = top.added, top'.idle = top.idle,
         top'.pending = top.pending
  PROVE  Inv'
<1>1. top.list \in Seq(Confs) /\ i \in 1..Len(top.list) /\ top.added
  BY DEF Inv, TypeOK, Toplevel, AddedFirst
<1>2. top'.list = SubSeq(top.list, i + 1, Len(top.list)) /\ top'.next = top.list[i]
  BY <1>1 DEF Acked, Inv, TypeOK, Toplevel
<1>3. Cut(top.list, i, top'.list)
  BY <1>1, <1>2, SuffixIsCut
<1>4. /\ top'.list = <<>> => i = Len(top.list)
      /\ top'.list # <<>> => top'.list[Len(top'.list)] = top.list[Len(top.list)]
  BY <1>3 DEF Cut
<1>5. LastIsTold'
  <2>1. top.list # <<>> /\ top.list[Len(top.list)] = told
    BY <1>1 DEF Inv, LastIsTold
  <2> QED
    BY <1>2, <1>4, <2>1 DEF LastIsTold
<1> QED
  BY <1>1, <1>5 DEF Inv, TypeOK, AddedFirst, SizedHasSize, ClientKnows

LEMMA NoToplevelTyped == NoConf \in Confs /\ NoToplevel \in Toplevel
<1>1. NoConf.state \in States /\ NoConf \in Confs
  BY SizesInNat DEF NoConf, Confs, States, Modes
<1>2. <<>> \in Seq(Confs)
  OBVIOUS
<1> QED
  BY <1>1, <1>2, SizesInNat DEF NoToplevel, Toplevel

LEMMA InitInv == Init => Inv
<1>1. ~NoToplevel.added /\ ~NoToplevel.configured /\ ~NoToplevel.idle
      /\ NoToplevel.list = <<>> /\ NoToplevel.pending.state.mode = "free"
  BY DEF NoToplevel, NoConf
<1> QED
  BY <1>1, NoToplevelTyped DEF Init, Inv, TypeOK, LastIsTold, AddedFirst, SizedHasSize, ClientKnows

(* The steps of the shell.                                                 *)
LEMMA ShellKeepsInv ==
  ASSUME Inv, NEW size \in Sizes, NEW mode \in Modes, NEW active \in BOOLEAN,
         \/ Activate(active) \/ Maximize(mode, size) \/ Resize(size) \/ RequestMode(mode, size)
  PROVE  Inv'
<1>1. /\ top \in Toplevel /\ Misjudged(top) \in BOOLEAN /\ grabbed \in BOOLEAN
      /\ top = [top EXCEPT !.pending = top.pending, !.idle = top.idle, !.added = top.added]
  BY DEF Inv, TypeOK, Misjudged, Toplevel
<1>2. CASE Activate(active)
  BY <1>1, <1>2, ActivatedDecides, DecisionKeepsInv DEF Activate, Inv, SizedHasSize
<1>3. CASE Maximize(mode, size)
  BY <1>1, <1>3, ModeDecides, DecisionKeepsInv DEF Maximize
<1>4. CASE Resize(size)
  BY <1>1, <1>4, SizeDecides, DecisionKeepsInv DEF Resize
<1>5. CASE RequestMode(mode, size)
  <2> DEFINE t == EnsureAdded(top)
  <2>1. /\ t \in Toplevel /\ t.added
        /\ t = [top EXCEPT !.pending = t.pending, !.idle = t.idle, !.added = t.added]
    BY EnsureAddedSchedules
  <2>2. Decided(t, top') /\ blind' = Misjudged(top) /\ told' = told /\ grabbed' \in BOOLEAN
    BY <1>1, <1>5, <2>1, ModeDecides DEF RequestMode
  <2>3. top.added \/ ~top.configured
    BY DEF Inv, AddedFirst
  <2> HIDE DEF t
  <2> QED
    BY <1>1, <2>1, <2>2, <2>3, DecisionKeepsInv
<1> QED
  BY <1>2, <1>3, <1>4, <1>5

(* The steps of the idle source and of the client.                         *)
LEMMA ClientKeepsInv ==
  ASSUME Inv, NEW width \in Sizes, NEW margin,
         \/ SendConfigure \/ GetToplevel \/ CommitEmpty \/ Destroy
         \/ Commit(width, margin)
         \/ \E i \in DOMAIN top.list : Ack(i) \/ AckAndCommit(i, width, margin)
  PROVE  Inv'
<1>1. /\ top \in Toplevel /\ top.list \in Seq(Confs) /\ top.pending \in Confs
      /\ top.next.state \in States
  BY DEF Inv, TypeOK, Toplevel, Confs
<1>2. CASE SendConfigure
  <2>1. /\ top'.list = Append(top.list, top.pending) /\ top'.list \in Seq(Confs)
        /\ top' = [top EXCEPT !.idle = FALSE, !.list = top'.list] /\ told' = top.pending
    BY <1>1, <1>2 DEF SendConfigure, Toplevel
  <2>2. top'.list # <<>> /\ top'.list[Len(top'.list)] = top.pending
    BY <1>1, <2>1
  <2> QED
    BY <1>1, <1>2, <2>1, <2>2 DEF SendConfigure, Inv, TypeOK, Toplevel, LastIsTold, AddedFirst,
       SizedHasSize, ClientKnows
<1>3. CASE GetToplevel
  BY <1>1, <1>3 DEF GetToplevel, Inv, TypeOK, Toplevel, LastIsTold, AddedFirst, SizedHasSize,
     ClientKnows
<1>4. CASE CommitEmpty
  <2> DEFINE t == EnsureAdded(top)
  <2>1. /\ t \in Toplevel /\ t.added
        /\ t = [top EXCEPT !.pending = t.pending, !.idle = t.idle, !.added = t.added]
        /\ t.pending.state.mode = "sized" => t.pending.size # 0
        /\ ~top.added => t.idle
        /\ top.added => t = top
    BY EnsureAddedSchedules DEF EnsureAdded
  <2>2. top' = [t EXCEPT !.width = 0] /\ UNCHANGED <<grabbed, told, blind>>
    BY <1>4 DEF CommitEmpty
  <2> HIDE DEF t
  <2>3. top' \in Toplevel /\ top'.added /\ top'.list = top.list /\ top'.next = top.next
        /\ top'.configured = top.configured /\ top'.pending = t.pending /\ top'.idle = t.idle
    BY <2>1, <2>2, SizesInNat DEF Toplevel
  <2> QED
    BY <2>1, <2>2, <2>3 DEF Inv, TypeOK, LastIsTold, AddedFirst, SizedHasSize, ClientKnows
<1>5. CASE Destroy
  <2>1. Init'
    BY <1>5 DEF Destroy, Init
  <2> QED
    BY <2>1, InitInv, PTL
<1>6. CASE Commit(width, margin)
  BY <1>1, <1>6 DEF Commit, Committed, Inv, TypeOK, Toplevel, LastIsTold, AddedFirst, SizedHasSize,
     ClientKnows
<1>7. ASSUME NEW i \in DOMAIN top.list, Ack(i) \/ AckAndCommit(i, width, margin)
      PROVE  Inv'
  <2>1. i \in 1..Len(top.list) /\ top.list[i] \in Confs
    BY <1>1, <1>7
  <2>2. SubSeq(top.list, i + 1, Len(top.list)) \in Seq(Confs)
    BY <1>1, <2>1
  <2>3. Acked(top, i) \in Toplevel
    BY <1>1, <2>1, <2>2 DEF Acked, Toplevel
  <2>4. /\ top' \in Toplevel /\ top'.list = Acked(top, i).list /\ top'.next = Acked(top, i).next
        /\ top'.configured /\ top'.added = top.added /\ top'.idle = top.idle
        /\ top'.pending = top.pending /\ UNCHANGED <<grabbed, told, blind>>
    <3>1. /\ Acked(top, i).configured /\ Acked(top, i).added = top.added
          /\ Acked(top, i).idle = top.idle /\ Acked(top, i).pending = top.pending
      BY <1>1 DEF Acked, Toplevel
    <3> DEFINE a == Acked(top, i)
    <3>2. top' = a \/ top' = Committed(a, width)
      BY <1>7 DEF Ack, AckAndCommit
    <3>3. UNCHANGED <<grabbed, told, blind>>
      BY <1>7 DEF Ack, AckAndCommit
    <3> HIDE DEF a
    <3>4. a \in Toplevel
      BY <2>3 DEF a
    <3>5. /\ top' \in Toplevel /\ top'.list = a.list /\ top'.next = a.next
          /\ top'.configured = a.configured /\ top'.added = a.added /\ top'.idle = a.idle
          /\ top'.pending = a.pending
      BY <3>2, <3>4 DEF Committed, Toplevel, Confs
    <3> QED
      BY <3>1, <3>3, <3>5 DEF a
  <2> QED
    BY <2>4, AckedKeepsInv
<1> QED
  BY <1>2, <1>3, <1>4, <1>5, <1>6, <1>7

LEMMA NextInv == Inv /\ [Next]_vars => Inv'
<1> SUFFICES ASSUME Inv, [Next]_vars PROVE Inv'
  OBVIOUS
<1>1. CASE Next
  <2>1. 0 \in Sizes /\ "free" \in Modes
    BY SizesInNat DEF Modes
  <2>2. ASSUME NEW active \in BOOLEAN, Activate(active) PROVE Inv'
    BY <2>1, <2>2, ShellKeepsInv
  <2>3. ASSUME NEW mode \in Modes, NEW size \in Sizes,
               Maximize(mode, size) \/ RequestMode(mode, size)
        PROVE  Inv'
    BY <2>3, ShellKeepsInv
  <2>4. ASSUME NEW size \in Sizes, Resize(size) PROVE Inv'
    BY <2>1, <2>4, ShellKeepsInv
  <2>5. ASSUME SendConfigure \/ GetToplevel \/ CommitEmpty \/ Destroy
               \/ \E i \in DOMAIN top.list : Ack(i)
        PROVE  Inv'
    BY <2>1, <2>5, ClientKeepsInv
  <2>6. ASSUME NEW width \in Sizes, NEW margin \in Margins,
               \/ Commit(width, margin)
               \/ \E i \in DOMAIN top.list : AckAndCommit(i, width, margin)
        PROVE  Inv'
    BY <2>6, ClientKeepsInv
  <2> QED
    BY <1>1, <2>2, <2>3, <2>4, <2>5, <2>6 DEF Next
<1>2. CASE UNCHANGED vars
  BY <1>2 DEF vars, Inv, TypeOK, LastIsTold, AddedFirst, SizedHasSize, ClientKnows
<1> QED
  BY <1>1, <1>2

(* The invariant, of which the next theorems are parts.                    *)
THEOREM Invariance == Spec => []Inv
  BY InitInv, NextInv, PTL DEF Spec

(* What the variables hold.                                                *)
THEOREM TypeCorrect == Spec => []TypeOK
  BY Invariance, PTL DEF Inv

(* With nothing scheduled, the client has been told what the shell wants,  *)
(* unless the comparison misjudged it: whatever is in flight, and however  *)
(* acknowledgements, commits and decisions interleave.                     *)
THEOREM ClientIsTold == Spec => []ClientKnows
  BY Invariance, PTL DEF Inv
=============================================================================
