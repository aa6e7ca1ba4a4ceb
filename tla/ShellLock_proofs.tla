--------------------------- MODULE ShellLock_proofs ---------------------------
(***************************************************************************)
(* Theorems about ShellLock, for any set of outputs and any DeathLimit.    *)
(*                                                                         *)
(* Whether a locked screen gets its dialog is decided by a conversation    *)
(* with the client of which the shell keeps one bit, prepared.  The        *)
(* invariant says what that bit stands for: exactly one question, or one   *)
(* answer to it, is under way.                                             *)
(***************************************************************************)
EXTENDS ShellLock, TLAPS

In(s, r) == \E i \in DOMAIN s : s[i] = r

OneAnswer(s) == \A i, j \in DOMAIN s : s[i] \in Answers /\ s[j] \in Answers => i = j

Asked == events # <<>> \/ In(requests, "set_lock_surface") \/ In(requests, "unlock")

Conversation ==
  /\ Len(events) <= 1 /\ OneAnswer(requests)
  /\ events # <<>> => \A r \in Answers : ~In(requests, r)
  /\ shell.prepared = TRUE <=> Asked
  /\ shell.prepared => shell.locked /\ shell.bound /\ shell.surface = "none"
  /\ In(requests, "unlock_destroy") => shell.surface # "none" /\ client.dialog = "none"
  /\ client.dialog # "none" /\ shell.surface = "none" => In(requests, "set_lock_surface")

Bound ==
  /\ shell.surface # "none" => shell.bound
  /\ shell.locked /\ power = "ACTIVE" => shell.bound
  /\ shell.locked /\ power = "ACTIVE" /\ shell.surface = "none" => shell.prepared
  /\ client.alive => shell.deaths <= DeathLimit

Inv == TypeOK /\ Conversation /\ Bound

-----------------------------------------------------------------------------
(* The queue of requests.                                                  *)

LEMMA Sent ==
  ASSUME NEW S, NEW s \in Seq(S), NEW e \in S
  PROVE  /\ s \o <<e>> \in Seq(S)
         /\ \A r : In(s \o <<e>>, r) <=> In(s, r) \/ r = e
         /\ OneAnswer(s) /\ (e \notin Answers \/ \A r \in Answers : ~In(s, r)) => OneAnswer(s \o <<e>>)
<1> DEFINE t == s \o <<e>>
<1>1. /\ t \in Seq(S) /\ Len(s) \in Nat /\ Len(t) = Len(s) + 1 /\ t[Len(s) + 1] = e
      /\ \A k \in 1..Len(s) : t[k] = s[k]
  OBVIOUS
<1>2. DOMAIN t = 1..(Len(s) + 1) /\ DOMAIN s = 1..Len(s)
  BY <1>1
<1> HIDE DEF t
<1>3. \A k \in DOMAIN t : (k \in DOMAIN s /\ t[k] = s[k]) \/ (k = Len(s) + 1 /\ t[k] = e)
  BY <1>1, <1>2
<1>4. Len(s) + 1 \in DOMAIN t /\ DOMAIN s \subseteq DOMAIN t /\ Len(s) + 1 \notin DOMAIN s
  BY <1>1, <1>2
<1>5. ASSUME NEW r PROVE In(t, r) <=> In(s, r) \/ r = e
  <2>1. \A k \in DOMAIN s : t[k] = s[k]
    BY <1>1, <1>2
  <2> QED
    BY <1>1, <1>3, <1>4, <2>1 DEF In
<1>6. ASSUME OneAnswer(s), e \notin Answers \/ \A r \in Answers : ~In(s, r),
             NEW i \in DOMAIN t, NEW j \in DOMAIN t, t[i] \in Answers, t[j] \in Answers
      PROVE  i = j
  BY <1>3, <1>6 DEF OneAnswer, In
<1>7. OneAnswer(s) /\ (e \notin Answers \/ \A r \in Answers : ~In(s, r)) => OneAnswer(t)
  BY <1>6 DEF OneAnswer
<1> QED
  BY <1>1, <1>5, <1>7 DEF t

LEMMA Received ==
  ASSUME NEW S, NEW s \in Seq(S), s # <<>>
  PROVE  /\ Tail(s) \in Seq(S) /\ Head(s) \in S
         /\ \A r : In(s, r) <=> In(Tail(s), r) \/ r = Head(s)
         /\ OneAnswer(s) => OneAnswer(Tail(s))
         /\ OneAnswer(s) /\ Head(s) \in Answers => \A r \in Answers : ~In(Tail(s), r)
<1> DEFINE t == Tail(s)
<1>1. /\ t \in Seq(S) /\ Head(s) = s[1] /\ Len(s) \in Nat \ {0} /\ Len(t) = Len(s) - 1
      /\ \A k \in 1..(Len(s) - 1) : t[k] = s[k + 1]
  OBVIOUS
<1>2. DOMAIN t = 1..(Len(s) - 1) /\ DOMAIN s = 1..Len(s)
  BY <1>1
<1> HIDE DEF t
<1>3. 1 \in DOMAIN s /\ \A k \in DOMAIN t : k + 1 \in DOMAIN s /\ k + 1 # 1 /\ t[k] = s[k + 1]
  BY <1>1, <1>2
<1>4. \A i \in DOMAIN s : i = 1 \/ (i - 1 \in DOMAIN t /\ t[i - 1] = s[i])
  BY <1>1, <1>2
<1>5. ASSUME NEW r PROVE In(s, r) <=> In(t, r) \/ r = Head(s)
  <2>1. In(s, r) => In(t, r) \/ r = Head(s)
    BY <1>1, <1>4 DEF In
  <2>2. In(t, r) => In(s, r)
    BY <1>3 DEF In
  <2>3. r = Head(s) => In(s, r)
    BY <1>1, <1>3 DEF In
  <2> QED
    BY <2>1, <2>2, <2>3
<1>6. OneAnswer(s) => OneAnswer(t)
  <2> SUFFICES ASSUME OneAnswer(s), NEW i \in DOMAIN t, NEW j \in DOMAIN t,
                      t[i] \in Answers, t[j] \in Answers
               PROVE  i = j
    BY DEF OneAnswer
  <2>1. i + 1 = j + 1
    BY <1>3 DEF OneAnswer
  <2> QED
    BY <1>1, <1>2, <2>1
<1>7. OneAnswer(s) /\ Head(s) \in Answers => \A r \in Answers : ~In(t, r)
  BY <1>1, <1>3 DEF OneAnswer, In
<1>8. s[1] \in S
  BY <1>3
<1> QED
  BY <1>1, <1>5, <1>6, <1>7, <1>8 DEF t

LEMMA NothingQueued == OneAnswer(<<>>) /\ \A r : ~In(<<>>, r)
  BY DEF OneAnswer, In

-----------------------------------------------------------------------------
LEMMA InitInv == Init => Inv
<1> SUFFICES ASSUME Init PROVE Inv
  OBVIOUS
<1>1. TypeOK
  <2>1. Black \in Fade /\ Black.running = FALSE
    BY DEF Black, NoFade, Fade
  <2>2. shell \in Shell /\ client \in Client
    <3>1. 0 \in 0..DeathLimit + 1
      BY DeathLimitAssumption
    <3>2. shell \in Shell
      BY <3>1 DEF Init, Shell
    <3>3. client \in Client
      BY DEF Init, Client
    <3> QED
      BY <3>2, <3>3
  <2>3. events \in Seq({"prepare"}) /\ requests \in Seq(Requests)
    BY DEF Init
  <2>4. DOMAIN fade = Outputs /\ fade \in [Outputs -> Fade] /\ \A o \in Outputs : fade[o].running = FALSE
    BY <2>1 DEF Init
  <2> QED
    BY <2>2, <2>3, <2>4 DEF Init, TypeOK, Powers
<1>2. events = <<>> /\ requests = <<>> /\ Len(events) = 0
  BY DEF Init
<1>3. /\ shell.prepared = FALSE /\ shell.locked = FALSE /\ shell.surface = "none" /\ shell.deaths = 0
      /\ client.dialog = "none"
  BY DEF Init
<1>4. Conversation
  BY <1>2, <1>3, NothingQueued DEF Conversation, Asked
<1>5. Bound
  BY <1>3, DeathLimitAssumption DEF Bound
<1> QED
  BY <1>1, <1>4, <1>5 DEF Inv

(* The part of TypeOK that is about fades.                                 *)
FadeOK(f) ==
  /\ DOMAIN f \subseteq Outputs /\ f \in [DOMAIN f -> Fade]
  /\ \A o \in DOMAIN f : f[o].running => f[o].view

LEMMA TypeParts ==
  TypeOK <=> /\ power \in Powers /\ timer \in BOOLEAN /\ pressed \in BOOLEAN
             /\ shell \in Shell /\ startup \in BOOLEAN /\ client \in Client
             /\ FadeOK(fade)
             /\ events \in Seq({"prepare"}) /\ requests \in Seq(Requests)
  BY DEF TypeOK, FadeOK

LEMMA FadedIsFade ==
  ASSUME NEW f \in Fade, NEW type \in {"IN", "OUT"}
  PROVE  Faded(f, type) \in Fade /\ Faded(f, type).view
  BY DEF Faded, Fade

LEMMA ShellFadeKeeps ==
  ASSUME FadeOK(fade), NEW type \in {"IN", "OUT"}, ShellFade(type)
  PROVE  FadeOK(fade')
<1>1. DOMAIN fade' = DOMAIN fade /\ \A o \in DOMAIN fade : fade'[o] = Faded(fade[o], type)
  BY DEF ShellFade
<1>2. \A o \in DOMAIN fade : fade[o] \in Fade
  BY DEF FadeOK
<1>3. fade' \in [DOMAIN fade -> Fade]
  BY <1>2, FadedIsFade DEF ShellFade
<1> QED
  BY <1>1, <1>2, <1>3, FadedIsFade DEF FadeOK

LEMMA FadeUpdated ==
  ASSUME FadeOK(fade), NEW o \in DOMAIN fade, NEW f \in Fade, f.running => f.view,
         fade' = [fade EXCEPT ![o] = f]
  PROVE  FadeOK(fade')
<1>1. fade' \in [DOMAIN fade -> Fade] /\ DOMAIN fade' = DOMAIN fade
  BY DEF FadeOK
<1>2. \A p \in DOMAIN fade : fade'[p] = IF p = o THEN f ELSE fade[p]
  BY DEF FadeOK
<1> QED
  BY <1>1, <1>2 DEF FadeOK

(* A step that leaves the conversation alone.                              *)
LEMMA QuietKeeps ==
  ASSUME Conversation, UNCHANGED <<events, requests>>, client'.dialog = client.dialog,
         shell'.prepared = shell.prepared, shell'.bound = shell.bound,
         shell'.surface = shell.surface \/ (shell.surface # "none" /\ shell'.surface # "none"),
         shell.locked => shell'.locked
  PROVE  Conversation'
<1>1. Asked' = Asked
  BY DEF Asked, In
<1>2. shell.surface = "none" <=> shell'.surface = "none"
  OBVIOUS
<1> QED
  BY <1>1, <1>2 DEF Conversation, OneAnswer, In

LEMMA FadeStepKeepsInv ==
  ASSUME Inv, StartupTimeout \/ DoShellFadeStartup
              \/ \E o \in DOMAIN fade : FadedIn(o) \/ FadedOut(o) \/ Unplug(o)
  PROVE  Inv'
<1>1. TypeOK /\ FadeOK(fade) /\ shell \in Shell /\ Conversation /\ Bound
  BY TypeParts DEF Inv
<1>2. \A o \in DOMAIN fade : fade[o] \in Fade
  BY <1>1 DEF FadeOK
<1>3. CASE StartupTimeout
  <2> DEFINE f(o) == [fade[o] EXCEPT !.timer = FALSE]
  <2>1. \A o \in DOMAIN fade : f(o) \in Fade /\ f(o).running = fade[o].running /\ f(o).view = fade[o].view
    BY <1>2 DEF Fade
  <2>2. fade' = [o \in DOMAIN fade |-> f(o)] /\ startup' \in BOOLEAN
    BY <1>1, <1>3 DEF StartupTimeout, FadeStartup, TypeOK
  <2> HIDE DEF f
  <2>3. FadeOK(fade')
    BY <1>1, <2>1, <2>2 DEF FadeOK
  <2>4. TypeOK'
    BY <1>1, <1>3, <2>2, <2>3 DEF StartupTimeout, TypeOK, FadeOK
  <2>5. Conversation' /\ Bound'
    BY <1>1, <1>3, QuietKeeps DEF StartupTimeout, Bound
  <2> QED
    BY <2>4, <2>5 DEF Inv
<1>4. CASE DoShellFadeStartup
  <2>1. FadeOK(fade')
    BY <1>1, <1>4, ShellFadeKeeps DEF DoShellFadeStartup
  <2>2. TypeOK'
    BY <1>1, <1>4, <2>1 DEF DoShellFadeStartup, TypeOK, FadeOK
  <2>3. Conversation' /\ Bound'
    BY <1>1, <1>4, QuietKeeps DEF DoShellFadeStartup, Bound
  <2> QED
    BY <2>2, <2>3 DEF Inv
<1>5. ASSUME NEW o \in DOMAIN fade, FadedIn(o)
      PROVE  Inv'
  <2> DEFINE f == [fade[o] EXCEPT !.view = FALSE, !.running = FALSE]
  <2>1. f \in Fade /\ f.running = FALSE
    BY <1>2 DEF Fade
  <2>2. fade' = [fade EXCEPT ![o] = f]
    BY <1>5 DEF FadedIn
  <2> HIDE DEF f
  <2>3. TypeOK'
    BY <1>1, <1>5, <2>1, <2>2, FadeUpdated DEF FadedIn, TypeOK, FadeOK
  <2>4. Conversation' /\ Bound'
    BY <1>1, <1>5, QuietKeeps DEF FadedIn, Bound
  <2> QED
    BY <2>3, <2>4 DEF Inv
<1>6. ASSUME NEW o \in DOMAIN fade, FadedOut(o)
      PROVE  Inv'
  <2> DEFINE f == [fade[o] EXCEPT !.running = FALSE]
  <2>1. f \in Fade /\ f.running = FALSE
    BY <1>2 DEF Fade
  <2>2. fade' = [fade EXCEPT ![o] = f]
    BY <1>6 DEF FadedOut
  <2> HIDE DEF f
  <2>3. /\ shell' \in Shell /\ shell'.locked /\ shell'.prepared = shell.prepared
        /\ shell'.bound = shell.bound /\ shell'.surface = shell.surface /\ shell'.deaths = shell.deaths
    BY <1>1, <1>6 DEF FadedOut, Shell
  <2>4. power' = "SLEEPING" /\ timer' = FALSE /\ UNCHANGED <<pressed, startup, client, events, requests>>
    BY <1>6 DEF FadedOut
  <2>5. FadeOK(fade')
    BY <1>1, <2>1, <2>2, FadeUpdated
  <2>6. TypeOK'
    BY <1>1, <2>3, <2>4, <2>5 DEF Powers, TypeOK, FadeOK
  <2>7. Conversation' /\ Bound'
    BY <1>1, <2>3, <2>4, QuietKeeps DEF Bound
  <2> QED
    BY <2>6, <2>7 DEF Inv
<1>7. ASSUME NEW o \in DOMAIN fade, Unplug(o)
      PROVE  Inv'
  <2>1. FadeOK(fade')
    BY <1>1, <1>2, <1>7 DEF Unplug, FadeOK
  <2>2. TypeOK'
    BY <1>1, <1>7, <2>1 DEF Unplug, TypeOK, FadeOK
  <2>3. Conversation' /\ Bound'
    BY <1>1, <1>7, QuietKeeps DEF Unplug, Bound
  <2> QED
    BY <2>2, <2>3 DEF Inv
<1> QED
  BY <1>3, <1>4, <1>5, <1>6, <1>7

(* A wake asks the client, if it has to, when nothing is under way.        *)
LEMMA WakeKeepsInv == ASSUME Inv, NEW held \in BOOLEAN, Wake(held) PROVE Inv'
<1>1. TypeOK /\ FadeOK(fade) /\ shell \in Shell /\ client \in Client /\ Conversation /\ Bound
  BY TypeParts DEF Inv
<1>2. /\ pressed' \in BOOLEAN /\ power' = "ACTIVE" /\ timer' = TRUE
      /\ UNCHANGED <<startup, client, requests>>
  BY DEF Wake
<1>3. CASE UNCHANGED <<shell, events>> /\ FadeOK(fade')
           /\ (power = "ACTIVE" \/ ~shell.locked \/ shell.surface # "none" \/ shell.prepared)
  <2>1. TypeOK'
    BY <1>1, <1>2, <1>3 DEF TypeOK, FadeOK, Powers
  <2>2. Conversation'
    BY <1>1, <1>2, <1>3, QuietKeeps
  <2>3. Bound'
    BY <1>1, <1>2, <1>3 DEF Bound, Conversation
  <2> QED
    BY <2>1, <2>2, <2>3 DEF Inv
<1>4. CASE shell.surface = "none" /\ shell.locked /\ ~shell.bound /\ ResumeDesktop /\ UNCHANGED events
  <2>1. shell' = [shell EXCEPT !.locked = FALSE] /\ FadeOK(fade')
    BY <1>1, <1>4, ShellFadeKeeps DEF ResumeDesktop
  <2>2. /\ shell' \in Shell /\ shell'.locked = FALSE /\ shell'.prepared = shell.prepared
        /\ shell'.bound = shell.bound /\ shell'.surface = shell.surface /\ shell'.deaths = shell.deaths
    BY <1>1, <2>1 DEF Shell
  <2>3. TypeOK'
    BY <1>1, <1>2, <1>4, <2>1, <2>2 DEF TypeOK, FadeOK, Powers
  <2>4. ~shell.prepared
    BY <1>1, <1>4 DEF Conversation
  <2>5. Conversation'
    <3>1. Asked' = Asked
      BY <1>2, <1>4 DEF Asked, In
    <3> QED
      BY <1>1, <1>2, <1>4, <2>2, <2>4, <3>1 DEF Conversation, OneAnswer, In
  <2>6. Bound'
    BY <1>1, <1>2, <1>4, <2>2 DEF Bound
  <2> QED
    BY <2>3, <2>5, <2>6 DEF Inv
<1>5. CASE shell.surface = "none" /\ shell.locked /\ shell.bound /\ ~shell.prepared /\ Prepare
  <2>1. /\ events' = Append(events, "prepare") /\ UNCHANGED fade
        /\ shell' = [shell EXCEPT !.prepared = TRUE]
    BY <1>5 DEF Prepare
  <2>2. /\ shell' \in Shell /\ shell'.prepared = TRUE /\ shell'.locked = shell.locked
        /\ shell'.bound = shell.bound /\ shell'.surface = shell.surface /\ shell'.deaths = shell.deaths
    BY <1>1, <2>1 DEF Shell
  <2>3. events \in Seq({"prepare"}) /\ ~Asked /\ events = <<>>
    BY <1>1, <1>5 DEF Conversation, TypeOK, Asked
  <2>4. events' \in Seq({"prepare"}) /\ Len(events') = 1 /\ events' # <<>>
    BY <2>1, <2>3
  <2>5. TypeOK'
    BY <1>1, <1>2, <2>1, <2>2, <2>4 DEF TypeOK, FadeOK, Powers
  <2>6. \A r \in Answers : ~In(requests, r)
    BY <1>1, <1>5, <2>3 DEF Asked, Answers, Conversation
  <2>7. Conversation'
    BY <1>1, <1>2, <1>5, <2>2, <2>4, <2>6 DEF Conversation, Asked, OneAnswer, In, Answers
  <2>8. Bound'
    BY <1>1, <1>2, <1>5, <2>2 DEF Bound
  <2> QED
    BY <2>5, <2>7, <2>8 DEF Inv
<1> QED
  <2>1. CASE power = "ACTIVE"
    BY <1>1, <1>3, <2>1 DEF Wake
  <2>2. CASE power # "ACTIVE" /\ (~shell.locked \/ shell.surface # "none")
    BY <1>1, <1>3, <2>2, ShellFadeKeeps DEF Wake, Unlock
  <2>3. CASE power # "ACTIVE" /\ shell.locked /\ shell.surface = "none"
    BY <1>1, <1>3, <1>4, <1>5, <2>3 DEF Wake, Unlock
  <2> QED
    BY <2>1, <2>2, <2>3

LEMMA PowerStepKeepsInv ==
  ASSUME Inv, IdleTimeout \/ Offscreen \/ (\E o \in Outputs : Plug(o)) \/ Bind
  PROVE  Inv'
<1>1. TypeOK /\ FadeOK(fade) /\ shell \in Shell /\ Conversation /\ Bound
  BY TypeParts DEF Inv
<1>2. CASE IdleTimeout
  <2>1. FadeOK(fade') /\ power' \in Powers /\ (power' = power \/ power' # "ACTIVE")
    BY <1>1, <1>2, ShellFadeKeeps DEF IdleTimeout, Powers, TypeOK
  <2>2. TypeOK'
    BY <1>1, <1>2, <2>1 DEF IdleTimeout, TypeOK, FadeOK
  <2>3. Conversation' /\ Bound'
    BY <1>1, <1>2, <2>1, QuietKeeps DEF IdleTimeout, Bound
  <2> QED
    BY <2>2, <2>3 DEF Inv
<1>3. CASE Offscreen
  <2>1. TypeOK'
    BY <1>1, <1>3 DEF Offscreen, TypeOK, Powers
  <2>2. Conversation' /\ Bound'
    BY <1>1, <1>3, QuietKeeps DEF Offscreen, Bound
  <2> QED
    BY <2>1, <2>2 DEF Inv
<1>4. ASSUME NEW o \in Outputs, Plug(o)
      PROVE  Inv'
  <2>1. NoFade \in Fade /\ NoFade.running = FALSE
    BY DEF NoFade, Fade
  <2>2. fade' = [p \in DOMAIN fade \cup {o} |-> IF p = o THEN NoFade ELSE fade[p]]
    BY <1>4 DEF Plug
  <2> HIDE DEF NoFade
  <2>3. FadeOK(fade')
    BY <1>1, <1>4, <2>1, <2>2 DEF FadeOK
  <2>4. TypeOK'
    BY <1>1, <1>4, <2>3 DEF Plug, TypeOK, FadeOK
  <2>5. Conversation' /\ Bound'
    BY <1>1, <1>4, QuietKeeps DEF Plug, Bound
  <2> QED
    BY <2>4, <2>5 DEF Inv
<1>5. CASE Bind
  <2>1. /\ shell' \in Shell /\ shell'.bound = TRUE /\ shell'.prepared = shell.prepared
        /\ shell'.locked = shell.locked /\ shell'.surface = shell.surface /\ shell'.deaths = shell.deaths
        /\ ~shell.bound
    BY <1>1, <1>5 DEF Bind, Shell
  <2>2. UNCHANGED <<power, timer, pressed, fade, startup, client, events, requests>>
    BY <1>5 DEF Bind
  <2>3. TypeOK'
    BY <1>1, <2>1, <2>2 DEF TypeOK
  <2>4. Conversation'
    BY <1>1, <2>1, <2>2 DEF Conversation, Asked, OneAnswer, In
  <2>5. Bound'
    BY <1>1, <2>1, <2>2 DEF Bound
  <2> QED
    BY <2>3, <2>4, <2>5 DEF Inv
<1> QED
  BY <1>2, <1>3, <1>4, <1>5

-----------------------------------------------------------------------------
(* The client: what it sends, and what becomes of it.                      *)

(* A request that answers nothing is sent.                                 *)
LEMMA RemarkKeepsConversation ==
  ASSUME Inv, NEW e \in Requests \ Answers, requests' = requests \o <<e>>,
         UNCHANGED <<shell, events>>, client'.dialog = "none" <=> client.dialog = "none"
  PROVE  requests' \in Seq(Requests) /\ Conversation'
<1>1. requests \in Seq(Requests) /\ Conversation
  BY DEF Inv, TypeOK
<1>2. /\ requests' \in Seq(Requests) /\ OneAnswer(requests')
      /\ \A r : In(requests', r) <=> In(requests, r) \/ r = e
  BY <1>1, Sent DEF Conversation
<1>3. \A r \in Answers : In(requests', r) <=> In(requests, r)
  BY <1>2
<1>4. "unlock" \in Answers /\ "set_lock_surface" \in Answers /\ "unlock_destroy" \in Answers
  BY DEF Answers
<1>5. Asked' <=> Asked
  BY <1>3, <1>4 DEF Asked
<1> QED
  BY <1>1, <1>2, <1>3, <1>4, <1>5 DEF Conversation

LEMMA ClientStepKeepsInv ==
  ASSUME Inv, ClientReady \/ ClientPrepares \/ ClientDraws \/ ClientUnlocks
  PROVE  Inv'
<1>1. /\ TypeOK /\ Conversation /\ Bound /\ client \in Client
      /\ requests \in Seq(Requests) /\ events \in Seq({"prepare"})
  BY DEF Inv, TypeOK
<1>2. UNCHANGED <<power, timer, pressed, shell, fade, startup>>
  BY DEF ClientReady, ClientPrepares, ClientDraws, ClientUnlocks, ClientSends
<1>3. /\ "unlock" \in Answers /\ "set_lock_surface" \in Answers /\ "unlock_destroy" \in Answers
      /\ Answers \subseteq Requests /\ "ready" \in Requests \ Answers /\ "commit" \in Requests \ Answers
  BY DEF Answers, Requests
<1>4. ASSUME client' \in Client, client'.alive = client.alive, Conversation',
             requests' \in Seq(Requests), events' \in Seq({"prepare"})
      PROVE  Inv'
  <2>1. TypeOK'
    BY <1>1, <1>2, <1>4 DEF TypeOK
  <2>2. Bound'
    BY <1>1, <1>2, <1>4 DEF Bound
  <2> QED
    BY <1>4, <2>1, <2>2 DEF Inv
<1>5. CASE ClientReady
  <2>1. /\ client' \in Client /\ client'.alive = client.alive /\ client'.dialog = client.dialog
        /\ requests' = requests \o <<"ready">> /\ UNCHANGED events
    BY <1>1, <1>5 DEF ClientReady, ClientSends, Client
  <2>2. requests' \in Seq(Requests) /\ Conversation'
    BY <1>2, <1>3, <2>1, RemarkKeepsConversation
  <2> QED
    BY <1>1, <1>4, <2>1, <2>2
<1>6. CASE ClientDraws
  <2>1. /\ client' \in Client /\ client'.alive = client.alive
        /\ client.dialog # "none" /\ client'.dialog # "none"
        /\ requests' = requests \o <<"commit">> /\ UNCHANGED events
    BY <1>1, <1>6 DEF ClientDraws, ClientSends, Client
  <2>2. requests' \in Seq(Requests) /\ Conversation'
    BY <1>2, <1>3, <2>1, RemarkKeepsConversation
  <2> QED
    BY <1>1, <1>4, <2>1, <2>2
<1>7. CASE ClientPrepares
  <2>1. events # <<>> /\ events' = Tail(events)
    BY <1>7 DEF ClientPrepares
  <2>2. events' = <<>> /\ events' \in Seq({"prepare"}) /\ Len(events') = 0
    <3>1. Len(events) <= 1 /\ Len(events) \in Nat /\ Len(events) # 0
      BY <1>1, <2>1 DEF Conversation
    <3>2. events' \in Seq({"prepare"}) /\ Len(events') = Len(events) - 1
      BY <1>1, <2>1
    <3>3. Len(events') = 0
      BY <3>1, <3>2
    <3> QED
      BY <3>2, <3>3
  <2>3. /\ \A r \in Answers : ~In(requests, r)
        /\ shell.prepared = TRUE /\ shell.locked /\ shell.bound /\ shell.surface = "none"
    BY <1>1, <2>1 DEF Conversation, Asked
  <2>4. client.dialog = "none"
    BY <1>1, <1>3, <2>3 DEF Conversation
  <2>5. PICK e \in {"unlock", "set_lock_surface"} :
          /\ requests' = requests \o <<e>>
          /\ client' \in Client /\ client'.alive = client.alive
          /\ client'.dialog # "none" => e = "set_lock_surface"
    <3>1. CASE ~client.locking
      BY <1>1, <1>7, <2>4, <3>1 DEF ClientPrepares, ClientSends
    <3>2. CASE client.locking
      BY <1>1, <1>7, <2>4, <3>2 DEF ClientPrepares, ClientSends, Client
    <3> QED
      BY <3>1, <3>2
  <2>6. e \in Answers /\ e \in Requests
    BY <1>3
  <2>7. /\ requests' \in Seq(Requests) /\ OneAnswer(requests')
        /\ \A r : In(requests', r) <=> In(requests, r) \/ r = e
    BY <1>1, <2>3, <2>5, <2>6, Sent DEF Conversation
  <2>8. /\ In(requests', e)
        /\ ~In(requests', "unlock_destroy")
    BY <1>3, <2>3, <2>7
  <2>9. Conversation'
    BY <1>2, <2>2, <2>3, <2>5, <2>7, <2>8 DEF Conversation, Asked
  <2> QED
    BY <1>4, <2>2, <2>5, <2>7, <2>9
<1>8. CASE ClientUnlocks
  <2>1. /\ client' \in Client /\ client'.alive = client.alive /\ client'.dialog = "none"
        /\ client.dialog = "drawn" /\ shell.surface = "mapped"
        /\ requests' = requests \o <<"unlock_destroy">> /\ UNCHANGED events
    BY <1>1, <1>8 DEF ClientUnlocks, ClientSends, Client
  <2>2. ~shell.prepared /\ events = <<>> /\ \A r \in Answers : ~In(requests, r)
    BY <1>1, <2>1 DEF Conversation, Asked, Answers
  <2>3. /\ requests' \in Seq(Requests) /\ OneAnswer(requests')
        /\ \A r : In(requests', r) <=> In(requests, r) \/ r = "unlock_destroy"
    BY <1>1, <1>3, <2>1, <2>2, Sent DEF Conversation
  <2>4. ~Asked' /\ ~Asked
    BY <1>3, <2>1, <2>2, <2>3 DEF Asked
  <2>5. Conversation'
    BY <1>1, <1>2, <2>1, <2>2, <2>3, <2>4 DEF Conversation
  <2> QED
    BY <1>1, <1>4, <2>1, <2>3, <2>5
<1> QED
  BY <1>5, <1>6, <1>7, <1>8

LEMMA DispatchKeepsInv == ASSUME Inv, Dispatch PROVE Inv'
<1> DEFINE r == Head(requests)
<1>1. /\ TypeOK /\ FadeOK(fade) /\ Conversation /\ Bound /\ shell \in Shell
      /\ requests \in Seq(Requests) /\ events \in Seq({"prepare"})
  BY TypeParts DEF Inv
<1>2. /\ requests # <<>> /\ requests' = Tail(requests)
      /\ UNCHANGED <<power, timer, pressed, client, events>>
  BY DEF Dispatch
<1>3. /\ requests' \in Seq(Requests) /\ r \in Requests /\ OneAnswer(requests')
      /\ \A q : In(requests, q) <=> In(requests', q) \/ q = r
      /\ r \in Answers => \A q \in Answers : ~In(requests', q)
  BY <1>1, <1>2, Received DEF Conversation
<1>4. /\ "unlock" \in Answers /\ "set_lock_surface" \in Answers /\ "unlock_destroy" \in Answers
      /\ "ready" \notin Answers /\ "commit" \notin Answers
  BY DEF Answers
<1>5. \/ (r = "ready" /\ DesktopReady) \/ (r = "set_lock_surface" /\ SetLockSurface)
      \/ (r = "commit" /\ LockSurfaceCommitted) \/ (r = "unlock" /\ DesktopShellUnlock)
      \/ (r = "unlock_destroy" /\ UnlockAndDestroy)
  <2>1. r \in {"ready", "set_lock_surface", "commit", "unlock", "unlock_destroy"}
    BY <1>3 DEF Requests
  <2> QED
    BY <2>1 DEF Dispatch
<1> HIDE DEF r
<1>6. ASSUME FadeOK(fade'), startup' \in BOOLEAN, shell' \in Shell, shell'.deaths = shell.deaths,
             Conversation', Bound'
      PROVE  Inv'
  <2>1. TypeOK'
    BY <1>1, <1>2, <1>3, <1>6 DEF TypeOK, FadeOK
  <2> QED
    BY <1>6, <2>1 DEF Inv
<1>7. CASE r \notin Answers
  <2>1. \A q \in Answers : In(requests', q) <=> In(requests, q)
    BY <1>3, <1>7
  <2>2. Asked' <=> Asked
    BY <1>2, <1>4, <2>1 DEF Asked
  <2>3. /\ shell' \in Shell /\ shell'.deaths = shell.deaths /\ shell'.prepared = shell.prepared
        /\ shell'.bound = shell.bound /\ shell'.locked = shell.locked
        /\ shell'.surface = "none" <=> shell.surface = "none"
    BY <1>1, <1>4, <1>5, <1>7 DEF DesktopReady, LockSurfaceCommitted, Shell
  <2>4. Conversation'
    BY <1>1, <1>2, <1>3, <1>4, <2>1, <2>2, <2>3 DEF Conversation
  <2>5. Bound'
    BY <1>1, <1>2, <2>3 DEF Bound
  <2>6. startup' \in BOOLEAN
    BY <1>1, <1>4, <1>5, <1>7 DEF DesktopReady, FadeStartup, LockSurfaceCommitted, TypeOK
  <2>7. FadeOK(fade')
    <3>1. CASE DesktopReady
      <4> DEFINE f(o) == [fade[o] EXCEPT !.timer = FALSE]
      <4>1. \A o \in DOMAIN fade :
              f(o) \in Fade /\ f(o).running = fade[o].running /\ f(o).view = fade[o].view
        BY <1>1 DEF FadeOK, Fade
      <4>2. fade' = [o \in DOMAIN fade |-> f(o)]
        BY <3>1 DEF DesktopReady, FadeStartup
      <4> HIDE DEF f
      <4> QED
        BY <1>1, <4>1, <4>2 DEF FadeOK
    <3>2. CASE LockSurfaceCommitted
      BY <1>1, <3>2, ShellFadeKeeps DEF LockSurfaceCommitted
    <3> QED
      BY <1>4, <1>5, <1>7, <3>1, <3>2
  <2> QED
    BY <1>6, <2>3, <2>4, <2>5, <2>6, <2>7
<1>8. CASE r \in Answers
  <2>1. /\ \A q \in Answers : ~In(requests', q)
        /\ In(requests, r) /\ events = <<>>
    BY <1>1, <1>3, <1>8 DEF Conversation
  <2>2. ~Asked' /\ ~In(requests', "unlock_destroy")
    BY <1>2, <1>4, <2>1 DEF Asked
  <2>3. /\ \A q \in Answers : In(requests, q) => q = r
        /\ r # "unlock_destroy" => shell.prepared
    BY <1>1, <1>3, <1>4, <1>5, <1>8, <2>1 DEF Conversation, Asked
  <2>4. CASE r = "set_lock_surface"
    <3>1. shell.prepared /\ shell.locked /\ shell.bound /\ shell.surface = "none"
      BY <1>1, <2>3, <2>4 DEF Conversation
    <3>2. /\ shell' = [shell EXCEPT !.prepared = FALSE, !.surface = "unmapped"]
          /\ UNCHANGED <<fade, startup>>
      BY <1>1, <1>5, <2>4, <3>1 DEF SetLockSurface, Answered, Shell
    <3>3. /\ shell' \in Shell /\ shell'.deaths = shell.deaths /\ shell'.prepared = FALSE
          /\ shell'.bound = shell.bound /\ shell'.locked = shell.locked /\ shell'.surface = "unmapped"
      BY <1>1, <3>2 DEF Shell
    <3>4. Conversation'
      BY <1>1, <1>2, <1>3, <2>1, <2>2, <3>3 DEF Conversation
    <3>5. Bound'
      BY <1>1, <1>2, <3>1, <3>3 DEF Bound
    <3> QED
      BY <1>1, <1>6, <3>2, <3>3, <3>4, <3>5 DEF TypeOK, FadeOK
  <2>5. CASE r \in {"unlock", "unlock_destroy"}
    <3> DEFINE surface == IF r = "unlock" THEN shell.surface ELSE "none"
    <3>1. /\ shell' = [shell EXCEPT !.prepared = FALSE, !.locked = FALSE, !.surface = surface]
          /\ ShellFade("IN") \/ UNCHANGED fade
          /\ UNCHANGED startup
      BY <1>1, <1>5, <2>5 DEF DesktopShellUnlock, UnlockAndDestroy, Unlocked, Answered, Shell
    <3>2. /\ shell' \in Shell /\ shell'.deaths = shell.deaths /\ shell'.prepared = FALSE
          /\ shell'.bound = shell.bound /\ shell'.locked = FALSE /\ shell'.surface = surface
      BY <1>1, <3>1 DEF Shell
    <3>3. FadeOK(fade')
      BY <1>1, <3>1, ShellFadeKeeps DEF FadeOK
    <3>4. client.dialog # "none" => shell'.surface # "none"
      BY <1>1, <1>4, <2>1, <2>3, <2>5, <3>2 DEF Conversation
    <3>5. Conversation'
      BY <1>1, <1>2, <1>3, <2>1, <2>2, <3>2, <3>4 DEF Conversation
    <3>6. Bound'
      BY <1>1, <1>2, <3>2 DEF Bound
    <3> QED
      BY <1>1, <1>6, <3>1, <3>2, <3>3, <3>5, <3>6 DEF TypeOK
  <2> QED
    BY <1>8, <2>4, <2>5 DEF Answers
<1> QED
  BY <1>7, <1>8

LEMMA DeathKeepsInv == ASSUME Inv, ClientDies PROVE Inv'
<1>1. /\ TypeOK /\ FadeOK(fade) /\ Conversation /\ Bound /\ shell \in Shell /\ client \in Client
      /\ shell.deaths <= DeathLimit
  BY TypeParts DEF Inv, ClientDies, Bound
<1>2. PICK deaths \in {1, shell.deaths + 1} :
        /\ client' = [client EXCEPT !.alive = deaths <= DeathLimit, !.ready = FALSE, !.dialog = "none"]
        /\ shell' = [shell EXCEPT !.deaths = deaths, !.surface = "none", !.prepared = FALSE,
                                  !.locked = @ /\ ~shell.bound, !.bound = FALSE]
  BY DEF ClientDies
<1>3. deaths \in 0..DeathLimit + 1
  <2>1. shell.deaths \in Nat
    BY <1>1, DeathLimitAssumption DEF Shell
  <2> QED
    BY <1>1, <1>2, <2>1, DeathLimitAssumption
<1>4. client' \in Client /\ client'.alive = (deaths <= DeathLimit) /\ client'.dialog = "none"
  <2> DEFINE alive == deaths <= DeathLimit
  <2>1. client' = [client EXCEPT !.alive = alive, !.ready = FALSE, !.dialog = "none"]
    BY <1>2
  <2>2. alive \in BOOLEAN
    OBVIOUS
  <2> HIDE DEF alive
  <2>3. client' \in Client /\ client'.alive = alive /\ client'.dialog = "none"
    BY <1>1, <2>1, <2>2 DEF Client
  <2> QED
    BY <2>3 DEF alive
<1>5. /\ shell' \in Shell /\ shell'.deaths = deaths /\ shell'.prepared = FALSE
      /\ shell'.surface = "none" /\ shell'.bound = FALSE /\ shell'.locked = (shell.locked /\ ~shell.bound)
  BY <1>1, <1>2, <1>3 DEF Shell
<1>6. /\ events' = <<>> /\ requests' = <<>> /\ Len(events') = 0
      /\ startup' \in BOOLEAN /\ UNCHANGED <<power, timer, pressed>>
  BY <1>1 DEF ClientDies, TypeOK
<1>7. FadeOK(fade')
  <2> DEFINE g(o) == IF shell.locked /\ shell.bound THEN Faded(fade[o], "IN") ELSE fade[o]
             f(o) == [g(o) EXCEPT !.timer = FALSE]
  <2>1. \A o \in DOMAIN fade : g(o) \in Fade /\ (g(o).running => g(o).view)
    BY <1>1, FadedIsFade DEF FadeOK
  <2>2. fade' = [o \in DOMAIN fade |-> f(o)]
    BY DEF ClientDies
  <2> HIDE DEF g
  <2>3. \A o \in DOMAIN fade : f(o) \in Fade /\ (f(o).running => f(o).view)
    BY <2>1 DEF Fade
  <2> HIDE DEF f
  <2> QED
    BY <1>1, <2>2, <2>3 DEF FadeOK
<1>8. TypeOK'
  BY <1>1, <1>4, <1>5, <1>6, <1>7 DEF TypeOK, FadeOK
<1>9. Conversation'
  <2>1. ~Asked'
    BY <1>6, NothingQueued DEF Asked
  <2> QED
    BY <1>4, <1>5, <1>6, <2>1, NothingQueued DEF Conversation
<1>10. Bound'
  BY <1>1, <1>4, <1>5, <1>6 DEF Bound
<1> QED
  BY <1>8, <1>9, <1>10 DEF Inv

LEMMA NextKeepsInv == Inv /\ [Next]_vars => Inv'
<1> SUFFICES ASSUME Inv, [Next]_vars PROVE Inv'
  OBVIOUS
<1>1. CASE UNCHANGED vars
  BY <1>1 DEF vars, Inv, TypeOK, Conversation, Bound, Asked, OneAnswer, In
<1>2. CASE StartupTimeout \/ DoShellFadeStartup
           \/ \E o \in DOMAIN fade : FadedIn(o) \/ FadedOut(o) \/ Unplug(o)
  BY <1>2, FadeStepKeepsInv
<1>3. CASE IdleTimeout \/ Offscreen \/ (\E o \in Outputs : Plug(o)) \/ Bind
  BY <1>3, PowerStepKeepsInv
<1>4. CASE ClientReady \/ ClientPrepares \/ ClientDraws \/ ClientUnlocks
  BY <1>4, ClientStepKeepsInv
<1>5. CASE \E held \in BOOLEAN : Wake(held)
  BY <1>5, WakeKeepsInv
<1>6. CASE Dispatch
  BY <1>6, DispatchKeepsInv
<1>7. CASE ClientDies
  BY <1>7, DeathKeepsInv
<1> QED
  BY <1>1, <1>2, <1>3, <1>4, <1>5, <1>6, <1>7 DEF Next

-----------------------------------------------------------------------------
(* prepare_event_sent is set exactly while a question or its answer is     *)
(* under way, and the client has a dialog without a lock surface only      *)
(* while its set_lock_surface is.                                          *)
THEOREM Invariance == Spec => []Inv
  BY InitInv, NextKeepsInv, PTL DEF Spec

(* Types: no animation runs on an output without a curtain, and the count  *)
(* of deaths stays bounded.                                                *)
THEOREM TypeCorrect == Spec => []TypeOK
<1>1. Inv => TypeOK
  BY DEF Inv
<1> QED
  BY <1>1, Invariance, PTL

(* unlock() never leaves the user in front of a locked, black screen, on   *)
(* any number of outputs and whenever the client answers or dies.          *)
THEOREM LockIsAnswered == Spec => []LockedIsAnswered
<1>1. Inv => LockedIsAnswered
  BY DEF Inv, Conversation, Bound, Asked, In, Pending, LockedIsAnswered
<1> QED
  BY <1>1, Invariance, PTL

(* desktop_shell_send_prepare_lock_surface() is sent only when the last    *)
(* one has been answered.                                                  *)
THEOREM AsksOnce == Spec => []AskedOnce
<1>1. Inv => AskedOnce
  BY DEF Inv, Conversation, Asked, In, OneAnswer, Pending, AskedOnce
<1> QED
  BY <1>1, Invariance, PTL
=============================================================================
