----------------------------- MODULE OrdersProofs -----------------------------
(***************************************************************************)
(* The parts of MCOrders, proved for every bound: each part keeps an       *)
(* invariant of its own, and a step of one part leaves the others alone.   *)
(***************************************************************************)
EXTENDS MCOrders, FiniteSetTheorems, SequenceTheorems, TLAPS

(***************************************************************************)
(* The session.  Whoever logs in later raises gen, so that as long as gen  *)
(* is the generation of the worker's own login the terminal is in the      *)
(* account that GetUser finds.                                             *)
(***************************************************************************)
KeyType == [account : {"none", "ours", "other"}, site : {"none", "ours", "other"}, number : Nat, gen : Nat]

\* The types, one by one, with the ghosts.
LoginScalars ==
  /\ pc \in {"choose", "site", "fill", "verify", "press", "wait", "bind", "rebind", "idle", "op", "check", "blocked"}
  /\ gen \in Nat /\ login_generation \in Nat /\ session \in Nat
  /\ known \in BOOLEAN /\ disconnected \in BOOLEAN /\ identity_lost \in BOOLEAN
  /\ login_established \in BOOLEAN /\ accepted \in BOOLEAN
  /\ session # 0 => login_established
  /\ drops \in SUBSET Nat

TerminalType == [screen : {"login", "main"}, account : {"none", "ours", "other"},
                 site : {"none", "ours", "other"}, link : BOOLEAN, number : Nat]

LoginRecords ==
  /\ terminal \in TerminalType
  /\ window \in [site : {"ours", "other"}, user : {"ours", "other"}]
  /\ key \in KeyType

\* One generation is bound at most, the first, and until the next one the account is known.
FirstLogin ==
  /\ login_generation \in {0, 1} /\ gen >= 1 /\ (gen = 1 \/ login_generation = 1)
  /\ gen = 1 => (known <=> terminal.account = "ours")
  /\ login_established => login_generation = 1

\* Session numbers grow, and a dropped one that is still bound is remembered as down.
SessionsGrow ==
  /\ terminal.screen = "main" => terminal.number >= 1
  /\ session <= terminal.number
  /\ \A d \in drops : d <= session
  /\ session \in drops => session = 0 \/ disconnected

\* The key of the running operation went to the session of its generation.
KeyInSession ==
  /\ pc \in {"idle", "op", "check"} => session # 0 /\ login_established
  /\ pc = "check" =>
       /\ key.gen >= 1 /\ key.gen <= gen /\ session <= key.number /\ key.number <= terminal.number
       /\ gen = 1 => key.account = terminal.account /\ key.site = terminal.site

\* What an accepted operation relied on, until the next one begins.
AcceptedHolds ==
  accepted =>
    /\ pc = "idle" /\ key.account = "ours" /\ key.site = "ours"
    /\ key.number = session /\ key.gen = login_generation /\ key.number \notin drops

SessionInv == LoginScalars /\ LoginRecords /\ FirstLogin /\ SessionsGrow /\ KeyInSession /\ AcceptedHolds

\* What a look at the session leads to: it is refused, the connection is seen down, or the
\* session is bound.
LookRefused ==
  pc' = "blocked" /\ UNCHANGED <<login_generation, session, disconnected, drops>>
LookedDown ==
  /\ pc' = "blocked" /\ UNCHANGED <<login_generation, session>>
  /\ disconnected' = TRUE /\ drops' = drops \cup {session}
LookBound ==
  /\ login_established /\ terminal.screen = "main" /\ terminal.site = "ours" /\ known
  /\ login_generation = 0 \/ gen = login_generation
  /\ \/ session = 0
     \/ ~disconnected /\ terminal.number = session
     \/ pc \in {"rebind", "blocked"} /\ terminal.number # session
  /\ session' = terminal.number /\ login_generation' = gen /\ disconnected' = FALSE /\ UNCHANGED drops
  /\ pc' \in {"idle", "op"}
Looks == Login!Rebind \/ Login!Resume \/ Login!Prepare \/ Login!VerifySession

\* validate_session has no other outcome, and leaves the terminal alone.
LEMMA LookOutcomes ==
  ASSUME LoginScalars, Looks
  PROVE  /\ UNCHANGED <<terminal, gen, known, window, login_established>>
         /\ LookRefused \/ LookedDown \/ LookBound
<1> USE DEF LoginScalars, Login!Validate, Login!Goto, Login!IdentityMatch, Login!Changed, Login!Refused,
            Login!Regenerated, Login!MainShown, Login!None, Login!outside, LookRefused, LookedDown, LookBound
<1>1. CASE Login!Rebind
  BY <1>1 DEF Login!Rebind
<1>2. CASE Login!Resume
  BY <1>2 DEF Login!Resume
<1>3. CASE Login!Prepare
  BY <1>3 DEF Login!Prepare
<1>4. CASE Login!VerifySession
  BY <1>4 DEF Login!VerifySession
<1> QED BY <1>1, <1>2, <1>3, <1>4 DEF Looks

\* What the terminal does by itself, or at the login button: its numbers grow, and another login
\* raises the generation.
TerminalMoves ==
  /\ terminal'.number \in Nat /\ terminal'.number >= terminal.number
  /\ (terminal'.screen = "main" => terminal'.number >= 1)
  /\ UNCHANGED <<login_generation, session, disconnected, identity_lost, login_established, drops, key, accepted>>
  /\ \/ /\ pc' = pc
        /\ \/ gen' = gen /\ (known' <=> known) /\ terminal'.account = terminal.account /\ terminal'.site = terminal.site
           \/ gen' = gen + 1 /\ login_generation # 0
     \/ /\ pc = "press" /\ pc' \in {"wait", "blocked"} /\ gen' = gen
        /\ \/ known' <=> terminal'.account = "ours"
           \/ (known' <=> known) /\ terminal'.account = terminal.account

\* A terminal put together from its parts.
LEMMA TerminalTyped ==
  ASSUME NEW c \in {"login", "main"}, NEW a \in {"none", "ours", "other"}, NEW s \in {"none", "ours", "other"},
         NEW l \in BOOLEAN, NEW n \in Nat
  PROVE  [screen |-> c, account |-> a, site |-> s, link |-> l, number |-> n] \in TerminalType
BY Zenon DEF TerminalType

\* A person or the network, and the login button.
LEMMA TerminalStep ==
  ASSUME SessionInv, Login!Disturb \/ Login!Press
  PROVE  /\ TerminalMoves /\ LoginRecords' /\ known' \in BOOLEAN /\ gen' \in Nat
<1> USE DEF SessionInv, LoginScalars, LoginRecords, TerminalType, SessionsGrow, KeyType, TerminalMoves, Login!Choice, Login!None,
            Login!bridge, Login!outside
<1>1. CASE Login!Press
  <2>1. CASE UNCHANGED <<terminal, known>>
    BY <1>1, <2>1 DEF Login!Press, Login!Step, Login!Stop
  <2>2. CASE /\ terminal' = [screen |-> "main", account |-> window.user, site |-> window.site, link |-> TRUE,
                             number |-> terminal.number + 1]
             /\ known' = (window.user = "ours") /\ pc' = "wait"
    <3>1. known' <=> window.user = "ours"
      BY <2>2, Zenon
    <3>2. known' \in BOOLEAN
      BY <2>2
    <3>3. pc = "press" /\ gen' = gen /\ window' = window
          /\ UNCHANGED <<login_generation, session, disconnected, identity_lost, login_established, drops, key, accepted>>
      BY <1>1 DEF Login!Press, Login!Step, Login!Stop
    <3> QED BY <2>2, <3>1, <3>2, <3>3
  <2> QED BY <1>1, <2>1, <2>2 DEF Login!Press, Login!Step, Login!Stop
<1>2. CASE Login!Disturb
  <2>0. UNCHANGED <<pc, login_generation, session, disconnected, identity_lost, login_established, drops, key, accepted>>
    BY <1>2 DEF Login!Disturb
  <2>1. CASE Login!Choose
    BY <2>0, <2>1 DEF Login!Choose
  <2>2. CASE Login!Relogin
    <3>1. PICK a \in Login!Choice, s \in Login!Choice :
            terminal' = [terminal EXCEPT !.account = a, !.site = s, !.link = TRUE, !.number = @ + 1]
      BY <2>2 DEF Login!Relogin
    <3>2. terminal.screen = "main" /\ login_generation # 0 /\ gen' = gen + 1 /\ window' = window
      BY <2>2 DEF Login!Relogin
    <3>3. known' \in BOOLEAN
      BY <2>2 DEF Login!Relogin
    <3>4. terminal' = [screen |-> terminal.screen, account |-> a, site |-> s, link |-> TRUE,
                       number |-> terminal.number + 1]
      BY <3>1 DEF TerminalType
    <3>5. terminal' \in TerminalType
      BY <3>4, TerminalTyped
    <3>6. terminal'.number = terminal.number + 1
      BY <3>4
    <3>7. LoginRecords'
      BY <2>0, <3>2, <3>5
    <3>8. TerminalMoves
      BY <2>0, <3>2, <3>6
    <3> QED BY <3>2, <3>3, <3>7, <3>8
  <2>3. CASE Login!Reconnect
    <3>1. UNCHANGED <<gen, known, window>> /\ terminal.screen = "main"
      BY <2>3 DEF Login!Reconnect
    <3>2. PICK l \in BOOLEAN, n \in {terminal.number, terminal.number + 1} :
            terminal' = [terminal EXCEPT !.link = l, !.number = n]
      BY <2>3 DEF Login!Reconnect, TerminalType
    <3>3. terminal' = [screen |-> terminal.screen, account |-> terminal.account, site |-> terminal.site,
                       link |-> l, number |-> n]
      BY <3>2 DEF TerminalType
    <3>4. terminal' \in TerminalType
      BY <3>3, TerminalTyped
    <3>5. LoginRecords'
      BY <2>0, <3>1, <3>4
    <3>6. TerminalMoves
      BY <2>0, <3>1, <3>3
    <3> QED BY <3>1, <3>5, <3>6
  <2> QED BY <1>2, <2>1, <2>2, <2>3 DEF Login!Disturb
<1> QED BY <1>1, <1>2

\* Every step keeps the numbers and flags in their types.
LEMMA ScalarsStep ==
  ASSUME SessionInv, Login!Next
  PROVE  LoginScalars'
<1> USE DEF SessionInv, LoginScalars, LoginRecords, TerminalType, KeyType, Login!Choice,
            Login!None, Login!bridge, Login!outside, Login!Step, Login!Stop, Login!MainShown
<1>1. CASE Login!SelectSite \/ Login!SiteRead \/ Login!FillAccount \/ Login!AccountRead \/ Login!LoginReady
  BY <1>1 DEF Login!SelectSite, Login!SiteRead, Login!FillAccount, Login!AccountRead, Login!LoginReady
<1>2. CASE Login!Press \/ Login!Disturb
  BY <1>2, TerminalStep, ZenonT(60) DEF TerminalMoves
<1>3. CASE Login!Bind
  BY <1>3 DEF Login!Bind, Login!IdentityMatch
<1>4. CASE Login!Key
  BY <1>4 DEF Login!Key
<1>5. CASE Login!Rebind
  BY <1>5 DEF Login!Rebind, Login!Validate, Login!Goto
<1>6. CASE Login!Resume
  BY <1>6 DEF Login!Resume, Login!Validate, Login!Goto
<1>7. CASE Login!Prepare
  BY <1>7 DEF Login!Prepare, Login!Validate, Login!Goto, Login!NoKey
<1>8. CASE Login!VerifySession
  BY <1>8 DEF Login!VerifySession, Login!Validate, Login!Goto
<1> QED BY <1>1, <1>2, <1>3, <1>4, <1>5, <1>6, <1>7, <1>8 DEF Login!Next, Login!Worker, Looks

\* Every step keeps the terminal, the login window and the key in their types.
LEMMA RecordsStep ==
  ASSUME SessionInv, Login!Next
  PROVE  LoginRecords'
<1> USE DEF SessionInv, LoginScalars, LoginRecords, TerminalType, KeyType, Login!Choice,
            Login!None, Login!bridge, Login!outside, Login!Step, Login!Stop, Login!MainShown
<1>1. CASE Login!SelectSite \/ Login!SiteRead \/ Login!FillAccount \/ Login!AccountRead \/ Login!LoginReady
  BY <1>1 DEF Login!SelectSite, Login!SiteRead, Login!FillAccount, Login!AccountRead, Login!LoginReady
<1>2. CASE Login!Press \/ Login!Disturb
  BY <1>2, TerminalStep DEF TerminalMoves
<1>3. CASE Login!Bind
  BY <1>3 DEF Login!Bind, Login!IdentityMatch
<1>4. CASE Login!Key
  BY <1>4 DEF Login!Key
<1>5. CASE Login!Rebind
  BY <1>5 DEF Login!Rebind, Login!Validate, Login!Goto
<1>6. CASE Login!Resume
  BY <1>6 DEF Login!Resume, Login!Validate, Login!Goto
<1>7. CASE Login!Prepare
  BY <1>7 DEF Login!Prepare, Login!Validate, Login!Goto, Login!NoKey
<1>8. CASE Login!VerifySession
  BY <1>8 DEF Login!VerifySession, Login!Validate, Login!Goto
<1> QED BY <1>1, <1>2, <1>3, <1>4, <1>5, <1>6, <1>7, <1>8 DEF Login!Next, Login!Worker, Looks

\* The numbers that are compared.
LoginNumbers ==
  /\ terminal.number \in Nat /\ gen \in Nat /\ session \in Nat /\ login_generation \in Nat
  /\ key.number \in Nat /\ key.gen \in Nat /\ drops \in SUBSET Nat
  /\ login_established \in BOOLEAN /\ accepted \in BOOLEAN /\ known \in BOOLEAN /\ disconnected \in BOOLEAN

\* They are natural numbers.
LEMMA LoginNumbersTyped ==
  ASSUME SessionInv
  PROVE  LoginNumbers
BY DEF SessionInv, LoginScalars, LoginRecords, TerminalType, KeyType, LoginNumbers

\* Whoever logs in raises the counter: the bound generation stays that of the first login.
LEMMA FirstLoginStep ==
  ASSUME SessionInv, Login!Next
  PROVE  FirstLogin'
<1>0. LoginNumbers
  BY LoginNumbersTyped
<1> USE DEF LoginNumbers, FirstLogin, Login!None, Login!bridge, Login!outside,
            Login!Step, Login!Stop, Login!MainShown
<1>i. FirstLogin
  BY DEF SessionInv
<1>1. CASE Login!SelectSite \/ Login!SiteRead \/ Login!FillAccount \/ Login!AccountRead \/ Login!LoginReady
  BY <1>0, <1>i, <1>1 DEF Login!SelectSite, Login!SiteRead, Login!FillAccount, Login!AccountRead, Login!LoginReady
<1>2. CASE Login!Press \/ Login!Disturb
  BY <1>0, <1>i, <1>2, TerminalStep DEF TerminalMoves
<1>3. CASE Login!Bind
  BY <1>0, <1>i, <1>3 DEF Login!Bind, Login!IdentityMatch
<1>4. CASE Login!Key
  BY <1>0, <1>i, <1>4 DEF Login!Key
<1>5. CASE Looks
  <2>0. UNCHANGED <<terminal, gen, known, window, login_established>>
    BY <1>5, LookOutcomes DEF SessionInv
  <2>1. CASE LookRefused
    BY <1>0, <1>i, <2>0, <2>1 DEF LookRefused
  <2>2. CASE LookedDown
    BY <1>0, <1>i, <2>0, <2>2 DEF LookedDown
  <2>3. CASE LookBound
    BY <1>0, <1>i, <2>0, <2>3 DEF LookBound
  <2> QED BY <1>5, <2>1, <2>2, <2>3, LookOutcomes DEF SessionInv
<1> QED BY <1>1, <1>2, <1>3, <1>4, <1>5 DEF Login!Next, Login!Worker, Looks

\* Session numbers only grow, and a drop is remembered until another session is bound.
LEMMA SessionsStep ==
  ASSUME SessionInv, Login!Next
  PROVE  SessionsGrow'
<1>0. LoginNumbers
  BY LoginNumbersTyped
<1> USE DEF LoginNumbers, SessionsGrow, Login!None, Login!bridge, Login!outside,
            Login!Step, Login!Stop, Login!MainShown
<1>i. SessionsGrow
  BY DEF SessionInv
<1>1. CASE Login!SelectSite \/ Login!SiteRead \/ Login!FillAccount \/ Login!AccountRead \/ Login!LoginReady
  BY <1>0, <1>i, <1>1 DEF Login!SelectSite, Login!SiteRead, Login!FillAccount, Login!AccountRead, Login!LoginReady
<1>2. CASE Login!Press \/ Login!Disturb
  <2>1. UNCHANGED <<session, disconnected, drops>>
    BY <1>2, TerminalStep DEF TerminalMoves
  <2>2. /\ terminal'.number \in Nat /\ terminal'.number >= terminal.number
        /\ terminal'.screen = "main" => terminal'.number >= 1
    BY <1>2, TerminalStep DEF TerminalMoves
  <2> QED BY <1>0, <1>i, <2>1, <2>2
<1>3. CASE Login!Bind
  <2>1. UNCHANGED <<terminal, session, disconnected, drops>>
    BY <1>3 DEF Login!Bind
  <2> QED BY <1>i, <2>1
<1>4. CASE Login!Key
  BY <1>0, <1>i, <1>4 DEF Login!Key
<1>5. CASE Looks
  <2>0. UNCHANGED <<terminal, gen, known, window, login_established>>
    BY <1>5, LookOutcomes DEF SessionInv
  <2>1. CASE LookRefused
    BY <1>0, <1>i, <2>0, <2>1 DEF LookRefused
  <2>2. CASE LookedDown
    BY <1>0, <1>i, <2>0, <2>2 DEF LookedDown
  <2>3. CASE LookBound
    BY <1>0, <1>i, <2>0, <2>3 DEF LookBound
  <2> QED BY <1>5, <2>1, <2>2, <2>3, LookOutcomes DEF SessionInv
<1> QED BY <1>1, <1>2, <1>3, <1>4, <1>5 DEF Login!Next, Login!Worker, Looks

\* The key is pressed in the session validated before, or in a later one.
LEMMA KeyStep ==
  ASSUME SessionInv, Login!Next
  PROVE  KeyInSession'
<1>0. LoginNumbers
  BY LoginNumbersTyped
<1> USE DEF LoginNumbers, KeyInSession, FirstLogin, SessionsGrow, Login!None, Login!bridge, Login!outside,
            Login!Step, Login!Stop, Login!MainShown
<1>i. KeyInSession /\ FirstLogin /\ SessionsGrow
  BY DEF SessionInv
<1>1. CASE Login!SelectSite \/ Login!SiteRead \/ Login!FillAccount \/ Login!AccountRead \/ Login!LoginReady
  BY <1>0, <1>i, <1>1 DEF Login!SelectSite, Login!SiteRead, Login!FillAccount, Login!AccountRead, Login!LoginReady
<1>2. CASE Login!Press \/ Login!Disturb
  BY <1>0, <1>i, <1>2, TerminalStep DEF TerminalMoves
<1>3. CASE Login!Bind
  BY <1>0, <1>i, <1>3 DEF Login!Bind, Login!IdentityMatch
<1>4. CASE Login!Key
  BY <1>0, <1>i, <1>4 DEF Login!Key
<1>5. CASE Looks
  <2>0. UNCHANGED <<terminal, gen, known, window, login_established>>
    BY <1>5, LookOutcomes DEF SessionInv
  <2>1. CASE LookRefused
    BY <1>0, <1>i, <2>0, <2>1 DEF LookRefused
  <2>2. CASE LookedDown
    BY <1>0, <1>i, <2>0, <2>2 DEF LookedDown
  <2>3. CASE LookBound
    BY <1>0, <1>i, <2>0, <2>3 DEF LookBound
  <2> QED BY <1>5, <2>1, <2>2, <2>3, LookOutcomes DEF SessionInv
<1> QED BY <1>1, <1>2, <1>3, <1>4, <1>5 DEF Login!Next, Login!Worker, Looks

\* An operation is accepted only in the session and the generation of its key.
LEMMA AcceptedStep ==
  ASSUME SessionInv, Login!Next
  PROVE  AcceptedHolds'
<1>0. LoginNumbers
  BY LoginNumbersTyped
<1> USE DEF LoginNumbers, AcceptedHolds, FirstLogin, SessionsGrow, KeyInSession, Login!None, Login!bridge, Login!outside,
            Login!Step, Login!Stop, Login!MainShown
<1>i. AcceptedHolds /\ FirstLogin /\ SessionsGrow /\ KeyInSession
  BY DEF SessionInv
<1>1. CASE Login!SelectSite \/ Login!SiteRead \/ Login!FillAccount \/ Login!AccountRead \/ Login!LoginReady
  BY <1>0, <1>i, <1>1 DEF Login!SelectSite, Login!SiteRead, Login!FillAccount, Login!AccountRead, Login!LoginReady
<1>2. CASE Login!Press \/ Login!Disturb
  <2>1. UNCHANGED <<login_generation, session, drops, key, accepted>> /\ (pc' = pc \/ pc = "press")
    BY <1>2, TerminalStep DEF TerminalMoves
  <2> QED BY <1>i, <2>1
<1>3. CASE Login!Bind
  BY <1>0, <1>i, <1>3 DEF Login!Bind, Login!IdentityMatch
<1>4. CASE Login!Key
  BY <1>0, <1>i, <1>4 DEF Login!Key
<1>5. CASE Login!Rebind \/ Login!Resume \/ Login!Prepare
  <2>1. ~accepted'
    BY <1>0, <1>i, <1>5 DEF Login!Rebind, Login!Resume, Login!Prepare
  <2> QED BY <2>1
<1>6. CASE Login!VerifySession
  <2>0. pc = "check" /\ ~accepted /\ key' = key
    BY <1>i, <1>6 DEF Login!VerifySession
  <2>1. CASE pc' = "blocked"
    <3>1. ~accepted'
      BY <1>0, <1>6, <2>0, <2>1 DEF Login!VerifySession, Login!Validate, Login!Goto
    <3> QED BY <3>1
  <2>2. CASE pc' # "blocked"
    <3>1. LookBound /\ pc' = "idle"
      BY <1>6, <2>2, LookOutcomes
      DEF SessionInv, Looks, LookRefused, LookedDown, Login!VerifySession, Login!Validate, Login!Goto
    <3>2. login_generation' = 1 /\ gen = 1 /\ terminal.account = "ours" /\ terminal.site = "ours"
      BY <1>0, <1>i, <3>1 DEF LookBound
    <3>3. session # 0 /\ ~disconnected /\ terminal.number = session /\ session' = session /\ drops' = drops
      BY <1>0, <1>i, <2>0, <3>1 DEF LookBound
    <3>4. key.number = session /\ key.gen = 1 /\ key.account = "ours" /\ key.site = "ours"
      BY <1>0, <1>i, <2>0, <3>2, <3>3
    <3> QED BY <1>i, <2>0, <3>1, <3>2, <3>3, <3>4
  <2> QED BY <2>1, <2>2
<1> QED BY <1>1, <1>2, <1>3, <1>4, <1>5, <1>6 DEF Login!Next, Login!Worker

\* Nothing of the session changes when another part moves.
LEMMA SessionFrame ==
  ASSUME SessionInv, UNCHANGED loginVars
  PROVE  SessionInv'
BY DEF SessionInv, LoginScalars, LoginRecords, TerminalType, FirstLogin, SessionsGrow, KeyInSession, AcceptedHolds, KeyType,
       Login!Choice, Login!None, loginVars

\* The session's invariant holds in every state, whichever part moves.
THEOREM SessionInvariant == Spec => []SessionInv
<1>1. Init => SessionInv
  <2> SUFFICES ASSUME Login!Init PROVE SessionInv
    BY DEF Init
  <2> USE DEF Login!Init, Login!Choice, Login!None
  <2>1. LoginScalars /\ key \in KeyType
    BY DEF LoginScalars, KeyType, Login!NoKey
  <2>2. LoginRecords
    BY <2>1 DEF LoginRecords, TerminalType
  <2>3. FirstLogin /\ SessionsGrow
    BY DEF FirstLogin, SessionsGrow
  <2>4. KeyInSession /\ AcceptedHolds
    BY DEF KeyInSession, AcceptedHolds
  <2> QED BY <2>1, <2>2, <2>3, <2>4 DEF SessionInv
<1>2. SessionInv /\ [Next]_vars => SessionInv'
  <2> SUFFICES ASSUME SessionInv, [Next]_vars PROVE SessionInv'
    OBVIOUS
  <2>1. CASE Login!Next
    BY <2>1, ScalarsStep, RecordsStep, FirstLoginStep, SessionsStep, KeyStep, AcceptedStep DEF SessionInv
  <2>2. CASE UNCHANGED loginVars
    BY <2>2, SessionFrame
  <2> QED BY <2>1, <2>2 DEF Next, vars
<1> QED BY <1>1, <1>2, PTL DEF Spec

\* What is reported as accepted went to the configured account on its site, in the bound session.
THEOREM SessionIsOwn == Spec => []AcceptedIsOwn
<1>1. SessionInv => AcceptedIsOwn
  BY DEF SessionInv, AcceptedHolds, AcceptedIsOwn, Login!AcceptedIsOwn, Login!AcceptedInOneSession
<1> QED BY <1>1, SessionInvariant, PTL

\* A session in which the worker once saw the connection down accepts nothing any more.
THEOREM DroppedIsUnused == Spec => []DroppedSessionUnused
<1>1. SessionInv => DroppedSessionUnused
  BY DEF SessionInv, AcceptedHolds, DroppedSessionUnused, Login!DroppedSessionUnused
<1> QED BY <1>1, SessionInvariant, PTL

(***************************************************************************)
(* The observer of the send.  A window is the time between arm and finish, *)
(* named by the operation the observer was armed for.                      *)
(***************************************************************************)

\* The types, with the bounds on what grows.
SendTypes ==
  /\ Send!TypeOK /\ Len(stack) <= MaxDepth /\ Len(send_sent) <= MaxSends
  /\ keys <= op /\ (send_pc \in {"arming", "armed"} => keys < op)
  /\ send_pc # "idle" => op >= 1

\* Row w went out on the GUI thread in the window of w.
Own(w) == [row |-> w, thread |-> "gui", window |-> w]

\* Some send of the armed row is below frame i or is frame i: it began in this window.
Within(i) == \E k \in Send!OursOnStack : k <= i

\* The count of active sends, the scope and the slots agree with the stack.
StackInv ==
  /\ Send!ObserverAccounted
  /\ hook.installed => slots.send = "observer"
  /\ hook.expected # 0 => hook.installed
  /\ Send!OursOnStack # {} => hook.expected # 0
  /\ hook.scope # 0 => Send!OursOnStack # {}
  /\ \A i \in Send!OursOnStack : stack[i].previous # 0 => \E k \in Send!OursOnStack : k < i

\* Every frame is a send of the GUI thread, and those above a send of ours are of this window.
FramesSent ==
  \A i \in DOMAIN stack :
    /\ stack[i].ref \in DOMAIN send_sent
    /\ send_sent[stack[i].ref].row = stack[i].row /\ send_sent[stack[i].ref].thread = "gui"
    /\ Within(i) => send_sent[stack[i].ref].window = hook.expected

\* What observer state h says about the window of w, when s was sent.
Counts(h, w, s) ==
  /\ h.sends = 0 => \A j \in DOMAIN s : s[j] # Own(w)
  /\ h.sends = 1 => \A i, j \in DOMAIN s : s[i] = Own(w) /\ s[j] = Own(w) => i = j
  /\ h.count >= 1 =>
       h.receipt.ref \in DOMAIN s /\ s[h.receipt.ref] = [row |-> h.receipt.row, thread |-> "gui", window |-> w]

\* The observer counts the window it is armed for, and the operation about to arm has none yet.
WindowInv ==
  /\ hook.expected <= op /\ \A j \in DOMAIN send_sent : send_sent[j].window <= op
  /\ send_request = "arm" => hook.expected # op /\ \A j \in DOMAIN send_sent : send_sent[j].window # op
  /\ hook.expected # 0 => Counts(hook, hook.expected, send_sent)

\* From arm to finish the observer is the operation's; afterwards the answer holds its counts.
OperationInv ==
  /\ send_pc = "idle" /\ ~client.poisoned => send_request = "none"
  /\ send_pc \in {"armed", "keyed", "cleanup"} => send_request = "none" /\ hook.expected = op
  /\ send_pc = "arming" =>
       \/ send_request = "arm" /\ answer.code = "none"
       \/ send_request = "none" /\ (answer.code = "ok" => hook.expected = op)
  /\ send_pc \in {"finishing", "releasing"} =>
       \/ send_request = "finish" /\ answer.code = "none" /\ hook.expected = op
       \/ /\ send_request = "none"
          /\ answer.code = "ok" => hook.expected # op /\ Counts(answer.hook, op, send_sent)

\* Reference n, and no other, is that of row o in its window.
IsOwn(n, o, s) == n \in DOMAIN s /\ \A j \in DOMAIN s : j = n <=> s[j] = Own(o)

\* An accepted reference belongs to a window that is over.
AcceptedOver ==
  \A o \in 1..MaxOps : identity[o] # 0 =>
    /\ o <= op /\ (o = op => send_pc = "idle" /\ send_request = "none")
    /\ hook.expected # o /\ IsOwn(identity[o], o, send_sent)

ReceiptInv == SendTypes /\ StackInv /\ FramesSent /\ WindowInv /\ OperationInv /\ AcceptedOver

\* Cardinality as the instance of Receipt has it.
LEMMA SendCardinality == ASSUME NEW S PROVE Send!Cardinality(S) = Cardinality(S)
BY DEF Send!Cardinality, Cardinality

\* What popping a sequence leaves.
LEMMA Popped ==
  ASSUME NEW S, NEW s \in Seq(S), s # <<>>
  PROVE  /\ Send!Front(s) \in Seq(S) /\ Len(Send!Front(s)) = Len(s) - 1 /\ Len(s) >= 1
         /\ Send!Last(s) = s[Len(s)] /\ Send!Last(s) \in S
         /\ \A i \in 1..(Len(s) - 1) : Send!Front(s)[i] = s[i]
<1>1. Len(s) >= 1 /\ Len(s) \in Nat
  BY EmptySeq
<1>2. \A i \in 1 .. Len(s) - 1 : s[i] \in S
  BY <1>1
<1> DEFINE f == SubSeq(s, 1, Len(s) - 1)
<1>3. /\ f \in Seq(S)
      /\ Len(f) = IF 1 <= Len(s) - 1 THEN Len(s) - 1 - 1 + 1 ELSE 0
      /\ \A i \in 1 .. Len(s) - 1 - 1 + 1 : f[i] = s[1 + i - 1]
  BY <1>1, <1>2, SubSeqProperties
<1>4. Send!Last(s) = s[Len(s)] /\ Send!Last(s) \in S
  BY <1>1 DEF Send!Last
<1>5. Send!Front(s) = f
  BY DEF Send!Front
<1> HIDE DEF f
<1>6. Len(f) = Len(s) - 1
  <2>1. \A n, m \in Nat : m >= 1 /\ n = (IF 1 <= m - 1 THEN m - 1 - 1 + 1 ELSE 0) => n = m - 1
    OBVIOUS
  <2>2. Len(f) \in Nat
    BY <1>3
  <2> QED BY <1>1, <1>3, <2>1, <2>2, Zenon
<1>7. ASSUME NEW i \in 1 .. Len(s) - 1 PROVE f[i] = s[i]
  <2>1. i \in 1 .. Len(s) - 1 - 1 + 1 /\ 1 + i - 1 = i
    BY <1>1
  <2> QED BY <1>3, <2>1
<1> QED BY <1>1, <1>3, <1>4, <1>5, <1>6, <1>7

\* The bounds are natural numbers.
LEMMA SendConstants == {MaxOps, MaxSends, MaxDepth, MaxCallbacks} \subseteq Nat
BY ConstantsAssumption DEF Send!Constants

\* The sends of ours are finitely many.
LEMMA OursFinite ==
  ASSUME stack \in Seq(Send!Frame)
  PROVE  /\ IsFiniteSet(Send!OursOnStack) /\ Cardinality(Send!OursOnStack) \in Nat
         /\ Cardinality(Send!OursOnStack) <= Len(stack)
         /\ Cardinality(Send!OursOnStack) = 0 <=> Send!OursOnStack = {}
<1>1. Send!OursOnStack \subseteq 1..Len(stack)
  BY DEF Send!OursOnStack
<1>2. IsFiniteSet(1..Len(stack)) /\ Cardinality(1..Len(stack)) = Len(stack)
  BY FS_Interval, Len(stack) \in Nat
<1>3. IsFiniteSet(Send!OursOnStack) /\ Cardinality(Send!OursOnStack) <= Len(stack)
  BY <1>1, <1>2, FS_Subset
<1>4. Cardinality(Send!OursOnStack) \in Nat
  BY <1>3, FS_CardinalityType
<1>5. Cardinality(Send!OursOnStack) = 0 <=> Send!OursOnStack = {}
  BY <1>3, FS_EmptySet
<1> QED BY <1>3, <1>4, <1>5

\* A pushed frame joins the sends of ours, if it is one.
LEMMA OursPushed ==
  ASSUME stack \in Seq(Send!Frame), stack' \in Seq(Send!Frame), Len(stack') = Len(stack) + 1,
         \A i \in 1..Len(stack) : stack'[i] = stack[i]
  PROVE  /\ stack'[Len(stack) + 1].ours =>
              /\ Send!OursOnStack' = Send!OursOnStack \cup {Len(stack) + 1}
              /\ Cardinality(Send!OursOnStack') = Cardinality(Send!OursOnStack) + 1
         /\ ~stack'[Len(stack) + 1].ours => Send!OursOnStack' = Send!OursOnStack
<1>0. Len(stack) \in Nat
  OBVIOUS
<1>1. ASSUME stack'[Len(stack) + 1].ours
      PROVE  Send!OursOnStack' = Send!OursOnStack \cup {Len(stack) + 1}
  BY <1>0, <1>1 DEF Send!OursOnStack
<1>2. ASSUME ~stack'[Len(stack) + 1].ours
      PROVE  Send!OursOnStack' = Send!OursOnStack
  BY <1>0, <1>2 DEF Send!OursOnStack
<1>3. Len(stack) + 1 \notin Send!OursOnStack
  BY <1>0 DEF Send!OursOnStack
<1>4. Cardinality(Send!OursOnStack \cup {Len(stack) + 1}) = Cardinality(Send!OursOnStack) + 1
  BY <1>3, OursFinite, FS_AddElement
<1> QED BY <1>1, <1>2, <1>4

\* A popped frame leaves them.
LEMMA OursPopped ==
  ASSUME stack \in Seq(Send!Frame), stack' \in Seq(Send!Frame), Len(stack) >= 1, Len(stack') = Len(stack) - 1,
         \A i \in 1..(Len(stack) - 1) : stack'[i] = stack[i]
  PROVE  /\ stack[Len(stack)].ours =>
              /\ Send!OursOnStack' = Send!OursOnStack \ {Len(stack)} /\ Len(stack) \in Send!OursOnStack
              /\ Cardinality(Send!OursOnStack') = Cardinality(Send!OursOnStack) - 1
         /\ ~stack[Len(stack)].ours => Send!OursOnStack' = Send!OursOnStack
<1>0. Len(stack) \in Nat
  OBVIOUS
<1>1. ASSUME stack[Len(stack)].ours
      PROVE  Send!OursOnStack' = Send!OursOnStack \ {Len(stack)} /\ Len(stack) \in Send!OursOnStack
  BY <1>0, <1>1 DEF Send!OursOnStack
<1>2. ASSUME ~stack[Len(stack)].ours
      PROVE  Send!OursOnStack' = Send!OursOnStack
  BY <1>0, <1>2 DEF Send!OursOnStack
<1>3. Len(stack) \in Send!OursOnStack =>
        Cardinality(Send!OursOnStack \ {Len(stack)}) = Cardinality(Send!OursOnStack) - 1
  BY OursFinite, FS_RemoveElement
<1> QED BY <1>1, <1>2, <1>3

\* A frame put together from its parts.
LEMMA FrameMade ==
  ASSUME NEW r \in Send!Row, NEW n \in 1..MaxSends, NEW o \in BOOLEAN, NEW b \in BOOLEAN, NEW p \in Send!Row,
         NEW c \in 0..MaxCallbacks
  PROVE  [row |-> r, ref |-> n, ours |-> o, observing |-> b, previous |-> p, callbacks |-> c] \in Send!Frame
BY Zenon DEF Send!Frame

\* The fields of the observer's state, one by one.
HookFields(h) ==
  /\ h.installed \in BOOLEAN /\ h.broken \in BOOLEAN /\ h.expected \in Send!Row /\ h.scope \in Send!Row
  /\ h.active \in 0..MaxDepth /\ h.sends \in Nat /\ h.count \in Nat
  /\ h.receipt \in [ref : 0..MaxSends, row : Send!Row, valid : BOOLEAN]

\* The observer's state is its fields.
LEMMA HookSplit ==
  ASSUME NEW h \in Send!HookState
  PROVE  /\ HookFields(h)
         /\ h = [installed |-> h.installed, expected |-> h.expected, scope |-> h.scope, active |-> h.active,
                 sends |-> h.sends, count |-> h.count, broken |-> h.broken, receipt |-> h.receipt]
BY DEF Send!HookState, HookFields

\* And is made from them.
LEMMA HookMade ==
  ASSUME NEW i \in BOOLEAN, NEW e \in Send!Row, NEW c \in Send!Row, NEW a \in 0..MaxDepth, NEW n \in Nat,
         NEW m \in Nat, NEW b \in BOOLEAN, NEW r \in [ref : 0..MaxSends, row : Send!Row, valid : BOOLEAN]
  PROVE  [installed |-> i, expected |-> e, scope |-> c, active |-> a, sends |-> n, count |-> m,
          broken |-> b, receipt |-> r] \in Send!HookState
BY Zenon DEF Send!HookState

\* A send that goes through the observer while it is armed for that row.
Ours(row) == slots.send = "observer" /\ hook.expected # 0 /\ row = hook.expected

\* observe_send before real_send: what it does to each field.
LEMMA BeginsHook ==
  ASSUME ReceiptInv, NEW row \in 0..op, Send!SendBegins(row)
  PROVE  /\ hook' \in Send!HookState
         /\ hook'.installed = hook.installed /\ hook'.expected = hook.expected
         /\ hook'.count = hook.count /\ hook'.receipt = hook.receipt
         /\ Ours(row) => /\ hook'.scope = hook.expected /\ hook'.sends = hook.sends + 1
                         /\ hook'.active = hook.active + 1
         /\ ~Ours(row) => hook' = hook
<1> USE SendConstants
<1>0. hook \in Send!HookState /\ Len(stack) < MaxDepth /\ Len(stack) \in Nat /\ stack \in Seq(Send!Frame)
  BY DEF ReceiptInv, SendTypes, Send!TypeOK, Send!SendBegins
<1>1. HookFields(hook)
  BY <1>0, HookSplit
<1>2. CASE ~Ours(row)
  BY <1>0, <1>2 DEF Send!SendBegins, Ours
<1>3. CASE Ours(row)
  <2> DEFINE b == hook.broken \/ ~(Ours(row) /\ slots.callback = "null")
  <2>1. hook' = [hook EXCEPT !.scope = hook.expected, !.sends = @ + 1, !.active = @ + 1, !.broken = b]
    BY <1>3 DEF Send!SendBegins, Ours
  <2>2. b \in BOOLEAN
    OBVIOUS
  <2> HIDE DEF b
  <2>3. hook' = [installed |-> hook.installed, expected |-> hook.expected, scope |-> hook.expected,
                 active |-> hook.active + 1, sends |-> hook.sends + 1, count |-> hook.count,
                 broken |-> b, receipt |-> hook.receipt]
    BY <1>0, <2>1 DEF Send!HookState
  <2>4. hook.active + 1 \in 0..MaxDepth
    <3>1. hook.active = Cardinality(Send!OursOnStack)
      BY SendCardinality DEF ReceiptInv, StackInv, Send!ObserverAccounted
    <3>2. hook.active <= Len(stack)
      BY <1>0, <3>1, OursFinite
    <3> QED BY <1>0, <1>1, <3>2 DEF HookFields
  <2>5. hook.sends + 1 \in Nat
    BY <1>1 DEF HookFields
  <2>6. hook' \in Send!HookState
    BY <1>1, <2>2, <2>3, <2>4, <2>5, HookMade DEF HookFields
  <2> QED BY <1>3, <2>3, <2>6
<1> QED BY <1>2, <1>3

\* And to the stack, the slots and what was sent.
LEMMA BeginsStack ==
  ASSUME ReceiptInv, NEW row \in 0..op, Send!SendBegins(row)
  PROVE  /\ stack' \in Seq(Send!Frame) /\ Len(stack') = Len(stack) + 1 /\ Len(stack') <= MaxDepth
         /\ \A i \in 1..Len(stack) : stack'[i] = stack[i]
         /\ LET f == stack'[Len(stack) + 1] IN
              /\ f.row = row /\ f.ref = Len(send_sent) + 1 /\ (f.ours <=> Ours(row)) /\ f.previous = hook.scope
         /\ send_sent' \in Seq([row : Send!Row, thread : {"gui", "other"}, window : Send!Row])
         /\ Len(send_sent') = Len(send_sent) + 1 /\ Len(send_sent') <= MaxSends
         /\ \A j \in 1..Len(send_sent) : send_sent'[j] = send_sent[j]
         /\ send_sent'[Len(send_sent) + 1] = [row |-> row, thread |-> "gui", window |-> hook.expected]
         /\ slots' \in [send : {"real", "observer"}, callback : {"null", "observer", "foreign"}]
         /\ slots'.send = slots.send
         /\ slots'.callback = slots.callback \/ Ours(row)
<1> USE SendConstants
<1>0. /\ hook \in Send!HookState /\ Len(stack) < MaxDepth /\ stack \in Seq(Send!Frame) /\ op \in 0..MaxOps
      /\ Len(send_sent) < MaxSends /\ send_sent \in Seq([row : Send!Row, thread : {"gui", "other"}, window : Send!Row])
      /\ slots \in [send : {"real", "observer"}, callback : {"null", "observer", "foreign"}]
  BY DEF ReceiptInv, SendTypes, Send!TypeOK, Send!SendBegins
<1>1. HookFields(hook) /\ row \in Send!Row
  BY <1>0, HookSplit DEF Send!Row
<1> DEFINE o == slots.send = "observer" /\ hook.expected # 0 /\ row = hook.expected
           b == o /\ slots.callback = "null"
           f == [row |-> row, ref |-> Len(send_sent) + 1, ours |-> o, observing |-> b,
                 previous |-> hook.scope, callbacks |-> 0]
           e == [row |-> row, thread |-> "gui", window |-> hook.expected]
<1>2. /\ stack' = Append(stack, f) /\ send_sent' = Append(send_sent, e)
      /\ slots' = IF b THEN [slots EXCEPT !.callback = "observer"] ELSE slots
  BY DEF Send!SendBegins
<1>3. f \in Send!Frame
  <2>1. o \in BOOLEAN /\ b \in BOOLEAN
    OBVIOUS
  <2> HIDE DEF o, b
  <2>2. Len(send_sent) + 1 \in 1..MaxSends /\ 0 \in 0..MaxCallbacks /\ hook.scope \in Send!Row
    BY <1>0, <1>1 DEF HookFields
  <2> QED BY <1>1, <2>1, <2>2, FrameMade
<1>4. e \in [row : Send!Row, thread : {"gui", "other"}, window : Send!Row]
  BY <1>1 DEF HookFields
<1>5. f.row = row /\ f.ref = Len(send_sent) + 1 /\ (f.ours <=> Ours(row)) /\ f.previous = hook.scope
  <2>1. o <=> Ours(row)
    BY DEF Ours
  <2>2. o \in BOOLEAN
    OBVIOUS
  <2> HIDE DEF o, b
  <2>3. f.ours = o
    OBVIOUS
  <2>4. f.ours <=> o
    BY <2>2, <2>3, Zenon
  <2>5. f.row = row /\ f.ref = Len(send_sent) + 1 /\ f.previous = hook.scope
    OBVIOUS
  <2> QED BY <2>1, <2>4, <2>5
<1>6. /\ slots' \in [send : {"real", "observer"}, callback : {"null", "observer", "foreign"}]
      /\ slots'.send = slots.send /\ (slots'.callback = slots.callback \/ Ours(row))
  BY <1>0, <1>2 DEF Ours
<1> HIDE DEF f, e
<1> QED BY <1>0, <1>2, <1>3, <1>4, <1>5, <1>6 DEF e

\* s has grown to t by an entry that is not of the window of w.
Grown(s, t, w) ==
  /\ Len(s) \in Nat /\ DOMAIN s = 1..Len(s) /\ DOMAIN t = 1..(Len(s) + 1)
  /\ \A j \in 1..Len(s) : t[j] = s[j]
  /\ t[Len(s) + 1] # Own(w)

\* Such an entry changes nothing for that window.
LEMMA GrownKeeps ==
  ASSUME NEW s, NEW t, NEW w, Grown(s, t, w)
  PROVE  /\ \A h : Counts(h, w, s) => Counts(h, w, t)
         /\ \A n : IsOwn(n, w, s) => IsOwn(n, w, t)
<1>1. ASSUME NEW h, Counts(h, w, s) PROVE Counts(h, w, t)
  <2>1. ASSUME h.sends = 0 PROVE \A j \in DOMAIN t : t[j] # Own(w)
    BY <1>1, <2>1 DEF Grown, Counts
  <2>2. ASSUME h.sends = 1, NEW i \in DOMAIN t, NEW j \in DOMAIN t, t[i] = Own(w), t[j] = Own(w) PROVE i = j
    BY <1>1, <2>2 DEF Grown, Counts
  <2>3. ASSUME h.count >= 1
        PROVE  /\ h.receipt.ref \in DOMAIN t
               /\ t[h.receipt.ref] = [row |-> h.receipt.row, thread |-> "gui", window |-> w]
    BY <1>1, <2>3 DEF Grown, Counts
  <2> QED BY <2>1, <2>2, <2>3 DEF Counts
<1>2. ASSUME NEW n, IsOwn(n, w, s) PROVE IsOwn(n, w, t)
  BY <1>2 DEF Grown, IsOwn
<1> QED BY <1>1, <1>2

\* What the observer keeps true about its stack when a send begins.
LEMMA BeganStack ==
  ASSUME ReceiptInv, NEW row \in 0..op, Send!SendBegins(row)
  PROVE  StackInv' /\ FramesSent'
<1> USE DEF ReceiptInv, StackInv, SendTypes, Send!TypeOK
<1> DEFINE n == Len(stack) + 1
<1>a. stack \in Seq(Send!Frame) /\ Len(stack) \in Nat /\ DOMAIN stack = 1..Len(stack)
  OBVIOUS
<1>b. stack' \in Seq(Send!Frame) /\ Len(stack') = n /\ \A i \in 1..Len(stack) : stack'[i] = stack[i]
  BY BeginsStack
<1>c. DOMAIN stack' = 1..n
  BY <1>b
<1>0. /\ stack \in Seq(Send!Frame) /\ Len(stack) \in Nat /\ DOMAIN stack = 1..Len(stack) /\ DOMAIN stack' = 1..n
      /\ stack' \in Seq(Send!Frame) /\ Len(stack') = n /\ \A i \in 1..Len(stack) : stack'[i] = stack[i]
  BY <1>a, <1>b, <1>c
<1>1. /\ stack'[n].previous = hook.scope /\ (stack'[n].ours <=> Ours(row))
      /\ stack'[n].ref = Len(send_sent) + 1 /\ stack'[n].row = row
  BY BeginsStack
<1>2. /\ Ours(row) => Send!OursOnStack' = Send!OursOnStack \cup {n}
                      /\ Cardinality(Send!OursOnStack') = Cardinality(Send!OursOnStack) + 1
      /\ ~Ours(row) => Send!OursOnStack' = Send!OursOnStack
  BY <1>0, <1>1, OursPushed
<1>3. hook'.active = Cardinality(Send!OursOnStack') /\ hook.active = Cardinality(Send!OursOnStack)
  BY <1>2, BeginsHook, SendCardinality DEF Send!ObserverAccounted
<1>4. Send!OursOnStack \subseteq 1..Len(stack)
  BY <1>0 DEF Send!OursOnStack
<1>5. ~hook.installed => ~Ours(row)
  BY DEF Ours, Send!ObserverAccounted
<1>6. Send!ObserverAccounted'
  <2>1. ~hook'.installed => /\ Send!OursOnStack' = {} /\ slots'.send = "real" /\ slots'.callback # "observer"
    BY <1>2, <1>5, BeginsHook, BeginsStack DEF Send!ObserverAccounted
  <2> QED BY <1>3, <2>1, SendCardinality DEF Send!ObserverAccounted
<1>7. /\ hook'.installed => slots'.send = "observer"
      /\ hook'.expected # 0 => hook'.installed
  BY BeginsHook, BeginsStack
<1>8. /\ Send!OursOnStack' # {} => hook'.expected # 0
      /\ hook'.scope # 0 => Send!OursOnStack' # {}
  BY <1>2, BeginsHook DEF Ours
<1>9. ASSUME NEW i \in Send!OursOnStack', stack'[i].previous # 0
      PROVE  \E k \in Send!OursOnStack' : k < i
  <2>1. CASE i = n
    <3>1. PICK k \in Send!OursOnStack : TRUE
      BY <1>1, <1>9, <2>1
    <3> QED BY <1>0, <1>2, <1>4, <2>1, <3>1
  <2>2. CASE i # n
    <3>1. i \in Send!OursOnStack /\ stack'[i] = stack[i]
      BY <1>0, <1>2, <1>4, <2>2
    <3>2. PICK k \in Send!OursOnStack : k < i
      BY <1>9, <3>1
    <3> QED BY <1>2, <3>2
  <2> QED BY <2>1, <2>2
<1>10. FramesSent'
  <2>0. /\ send_sent \in Seq([row : Send!Row, thread : {"gui", "other"}, window : Send!Row])
        /\ Len(send_sent) \in Nat /\ DOMAIN send_sent' = 1..(Len(send_sent) + 1)
        /\ DOMAIN send_sent = 1..Len(send_sent)
        /\ \A j \in 1..Len(send_sent) : send_sent'[j] = send_sent[j]
        /\ send_sent'[Len(send_sent) + 1] = [row |-> row, thread |-> "gui", window |-> hook.expected]
    BY BeginsStack
  <2>1. hook'.expected = hook.expected
    BY BeginsHook
  <2>2. ASSUME NEW i \in DOMAIN stack'
        PROVE  /\ stack'[i].ref \in DOMAIN send_sent'
               /\ send_sent'[stack'[i].ref].row = stack'[i].row /\ send_sent'[stack'[i].ref].thread = "gui"
               /\ Within(i)' => send_sent'[stack'[i].ref].window = hook'.expected
    <3>1. CASE i = n
      BY <1>1, <2>0, <2>1, <3>1
    <3>2. CASE i # n
      <4>1. i \in DOMAIN stack /\ stack'[i] = stack[i]
        BY <1>0, <3>2
      <4>2. stack[i].ref \in DOMAIN send_sent /\ send_sent'[stack[i].ref] = send_sent[stack[i].ref]
        BY <2>0, <4>1 DEF FramesSent
      <4>3. Within(i)' => Within(i)
        <5>1. ASSUME NEW k \in Send!OursOnStack', k <= i PROVE k \in Send!OursOnStack
          <6>1. k # n
            BY <1>0, <3>2, <5>1
          <6> QED BY <1>2, <5>1, <6>1
        <5> QED BY <5>1 DEF Within
      <4> QED BY <2>0, <2>1, <4>1, <4>2, <4>3 DEF FramesSent
    <3> QED BY <3>1, <3>2
  <2> QED BY <2>2 DEF FramesSent
<1> QED BY <1>6, <1>7, <1>8, <1>9, <1>10

\* Something more is sent while the observer's window stays.
LEMMA LaterSend ==
  ASSUME ReceiptInv, UNCHANGED <<send_pc, op, client, send_request, answer, identity>>,
         hook'.expected = hook.expected, DOMAIN send_sent' = 1..(Len(send_sent) + 1),
         \A j \in 1..Len(send_sent) : send_sent'[j] = send_sent[j],
         send_sent'[Len(send_sent) + 1].window = hook.expected,
         hook.expected # 0 => Counts(hook', hook.expected, send_sent')
  PROVE  WindowInv' /\ OperationInv' /\ AcceptedOver'
<1>0. Len(send_sent) \in Nat /\ DOMAIN send_sent = 1..Len(send_sent) /\ hook.expected \in Nat /\ op \in Nat
  <2>1. send_sent \in Seq([row : Send!Row, thread : {"gui", "other"}, window : Send!Row])
    BY DEF ReceiptInv, SendTypes, Send!TypeOK
  <2>2. hook \in Send!HookState /\ op \in 0..MaxOps
    BY DEF ReceiptInv, SendTypes, Send!TypeOK
  <2>3. HookFields(hook)
    BY <2>2, HookSplit
  <2>4. hook.expected \in Nat /\ op \in Nat
    BY <2>2, <2>3, SendConstants DEF HookFields, Send!Row
  <2> QED BY <2>1, <2>4
<1>1. ASSUME NEW w, w # hook.expected
      PROVE  Grown(send_sent, send_sent', w)
  <2>1. Own(w).window = w
    BY DEF Own
  <2>2. send_sent'[Len(send_sent) + 1] # Own(w)
    BY <1>1, <2>1
  <2> QED BY <1>0, <2>2 DEF Grown
<1>2. WindowInv'
  <2>1. hook.expected <= op /\ \A j \in DOMAIN send_sent : send_sent[j].window <= op
    BY DEF ReceiptInv, WindowInv
  <2>2. \A j \in DOMAIN send_sent' : send_sent'[j].window <= op
    BY <1>0, <2>1
  <2>3. send_request = "arm" => hook.expected # op /\ \A j \in DOMAIN send_sent' : send_sent'[j].window # op
    BY <1>0 DEF ReceiptInv, WindowInv
  <2> QED BY <2>1, <2>2, <2>3 DEF WindowInv
<1>3. OperationInv'
  <2>1. hook.expected # op /\ Counts(answer.hook, op, send_sent) => Counts(answer.hook, op, send_sent')
    BY <1>1, GrownKeeps
  <2>2. OperationInv
    BY DEF ReceiptInv
  <2> QED BY <2>1, <2>2 DEF OperationInv
<1>4. AcceptedOver'
  <2>1. ASSUME NEW o \in 1..MaxOps, identity[o] # 0, hook.expected # o, IsOwn(identity[o], o, send_sent)
        PROVE  IsOwn(identity[o], o, send_sent')
    BY <1>1, <2>1, GrownKeeps
  <2>2. AcceptedOver
    BY DEF ReceiptInv
  <2> QED BY <2>1, <2>2 DEF AcceptedOver
<1> QED BY <1>2, <1>3, <1>4

\* A send begins on the GUI thread.
LEMMA Began ==
  ASSUME ReceiptInv, NEW row \in 0..op, Send!SendBegins(row), keys' \in 0..keys,
         UNCHANGED <<send_pc, op, client, send_request, answer, identity>>
  PROVE  ReceiptInv'
<1>1. StackInv' /\ FramesSent'
  BY BeganStack
<1>2. SendTypes'
  <2>1. keys' \in 0..MaxOps /\ keys' <= op /\ (send_pc \in {"arming", "armed"} => keys' < op)
    BY SendConstants DEF ReceiptInv, SendTypes, Send!TypeOK
  <2>2. hook' \in Send!HookState
    BY BeginsHook
  <2>3. /\ stack' \in Seq(Send!Frame) /\ Len(stack') <= MaxDepth
        /\ send_sent' \in Seq([row : Send!Row, thread : {"gui", "other"}, window : Send!Row])
        /\ Len(send_sent') <= MaxSends
        /\ slots' \in [send : {"real", "observer"}, callback : {"null", "observer", "foreign"}]
    BY BeginsStack
  <2> QED BY <2>1, <2>2, <2>3 DEF ReceiptInv, SendTypes, Send!TypeOK
<1>3. hook.expected # 0 => Counts(hook', hook.expected, send_sent')
  <2> SUFFICES ASSUME hook.expected # 0 PROVE Counts(hook', hook.expected, send_sent')
    OBVIOUS
  <2> DEFINE w == hook.expected
  <2>0. Counts(hook, w, send_sent)
    BY DEF ReceiptInv, WindowInv
  <2>1. /\ Len(send_sent) \in Nat /\ DOMAIN send_sent = 1..Len(send_sent)
        /\ DOMAIN send_sent' = 1..(Len(send_sent) + 1)
    <3>1. send_sent \in Seq([row : Send!Row, thread : {"gui", "other"}, window : Send!Row])
      BY DEF ReceiptInv, SendTypes, Send!TypeOK
    <3>2. /\ send_sent' \in Seq([row : Send!Row, thread : {"gui", "other"}, window : Send!Row])
          /\ Len(send_sent') = Len(send_sent) + 1
      BY BeginsStack
    <3> QED BY <3>1, <3>2
  <2>2. /\ \A j \in 1..Len(send_sent) : send_sent'[j] = send_sent[j]
        /\ send_sent'[Len(send_sent) + 1] = [row |-> row, thread |-> "gui", window |-> w]
    BY BeginsStack
  <2>3. CASE Ours(row)
    <3>1. hook.sends \in Nat /\ hook'.sends = hook.sends + 1 /\ hook'.count = hook.count /\ hook'.receipt = hook.receipt
      BY <2>3, BeginsHook, HookSplit DEF HookFields, ReceiptInv, SendTypes, Send!TypeOK
    <3>2. hook'.sends # 0
      BY <3>1
    <3>3. ASSUME hook'.sends = 1, NEW i \in DOMAIN send_sent', NEW j \in DOMAIN send_sent',
                 send_sent'[i] = Own(w), send_sent'[j] = Own(w)
          PROVE  i = j
      <4>1. hook.sends = 0
        BY <3>1, <3>3
      <4>2. \A k \in 1..Len(send_sent) : send_sent'[k] # Own(w)
        BY <2>0, <2>1, <2>2, <4>1 DEF Counts
      <4> QED BY <2>1, <3>3, <4>2
    <3>4. ASSUME hook'.count >= 1
          PROVE  /\ hook'.receipt.ref \in DOMAIN send_sent'
                 /\ send_sent'[hook'.receipt.ref] = [row |-> hook'.receipt.row, thread |-> "gui", window |-> w]
      <4>1. /\ hook.receipt.ref \in DOMAIN send_sent
            /\ send_sent[hook.receipt.ref] = [row |-> hook.receipt.row, thread |-> "gui", window |-> w]
        BY <2>0, <3>1, <3>4 DEF Counts
      <4> QED BY <2>1, <2>2, <3>1, <4>1
    <3> QED BY <3>2, <3>3, <3>4 DEF Counts
  <2>4. CASE ~Ours(row)
    <3>1. row # w
      BY <2>4 DEF Ours, ReceiptInv, StackInv
    <3>2. send_sent'[Len(send_sent) + 1] # Own(w)
      <4>1. [row |-> row, thread |-> "gui", window |-> w].row = row /\ Own(w).row = w
        BY DEF Own
      <4> QED BY <2>2, <3>1, <4>1
    <3>3. Grown(send_sent, send_sent', w)
      BY <2>1, <2>2, <3>2 DEF Grown
    <3>4. hook' = hook
      BY <2>4, BeginsHook
    <3> QED BY <2>0, <3>3, <3>4, GrownKeeps
  <2> QED BY <2>3, <2>4
<1>4. WindowInv' /\ OperationInv' /\ AcceptedOver'
  <2>1. hook'.expected = hook.expected
    BY BeginsHook
  <2>2. /\ DOMAIN send_sent' = 1..(Len(send_sent) + 1)
        /\ \A j \in 1..Len(send_sent) : send_sent'[j] = send_sent[j]
        /\ send_sent'[Len(send_sent) + 1] = [row |-> row, thread |-> "gui", window |-> hook.expected]
    BY BeginsStack
  <2>3. send_sent'[Len(send_sent) + 1].window = hook.expected
    BY <2>2
  <2> QED BY <1>3, <2>1, <2>2, <2>3, LaterSend
<1> QED BY <1>1, <1>2, <1>4 DEF ReceiptInv

\* observe_callback: what it does to each field, and to the innermost frame.
LEMMA CallbackFields ==
  ASSUME ReceiptInv, Send!Callback
  PROVE  /\ hook' \in Send!HookState
         /\ hook'.installed = hook.installed /\ hook'.expected = hook.expected /\ hook'.scope = hook.scope
         /\ hook'.active = hook.active /\ hook'.sends = hook.sends
         /\ \/ hook'.count = hook.count /\ hook'.receipt = hook.receipt
            \/ hook.count >= 1 /\ hook'.receipt = hook.receipt
            \/ /\ hook.expected # 0 /\ hook.scope = hook.expected /\ Len(stack) \in DOMAIN stack
               /\ hook'.receipt.ref = stack[Len(stack)].ref /\ hook'.receipt.row = stack[Len(stack)].row
         /\ stack' \in Seq(Send!Frame) /\ Len(stack') = Len(stack)
         /\ \A i \in 1..Len(stack) : /\ stack'[i].ref = stack[i].ref /\ stack'[i].row = stack[i].row
                                     /\ stack'[i].previous = stack[i].previous /\ stack'[i].ours = stack[i].ours
<1> USE SendConstants
<1>0. hook \in Send!HookState /\ stack \in Seq(Send!Frame) /\ stack # <<>>
  BY DEF ReceiptInv, SendTypes, Send!TypeOK, Send!Callback
<1> DEFINE n == Len(stack)
<1>1. /\ HookFields(hook) /\ n \in Nat /\ n >= 1 /\ DOMAIN stack = 1..n /\ n \in DOMAIN stack
      /\ Send!Last(stack) = stack[n] /\ stack[n] \in Send!Frame
  <2>1. n >= 1 /\ Send!Last(stack) = stack[n] /\ Send!Last(stack) \in Send!Frame
    BY <1>0, Popped
  <2> QED BY <1>0, <2>1, HookSplit
<1>2. PICK valid \in BOOLEAN : hook' = Send!Observe(stack[n], valid)
  BY <1>1 DEF Send!Callback
<1>3. stack[n].callbacks < MaxCallbacks /\ stack' = [stack EXCEPT ![n].callbacks = @ + 1]
  BY <1>1 DEF Send!Callback
<1> HIDE DEF n
<1> DEFINE f == stack[n]
<1>4. /\ f \in Send!Frame /\ f.callbacks + 1 \in 0..MaxCallbacks /\ f.ref \in 0..MaxSends /\ f.row \in Send!Row
      /\ f = [row |-> f.row, ref |-> f.ref, ours |-> f.ours, observing |-> f.observing, previous |-> f.previous,
              callbacks |-> f.callbacks]
      /\ f.ref \in 1..MaxSends /\ f.ours \in BOOLEAN /\ f.observing \in BOOLEAN /\ f.previous \in Send!Row
  BY <1>1, <1>3 DEF Send!Frame
<1> DEFINE g == [row |-> f.row, ref |-> f.ref, ours |-> f.ours, observing |-> f.observing, previous |-> f.previous,
                 callbacks |-> f.callbacks + 1]
<1>5. stack' = [stack EXCEPT ![n] = g]
  <2>1. [f EXCEPT !.callbacks = @ + 1] = g
    BY <1>4
  <2> QED BY <1>3, <2>1
<1>6. g \in Send!Frame
  BY <1>4, FrameMade
<1>7. g.ref = f.ref /\ g.row = f.row /\ g.previous = f.previous /\ g.ours = f.ours
  OBVIOUS
<1> HIDE DEF g
<1>8. stack' \in Seq(Send!Frame) /\ Len(stack') = Len(stack)
  BY <1>0, <1>1, <1>5, <1>6 DEF n
<1>9. \A i \in 1..Len(stack) : /\ stack'[i].ref = stack[i].ref /\ stack'[i].row = stack[i].row
                               /\ stack'[i].previous = stack[i].previous /\ stack'[i].ours = stack[i].ours
  BY <1>0, <1>1, <1>5, <1>7 DEF n
<1>10. CASE hook.expected = 0 \/ hook.scope # hook.expected
  <2>1. hook' = [installed |-> hook.installed, expected |-> hook.expected, scope |-> hook.scope,
                 active |-> hook.active, sends |-> hook.sends, count |-> hook.count, broken |-> TRUE,
                 receipt |-> hook.receipt]
    BY <1>0, <1>2, <1>10 DEF Send!Observe, Send!HookState
  <2>2. hook' \in Send!HookState
    BY <1>1, <2>1, HookMade DEF HookFields
  <2> QED BY <1>8, <1>9, <2>1, <2>2
<1>11. CASE ~(hook.expected = 0 \/ hook.scope # hook.expected) /\ hook.count > 0
  <2>1. hook' = [installed |-> hook.installed, expected |-> hook.expected, scope |-> hook.scope,
                 active |-> hook.active, sends |-> hook.sends, count |-> hook.count + 1, broken |-> TRUE,
                 receipt |-> hook.receipt]
    BY <1>0, <1>2, <1>11 DEF Send!Observe, Send!HookState
  <2>2. hook.count + 1 \in Nat /\ hook.count >= 1
    BY <1>1, <1>11 DEF HookFields
  <2>3. hook' \in Send!HookState
    BY <1>1, <2>1, <2>2, HookMade DEF HookFields
  <2> QED BY <1>8, <1>9, <2>1, <2>2, <2>3
<1>12. CASE ~(hook.expected = 0 \/ hook.scope # hook.expected) /\ ~(hook.count > 0)
  <2> DEFINE r == [ref |-> f.ref, row |-> f.row, valid |-> valid]
  <2>1. hook' = [installed |-> hook.installed, expected |-> hook.expected, scope |-> hook.scope,
                 active |-> hook.active, sends |-> hook.sends, count |-> 1, broken |-> hook.broken,
                 receipt |-> r]
    BY <1>0, <1>2, <1>12 DEF Send!Observe, Send!HookState
  <2>2. r \in [ref : 0..MaxSends, row : Send!Row, valid : BOOLEAN]
    BY <1>4
  <2>3. r.ref = f.ref /\ r.row = f.row
    OBVIOUS
  <2> HIDE DEF r
  <2>4. hook' \in Send!HookState
    BY <1>1, <2>1, <2>2, HookMade DEF HookFields
  <2> QED BY <1>1, <1>8, <1>9, <1>12, <2>1, <2>3, <2>4 DEF n
<1> QED BY <1>10, <1>11, <1>12

\* The observer changes, within its window, while nothing is sent and no operation moves.
LEMMA HookMoves ==
  ASSUME ReceiptInv, UNCHANGED <<send_pc, op, client, send_request, answer, identity, send_sent>>,
         hook'.expected = hook.expected, hook.expected # 0 => Counts(hook', hook.expected, send_sent)
  PROVE  WindowInv' /\ OperationInv' /\ AcceptedOver'
<1>1. WindowInv'
  BY DEF ReceiptInv, WindowInv
<1>2. OperationInv'
  BY DEF ReceiptInv, OperationInv
<1>3. AcceptedOver'
  BY DEF ReceiptInv, AcceptedOver
<1> QED BY <1>1, <1>2, <1>3

\* A callback reports what the innermost send, of this window, was.
LEMMA CalledBack ==
  ASSUME ReceiptInv, Send!Callback
  PROVE  ReceiptInv'
<1>0. UNCHANGED <<send_pc, op, client, send_request, answer, slots, keys, send_sent, identity>>
  BY DEF Send!Callback
<1>a. /\ stack \in Seq(Send!Frame) /\ Len(stack) \in Nat /\ DOMAIN stack = 1..Len(stack)
      /\ send_sent \in Seq([row : Send!Row, thread : {"gui", "other"}, window : Send!Row])
  BY DEF ReceiptInv, SendTypes, Send!TypeOK
<1>b. stack' \in Seq(Send!Frame) /\ Len(stack') = Len(stack)
  BY CallbackFields
<1>c. DOMAIN stack' = 1..Len(stack)
  BY <1>b
<1>1. SendTypes'
  BY <1>0, <1>b, CallbackFields DEF ReceiptInv, SendTypes, Send!TypeOK
<1>2. Send!OursOnStack' = Send!OursOnStack
  <2>1. \A i \in 1..Len(stack) : stack'[i].ours = stack[i].ours
    BY CallbackFields
  <2> QED BY <1>a, <1>c, <2>1 DEF Send!OursOnStack
<1>3. StackInv'
  <2>1. /\ hook'.installed = hook.installed /\ hook'.expected = hook.expected /\ hook'.scope = hook.scope
        /\ hook'.active = hook.active
    BY CallbackFields
  <2>2. \A i \in 1..Len(stack) : stack'[i].previous = stack[i].previous
    BY CallbackFields
  <2>3. StackInv /\ Send!OursOnStack \subseteq 1..Len(stack)
    BY <1>a DEF ReceiptInv, Send!OursOnStack
  <2>4. Send!ObserverAccounted'
    BY <1>0, <1>2, <2>1, <2>3, SendCardinality DEF StackInv, Send!ObserverAccounted
  <2> QED BY <1>0, <1>2, <2>1, <2>2, <2>3, <2>4 DEF StackInv
<1>4. FramesSent'
  <2>1. hook'.expected = hook.expected
    BY CallbackFields
  <2>2. \A i \in 1..Len(stack) : stack'[i].ref = stack[i].ref /\ stack'[i].row = stack[i].row
    BY CallbackFields
  <2>3. \A i : Within(i)' <=> Within(i)
    BY <1>2 DEF Within
  <2>4. FramesSent
    BY DEF ReceiptInv
  <2> QED BY <1>0, <1>a, <1>c, <2>1, <2>2, <2>3, <2>4 DEF FramesSent
<1>5. hook.expected # 0 => Counts(hook', hook.expected, send_sent)
  <2> SUFFICES ASSUME hook.expected # 0 PROVE Counts(hook', hook.expected, send_sent)
    OBVIOUS
  <2>1. Counts(hook, hook.expected, send_sent) /\ hook'.sends = hook.sends
    BY CallbackFields DEF ReceiptInv, WindowInv
  <2>2. CASE \/ hook'.count = hook.count /\ hook'.receipt = hook.receipt
             \/ hook.count >= 1 /\ hook'.receipt = hook.receipt
    BY <2>1, <2>2 DEF Counts
  <2>3. CASE /\ hook.expected # 0 /\ hook.scope = hook.expected /\ Len(stack) \in DOMAIN stack
             /\ hook'.receipt.ref = stack[Len(stack)].ref /\ hook'.receipt.row = stack[Len(stack)].row
    <3>1. Within(Len(stack))
      BY <1>a, <2>3 DEF ReceiptInv, StackInv, Within, Send!OursOnStack
    <3> DEFINE n == stack[Len(stack)].ref
    <3>2. /\ n \in DOMAIN send_sent /\ send_sent[n].row = stack[Len(stack)].row
          /\ send_sent[n].thread = "gui" /\ send_sent[n].window = hook.expected
      BY <2>3, <3>1 DEF ReceiptInv, FramesSent
    <3> HIDE DEF n
    <3>3. send_sent[n] \in [row : Send!Row, thread : {"gui", "other"}, window : Send!Row]
      <4>1. n \in 1..Len(send_sent)
        BY <1>a, <3>2
      <4> QED BY <1>a, <4>1, ElementOfSeq, Zenon
    <3>4. send_sent[n] = [row |-> stack[Len(stack)].row, thread |-> "gui", window |-> hook.expected]
      BY <3>2, <3>3
    <3> QED BY <2>1, <2>3, <3>2, <3>4 DEF Counts, n
  <2> QED BY <2>2, <2>3, CallbackFields
<1>6. WindowInv' /\ OperationInv' /\ AcceptedOver'
  <2>1. hook'.expected = hook.expected
    BY CallbackFields
  <2> QED BY <1>0, <1>5, <2>1, HookMoves
<1> QED BY <1>1, <1>3, <1>4, <1>6 DEF ReceiptInv

\* observe_send after real_send: what it does to each field.
LEMMA EndsFields ==
  ASSUME ReceiptInv, Send!SendEnds
  PROVE  /\ hook' \in Send!HookState
         /\ hook'.installed = hook.installed /\ hook'.expected = hook.expected /\ hook'.sends = hook.sends
         /\ hook'.count = hook.count /\ hook'.receipt = hook.receipt
         /\ stack[Len(stack)].ours => hook'.scope = stack[Len(stack)].previous /\ hook'.active = hook.active - 1
         /\ ~stack[Len(stack)].ours => hook' = hook
         /\ slots' \in [send : {"real", "observer"}, callback : {"null", "observer", "foreign"}]
         /\ slots'.send = slots.send /\ slots'.callback \in {slots.callback, "null"}
         /\ stack' \in Seq(Send!Frame) /\ Len(stack) >= 1 /\ Len(stack') = Len(stack) - 1
         /\ \A i \in 1..(Len(stack) - 1) : stack'[i] = stack[i]
<1> USE SendConstants
<1>0. /\ hook \in Send!HookState /\ stack \in Seq(Send!Frame) /\ stack # <<>> /\ stack' = Send!Front(stack)
      /\ slots \in [send : {"real", "observer"}, callback : {"null", "observer", "foreign"}]
  BY DEF ReceiptInv, SendTypes, Send!TypeOK, Send!SendEnds
<1>1. /\ stack' \in Seq(Send!Frame) /\ Len(stack) >= 1 /\ Len(stack') = Len(stack) - 1
      /\ \A i \in 1..(Len(stack) - 1) : stack'[i] = stack[i]
      /\ Send!Last(stack) = stack[Len(stack)] /\ stack[Len(stack)] \in Send!Frame
  BY <1>0, Popped, SMTT(30)
<1>2. HookFields(hook)
  BY <1>0, HookSplit
<1>3. /\ slots' \in [send : {"real", "observer"}, callback : {"null", "observer", "foreign"}]
      /\ slots'.send = slots.send /\ slots'.callback \in {slots.callback, "null"}
  BY <1>0 DEF Send!SendEnds
<1> DEFINE f == stack[Len(stack)]
<1>4. CASE ~f.ours
  BY <1>0, <1>1, <1>3, <1>4 DEF Send!SendEnds
<1>5. CASE f.ours
  <2> DEFINE b == hook.broken \/ (f.observing /\ ~(slots.callback = "observer"))
  <2>1. hook' = [hook EXCEPT !.scope = f.previous, !.active = @ - 1, !.broken = b]
    BY <1>1, <1>5 DEF Send!SendEnds
  <2>2. b \in BOOLEAN
    OBVIOUS
  <2>3. f.previous \in Send!Row
    BY <1>1 DEF Send!Frame
  <2>4. hook.active - 1 \in 0..MaxDepth
    <3>1. hook.active = Cardinality(Send!OursOnStack)
      BY SendCardinality DEF ReceiptInv, StackInv, Send!ObserverAccounted
    <3>2. Len(stack) \in Send!OursOnStack
      BY <1>0, <1>1, <1>5 DEF Send!OursOnStack
    <3>3. hook.active # 0
      BY <1>0, <3>1, <3>2, OursFinite
    <3> QED BY <1>2, <3>3 DEF HookFields
  <2> HIDE DEF b, f
  <2>5. hook' = [installed |-> hook.installed, expected |-> hook.expected, scope |-> f.previous,
                 active |-> hook.active - 1, sends |-> hook.sends, count |-> hook.count,
                 broken |-> b, receipt |-> hook.receipt]
    BY <1>0, <2>1 DEF Send!HookState
  <2>6. hook' \in Send!HookState
    BY <1>2, <2>2, <2>3, <2>4, <2>5, HookMade DEF HookFields
  <2> QED BY <1>1, <1>3, <1>5, <2>5, <2>6 DEF f
<1> QED BY <1>4, <1>5

\* A send ends and leaves the scope of the send around it.
LEMMA Ended ==
  ASSUME ReceiptInv, Send!SendEnds
  PROVE  ReceiptInv'
<1>0. UNCHANGED <<send_pc, op, client, send_request, answer, keys, send_sent, identity>>
  BY DEF Send!SendEnds
<1> DEFINE n == Len(stack)
<1>a. stack \in Seq(Send!Frame) /\ n \in Nat /\ DOMAIN stack = 1..n
  BY DEF ReceiptInv, SendTypes, Send!TypeOK
<1>b. /\ stack' \in Seq(Send!Frame) /\ n >= 1 /\ Len(stack') = n - 1
      /\ \A i \in 1..(n - 1) : stack'[i] = stack[i]
  BY EndsFields
<1>c. DOMAIN stack' = 1..(n - 1)
  BY <1>b
<1>1. SendTypes'
  <2>1. Len(stack') <= MaxDepth
    BY <1>a, <1>b, SendConstants DEF ReceiptInv, SendTypes
  <2> QED BY <1>0, <1>b, <2>1, EndsFields DEF ReceiptInv, SendTypes, Send!TypeOK
<1>2. /\ stack[n].ours => /\ Send!OursOnStack' = Send!OursOnStack \ {n} /\ n \in Send!OursOnStack
                          /\ Cardinality(Send!OursOnStack') = Cardinality(Send!OursOnStack) - 1
      /\ ~stack[n].ours => Send!OursOnStack' = Send!OursOnStack
  BY <1>a, <1>b, OursPopped
<1>3. Send!OursOnStack' \subseteq Send!OursOnStack /\ Send!OursOnStack \subseteq 1..n
  BY <1>a, <1>2 DEF Send!OursOnStack
<1>d. Send!OursOnStack' \subseteq 1..(n - 1)
  BY <1>c DEF Send!OursOnStack
<1>4. StackInv'
  <2>1. StackInv
    BY DEF ReceiptInv
  <2>2. Send!ObserverAccounted'
    <3>1. hook.active = Cardinality(Send!OursOnStack)
      BY <2>1, SendCardinality DEF StackInv, Send!ObserverAccounted
    <3>2. hook'.active = Cardinality(Send!OursOnStack')
      BY <1>2, <3>1, EndsFields
    <3>3. ~hook'.installed => /\ Send!OursOnStack' = {} /\ slots'.send = "real" /\ slots'.callback # "observer"
      BY <1>3, <2>1, EndsFields DEF StackInv, Send!ObserverAccounted
    <3> QED BY <3>2, <3>3, SendCardinality DEF Send!ObserverAccounted
  <2>3. /\ hook'.installed => slots'.send = "observer"
        /\ hook'.expected # 0 => hook'.installed
        /\ Send!OursOnStack' # {} => hook'.expected # 0
    BY <1>3, <2>1, EndsFields DEF StackInv
  <2>4. ASSUME NEW i \in Send!OursOnStack PROVE stack[i].previous # 0 => \E k \in Send!OursOnStack : k < i
    BY <2>1 DEF StackInv
  <2>5. hook'.scope # 0 => Send!OursOnStack' # {}
    <3>1. CASE stack[n].ours
      <4>1. hook'.scope # 0 => \E k \in Send!OursOnStack : k < n
        BY <1>2, <2>4, <3>1, EndsFields
      <4> QED BY <1>2, <1>3, <1>a, <3>1, <4>1
    <3>2. CASE ~stack[n].ours
      BY <1>2, <2>1, <3>2, EndsFields DEF StackInv
    <3> QED BY <3>1, <3>2
  <2>6. ASSUME NEW i \in Send!OursOnStack', stack'[i].previous # 0
        PROVE  \E k \in Send!OursOnStack' : k < i
    <3>1. i \in Send!OursOnStack /\ i \in 1..(n - 1) /\ stack'[i] = stack[i]
      BY <1>3, <1>b, <1>d
    <3>2. PICK k \in Send!OursOnStack : k < i
      BY <2>4, <2>6, <3>1
    <3>3. k \in 1..n
      BY <1>3, <3>2
    <3>4. k # n
      <4>1. n \in Nat /\ i \in 1..(n - 1)
        BY <1>a, <3>1
      <4> HIDE DEF n
      <4> QED BY <3>2, <3>3, <4>1
    <3> QED BY <1>2, <3>2, <3>4
  <2> QED BY <2>2, <2>3, <2>5, <2>6 DEF StackInv
<1>5. FramesSent'
  <2>1. hook'.expected = hook.expected
    BY EndsFields
  <2>2. \A i : Within(i)' => Within(i)
    BY <1>3 DEF Within
  <2>3. FramesSent
    BY DEF ReceiptInv
  <2> QED BY <1>0, <1>a, <1>b, <1>c, <2>1, <2>2, <2>3 DEF FramesSent
<1>6. WindowInv' /\ OperationInv' /\ AcceptedOver'
  <2>1. /\ hook'.expected = hook.expected /\ hook'.sends = hook.sends
        /\ hook'.count = hook.count /\ hook'.receipt = hook.receipt
    BY EndsFields
  <2>2. hook.expected # 0 => Counts(hook', hook.expected, send_sent)
    BY <2>1 DEF ReceiptInv, WindowInv, Counts
  <2> QED BY <1>0, <2>1, <2>2, HookMoves
<1> QED BY <1>1, <1>4, <1>5, <1>6 DEF ReceiptInv

\* The stack and the slots stay, and so does what the observer knows of them.
LEMMA StackStays ==
  ASSUME ReceiptInv, UNCHANGED <<stack, slots>>, hook'.installed = hook.installed,
         hook'.expected = hook.expected, hook'.scope = hook.scope, hook'.active = hook.active
  PROVE  StackInv'
<1>1. Send!OursOnStack' = Send!OursOnStack
  BY DEF Send!OursOnStack
<1> QED BY <1>1, SendCardinality DEF ReceiptInv, StackInv, Send!ObserverAccounted

\* A send on another thread only breaks the observation.
LEMMA ForeignSent ==
  ASSUME ReceiptInv, Send!ForeignThread
  PROVE  ReceiptInv'
<1> USE SendConstants
<1>0. UNCHANGED <<send_pc, op, client, send_request, answer, slots, stack, keys, identity>>
  BY DEF Send!ForeignThread
<1> DEFINE S == [row : Send!Row, thread : {"gui", "other"}, window : Send!Row]
<1>1. /\ hook \in Send!HookState /\ send_sent \in Seq(S) /\ Len(send_sent) < MaxSends /\ op \in 0..MaxOps
  BY DEF ReceiptInv, SendTypes, Send!TypeOK, Send!ForeignThread
<1>2. HookFields(hook)
  BY <1>1, HookSplit
<1>3. /\ hook' \in Send!HookState
      /\ hook'.installed = hook.installed /\ hook'.expected = hook.expected /\ hook'.scope = hook.scope
      /\ hook'.active = hook.active /\ hook'.sends = hook.sends /\ hook'.count = hook.count
      /\ hook'.receipt = hook.receipt
  <2>1. CASE hook' = hook
    BY <1>1, <2>1
  <2>2. CASE hook' = [hook EXCEPT !.broken = TRUE]
    <3>1. hook' = [installed |-> hook.installed, expected |-> hook.expected, scope |-> hook.scope,
                   active |-> hook.active, sends |-> hook.sends, count |-> hook.count, broken |-> TRUE,
                   receipt |-> hook.receipt]
      BY <1>1, <2>2 DEF Send!HookState
    <3>2. hook' \in Send!HookState
      BY <1>2, <3>1, HookMade DEF HookFields
    <3> QED BY <3>1, <3>2
  <2> QED BY <2>1, <2>2 DEF Send!ForeignThread
<1>4. PICK row \in 0..op : send_sent' = Append(send_sent, [row |-> row, thread |-> "other", window |-> hook.expected])
  BY DEF Send!ForeignThread
<1> DEFINE e == [row |-> row, thread |-> "other", window |-> hook.expected]
<1>5. e \in S /\ e.window = hook.expected /\ e.thread = "other"
  BY <1>1, <1>2 DEF HookFields, Send!Row
<1> HIDE DEF e, S
<1>6. /\ send_sent' \in Seq(S) /\ Len(send_sent') = Len(send_sent) + 1 /\ send_sent'[Len(send_sent) + 1] = e
      /\ \A j \in 1..Len(send_sent) : send_sent'[j] = send_sent[j]
      /\ DOMAIN send_sent' = 1..(Len(send_sent) + 1) /\ Len(send_sent) \in Nat /\ DOMAIN send_sent = 1..Len(send_sent)
  BY <1>1, <1>4, <1>5 DEF e
<1>7. SendTypes'
  <2>1. Len(send_sent') <= MaxSends
    BY <1>1, <1>6
  <2> QED BY <1>0, <1>3, <1>6, <2>1 DEF S, ReceiptInv, SendTypes, Send!TypeOK
<1>8. StackInv'
  BY <1>0, <1>3, StackStays
<1>9. FramesSent'
  <2>1. FramesSent
    BY DEF ReceiptInv
  <2>2. \A i : Within(i)' <=> Within(i)
    BY <1>0 DEF Within, Send!OursOnStack
  <2>3. ASSUME NEW i \in DOMAIN stack
        PROVE  stack[i].ref \in 1..Len(send_sent) /\ send_sent'[stack[i].ref] = send_sent[stack[i].ref]
    BY <1>6, <2>1 DEF FramesSent
  <2>4. ASSUME NEW i \in DOMAIN stack
        PROVE  stack[i].ref \in DOMAIN send_sent'
    BY <1>6, <2>3
  <2> QED BY <1>0, <1>3, <2>1, <2>2, <2>3, <2>4 DEF FramesSent
<1>10. hook.expected # 0 => Counts(hook', hook.expected, send_sent')
  <2>1. e # Own(hook.expected)
    <3>1. Own(hook.expected).thread = "gui"
      BY DEF Own
    <3> QED BY <1>5, <3>1
  <2>2. Grown(send_sent, send_sent', hook.expected)
    BY <1>6, <2>1 DEF Grown
  <2>3. Counts(hook, hook.expected, send_sent) => Counts(hook', hook.expected, send_sent)
    BY <1>3 DEF Counts
  <2>4. hook.expected # 0 => Counts(hook, hook.expected, send_sent)
    BY DEF ReceiptInv, WindowInv
  <2> QED BY <2>2, <2>3, <2>4, GrownKeeps
<1>11. WindowInv' /\ OperationInv' /\ AcceptedOver'
  <2>1. send_sent'[Len(send_sent) + 1].window = hook.expected
    BY <1>5, <1>6
  <2> QED BY <1>0, <1>3, <1>6, <1>10, <2>1, LaterSend
<1> QED BY <1>7, <1>8, <1>9, <1>11 DEF ReceiptInv

\* The terminal sets or clears its callback slot.
LEMMA ForeignSet ==
  ASSUME ReceiptInv, Send!ForeignCallback
  PROVE  ReceiptInv'
<1>0. UNCHANGED <<send_pc, op, client, send_request, answer, hook, stack, keys, send_sent, identity>>
  BY DEF Send!ForeignCallback
<1>1. /\ slots' \in [send : {"real", "observer"}, callback : {"null", "observer", "foreign"}]
      /\ slots'.send = slots.send /\ slots'.callback # "observer"
  BY DEF ReceiptInv, SendTypes, Send!TypeOK, Send!ForeignCallback
<1>2. SendTypes'
  BY <1>0, <1>1 DEF ReceiptInv, SendTypes, Send!TypeOK
<1>3. Send!OursOnStack' = Send!OursOnStack
  BY <1>0 DEF Send!OursOnStack
<1>4. StackInv'
  BY <1>0, <1>1, <1>3, SendCardinality DEF ReceiptInv, StackInv, Send!ObserverAccounted
<1>5. FramesSent'
  BY <1>0, <1>3 DEF ReceiptInv, FramesSent, Within
<1>6. WindowInv' /\ OperationInv' /\ AcceptedOver'
  <2>1. hook.expected # 0 => Counts(hook', hook.expected, send_sent)
    BY <1>0 DEF ReceiptInv, WindowInv
  <2> QED BY <1>0, <2>1, HookMoves
<1> QED BY <1>2, <1>4, <1>5, <1>6 DEF ReceiptInv

\* "receipt arm": a fresh observer, or a refusal.
LEMMA ArmedByGui ==
  ASSUME ReceiptInv, Send!GuiArm
  PROVE  ReceiptInv'
<1> USE SendConstants
<1>0. UNCHANGED <<send_pc, op, client, stack, keys, send_sent, identity>> /\ send_request = "arm" /\ send_request' = "none"
  BY DEF Send!GuiArm, Send!Reply
<1>1. hook \in Send!HookState /\ op \in 0..MaxOps
  BY DEF ReceiptInv, SendTypes, Send!TypeOK
<1>2. Send!OursOnStack' = Send!OursOnStack
  BY <1>0 DEF Send!OursOnStack
<1>3. CASE UNCHANGED <<hook, slots>> /\ answer' = [code |-> "refused", hook |-> hook']
  <2>0. answer'.code = "refused" /\ answer'.hook = hook
    BY <1>3
  <2>1. SendTypes'
    BY <1>0, <1>1, <1>3, <2>0 DEF ReceiptInv, SendTypes, Send!TypeOK
  <2>2. StackInv' /\ FramesSent'
    BY <1>0, <1>2, <1>3, StackStays DEF ReceiptInv, FramesSent, Within
  <2>3. WindowInv'
    BY <1>0, <1>3 DEF ReceiptInv, WindowInv
  <2>4. OperationInv'
    BY <1>0, <1>3, <2>0 DEF ReceiptInv, OperationInv
  <2>5. AcceptedOver'
    BY <1>0, <1>3 DEF ReceiptInv, AcceptedOver
  <2> QED BY <2>1, <2>2, <2>3, <2>4, <2>5 DEF ReceiptInv
<1>4. CASE /\ ~hook.installed /\ hook' = Send!Fresh(op, TRUE) /\ slots' = [slots EXCEPT !.send = "observer"]
           /\ slots.callback = "null" /\ answer' = [code |-> "ok", hook |-> hook']
  <2>0. answer'.code = "ok" /\ answer'.hook = hook'
    BY <1>4
  <2>1. /\ hook'.installed = TRUE /\ hook'.expected = op /\ hook'.scope = 0 /\ hook'.active = 0
        /\ hook'.sends = 0 /\ hook'.count = 0
    BY <1>4 DEF Send!Fresh
  <2>2. hook' \in Send!HookState
    <3>1. /\ op \in Send!Row /\ 0 \in Send!Row /\ 0 \in 0..MaxDepth /\ FALSE \in BOOLEAN /\ TRUE \in BOOLEAN
          /\ 0 \in Nat
          /\ Send!NoReceipt \in [ref : 0..MaxSends, row : Send!Row, valid : BOOLEAN]
      BY <1>1 DEF Send!Row, Send!NoReceipt
    <3> QED BY <1>4, <3>1, HookMade DEF Send!Fresh
  <2>3. /\ slots' \in [send : {"real", "observer"}, callback : {"null", "observer", "foreign"}]
        /\ slots'.send = "observer" /\ slots'.callback = "null"
    BY <1>4 DEF ReceiptInv, SendTypes, Send!TypeOK
  <2>4. SendTypes'
    BY <1>0, <2>0, <2>2, <2>3 DEF ReceiptInv, SendTypes, Send!TypeOK
  <2>5. Send!OursOnStack = {}
    BY <1>4 DEF ReceiptInv, StackInv, Send!ObserverAccounted
  <2>6. StackInv'
    <3>1. Cardinality({}) = 0
      BY FS_EmptySet
    <3>2. Send!ObserverAccounted'
      BY <1>2, <2>1, <2>5, <3>1, SendCardinality DEF Send!ObserverAccounted
    <3> QED BY <1>2, <2>1, <2>3, <2>5, <3>2 DEF StackInv
  <2>7. FramesSent'
    BY <1>0, <1>2, <2>5 DEF ReceiptInv, FramesSent, Within
  <2>8. Counts(hook', op, send_sent)
    <3>1. \A j \in DOMAIN send_sent : send_sent[j].window # op
      BY <1>0 DEF ReceiptInv, WindowInv
    <3>2. Own(op).window = op
      BY DEF Own
    <3> QED BY <2>1, <3>1, <3>2 DEF Counts
  <2>9. WindowInv'
    BY <1>0, <1>1, <2>1, <2>8 DEF ReceiptInv, WindowInv
  <2>10. OperationInv'
    BY <1>0, <2>0, <2>1 DEF ReceiptInv, OperationInv
  <2>11. AcceptedOver'
    BY <1>0, <2>1 DEF ReceiptInv, AcceptedOver
  <2> QED BY <2>4, <2>6, <2>7, <2>9, <2>10, <2>11 DEF ReceiptInv
<1> QED BY <1>3, <1>4 DEF Send!GuiArm, Send!Pristine, Send!Reply

\* "receipt finish": nothing was armed, the observer goes, or it stays and the GUI is isolated.
LEMMA FinishedByGui ==
  ASSUME ReceiptInv, Send!GuiFinish
  PROVE  ReceiptInv'
<1> USE SendConstants
<1>0. UNCHANGED <<send_pc, op, client, stack, keys, send_sent, identity>> /\ send_request = "finish" /\ send_request' = "none"
  BY DEF Send!GuiFinish, Send!Reply
<1>1. hook \in Send!HookState /\ op \in 0..MaxOps
  BY DEF ReceiptInv, SendTypes, Send!TypeOK
<1>2. HookFields(hook) /\ Send!OursOnStack' = Send!OursOnStack
  BY <1>0, <1>1, HookSplit DEF Send!OursOnStack
<1>3. send_pc \notin {"armed", "keyed", "cleanup", "arming"}
  BY <1>0 DEF ReceiptInv, OperationInv
<1>4. send_pc # "idle" => hook.expected = op /\ op # 0
  BY <1>0, <1>1, <1>3 DEF ReceiptInv, OperationInv, SendTypes, Send!TypeOK
<1>5. CASE ~hook.installed
  <2>0. UNCHANGED <<hook, slots>> /\ answer'.code = "ok" /\ answer'.hook = hook
    BY <1>5 DEF Send!GuiFinish, Send!Reply
  <2>1. SendTypes'
    BY <1>0, <1>1, <2>0 DEF ReceiptInv, SendTypes, Send!TypeOK
  <2>2. StackInv' /\ FramesSent'
    BY <1>0, <1>2, <2>0, StackStays DEF ReceiptInv, FramesSent, Within
  <2>3. WindowInv'
    BY <1>0, <2>0 DEF ReceiptInv, WindowInv
  <2>4. send_pc = "idle"
    BY <1>4, <1>5 DEF ReceiptInv, StackInv
  <2>5. OperationInv'
    BY <1>0, <2>4 DEF OperationInv
  <2>6. AcceptedOver'
    BY <1>0, <2>0 DEF ReceiptInv, AcceptedOver
  <2> QED BY <2>1, <2>2, <2>3, <2>5, <2>6 DEF ReceiptInv
<1>6. CASE hook.installed
  <2> DEFINE stop == Send!MayStop
  <2>0. answer'.code \in {"ok", "isolate"} /\ answer'.hook = hook'
    BY <1>6 DEF Send!GuiFinish, Send!Reply
  <2>1. PICK i \in BOOLEAN, e \in {0, hook.expected} :
          /\ hook' = [installed |-> i, expected |-> e, scope |-> hook.scope, active |-> hook.active,
                      sends |-> hook.sends, count |-> hook.count, broken |-> hook.broken,
                      receipt |-> hook.receipt]
          /\ e = 0 \/ (i /\ hook.active # 0)
          /\ hook.active # 0 => e = hook.expected
          /\ \/ ~i /\ hook.active = 0 /\ answer'.code = "ok" /\ slots' = [send |-> "real", callback |-> "null"]
             \/ i /\ answer'.code = "isolate" /\ slots' = slots
    <3>1. CASE Send!MayStop
      <4>1. /\ hook' = [hook EXCEPT !.expected = 0, !.installed = FALSE] /\ answer'.code = "ok"
            /\ slots' = [send |-> "real", callback |-> "null"] /\ hook.active = 0
        BY <1>6, <3>1 DEF Send!GuiFinish, Send!Reply, Send!MayStop
      <4>2. hook' = [installed |-> FALSE, expected |-> 0, scope |-> hook.scope, active |-> hook.active,
                     sends |-> hook.sends, count |-> hook.count, broken |-> hook.broken,
                     receipt |-> hook.receipt]
        BY <1>1, <4>1 DEF Send!HookState
      <4> QED BY <4>1, <4>2
    <3>2. CASE ~Send!MayStop
      <4> DEFINE e == IF hook.active = 0 THEN 0 ELSE hook.expected
      <4>1. /\ hook' = [hook EXCEPT !.expected = e] /\ answer'.code = "isolate" /\ slots' = slots
        BY <1>6, <3>2 DEF Send!GuiFinish, Send!Reply
      <4>2. hook' = [installed |-> TRUE, expected |-> e, scope |-> hook.scope, active |-> hook.active,
                     sends |-> hook.sends, count |-> hook.count, broken |-> hook.broken,
                     receipt |-> hook.receipt]
        <5>1. hook' = [installed |-> hook.installed, expected |-> e, scope |-> hook.scope, active |-> hook.active,
                       sends |-> hook.sends, count |-> hook.count, broken |-> hook.broken,
                       receipt |-> hook.receipt]
          BY <1>1, <4>1 DEF Send!HookState
        <5>2. hook.installed = TRUE
          BY <1>2, <1>6, Zenon DEF HookFields
        <5> QED BY <5>1, <5>2
      <4> QED BY <4>1, <4>2
    <3> QED BY <3>1, <3>2
  <2>2. /\ hook'.installed = i /\ hook'.expected = e /\ hook'.scope = hook.scope /\ hook'.active = hook.active
        /\ hook'.sends = hook.sends /\ hook'.count = hook.count /\ hook'.receipt = hook.receipt
    BY <2>1
  <2>3. hook' \in Send!HookState
    <3>1. e \in Send!Row
      BY <1>2 DEF HookFields, Send!Row
    <3> QED BY <1>2, <2>1, <3>1, HookMade, ZenonT(60) DEF HookFields
  <2>4. slots' \in [send : {"real", "observer"}, callback : {"null", "observer", "foreign"}]
    BY <2>1 DEF ReceiptInv, SendTypes, Send!TypeOK
  <2>5. SendTypes'
    BY <1>0, <2>0, <2>3, <2>4 DEF ReceiptInv, SendTypes, Send!TypeOK
  <2>6. hook.active = Cardinality(Send!OursOnStack)
    BY SendCardinality DEF ReceiptInv, StackInv, Send!ObserverAccounted
  <2>7. hook.active = 0 => Send!OursOnStack = {}
    BY <2>6, OursFinite DEF ReceiptInv, SendTypes, Send!TypeOK
  <2>8. StackInv'
    <3>1. Send!ObserverAccounted'
      BY <1>2, <2>1, <2>2, <2>6, <2>7, SendCardinality DEF Send!ObserverAccounted
    <3>2. /\ hook'.installed => slots'.send = "observer"
          /\ hook'.expected # 0 => hook'.installed
      BY <1>6, <2>1, <2>2 DEF ReceiptInv, StackInv
    <3>3. Send!OursOnStack' # {} => hook'.expected # 0
      BY <1>2, <2>1, <2>2, <2>6, <2>7 DEF ReceiptInv, StackInv
    <3> QED BY <1>0, <1>2, <2>2, <3>1, <3>2, <3>3 DEF ReceiptInv, StackInv
  <2>9. FramesSent'
    <3>1. \A k : Within(k)' <=> Within(k)
      BY <1>2 DEF Within
    <3>2. ASSUME NEW k, Within(k) PROVE hook'.expected = hook.expected
      BY <1>2, <2>1, <2>2, <2>7, <2>8, <3>2 DEF Within, StackInv
    <3> QED BY <1>0, <3>1, <3>2 DEF ReceiptInv, FramesSent
  <2>10. WindowInv'
    <3>1. hook.expected # 0 => Counts(hook', hook.expected, send_sent)
      BY <2>2 DEF ReceiptInv, WindowInv, Counts
    <3>2. hook'.expected <= op
      BY <1>1, <2>2 DEF ReceiptInv, WindowInv
    <3> QED BY <1>0, <2>2, <3>1, <3>2 DEF ReceiptInv, WindowInv
  <2>11. OperationInv'
    <3>1. send_pc # "idle" /\ answer'.code = "ok" => hook'.expected # op /\ Counts(answer'.hook, op, send_sent)
      <4>1. answer'.code = "ok" => e = 0
        BY <2>1
      <4>2. Counts(hook, hook.expected, send_sent) => Counts(answer'.hook, hook.expected, send_sent)
        BY <2>0, <2>2 DEF Counts
      <4> QED BY <1>4, <2>2, <4>1, <4>2 DEF ReceiptInv, WindowInv
    <3> QED BY <1>0, <1>3, <3>1 DEF OperationInv
  <2>12. AcceptedOver'
    <3>1. \A o \in 1..MaxOps : hook.expected # o => hook'.expected # o
      BY <2>2
    <3> QED BY <1>0, <3>1 DEF ReceiptInv, AcceptedOver
  <2> QED BY <2>5, <2>8, <2>9, <2>10, <2>11, <2>12 DEF ReceiptInv
<1> QED BY <1>5, <1>6

\* A step of the executor leaves the GUI thread's state alone but for the keys.
LEMMA GuiStays ==
  ASSUME ReceiptInv, UNCHANGED <<hook, slots, stack, send_sent>>
  PROVE  StackInv' /\ FramesSent'
<1>1. Send!OursOnStack' = Send!OursOnStack
  BY DEF Send!OursOnStack
<1>2. FramesSent'
  BY <1>1 DEF ReceiptInv, FramesSent, Within
<1> QED BY <1>2, StackStays

\* The flags of an operation that ends with an error.
LEMMA EndTyped ==
  ASSUME NEW p, Send!End(p)
  PROVE  client' \in [poisoned : BOOLEAN, blocked : BOOLEAN]
<1>1. (client.poisoned \/ p) \in BOOLEAN /\ TRUE \in BOOLEAN
  OBVIOUS
<1>2. client' = [poisoned |-> client.poisoned \/ p, blocked |-> TRUE]
  BY DEF Send!End
<1> QED BY <1>1, <1>2, Zenon

\* The executor: from the request to arm to the reference it accepts.
LEMMA OperationStep ==
  ASSUME ReceiptInv, Send!Operation
  PROVE  ReceiptInv'
<1> USE SendConstants
<1>0. UNCHANGED <<hook, slots, stack, send_sent>>
  BY DEF Send!Operation, Send!Arm, Send!Resume, Send!Armed, Send!CallTimeout, Send!Press, Send!SendFails,
         Send!AskFinish, Send!CleanupStuck, Send!Finished, Send!Released, Send!guiVars
<1>1. StackInv' /\ FramesSent'
  BY <1>0, GuiStays
<1>2. CASE Send!Arm
  <2>0. /\ send_pc = "idle" /\ send_pc' = "arming" /\ op' = op + 1 /\ op < MaxOps /\ send_request' = "arm"
        /\ answer' = Send!NoAnswer /\ UNCHANGED <<client, keys, identity>> /\ ~client.poisoned
    BY <1>2 DEF Send!Arm, Send!guiVars
  <2>1. answer'.code = "none"
    BY <2>0 DEF Send!NoAnswer
  <2>2. op \in 0..MaxOps /\ op \in Nat
    BY DEF ReceiptInv, SendTypes, Send!TypeOK
  <2>3. SendTypes'
    BY <1>0, <2>0, <2>1, <2>2 DEF ReceiptInv, SendTypes, Send!TypeOK
  <2>4. /\ hook.expected \in Nat /\ hook.expected <= op
        /\ \A j \in DOMAIN send_sent : send_sent[j].window \in Nat /\ send_sent[j].window <= op
    <3>1. hook \in Send!HookState
      BY DEF ReceiptInv, SendTypes, Send!TypeOK
    <3>2. hook.expected \in Nat
      BY <3>1, HookSplit DEF HookFields, Send!Row
    <3>3. \A j \in DOMAIN send_sent : send_sent[j].window \in Nat
      <4>1. send_sent \in Seq([row : Send!Row, thread : {"gui", "other"}, window : Send!Row])
        BY DEF ReceiptInv, SendTypes, Send!TypeOK
      <4>2. ASSUME NEW j \in DOMAIN send_sent
            PROVE  send_sent[j] \in [row : Send!Row, thread : {"gui", "other"}, window : Send!Row]
        <5>1. j \in 1..Len(send_sent)
          BY <4>1, <4>2
        <5> QED BY <4>1, <5>1, ElementOfSeq, Zenon
      <4> QED BY <4>2 DEF Send!Row
    <3> QED BY <3>2, <3>3 DEF ReceiptInv, WindowInv
  <2>5. WindowInv'
    BY <1>0, <2>0, <2>2, <2>4 DEF ReceiptInv, WindowInv
  <2>6. OperationInv'
    BY <2>0, <2>1 DEF OperationInv
  <2>7. AcceptedOver'
    BY <1>0, <2>0, <2>2 DEF ReceiptInv, AcceptedOver
  <2> QED BY <1>1, <2>3, <2>5, <2>6, <2>7 DEF ReceiptInv
<1>3. CASE Send!Finished
  <2>0. /\ send_pc = "finishing" /\ send_pc' = "idle" /\ answer.code # "none"
        /\ UNCHANGED <<op, send_request, answer, keys>>
    BY <1>3 DEF Send!Finished, Send!guiVars, Send!End
  <2>1. op \in 1..MaxOps
    BY <2>0 DEF ReceiptInv, SendTypes, Send!TypeOK
  <2>2. send_request = "none" /\ (answer.code = "ok" => hook.expected # op /\ Counts(answer.hook, op, send_sent))
    BY <2>0 DEF ReceiptInv, OperationInv
  <2>3. client' \in [poisoned : BOOLEAN, blocked : BOOLEAN]
    <3>1. CASE client' = client
      BY <3>1 DEF ReceiptInv, SendTypes, Send!TypeOK
    <3>2. CASE Send!End(answer.code = "isolate")
      BY <3>2, EndTyped
    <3> QED BY <1>3, <3>1, <3>2 DEF Send!Finished
  <2>4. answer.hook \in Send!HookState
    BY <2>0 DEF ReceiptInv, SendTypes, Send!TypeOK
  <2> DEFINE n == answer.hook.receipt.ref
  <2>5. \/ identity' = identity
        \/ /\ answer.code = "ok" /\ Send!Proves(answer.hook, op)
           /\ identity' = [identity EXCEPT ![op] = n]
    BY <1>3 DEF Send!Finished
  <2>6. answer.code = "ok" /\ Send!Proves(answer.hook, op) => IsOwn(n, op, send_sent)
    <3> SUFFICES ASSUME answer.code = "ok", Send!Proves(answer.hook, op) PROVE IsOwn(n, op, send_sent)
      OBVIOUS
    <3>1. answer.hook.sends = 1 /\ answer.hook.count = 1 /\ answer.hook.receipt.row = op
      BY DEF Send!Proves
    <3>2. n \in DOMAIN send_sent /\ send_sent[n] = Own(op)
      BY <2>2, <3>1 DEF Counts, Own
    <3>3. \A i, j \in DOMAIN send_sent : send_sent[i] = Own(op) /\ send_sent[j] = Own(op) => i = j
      BY <2>2, <3>1 DEF Counts
    <3> QED BY <3>2, <3>3 DEF IsOwn
  <2>7. n \in 0..MaxSends
    BY <2>4, HookSplit DEF HookFields
  <2> HIDE DEF n
  <2>8. identity \in [1..MaxOps -> 0..MaxSends]
    BY DEF ReceiptInv, SendTypes, Send!TypeOK
  <2>9. identity' \in [1..MaxOps -> 0..MaxSends]
    BY <2>5, <2>7, <2>8
  <2>10. SendTypes'
    BY <1>0, <2>0, <2>3, <2>9 DEF ReceiptInv, SendTypes, Send!TypeOK
  <2>11. WindowInv'
    BY <1>0, <2>0 DEF ReceiptInv, WindowInv
  <2>12. OperationInv'
    BY <2>0, <2>2 DEF OperationInv
  <2>13. AcceptedOver'
    <3>1. ASSUME NEW o \in 1..MaxOps, identity'[o] # 0
          PROVE  /\ o <= op /\ (o = op => send_pc' = "idle" /\ send_request' = "none")
                 /\ hook.expected # o /\ IsOwn(identity'[o], o, send_sent)
      <4>1. CASE o = op /\ identity' # identity
        <5>1. identity'[op] = n /\ IsOwn(n, op, send_sent) /\ hook.expected # op
          BY <2>1, <2>2, <2>5, <2>6, <2>8, <4>1
        <5> QED BY <2>0, <2>1, <2>2, <4>1, <5>1
      <4>2. CASE ~(o = op /\ identity' # identity)
        <5>1. identity'[o] = identity[o]
          BY <2>5, <2>8, <4>2
        <5> QED BY <2>0, <2>2, <3>1, <5>1 DEF ReceiptInv, AcceptedOver
      <4> QED BY <4>1, <4>2
    <3> QED BY <1>0, <2>0, <3>1 DEF AcceptedOver
  <2> QED BY <1>1, <2>10, <2>11, <2>12, <2>13 DEF ReceiptInv
<1>4. CASE \/ Send!Resume \/ Send!Armed \/ Send!CallTimeout \/ Send!Press \/ Send!SendFails
           \/ Send!AskFinish \/ Send!CleanupStuck \/ Send!Released
  <2> USE DEF Send!Resume, Send!Armed, Send!CallTimeout, Send!Press, Send!SendFails,
              Send!AskFinish, Send!CleanupStuck, Send!Released, Send!End, Send!guiVars
  <2>1. UNCHANGED <<op, identity>> /\ (send_request' = "arm" => send_request = "arm")
    BY <1>4
  <2>2. SendTypes'
    <3>1. client' \in [poisoned : BOOLEAN, blocked : BOOLEAN]
      <4>1. CASE client' = client
        BY <4>1 DEF ReceiptInv, SendTypes, Send!TypeOK
      <4>2. CASE Send!Resume
        BY <4>2 DEF ReceiptInv, SendTypes, Send!TypeOK
      <4>3. CASE Send!End(TRUE) \/ Send!End(FALSE) \/ Send!End(answer.code = "isolate")
        BY <4>3, EndTyped
      <4> HIDE DEF Send!End
      <4> QED BY <1>4, <4>1, <4>2, <4>3
    <3>2. answer' = answer \/ answer'.code = "none"
      BY <1>4 DEF Send!NoAnswer
    <3>3. /\ send_pc' \in {"idle", "arming", "armed", "keyed", "cleanup", "finishing", "releasing"}
          /\ send_request' \in {"none", "arm", "finish"} /\ (send_pc' # "idle" => send_pc # "idle")
      BY <1>4 DEF ReceiptInv, SendTypes, Send!TypeOK
    <3>4. keys' \in 0..MaxOps /\ keys' <= op /\ (send_pc' \in {"arming", "armed"} => keys' < op)
      BY <1>4, op \in 0..MaxOps DEF ReceiptInv, SendTypes, Send!TypeOK
    <3>5. /\ answer'.code \in {"none", "ok", "refused", "isolate"}
          /\ answer'.code # "none" => answer'.hook \in Send!HookState
      BY <3>2 DEF ReceiptInv, SendTypes, Send!TypeOK
    <3> QED BY <1>0, <2>1, <3>1, <3>3, <3>4, <3>5 DEF ReceiptInv, SendTypes, Send!TypeOK
  <2>3. WindowInv'
    BY <1>0, <2>1 DEF ReceiptInv, WindowInv
  <2>4. OperationInv'
    <3>0. OperationInv
      BY DEF ReceiptInv
    <3>1. CASE Send!Resume
      BY <1>0, <3>0, <3>1 DEF OperationInv, ReceiptInv, SendTypes, Send!TypeOK
    <3>2. CASE Send!Armed
      BY <1>0, <3>0, <3>2 DEF OperationInv
    <3>3. CASE Send!CallTimeout
      <4>1. client'.poisoned /\ send_pc' = "idle"
        BY <3>3
      <4> QED BY <4>1 DEF OperationInv
    <3>4. CASE Send!Press \/ Send!SendFails \/ Send!CleanupStuck
      BY <1>0, <3>0, <3>4 DEF OperationInv
    <3>5. CASE Send!AskFinish
      BY <1>0, <3>0, <3>5 DEF OperationInv, Send!NoAnswer
    <3>6. CASE Send!Released
      BY <1>0, <3>0, <3>6 DEF OperationInv
    <3> QED BY <1>4, <3>1, <3>2, <3>3, <3>4, <3>5, <3>6
  <2>5. AcceptedOver'
    <3>1. (send_pc = "idle" => send_pc' = "idle" /\ send_request' = send_request)
      BY <1>4
    <3> QED BY <1>0, <2>1, <3>1 DEF ReceiptInv, AcceptedOver
  <2> QED BY <1>1, <2>2, <2>3, <2>4, <2>5 DEF ReceiptInv
<1> QED BY <1>2, <1>3, <1>4 DEF Send!Operation

\* The observer's invariant holds in every state, whichever part moves.
THEOREM ReceiptInvariant == Spec => []ReceiptInv
<1>1. Init => ReceiptInv
  <2> SUFFICES ASSUME Send!Init PROVE ReceiptInv
    BY DEF Init
  <2> USE SendConstants
  <2>0. /\ hook = Send!Fresh(0, FALSE) /\ stack = <<>> /\ send_sent = <<>> /\ send_pc = "idle" /\ op = 0 /\ keys = 0
        /\ send_request = "none" /\ answer = Send!NoAnswer /\ identity = [o \in 1..MaxOps |-> 0]
        /\ slots = [send |-> "real", callback |-> "null"] /\ client = [poisoned |-> FALSE, blocked |-> FALSE]
    BY DEF Send!Init
  <2>a. send_pc = "idle" /\ op = 0 /\ keys = 0 /\ send_request = "none"
    BY <2>0
  <2>1. /\ hook.installed = FALSE /\ hook.expected = 0 /\ hook.scope = 0 /\ hook.active = 0
    BY <2>0 DEF Send!Fresh
  <2>2. hook \in Send!HookState
    <3>1. /\ 0 \in Send!Row /\ 0 \in 0..MaxDepth /\ FALSE \in BOOLEAN /\ 0 \in Nat
          /\ Send!NoReceipt \in [ref : 0..MaxSends, row : Send!Row, valid : BOOLEAN]
      BY DEF Send!Row, Send!NoReceipt
    <3> QED BY <2>0, <3>1, HookMade DEF Send!Fresh
  <2>3. stack \in Seq(Send!Frame) /\ Len(stack) = 0 /\ Send!OursOnStack = {}
    BY <2>0 DEF Send!OursOnStack
  <2>4. send_sent \in Seq([row : Send!Row, thread : {"gui", "other"}, window : Send!Row]) /\ Len(send_sent) = 0
        /\ DOMAIN send_sent = {} /\ DOMAIN stack = {}
    BY <2>0
  <2>5. SendTypes
    <3>1. answer.code = "none"
      BY <2>0 DEF Send!NoAnswer
    <3>2. /\ client \in [poisoned : BOOLEAN, blocked : BOOLEAN] /\ identity \in [1..MaxOps -> 0..MaxSends]
          /\ slots \in [send : {"real", "observer"}, callback : {"null", "observer", "foreign"}]
      BY <2>0
    <3>3. /\ send_pc \in {"idle", "arming", "armed", "keyed", "cleanup", "finishing", "releasing"}
          /\ send_request \in {"none", "arm", "finish"} /\ op \in 0..MaxOps /\ keys \in 0..MaxOps
      BY <2>a
    <3>4. Send!TypeOK
      BY <2>2, <2>3, <2>4, <3>1, <3>2, <3>3 DEF Send!TypeOK
    <3> QED BY <2>a, <2>3, <2>4, <3>4 DEF SendTypes
  <2>6. StackInv
    BY <2>0, <2>1, <2>3, SendCardinality, FS_EmptySet DEF StackInv, Send!ObserverAccounted
  <2>7. FramesSent
    BY <2>4 DEF FramesSent
  <2>8. WindowInv
    BY <2>a, <2>1, <2>4 DEF WindowInv
  <2>9. OperationInv
    BY <2>0 DEF OperationInv
  <2>10. AcceptedOver
    BY <2>0 DEF AcceptedOver
  <2> QED BY <2>5, <2>6, <2>7, <2>8, <2>9, <2>10 DEF ReceiptInv
<1>2. ReceiptInv /\ [Next]_vars => ReceiptInv'
  <2> SUFFICES ASSUME ReceiptInv, [Next]_vars PROVE ReceiptInv'
    OBVIOUS
  <2>1. CASE Send!Next
    <3>1. CASE Send!KeyArrives
      <4>1. keys' \in 0..keys /\ UNCHANGED <<send_pc, op, client, send_request, answer, identity>>
        BY <3>1 DEF Send!KeyArrives, ReceiptInv, SendTypes, Send!TypeOK
      <4>2. CASE \E row \in 0..op : Send!SendBegins(row)
        BY <4>1, <4>2, Began
      <4>3. CASE UNCHANGED <<hook, slots, stack, send_sent>>
        <5>1. SendTypes'
          BY <4>1, <4>3, SendConstants DEF ReceiptInv, SendTypes, Send!TypeOK
        <5>2. WindowInv' /\ OperationInv' /\ AcceptedOver'
          BY <4>1, <4>3, HookMoves DEF ReceiptInv, WindowInv
        <5> QED BY <4>3, <5>1, <5>2, GuiStays DEF ReceiptInv
      <4> QED BY <3>1, <4>2, <4>3 DEF Send!KeyArrives
    <3>2. CASE Send!TerminalSends
      <4>1. /\ 0 \in 0..op /\ keys' \in 0..keys /\ Send!SendBegins(0)
            /\ UNCHANGED <<send_pc, op, client, send_request, answer, identity>>
        BY <3>2 DEF Send!TerminalSends, ReceiptInv, SendTypes, Send!TypeOK
      <4> QED BY <4>1, Began
    <3> QED BY <2>1, <3>1, <3>2, CalledBack, Ended, ForeignSent, ForeignSet, ArmedByGui, FinishedByGui, OperationStep
        DEF Send!Next, Send!GuiThread
  <2>2. CASE UNCHANGED sendVars
    <3>1. /\ UNCHANGED <<send_pc, op, client, send_request, answer, hook, slots, stack, keys, send_sent, identity>>
      BY <2>2 DEF sendVars
    <3>2. SendTypes'
      BY <3>1 DEF ReceiptInv, SendTypes, Send!TypeOK
    <3>3. WindowInv' /\ OperationInv' /\ AcceptedOver'
      BY <3>1, HookMoves DEF ReceiptInv, WindowInv
    <3> QED BY <3>1, <3>2, <3>3, GuiStays DEF ReceiptInv
  <2> QED BY <2>1, <2>2 DEF Next, vars
<1> QED BY <1>1, <1>2, PTL DEF Spec

\* An accepted reference is that of the operation's own row in its window, and the observer's count
\* of the sends running through it is exact.
THEOREM ReferenceIsOwn == Spec => []IdentityIsOwn
<1>1. ReceiptInv => IdentityIsOwn
  BY DEF ReceiptInv, AcceptedOver, IsOwn, Own, StackInv, IdentityIsOwn, Send!IdentityIsOwn
<1> QED BY <1>1, ReceiptInvariant, PTL

=============================================================================
