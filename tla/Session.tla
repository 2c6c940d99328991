------------------------------ MODULE Session -------------------------------
(***************************************************************************)
(* Whose session the worker trades in: the login it performs               *)
(* (terminal/gui.py prepare_login, login_ready, login), the binding of the *)
(* account (executor.py start) and its validation around every operation   *)
(* (validate_session, resume), on the facts native/query.c reads.          *)
(*                                                                         *)
(* A person may use the login window, log in anew, and the connection may  *)
(* drop and come back.  GetUser finds an account that was logged in once   *)
(* in this terminal, also after somebody else logged in: only the counter  *)
(* of login windows (login_generation) tells.                              *)
(***************************************************************************)
EXTENDS Naturals

CONSTANTS
  MaxEvents,      \* bound: what persons and the network do
  MaxRuns,        \* bound: operations and resumes
  EarlyRelogin    \* may a person log in anew before the worker's first read of the session

\* What the constants must be.
Constants == MaxEvents \in Nat /\ MaxRuns \in Nat /\ EarlyRelogin \in BOOLEAN

VARIABLES
  pc,             \* where the worker is
  terminal,       \* screen, account and site logged in, link, session number
  gen,            \* login_generation, counted by the hook
  known,          \* the configured account was logged in once: GetUser finds it
  form,           \* the login window: site and user entered
  login_generation, session, disconnected, identity_lost, login_established,   \* Executor
  drops,          \* ghost: the sessions that were bound when the worker saw the connection down
  key,            \* the terminal's state when the operation's key was pressed
  accepted,       \* the operation was reported accepted
  runs, events

bridge == <<login_generation, session, disconnected, identity_lost, login_established>>
outside == <<terminal, gen, known, form>>
vars == <<pc, bridge, outside, drops, key, accepted, runs, events>>

Choice == {"ours", "other"}
None == 0
NoKey == [account |-> "none", site |-> "none", number |-> 0, gen |-> 0]

Init ==
  /\ pc = "choose"
  /\ terminal = [screen |-> "login", account |-> "none", site |-> "none", link |-> FALSE, number |-> 0]
  /\ gen = 1 /\ known = FALSE
  /\ form \in [site : Choice, user : Choice]
  /\ login_generation = None /\ session = None /\ disconnected = FALSE
  /\ identity_lost = FALSE /\ login_established = FALSE
  /\ drops = {} /\ key = NoKey /\ accepted = FALSE /\ runs = 0 /\ events = 0

-----------------------------------------------------------------------------
(* Persons and the network.                                                *)

\* Somebody chooses in the login window.
Choose ==
  /\ terminal.screen = "login" /\ form' \in [site : Choice, user : Choice]
  /\ UNCHANGED <<terminal, gen, known>>

Relogin ==
  /\ terminal.screen = "main" /\ (EarlyRelogin \/ login_generation # None)
  /\ gen' = gen + 1
  /\ \E a, s \in Choice :
       terminal' = [terminal EXCEPT !.account = a, !.site = s, !.link = TRUE, !.number = @ + 1]
  /\ known' = (known \/ terminal'.account = "ours")
  /\ UNCHANGED form

\* The connection drops; it comes back as the same session or as a new one.
Reconnect ==
  /\ terminal.screen = "main"
  /\ IF terminal.link THEN terminal' = [terminal EXCEPT !.link = FALSE]
     ELSE \E n \in {terminal.number, terminal.number + 1} :
            terminal' = [terminal EXCEPT !.link = TRUE, !.number = n]
  /\ UNCHANGED <<gen, known, form>>

Disturb ==
  /\ events < MaxEvents /\ events' = events + 1
  /\ Choose \/ Relogin \/ Reconnect
  /\ UNCHANGED <<pc, bridge, drops, key, accepted, runs>>

-----------------------------------------------------------------------------
(* The login.                                                              *)

Step(from, to) == pc = from /\ pc' = to /\ UNCHANGED <<drops, key, accepted, runs, events>>

\* An error: the executor fails; only resume lets it go on.
Stop(from) == Step(from, "blocked")

\* prepare_login: the configured broker and site are chosen in the list.
SelectSite ==
  /\ Step("choose", "site") /\ terminal.screen = "login"
  /\ form' = [form EXCEPT !.site = "ours"] /\ UNCHANGED <<terminal, gen, known, bridge>>

\* and read back, before anything is typed.
SiteRead ==
  /\ IF form.site = "ours" THEN Step("site", "fill") ELSE Stop("site")
  /\ UNCHANGED <<outside, bridge>>

FillAccount ==
  /\ Step("fill", "verify")
  /\ form' = [form EXCEPT !.user = "ours"] /\ UNCHANGED <<terminal, gen, known, bridge>>

AccountRead ==
  /\ IF form.user = "ours" THEN Step("verify", "press") ELSE Stop("verify")
  /\ UNCHANGED <<outside, bridge>>

\* The login button: the terminal logs in with what the window holds now, or
\* shows why not.
Press ==
  /\ pc = "press"
  /\ \/ /\ Step("press", "wait")
        /\ terminal' = [screen |-> "main", account |-> form.user, site |-> form.site, link |-> TRUE,
                        number |-> terminal.number + 1]
        /\ known' = (form.user = "ours")
     \/ Stop("press") /\ UNCHANGED <<terminal, known>>
  /\ UNCHANGED <<gen, form, bridge>>

\* The main window whose title names the configured broker and site.
MainShown == terminal.screen = "main" /\ terminal.site = "ours"

\* login_ready: that window is there, or the startup deadline passes.
LoginReady ==
  /\ \/ MainShown /\ Step("wait", "bind")
     \/ ~MainShown /\ Stop("wait")
  /\ UNCHANGED <<outside, bridge>>

-----------------------------------------------------------------------------
(* The binding and its validation.                                         *)

\* What native session() reports; it refuses when the main window is not ours.
IdentityMatch == known

\* Mutant of Bind: the session is bound while the login is still unproven.
BindUnproven ==
  /\ Step("bind", "rebind") /\ session' = terminal.number
  /\ UNCHANGED <<outside, login_generation, disconnected, identity_lost, login_established>>

\* start's loop: the first read fixes the generation, a later one with another
\* generation gives up, and one with account and connection binds.
Bind ==
  /\ pc = "bind"
  /\ IF ~MainShown THEN Stop("bind") /\ UNCHANGED bridge
     ELSE IF login_generation \notin {None, gen}
       THEN Stop("bind") /\ identity_lost' = TRUE
            /\ UNCHANGED <<login_generation, session, disconnected, login_established>>
     ELSE /\ login_generation' = gen
          /\ \/ /\ IdentityMatch /\ terminal.link
                /\ Step("bind", "rebind") /\ login_established' = TRUE
             \/ ~(IdentityMatch /\ terminal.link) /\ Step("bind", "bind") /\ UNCHANGED login_established
             \/ ~(IdentityMatch /\ terminal.link) /\ Stop("bind") /\ UNCHANGED login_established
          /\ UNCHANGED <<session, disconnected, identity_lost>>
  /\ UNCHANGED outside

\* The connection was seen down, or another session is there.
Changed == session # None /\ (disconnected \/ terminal.number # session)

\* Mutant of Refused: a rebinding resume accepts what it finds.
RefusedNever(rebind) == Changed /\ ~rebind

\* A changed session needs a rebinding resume, and one with the old identity
\* still holds the old cache.
Refused(rebind) == Changed /\ (~rebind \/ terminal.number = session)

\* Mutant of Regenerated: logins after the first are not counted.
RegeneratedNever == FALSE

Regenerated == login_generation # None /\ gen # login_generation

\* validate_session, with what it keeps; ok and bad are the actions that follow.
Validate(rebind, ok, bad) ==
  LET rest == UNCHANGED <<login_generation, session, login_established>> IN
  /\ UNCHANGED outside
  /\ IF ~login_established \/ identity_lost \/ ~MainShown
       THEN bad /\ rest /\ UNCHANGED <<disconnected, identity_lost, drops>>
     ELSE IF Regenerated
       THEN bad /\ rest /\ identity_lost' = TRUE /\ UNCHANGED <<disconnected, drops>>
     ELSE IF ~terminal.link \/ ~IdentityMatch
       THEN bad /\ rest /\ disconnected' = TRUE /\ drops' = drops \cup {session} /\ UNCHANGED identity_lost
     ELSE IF Refused(rebind)
       THEN bad /\ rest /\ UNCHANGED <<disconnected, identity_lost, drops>>
     ELSE /\ ok /\ session' = terminal.number /\ login_generation' = gen /\ disconnected' = FALSE
          /\ UNCHANGED <<identity_lost, login_established, drops>>

Goto(label) == pc' = label

\* The last part of start, and resume.
Rebind ==
  /\ pc = "rebind" /\ Validate(TRUE, Goto("idle"), Goto("blocked"))
  /\ UNCHANGED <<key, accepted, runs, events>>

Resume ==
  /\ pc = "blocked" /\ runs < MaxRuns /\ runs' = runs + 1
  /\ Validate(TRUE, Goto("idle"), Goto("blocked"))
  /\ UNCHANGED <<key, accepted, events>>

\* An operation: validated, its key pressed, validated again.
Prepare ==
  /\ pc = "idle" /\ runs < MaxRuns /\ runs' = runs + 1
  /\ accepted' = FALSE /\ key' = NoKey
  /\ Validate(FALSE, Goto("op"), Goto("blocked"))
  /\ UNCHANGED events

\* The key records the session it goes to.
Key ==
  /\ pc = "op" /\ pc' = "check"
  /\ key' = [account |-> terminal.account, site |-> terminal.site, number |-> terminal.number, gen |-> gen]
  /\ UNCHANGED <<bridge, outside, drops, accepted, runs, events>>

VerifySession ==
  /\ pc = "check"
  /\ Validate(FALSE, Goto("idle") /\ accepted' = TRUE, Goto("blocked") /\ UNCHANGED accepted)
  /\ UNCHANGED <<key, runs, events>>

Worker ==
  \/ SelectSite \/ SiteRead \/ FillAccount \/ AccountRead \/ Press \/ LoginReady
  \/ Bind \/ Rebind \/ Resume \/ Prepare \/ Key \/ VerifySession

Next == Worker \/ Disturb

Spec == Init /\ [][Next]_vars

-----------------------------------------------------------------------------

\* Every variable stays in its domain, and a bound session means a login was
\* established on the configured site.
TypeOK ==
  /\ pc \in {"choose", "site", "fill", "verify", "press", "wait", "bind", "rebind", "idle", "op", "check", "blocked"}
  /\ terminal \in [screen : {"login", "main"}, account : Choice \cup {"none"}, site : Choice \cup {"none"},
                   link : BOOLEAN, number : Nat]
  /\ form \in [site : Choice, user : Choice] /\ {gen, login_generation, session} \subseteq Nat
  /\ {known, disconnected, identity_lost, login_established, accepted} \subseteq BOOLEAN
  /\ session # None => login_established

\* What is reported as accepted went to the configured account on the configured
\* site, whoever logged in before or during the operation.
AcceptedIsOwn == accepted => key.account = "ours" /\ key.site = "ours"

\* It went to the session the worker had bound: no reconnection came between its
\* first and its last look.
AcceptedInOneSession == accepted => key.number = session /\ key.gen = login_generation

\* A bound session in which the worker once saw the connection down is never used
\* again without a restart of the terminal, whatever resumes come between: its
\* cached rows may be older than the drop.
DroppedSessionUnused == accepted => key.number \notin drops

=============================================================================
