---------------------------- MODULE ScreenProofs ----------------------------
(***************************************************************************)
(* Proofs about one operation on the screen (Gui): an invariant that its   *)
(* steps keep.  MCTerminal and MCReadings have the screen as a part.       *)
(***************************************************************************)
EXTENDS ScreenPart, Integers, TLAPS

-----------------------------------------------------------------------------
(***************************************************************************)
(* The screen.                                                             *)
(***************************************************************************)

\* The windows on the screen.
ScreenWindows == [main : BOOLEAN, unknown : {"none", "other", "failure"}, funds : Nat,
            menu : {"none", "own", "foreign"}, busy : BOOLEAN, notice : BOOLEAN]

\* A table: which control shows it, whether it is usable, whether it is complete.
Tables == [object : Nat, valid : BOOLEAN, full : BOOLEAN]

\* ensure_ready is running.
Checking == pc \in {"look", "recover"}

\* The positions of an operation that has not returned.
Working == {"op", "cached", "baseline", "again", "locate", "page", "shown", "filter", "filtered",
            "ask", "open", "closing"}

\* An operation is under way, possibly inside ensure_ready.
AtWork == pc \in Working \/ (Checking /\ back \in {"op", "again", "cached"})

\* Every variable of the screen in its domain, in groups that change together.
ControlTypes ==
  /\ pc \in Screen!Steps /\ back \in Screen!Steps /\ next \in Screen!Steps /\ expired \in BOOLEAN
  /\ ready \in [keyboard : BOOLEAN, posted : SUBSET {"menu", "funds"}, released : BOOLEAN,
                action : {"none", "menu", "funds"}]

\* What the client keeps between operations.
KeptTypes == touched \in BOOLEAN /\ cached \in Tables

\* The operation and what it returned.
ResultTypes ==
  /\ job \in [name : {"none", "grid", "balance"}, left : 0 .. 2]
  /\ got \in [name : {"none", "grid", "balance"}, table : Tables, serial : Nat]
  /\ failed \in {"none", "request", "reset"} /\ runs \in 0 .. MaxRuns

\* The desktop.
WorldTypes ==
  /\ win \in ScreenWindows /\ held \in [bridge : BOOLEAN, person : BOOLEAN] /\ table \in Tables
  /\ closing \in BOOLEAN /\ asked \in Nat /\ serial \in Nat /\ base \in Nat /\ events \in Nat

\* All variables of the screen.
ScreenTypes == ControlTypes /\ KeptTypes /\ ResultTypes /\ WorldTypes

\* Where the worker returns to, and calls of grid that are left while it works.
ScreenPlaces ==
  /\ Checking => back \in {"op", "again", "cached", "finish", "finished"}
  /\ pc \in {"baseline", "again"} \/ (Checking /\ back = "again") => next \in {"locate", "shown", "filtered", "ask"}
  /\ pc = "recover" => ready.action \in {"menu", "funds"}
  /\ AtWork => job.left >= 1

\* After finish has released the modifiers nothing presses a key.
ScreenHeld ==
  /\ held.bridge => touched
  /\ pc = "finished" \/ (Checking /\ back = "finished") => ~held.bridge

\* A dialog that is there when the balance is read was displayed after the baseline.
ScreenDialogs ==
  /\ base <= serial /\ win.funds <= serial
  /\ pc \in {"ask", "open"} => win.funds = 0 \/ win.funds > base
  /\ got.name = "balance" => ~AtWork /\ got.serial > base

\* A table that is returned is usable and complete.
ScreenTables == got.name = "grid" => got.table.valid /\ got.table.full

\* What holds of the screen at every moment.
ScreenInv == ScreenTypes /\ ScreenPlaces /\ ScreenHeld /\ ScreenDialogs /\ ScreenTables

\* What the assumption says of the screen's bounds.
LEMMA ScreenBounds == MaxRuns \in Nat /\ MaxEvents \in Nat
  BY ScreenAssumption, Zenon DEF Screen!Constants

\* The types are those of the module.
LEMMA ScreenTyped == ScreenTypes => Screen!TypeOK
<1> SUFFICES ASSUME ScreenTypes PROVE Screen!TypeOK
  OBVIOUS
<1>1. {pc, back, next} \subseteq Screen!Steps /\ {expired, touched, closing} \subseteq BOOLEAN
  BY Zenon DEF ScreenTypes, ControlTypes, KeptTypes, WorldTypes
<1>2. got.name \in {"none", "grid", "balance"} /\ job.left \in 0 .. 2
  BY DEF ScreenTypes, ResultTypes
<1> QED BY <1>1, <1>2, Zenon DEF ScreenTypes, ControlTypes, ResultTypes, WorldTypes, Screen!TypeOK

\* The windows with one field replaced.
LEMMA WindowFields ==
  ASSUME NEW w \in ScreenWindows
  PROVE  /\ w = [main |-> w.main, unknown |-> w.unknown, funds |-> w.funds, menu |-> w.menu, busy |-> w.busy,
                 notice |-> w.notice]
         /\ \A u \in {"none", "other", "failure"} : [w EXCEPT !.unknown = u] \in ScreenWindows
         /\ \A m \in {"none", "own", "foreign"} : [w EXCEPT !.menu = m] \in ScreenWindows
         /\ \A b \in BOOLEAN : [w EXCEPT !.busy = b] \in ScreenWindows
         /\ \A b \in BOOLEAN : [w EXCEPT !.notice = b] \in ScreenWindows
         /\ \A b \in BOOLEAN : [w EXCEPT !.main = b] \in ScreenWindows
         /\ \A n \in Nat : [w EXCEPT !.funds = n] \in ScreenWindows
  BY DEF ScreenWindows

\* What a person and the terminal do to the windows: the funds dialog stays, goes or is a new display.
LEMMA ScreenWorld ==
  ASSUME ScreenInv, Screen!Disturb \/ Screen!Answer \/ Screen!Closed \/ Screen!NoticeCloses
  PROVE  ScreenInv'
<1> DEFINE Kept == win'.funds = win.funds \/ win'.funds = 0 \/ (win'.funds = serial + 1 /\ serial' = serial + 1)
<1>0. ScreenTypes /\ WorldTypes /\ win \in ScreenWindows /\ serial \in Nat
  BY DEF ScreenInv, ScreenTypes, WorldTypes
<1>1. UNCHANGED <<pc, back, next, ready, expired, touched, cached, job, got, failed, runs, base>>
  BY DEF Screen!Disturb, Screen!Answer, Screen!Closed, Screen!NoticeCloses, Screen!Outside, Screen!control,
         Screen!kept, Screen!results
<1>2. WorldTypes' /\ (held'.bridge <=> held.bridge) /\ serial' >= serial /\ Kept
  <2>1. CASE Screen!Disturb
    <3>1. events' \in Nat /\ UNCHANGED <<closing, asked, base>>
      BY <1>0, <1>1, <2>1 DEF Screen!Disturb, WorldTypes
    <3>2. /\ win' \in ScreenWindows /\ Kept /\ serial' \in Nat /\ serial' >= serial
      <4>1. CASE \/ \E u \in {"none", "other"} : win' = [win EXCEPT !.unknown = u]
                 \/ \E m \in {"none", "own", "foreign"} : win' = [win EXCEPT !.menu = m]
                 \/ \E b \in BOOLEAN : win' = [win EXCEPT !.busy = b]
                 \/ win' \in {[win EXCEPT !.notice = TRUE], [win EXCEPT !.main = FALSE]}
        <5>1. serial' = serial
          BY <1>0, <2>1, <4>1 DEF Screen!Disturb, ScreenWindows
        <5>2. win' \in ScreenWindows
          <6>1. CASE \E u \in {"none", "other"} : win' = [win EXCEPT !.unknown = u]
            BY <1>0, <6>1 DEF ScreenWindows
          <6>2. CASE \E m \in {"none", "own", "foreign"} : win' = [win EXCEPT !.menu = m]
            BY <1>0, <6>2 DEF ScreenWindows
          <6>3. CASE \E b \in BOOLEAN : win' = [win EXCEPT !.busy = b]
            BY <1>0, <6>3 DEF ScreenWindows
          <6>4. CASE win' \in {[win EXCEPT !.notice = TRUE], [win EXCEPT !.main = FALSE]}
            BY <1>0, <6>4 DEF ScreenWindows
          <6> QED BY <4>1, <6>1, <6>2, <6>3, <6>4
        <5>3. win'.funds = win.funds
          BY <1>0, <4>1 DEF ScreenWindows
        <5> QED BY <1>0, <5>1, <5>2, <5>3
      <4>2. CASE UNCHANGED <<win, serial>>
        BY <1>0, <4>2
      <4>3. CASE win' = [win EXCEPT !.funds = 0] /\ serial' = serial
        BY <1>0, <4>3 DEF ScreenWindows
      <4>4. CASE serial' = serial + 1 /\ win' = [win EXCEPT !.funds = serial']
        BY <1>0, <4>4 DEF ScreenWindows
      <4> QED BY <2>1, <4>1, <4>2, <4>3, <4>4, Zenon DEF Screen!Disturb
    <3>3. held' \in [bridge : BOOLEAN, person : BOOLEAN] /\ (held'.bridge <=> held.bridge)
      BY <1>0, <2>1 DEF Screen!Disturb, WorldTypes
    <3>4. table' \in Tables
      BY <1>0, <2>1 DEF Screen!Disturb, WorldTypes, Tables
    <3> QED BY <1>0, <3>1, <3>2, <3>3, <3>4, Zenon DEF WorldTypes
  <2>2. CASE Screen!Answer
    <3>1. asked' \in Nat /\ UNCHANGED <<held, table, closing, events, base>>
      BY <1>0, <1>1, <2>2 DEF Screen!Answer, WorldTypes
    <3>2. /\ win' \in ScreenWindows /\ Kept /\ serial' \in Nat /\ serial' >= serial
      BY <1>0, <2>2, WindowFields DEF Screen!Answer, ScreenWindows
    <3> QED BY <1>0, <3>1, <3>2, Zenon DEF WorldTypes
  <2>3. CASE Screen!Closed
    <3>1. closing' \in BOOLEAN /\ UNCHANGED <<held, table, asked, serial, events, base>> /\ serial' >= serial
      <4>1. closing' \in BOOLEAN /\ UNCHANGED <<held, table, asked, serial, events, base>>
        BY <1>1, <2>3, Zenon DEF Screen!Closed
      <4> QED BY <1>0, <4>1
    <3>2. win' \in ScreenWindows /\ Kept
      BY <1>0, <2>3 DEF Screen!Closed, ScreenWindows
    <3> QED BY <1>0, <3>1, <3>2, Zenon DEF WorldTypes
  <2>4. CASE Screen!NoticeCloses
    <3>1. UNCHANGED <<held, table, closing, asked, serial, events, base>> /\ serial' >= serial
      BY <1>0, <1>1, <2>4 DEF Screen!NoticeCloses
    <3>2. win' \in ScreenWindows /\ Kept
      BY <1>0, <2>4 DEF Screen!NoticeCloses, ScreenWindows
    <3> QED BY <1>0, <3>1, <3>2, Zenon DEF WorldTypes
  <2> QED BY <2>1, <2>2, <2>3, <2>4
<1>3. ScreenTypes'
  BY <1>0, <1>1, <1>2, Zenon DEF ScreenTypes, ControlTypes, KeptTypes, ResultTypes
<1>4. ScreenPlaces' /\ ScreenHeld' /\ ScreenTables'
  BY <1>1, <1>2 DEF ScreenInv, ScreenPlaces, ScreenHeld, ScreenTables, Checking, AtWork
<1>5. ScreenDialogs'
  BY <1>0, <1>1, <1>2 DEF ScreenInv, ScreenDialogs, WorldTypes, ScreenWindows, Checking, AtWork
<1> QED BY <1>3, <1>4, <1>5 DEF ScreenInv

\* The world stands still: only the base may move, to the number of displays so far.
LEMMA WorldStill ==
  ASSUME ScreenInv, Screen!Still, base' \in {base, serial}
  PROVE  WorldTypes' /\ UNCHANGED <<win, held, table, closing, asked, serial, events>>
<1>1. UNCHANGED <<win, held, table, closing, asked, serial, events>>
  BY DEF Screen!Still, Screen!world
<1>2. base' \in Nat
  BY DEF ScreenInv, ScreenTypes, WorldTypes
<1> QED BY <1>1, <1>2, Zenon DEF ScreenInv, ScreenTypes, WorldTypes

\* An error leads to the clean-up or leaves the worker blocked.
LEMMA ScreenRaised ==
  ASSUME ScreenInv, NEW k \in {"request", "reset"}, Screen!Raise(k), Screen!Still
  PROVE  ScreenInv'
<1>1. /\ pc' \in {"blocked", "finish"} /\ failed' = k
      /\ UNCHANGED <<back, next, ready, expired, touched, cached, job, got, runs, base>>
  BY DEF Screen!Raise
<1>2. WorldTypes' /\ UNCHANGED <<win, held, table, closing, asked, serial, events>>
  BY <1>1, WorldStill
<1>3. ScreenTypes'
  <2>1. pc' \in Screen!Steps /\ failed' \in {"none", "request", "reset"}
    BY <1>1 DEF Screen!Steps
  <2> QED BY <1>1, <1>2, <2>1, Zenon DEF ScreenInv, ScreenTypes, ControlTypes, KeptTypes, ResultTypes
<1>4. ScreenPlaces' /\ ScreenTables' /\ ScreenHeld' /\ ScreenDialogs'
  BY <1>1, <1>2 DEF ScreenInv, ScreenPlaces, ScreenTables, ScreenHeld, ScreenDialogs, Checking, AtWork, Working
<1> QED BY <1>3, <1>4 DEF ScreenInv

\* A key is pressed, or the key tool fails and may leave a modifier down; the flag is set either way.
LEMMA ScreenPressed ==
  ASSUME ScreenInv, NEW to \in {"page", "filter", "open", "closing"}, Screen!PressKey(to),
         pc \in {"locate", "shown", "ask", "open"}, to = "open" => pc = "ask",
         table' \in Tables, asked' \in Nat, UNCHANGED <<win, closing, serial, events>>
  PROVE  ScreenInv'
<1>1. /\ touched' = TRUE /\ UNCHANGED <<back, next, ready, cached, job, got, runs, base>>
      /\ \/ pc' = to /\ expired' = FALSE /\ UNCHANGED <<held, failed>>
         \/ pc' = "finish" /\ failed' = "reset" /\ UNCHANGED expired /\ \E b \in BOOLEAN : held' = [held EXCEPT !.bridge = b]
  BY DEF Screen!PressKey, Screen!results
<1>2. held' \in [bridge : BOOLEAN, person : BOOLEAN]
  BY <1>1 DEF ScreenInv, ScreenTypes, WorldTypes
<1>3. ScreenTypes'
  <2>1. pc' \in Screen!Steps /\ failed' \in {"none", "request", "reset"}
    BY <1>1 DEF Screen!Steps, ScreenInv, ScreenTypes, ResultTypes
  <2>2. expired' \in BOOLEAN /\ touched' \in BOOLEAN
    BY <1>1, Zenon DEF ScreenInv, ScreenTypes, ControlTypes
  <2> QED BY <1>1, <1>2, <2>1, <2>2, Zenon DEF ScreenInv, ScreenTypes, ControlTypes, KeptTypes, ResultTypes, WorldTypes
<1>4. ScreenPlaces' /\ ScreenTables' /\ ScreenHeld'
  BY <1>1, <1>2 DEF ScreenInv, ScreenPlaces, ScreenTables, ScreenHeld, Checking, AtWork, Working
<1>5. ScreenDialogs'
  BY <1>1 DEF ScreenInv, ScreenDialogs, Checking, AtWork, Working
<1> QED BY <1>3, <1>4, <1>5 DEF ScreenInv

\* A complete table is returned, for the first call or for the last.
LEMMA ScreenFound ==
  ASSUME ScreenInv, Screen!Found, Screen!Still, pc \in {"cached", "locate", "shown", "filtered"}, table.valid, table.full
  PROVE  ScreenInv'
<1>1. /\ cached' = table /\ got' = [name |-> "grid", table |-> table, serial |-> 0]
      /\ job' = [name |-> job.name, left |-> job.left - 1] /\ pc' = IF job.left > 1 THEN "op" ELSE "finish"
      /\ UNCHANGED <<back, next, ready, expired, touched, failed, runs, base>>
  BY DEF Screen!Found, Screen!Nothing, ScreenInv, ScreenTypes, ResultTypes
<1>2. WorldTypes' /\ UNCHANGED <<win, held, table, closing, asked, serial, events>>
  BY <1>1, WorldStill
<1>3. job.left \in 1 .. 2
  BY DEF ScreenInv, ScreenPlaces, AtWork, Working, ScreenTypes, ResultTypes
<1>4. ScreenTypes'
  <2>1. pc' \in Screen!Steps /\ job' \in [name : {"none", "grid", "balance"}, left : 0 .. 2]
    BY <1>1, <1>3 DEF Screen!Steps, ScreenInv, ScreenTypes, ResultTypes
  <2>2. cached' \in Tables /\ got' \in [name : {"none", "grid", "balance"}, table : Tables, serial : Nat]
    BY <1>1 DEF ScreenInv, ScreenTypes, WorldTypes
  <2> QED BY <1>1, <1>2, <2>1, <2>2, Zenon DEF ScreenInv, ScreenTypes, ControlTypes, KeptTypes, ResultTypes
<1>5. ScreenPlaces' /\ ScreenTables' /\ ScreenHeld' /\ ScreenDialogs'
  BY <1>1, <1>2, <1>3 DEF ScreenInv, ScreenPlaces, ScreenTables, ScreenHeld, ScreenDialogs, Checking, AtWork, Working
<1> QED BY <1>4, <1>5 DEF ScreenInv

\* ensure_ready is called, or a loop that waits for a clean snapshot is entered.
LEMMA ScreenCalled ==
  ASSUME ScreenInv, Screen!Still, UNCHANGED <<touched, job, got, failed, runs, base>>, cached' \in Tables, expired' = FALSE,
         pc \in Working,
         \/ /\ pc' = "look" /\ back' \in {"again", "cached"} /\ ready' = Screen!Loop(FALSE) /\ UNCHANGED next
            /\ back' = "again" => pc = "baseline"
         \/ pc' = "baseline" /\ next' \in {"locate", "shown", "filtered", "ask"} /\ UNCHANGED <<back, ready>>
  PROVE  ScreenInv'
<1>1. WorldTypes' /\ UNCHANGED <<win, held, table, closing, asked, serial, events>>
  BY WorldStill
<1>2. ScreenTypes'
  <2>1. pc' \in Screen!Steps /\ back' \in Screen!Steps /\ next' \in Screen!Steps /\ expired' \in BOOLEAN
    BY DEF Screen!Steps, ScreenInv, ScreenTypes, ControlTypes
  <2>2. Screen!Loop(FALSE) \in [keyboard : BOOLEAN, posted : SUBSET {"menu", "funds"}, released : BOOLEAN,
                                action : {"none", "menu", "funds"}]
    BY DEF Screen!Loop
  <2> QED BY <1>1, <2>1, <2>2, Zenon DEF ScreenInv, ScreenTypes, ControlTypes, KeptTypes, ResultTypes
<1>3. ScreenPlaces' /\ ScreenTables' /\ ScreenHeld' /\ ScreenDialogs'
  BY <1>1 DEF ScreenInv, ScreenPlaces, ScreenTables, ScreenHeld, ScreenDialogs, Checking, AtWork, Working
<1> QED BY <1>2, <1>3 DEF ScreenInv

\* ensure_ready: read, decide, act, read again.
LEMMA ScreenReady ==
  ASSUME ScreenInv, Screen!EnsureReady
  PROVE  ScreenInv'
<1> DEFINE Loops == [keyboard : BOOLEAN, posted : SUBSET {"menu", "funds"}, released : BOOLEAN,
                     action : {"none", "menu", "funds"}]
<1>0. ScreenTypes /\ ready \in Loops /\ win \in ScreenWindows /\ held \in [bridge : BOOLEAN, person : BOOLEAN]
  BY DEF ScreenInv, ScreenTypes, ControlTypes, WorldTypes
<1>1. CASE Screen!LookExpired \/ Screen!LookError \/ Screen!RecoverRefused
  BY <1>1, ScreenRaised DEF Screen!LookExpired, Screen!LookError, Screen!RecoverRefused
<1>2. CASE Screen!LookReady
  <2>1. /\ pc = "look" /\ pc' = back /\ back' = "idle" /\ expired' = FALSE /\ Screen!Still
        /\ UNCHANGED <<next, ready, touched, cached, job, got, failed, runs, base>>
    BY <1>2 DEF Screen!LookReady, Screen!kept, Screen!results, Screen!Still
  <2>2. WorldTypes' /\ UNCHANGED <<win, held, table, closing, asked, serial, events>>
    BY <2>1, WorldStill
  <2>3. ScreenTypes'
    <3>1. pc' \in Screen!Steps /\ back' \in Screen!Steps /\ expired' \in BOOLEAN
      BY <1>0, <2>1 DEF Screen!Steps, ScreenTypes, ControlTypes
    <3> QED BY <1>0, <2>1, <2>2, <3>1, Zenon DEF ScreenTypes, ControlTypes, KeptTypes, ResultTypes
  <2>4. ScreenPlaces' /\ ScreenTables' /\ ScreenHeld' /\ ScreenDialogs'
    BY <2>1, <2>2 DEF ScreenInv, ScreenPlaces, ScreenTables, ScreenHeld, ScreenDialogs, Checking, AtWork, Working
  <2> QED BY <2>3, <2>4 DEF ScreenInv
<1>3. CASE Screen!LookAct
  <2>1. /\ pc = "look" /\ pc' = "recover" /\ Screen!Decision \in {"menu", "funds"} /\ Screen!Still
        /\ ready' = [ready EXCEPT !.action = Screen!Decision]
        /\ UNCHANGED <<back, next, expired, touched, cached, job, got, failed, runs, base>>
    BY <1>3 DEF Screen!LookAct, Screen!kept, Screen!results, Screen!Still
  <2>2. WorldTypes' /\ UNCHANGED <<win, held, table, closing, asked, serial, events>>
    BY <2>1, WorldStill
  <2>3. ScreenTypes'
    <3>1. pc' \in Screen!Steps /\ ready' \in Loops
      BY <1>0, <2>1 DEF Screen!Steps
    <3> QED BY <1>0, <2>1, <2>2, <3>1, Zenon DEF ScreenTypes, ControlTypes, KeptTypes, ResultTypes
  <2>4. ScreenPlaces' /\ ScreenTables' /\ ScreenHeld' /\ ScreenDialogs'
    BY <2>1, <2>2 DEF ScreenInv, ScreenPlaces, ScreenTables, ScreenHeld, ScreenDialogs, Checking, AtWork, Working
  <2> QED BY <2>3, <2>4 DEF ScreenInv
<1>4. CASE Screen!LookRelease
  <2>1. CASE Screen!Raise("reset") /\ Screen!Still
    BY <2>1, ScreenRaised
  <2>2. CASE ~(Screen!Raise("reset") /\ Screen!Still)
    <3>1. /\ touched' = TRUE /\ ready' = [ready EXCEPT !.released = TRUE]
          /\ \E p \in BOOLEAN : held' = [bridge |-> FALSE, person |-> held.person /\ p]
          /\ UNCHANGED <<pc, back, next, expired, cached, job, got, failed, runs, win, table, closing, asked, serial, events, base>>
      BY <1>4, <2>2 DEF Screen!LookRelease, Screen!results
    <3>2. ready' \in Loops
      BY <1>0, <3>1
    <3>3. held' \in [bridge : BOOLEAN, person : BOOLEAN] /\ ~held'.bridge /\ touched' \in BOOLEAN
      BY <1>0, <3>1
    <3>4. ScreenTypes'
      BY <1>0, <3>1, <3>2, <3>3, Zenon DEF ScreenTypes, ControlTypes, KeptTypes, ResultTypes, WorldTypes
    <3>5. ScreenPlaces' /\ ScreenTables' /\ ScreenHeld' /\ ScreenDialogs'
      BY <3>1, <3>3 DEF ScreenInv, ScreenPlaces, ScreenTables, ScreenHeld, ScreenDialogs, Checking, AtWork, Working
    <3> QED BY <3>4, <3>5 DEF ScreenInv
  <2> QED BY <2>1, <2>2
<1>5. CASE Screen!Recover
  <2>1. /\ pc = "recover" /\ pc' = "look" /\ closing' = (closing \/ ready.action = "funds")
        /\ ready' = [ready EXCEPT !.posted = @ \cup {ready.action}, !.action = "none"] /\ Screen!Rescan
        /\ win' = IF ready.action = "menu" THEN [win EXCEPT !.menu = "none"] ELSE win
        /\ UNCHANGED <<back, next, expired, touched, cached, job, got, failed, runs, held, table, asked, serial, events, base>>
    BY <1>5 DEF Screen!Recover, Screen!kept, Screen!results
  <2>2. win' \in ScreenWindows /\ win'.funds = win.funds
    BY <1>0, <2>1 DEF ScreenWindows
  <2>3. ready.action \in {"menu", "funds"} => ready' \in Loops
    BY <1>0, <2>1
  <2>4. ScreenTypes'
    <3>1. closing' \in BOOLEAN
      BY <2>1, Zenon
    <3>2. pc' \in Screen!Steps
      BY <2>1 DEF Screen!Steps
    <3> QED BY <1>0, <2>1, <2>2, <2>3, <3>1, <3>2, Zenon DEF ScreenInv, ScreenPlaces, ScreenTypes, ControlTypes, KeptTypes, ResultTypes, WorldTypes
  <2>5. ScreenPlaces' /\ ScreenTables' /\ ScreenHeld' /\ ScreenDialogs'
    BY <2>1, <2>2 DEF ScreenInv, ScreenPlaces, ScreenTables, ScreenHeld, ScreenDialogs, Checking, AtWork, Working
  <2> QED BY <2>4, <2>5 DEF ScreenInv
<1> QED BY <1>1, <1>2, <1>3, <1>4, <1>5 DEF Screen!EnsureReady

\* A clean snapshot: the worker goes on from a screen without dialogs.
LEMMA ScreenBased ==
  ASSUME ScreenInv, Screen!Still, pc \in {"baseline", "again"}, Screen!Clean, pc' = next, base' = serial,
         UNCHANGED <<back, next, ready, expired, touched, cached, job, got, failed, runs>>
  PROVE  ScreenInv'
<1>1. WorldTypes' /\ UNCHANGED <<win, held, table, closing, asked, serial, events>>
  BY WorldStill
<1>2. ScreenTypes'
  BY <1>1, Zenon DEF ScreenInv, ScreenTypes, ControlTypes, KeptTypes, ResultTypes
<1>3. win.funds = 0 /\ serial \in Nat
  BY DEF Screen!Clean, ScreenInv, ScreenTypes, WorldTypes
<1>4. ScreenPlaces' /\ ScreenTables' /\ ScreenHeld' /\ ScreenDialogs'
  BY <1>1, <1>3 DEF ScreenInv, ScreenPlaces, ScreenTables, ScreenHeld, ScreenDialogs, Checking, AtWork, Working
<1> QED BY <1>2, <1>4 DEF ScreenInv

\* baseline and the second snapshot.
LEMMA ScreenBaseline ==
  ASSUME ScreenInv, Screen!Baseline \/ Screen!BaselineAgain
  PROVE  ScreenInv'
<1>0. pc \in {"baseline", "again"} /\ Screen!Still
  BY DEF Screen!Baseline, Screen!BaselineAgain
<1>1. CASE Screen!Raise("request") \/ Screen!Raise("reset")
  BY <1>0, <1>1, ScreenRaised
<1>2. CASE /\ Screen!Clean /\ pc' = next /\ base' = serial
           /\ UNCHANGED <<back, next, ready, expired, touched, cached, job, got, failed, runs>>
  BY <1>0, <1>2, ScreenBased
<1>3. CASE pc = "baseline" /\ Screen!Call(FALSE, "again") /\ UNCHANGED <<next, touched, cached, job, got, failed, runs, base>>
  <2>1. pc' = "look" /\ back' = "again" /\ ready' = Screen!Loop(FALSE) /\ expired' = FALSE
    BY <1>3 DEF Screen!Call
  <2>2. cached' \in Tables /\ pc \in Working
    BY <1>3 DEF ScreenInv, ScreenTypes, KeptTypes, Working
  <2> QED BY <1>0, <1>3, <2>1, <2>2, ScreenCalled
<1> QED BY <1>1, <1>2, <1>3 DEF Screen!Baseline, Screen!BaselineAgain, Screen!kept, Screen!results

\* A clean snapshot is asked for.
LEMMA ScreenToBaseline ==
  ASSUME ScreenInv, Screen!Still, pc \in Working, NEW to \in {"locate", "shown", "filtered", "ask"}, Screen!ToBaseline(to)
  PROVE  ScreenInv'
<1>1. /\ pc' = "baseline" /\ next' = to /\ expired' = FALSE
      /\ UNCHANGED <<back, ready, touched, cached, job, got, failed, runs, base>>
  BY DEF Screen!ToBaseline, Screen!kept, Screen!results
<1>2. cached' \in Tables
  BY <1>1 DEF ScreenInv, ScreenTypes, KeptTypes
<1> QED BY <1>1, <1>2, ScreenCalled

\* grid: from the cache, or located anew.
LEMMA ScreenGrid ==
  ASSUME ScreenInv, Screen!Grid \/ Screen!Cached \/ Screen!Locate
  PROVE  ScreenInv'
<1>0. cached \in Tables /\ table \in Tables /\ asked \in Nat
  BY DEF ScreenInv, ScreenTypes, KeptTypes, WorldTypes
<1>1. CASE Screen!Grid
  <2>1. pc = "op" /\ pc \in Working /\ Screen!Still
    BY <1>1 DEF Screen!Grid, Working
  <2>2. CASE cached # Screen!NoTable
    <3>1. /\ pc' = "look" /\ back' = "cached" /\ ready' = Screen!Loop(FALSE) /\ expired' = FALSE
          /\ UNCHANGED <<next, touched, cached, job, got, failed, runs, base>>
      BY <1>1, <2>2 DEF Screen!Grid, Screen!Call, Screen!kept, Screen!results
    <3> QED BY <1>0, <2>1, <3>1, ScreenCalled
  <2>3. CASE cached = Screen!NoTable
    BY <1>1, <2>1, <2>3, ScreenToBaseline DEF Screen!Grid
  <2> QED BY <2>2, <2>3
<1>2. CASE Screen!Cached
  <2>1. pc = "cached" /\ pc \in Working /\ Screen!Still
    BY <1>2 DEF Screen!Cached, Working
  <2>2. CASE Screen!Current /\ Screen!Found
    BY <2>1, <2>2, ScreenFound DEF Screen!Current
  <2>3. CASE ~(Screen!Current /\ Screen!Found)
    <3>1. /\ cached' = Screen!NoTable /\ pc' = "baseline" /\ next' = "locate" /\ expired' = FALSE
          /\ UNCHANGED <<back, ready, touched, job, got, failed, runs, base>>
      BY <1>2, <2>3 DEF Screen!Cached, Screen!results
    <3>2. cached' \in Tables
      BY <3>1 DEF Screen!NoTable, Tables
    <3> QED BY <2>1, <3>1, <3>2, ScreenCalled
  <2> QED BY <2>2, <2>3
<1>3. CASE Screen!Locate
  <2>1. CASE pc \in {"locate", "shown", "filtered"} /\ table.valid /\ table.full /\ Screen!Found /\ Screen!Still
    BY <2>1, ScreenFound
  <2>2. CASE pc \in {"locate", "shown"} /\ \E to \in {"page", "filter"} : Screen!Keyed(to)
    <3>1. PICK to \in {"page", "filter"} : Screen!Keyed(to)
      BY <2>2
    <3>2. /\ Screen!PressKey(to) /\ UNCHANGED <<win, closing, asked, serial, events>>
          /\ table' \in {table, [table EXCEPT !.valid = TRUE], [table EXCEPT !.valid = TRUE, !.full = TRUE]}
      BY <3>1 DEF Screen!Keyed
    <3>3. table' \in Tables
      BY <1>0, <3>2 DEF Tables
    <3> QED BY <1>0, <2>2, <3>2, <3>3, ScreenPressed
  <2>3. CASE pc \in {"page", "filter"} /\ Screen!Still /\ \E to \in {"shown", "filtered"} : Screen!ToBaseline(to)
    <3>1. pc \in Working
      BY <2>3 DEF Working
    <3> QED BY <2>3, <3>1, ScreenToBaseline
  <2>4. CASE Screen!Raise("request") /\ Screen!Still
    BY <2>4, ScreenRaised
  <2> QED BY <1>3, <2>1, <2>2, <2>3, <2>4 DEF Screen!Locate
<1> QED BY <1>1, <1>2, <1>3

\* balance_text: asked, opened, read and closed.
LEMMA ScreenBalance ==
  ASSUME ScreenInv, Screen!Balance \/ Screen!Ask \/ Screen!Opened \/ Screen!CloseDialog
  PROVE  ScreenInv'
<1>0. ScreenTypes /\ table \in Tables /\ asked \in Nat /\ win \in ScreenWindows
  BY DEF ScreenInv, ScreenTypes, WorldTypes
<1>1. CASE Screen!Balance
  <2>1. pc \in Working /\ Screen!Still /\ Screen!ToBaseline("ask")
    BY <1>1 DEF Screen!Balance, Working
  <2> QED BY <2>1, ScreenToBaseline
<1>2. CASE Screen!Ask
  <2>1. pc = "ask" /\ Screen!PressKey("open") /\ UNCHANGED <<win, table, closing, serial, events>> /\ asked' \in {asked, asked + 1}
    BY <1>2 DEF Screen!Ask
  <2> QED BY <1>0, <2>1, ScreenPressed
<1>3. CASE Screen!Opened
  <2>1. CASE (Screen!Raise("request") \/ Screen!Raise("reset")) /\ Screen!Still
    BY <2>1, ScreenRaised
  <2>2. CASE pc = "open" /\ Screen!PressKey("closing") /\ UNCHANGED <<win, table, closing, asked, serial, events>>
    BY <1>0, <2>2, ScreenPressed
  <2>3. CASE /\ pc = "open" /\ win.funds # 0 /\ got' = [Screen!Nothing EXCEPT !.name = "balance", !.serial = win.funds]
             /\ Screen!Call(FALSE, "finish") /\ UNCHANGED <<next, touched, cached, job, failed, runs, base>> /\ Screen!Still
    <3>1. /\ got' = [name |-> "balance", table |-> Screen!NoTable, serial |-> win.funds]
          /\ pc' = "look" /\ back' = "finish" /\ ready' = Screen!Loop(FALSE) /\ expired' = FALSE
      BY <2>3 DEF Screen!Nothing, Screen!Call
    <3>2. WorldTypes' /\ UNCHANGED <<win, held, table, closing, asked, serial, events>>
      BY <2>3, WorldStill
    <3>3. ScreenTypes'
      <4>1. pc' \in Screen!Steps /\ back' \in Screen!Steps /\ expired' \in BOOLEAN
        BY <3>1 DEF Screen!Steps
      <4>2. ready' \in [keyboard : BOOLEAN, posted : SUBSET {"menu", "funds"}, released : BOOLEAN, action : {"none", "menu", "funds"}]
        BY <3>1 DEF Screen!Loop
      <4>3. got' \in [name : {"none", "grid", "balance"}, table : Tables, serial : Nat]
        BY <1>0, <3>1 DEF Screen!NoTable, Tables, ScreenWindows
      <4> QED BY <1>0, <2>3, <3>2, <4>1, <4>2, <4>3, Zenon DEF ScreenTypes, ControlTypes, KeptTypes, ResultTypes
    <3>4. ScreenPlaces' /\ ScreenTables' /\ ScreenHeld' /\ ScreenDialogs'
      BY <2>3, <3>1, <3>2 DEF ScreenInv, ScreenPlaces, ScreenTables, ScreenHeld, ScreenDialogs, Checking, AtWork, Working
    <3> QED BY <3>3, <3>4 DEF ScreenInv
  <2> QED BY <1>3, <2>1, <2>2, <2>3 DEF Screen!Opened, Screen!kept
<1>4. CASE Screen!CloseDialog
  <2>1. CASE Screen!Raise("request") /\ Screen!Still
    BY <2>1, ScreenRaised
  <2>2. CASE ~(Screen!Raise("request") /\ Screen!Still)
    <3>1. /\ pc = "closing" /\ win' = [win EXCEPT !.unknown = IF @ = "failure" THEN "none" ELSE @, !.funds = 0]
          /\ UNCHANGED <<pc, back, next, ready, expired, touched, cached, job, got, failed, runs, held, table, closing,
                         asked, serial, events, base>>
      BY <1>4, <2>2 DEF Screen!CloseDialog, Screen!control, Screen!kept, Screen!results
    <3>2. win' \in ScreenWindows /\ win'.funds = 0
      BY <1>0, <3>1 DEF ScreenWindows
    <3>3. ScreenTypes'
      <4>1. ControlTypes' /\ KeptTypes' /\ ResultTypes'
        BY <1>0, <3>1, Zenon DEF ScreenTypes, ControlTypes, KeptTypes, ResultTypes
      <4>2. WorldTypes'
        BY <1>0, <3>1, <3>2, Zenon DEF ScreenTypes, WorldTypes
      <4> QED BY <4>1, <4>2 DEF ScreenTypes
    <3>4. ScreenPlaces' /\ ScreenTables' /\ ScreenHeld'
      BY <3>1, <3>2 DEF ScreenInv, ScreenPlaces, ScreenTables, ScreenHeld, Checking, AtWork, Working
    <3>5. ScreenDialogs'
      BY <1>0, <3>1, <3>2 DEF ScreenInv, ScreenDialogs, Checking, AtWork, Working, ScreenTypes, WorldTypes
    <3> QED BY <3>3, <3>4, <3>5 DEF ScreenInv
  <2> QED BY <2>1, <2>2
<1> QED BY <1>1, <1>2, <1>3, <1>4

\* Executor.execute and resume around the operations.
LEMMA ScreenExecute ==
  ASSUME ScreenInv, (\E name \in {"grid", "balance"} : Screen!Execute(name)) \/ Screen!Resume \/ Screen!Finish \/ Screen!Finished
  PROVE  ScreenInv'
<1> DEFINE Loops == [keyboard : BOOLEAN, posted : SUBSET {"menu", "funds"}, released : BOOLEAN,
                     action : {"none", "menu", "funds"}]
<1>0. ScreenTypes /\ held \in [bridge : BOOLEAN, person : BOOLEAN] /\ touched \in BOOLEAN /\ runs \in 0 .. MaxRuns
  BY DEF ScreenInv, ScreenTypes, KeptTypes, ResultTypes, WorldTypes
<1>1. \A b \in BOOLEAN : Screen!Loop(b) \in Loops
  BY DEF Screen!Loop
<1>2. Screen!NoTable \in Tables /\ Screen!Nothing \in [name : {"none", "grid", "balance"}, table : Tables, serial : Nat]
  BY DEF Screen!NoTable, Screen!Nothing, Tables
<1>3. ASSUME NEW name \in {"grid", "balance"}, Screen!Execute(name) PROVE ScreenInv'
  <2>1. /\ pc = "idle" /\ runs' = runs + 1 /\ runs < MaxRuns /\ cached' = Screen!NoTable /\ got' = Screen!Nothing
        /\ failed' = "none" /\ job' = [name |-> name, left |-> 2] /\ pc' = "look" /\ back' = "op"
        /\ ready' = Screen!Loop(name = "balance") /\ expired' = FALSE /\ UNCHANGED <<next, touched, base>> /\ Screen!Still
    BY <1>3 DEF Screen!Execute, Screen!Call
  <2>2. WorldTypes' /\ UNCHANGED <<win, held, table, closing, asked, serial, events>>
    BY <2>1, WorldStill
  <2>3. ScreenTypes'
    <3>1. pc' \in Screen!Steps /\ back' \in Screen!Steps /\ expired' \in BOOLEAN
      BY <2>1 DEF Screen!Steps
    <3>2. ready' \in Loops
      <4>1. (name = "balance") \in BOOLEAN
        OBVIOUS
      <4> QED BY <1>1, <2>1, <4>1, Zenon
    <3>3. job' \in [name : {"none", "grid", "balance"}, left : 0 .. 2] /\ runs' \in 0 .. MaxRuns /\ failed' \in {"none", "request", "reset"}
      BY <1>0, <2>1, ScreenBounds
    <3> QED BY <1>0, <1>2, <2>1, <2>2, <3>1, <3>2, <3>3, Zenon DEF ScreenTypes, ControlTypes, KeptTypes, ResultTypes
  <2>4. ScreenPlaces' /\ ScreenTables' /\ ScreenHeld' /\ ScreenDialogs'
    BY <2>1, <2>2 DEF ScreenInv, ScreenPlaces, ScreenTables, ScreenHeld, ScreenDialogs, Checking, AtWork, Working, Screen!Nothing
  <2> QED BY <2>3, <2>4 DEF ScreenInv
<1>4. CASE Screen!Resume
  <2>1. /\ pc = "blocked" /\ runs' = runs + 1 /\ runs < MaxRuns /\ pc' = "finish" /\ cached' = Screen!NoTable /\ failed' = "none"
        /\ job' = [job EXCEPT !.name = "none"] /\ UNCHANGED <<back, next, ready, expired, touched, got, base>> /\ Screen!Still
    BY <1>4 DEF Screen!Resume
  <2>2. WorldTypes' /\ UNCHANGED <<win, held, table, closing, asked, serial, events>>
    BY <2>1, WorldStill
  <2>3. ScreenTypes'
    <3>1. pc' \in Screen!Steps
      BY <2>1 DEF Screen!Steps
    <3>2. job' \in [name : {"none", "grid", "balance"}, left : 0 .. 2] /\ runs' \in 0 .. MaxRuns /\ failed' \in {"none", "request", "reset"}
      BY <1>0, <2>1, ScreenBounds DEF ScreenTypes, ResultTypes
    <3> QED BY <1>0, <1>2, <2>1, <2>2, <3>1, <3>2, Zenon DEF ScreenTypes, ControlTypes, KeptTypes, ResultTypes
  <2>4. ScreenPlaces' /\ ScreenTables' /\ ScreenHeld' /\ ScreenDialogs'
    BY <2>1, <2>2 DEF ScreenInv, ScreenPlaces, ScreenTables, ScreenHeld, ScreenDialogs, Checking, AtWork, Working
  <2> QED BY <2>3, <2>4 DEF ScreenInv
<1>5. CASE Screen!Finish
  <2>1. CASE Screen!Call(touched, "finished")
    <3>1. PICK p \in BOOLEAN : held' = IF touched THEN [bridge |-> FALSE, person |-> held.person /\ p] ELSE held
      BY <1>5, <2>1 DEF Screen!Finish, Screen!Call
    <3>2. /\ pc = "finish" /\ pc' = "look" /\ back' = "finished" /\ ready' = Screen!Loop(touched) /\ expired' = FALSE
          /\ UNCHANGED <<next, touched, cached, job, got, failed, runs, win, table, closing, asked, serial, events, base>>
      BY <1>5, <2>1 DEF Screen!Finish, Screen!Call, Screen!kept, Screen!results
    <3>3. held' \in [bridge : BOOLEAN, person : BOOLEAN] /\ ~held'.bridge
      BY <1>0, <3>1 DEF ScreenInv, ScreenHeld
    <3>4. ScreenTypes'
      <4>1. pc' \in Screen!Steps /\ back' \in Screen!Steps /\ expired' \in BOOLEAN
        BY <3>2 DEF Screen!Steps
      <4>2. ready' \in Loops
        BY <1>0, <1>1, <3>2, Zenon
      <4>3. ControlTypes' /\ KeptTypes' /\ ResultTypes'
        BY <1>0, <3>2, <4>1, <4>2, Zenon DEF ScreenTypes, ControlTypes, KeptTypes, ResultTypes
      <4>4. WorldTypes'
        BY <1>0, <3>2, <3>3, Zenon DEF ScreenTypes, WorldTypes
      <4> QED BY <4>3, <4>4 DEF ScreenTypes
    <3>5. ScreenPlaces' /\ ScreenTables' /\ ScreenHeld' /\ ScreenDialogs'
      BY <3>2, <3>3 DEF ScreenInv, ScreenPlaces, ScreenTables, ScreenHeld, ScreenDialogs, Checking, AtWork, Working
    <3> QED BY <3>4, <3>5 DEF ScreenInv
  <2>2. CASE ~Screen!Call(touched, "finished")
    <3>1. /\ pc' = "blocked" /\ failed' = "reset" /\ Screen!Still
          /\ UNCHANGED <<back, next, ready, expired, touched, cached, job, got, runs, base>>
      BY <1>5, <2>2 DEF Screen!Finish, Screen!kept
    <3>2. WorldTypes' /\ UNCHANGED <<win, held, table, closing, asked, serial, events>>
      BY <3>1, WorldStill
    <3>3. ScreenTypes'
      <4>1. pc' \in Screen!Steps /\ failed' \in {"none", "request", "reset"}
        BY <3>1 DEF Screen!Steps
      <4> QED BY <1>0, <3>1, <3>2, <4>1, Zenon DEF ScreenTypes, ControlTypes, KeptTypes, ResultTypes
    <3>4. ScreenPlaces' /\ ScreenTables' /\ ScreenHeld' /\ ScreenDialogs'
      BY <3>1, <3>2 DEF ScreenInv, ScreenPlaces, ScreenTables, ScreenHeld, ScreenDialogs, Checking, AtWork, Working
    <3> QED BY <3>3, <3>4 DEF ScreenInv
  <2> QED BY <2>1, <2>2
<1>6. CASE Screen!Finished
  <2>1. /\ pc = "finished" /\ touched' = FALSE /\ pc' \in {"blocked", "idle"} /\ Screen!Still
        /\ UNCHANGED <<back, next, ready, expired, cached, job, got, failed, runs, base>>
    BY <1>6 DEF Screen!Finished, Screen!results
  <2>2. WorldTypes' /\ UNCHANGED <<win, held, table, closing, asked, serial, events>>
    BY <2>1, WorldStill
  <2>3. ScreenTypes'
    <3>1. pc' \in Screen!Steps /\ touched' \in BOOLEAN
      BY <2>1 DEF Screen!Steps
    <3> QED BY <1>0, <2>1, <2>2, <3>1, Zenon DEF ScreenTypes, ControlTypes, KeptTypes, ResultTypes
  <2>4. ScreenPlaces' /\ ScreenTables' /\ ScreenHeld' /\ ScreenDialogs'
    BY <2>1, <2>2 DEF ScreenInv, ScreenPlaces, ScreenTables, ScreenHeld, ScreenDialogs, Checking, AtWork, Working
  <2> QED BY <2>3, <2>4 DEF ScreenInv
<1> QED BY <1>3, <1>4, <1>5, <1>6

\* A deadline passes.
LEMMA ScreenExpires ==
  ASSUME ScreenInv, Screen!Expire
  PROVE  ScreenInv'
<1>1. expired' = TRUE /\ Screen!Still /\ UNCHANGED <<pc, back, next, ready, touched, cached, job, got, failed, runs, base>>
  BY DEF Screen!Expire, Screen!kept, Screen!results, Screen!Still
<1>2. WorldTypes' /\ UNCHANGED <<win, held, table, closing, asked, serial, events>>
  BY <1>1, WorldStill
<1>3. ScreenTypes'
  <2>1. expired' \in BOOLEAN
    BY <1>1
  <2> QED BY <1>1, <1>2, <2>1, Zenon DEF ScreenInv, ScreenTypes, ControlTypes, KeptTypes, ResultTypes
<1>4. ScreenPlaces' /\ ScreenTables' /\ ScreenHeld' /\ ScreenDialogs'
  BY <1>1, <1>2 DEF ScreenInv, ScreenPlaces, ScreenTables, ScreenHeld, ScreenDialogs, Checking, AtWork, Working
<1> QED BY <1>3, <1>4 DEF ScreenInv

\* Nothing of the screen changes.
LEMMA ScreenStutters == ScreenInv /\ UNCHANGED screenVars => ScreenInv'
<1> SUFFICES ASSUME ScreenInv, UNCHANGED screenVars PROVE ScreenInv'
  OBVIOUS
<1>1. UNCHANGED <<pc, back, next, ready, expired, touched, cached, job, got, failed, runs, win, held, table, closing, asked,
                  serial, base, events>>
  BY DEF screenVars
<1>2. ControlTypes' /\ KeptTypes' /\ ResultTypes'
  BY <1>1, Zenon DEF ScreenInv, ScreenTypes, ControlTypes, KeptTypes, ResultTypes
<1>3. WorldTypes'
  BY <1>1, Zenon DEF ScreenInv, ScreenTypes, WorldTypes
<1>4. ScreenPlaces' /\ ScreenTables' /\ ScreenHeld' /\ ScreenDialogs'
  BY <1>1 DEF ScreenInv, ScreenPlaces, ScreenTables, ScreenHeld, ScreenDialogs, Checking, AtWork
<1> QED BY <1>2, <1>3, <1>4 DEF ScreenInv, ScreenTypes

\* A worker that begins has nothing on the screen under way.
LEMMA ScreenBegins == Screen!Init => ScreenInv
<1> SUFFICES ASSUME Screen!Init PROVE ScreenInv
  OBVIOUS
<1>1. ControlTypes /\ KeptTypes
  BY DEF Screen!Init, ControlTypes, KeptTypes, Screen!Steps, Screen!Loop, Screen!NoTable, Tables
<1>2. ResultTypes
  BY ScreenBounds DEF Screen!Init, ResultTypes, Screen!Nothing, Screen!NoTable, Tables
<1>3. WorldTypes
  <2>1. table \in Tables
    <3>1. PICK v \in BOOLEAN, f \in BOOLEAN : table = [object |-> 1, valid |-> v, full |-> v /\ f]
      BY Zenon DEF Screen!Init
    <3>2. 1 \in Nat /\ (v /\ f) \in BOOLEAN
      OBVIOUS
    <3> QED BY <3>1, <3>2, Zenon DEF Tables
  <2>2. win \in ScreenWindows /\ held \in [bridge : BOOLEAN, person : BOOLEAN]
    BY DEF Screen!Init, ScreenWindows
  <2> QED BY <2>1, <2>2 DEF Screen!Init, WorldTypes
<1>4. ScreenPlaces /\ ScreenHeld /\ ScreenDialogs /\ ScreenTables
  BY DEF Screen!Init, ScreenPlaces, ScreenHeld, ScreenDialogs, ScreenTables, Screen!Nothing, Checking, AtWork, Working
<1> QED BY <1>1, <1>2, <1>3, <1>4 DEF ScreenInv, ScreenTypes

\* Every step of the worker and of the desktop keeps the invariant.
LEMMA ScreenMoves == ScreenInv /\ Screen!Next => ScreenInv'
  BY ScreenWorld, ScreenReady, ScreenBaseline, ScreenGrid, ScreenBalance, ScreenExecute, ScreenExpires
     DEF Screen!Next, Screen!Run

=============================================================================
