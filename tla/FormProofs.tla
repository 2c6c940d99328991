----------------------------- MODULE FormProofs -----------------------------
(***************************************************************************)
(* The other two parts of MCOrders, the order form and the rows of the     *)
(* local list, proved for every bound.                                     *)
(***************************************************************************)
EXTENDS OrdersProofs

(***************************************************************************)
(* The order form.  From the moment the dialog is confirmed nothing but    *)
(* the operation can create a row, and until the button nothing newer than *)
(* the cursor is the operation's; in restore the fields passed over are    *)
(* those of the form that was read.                                        *)
(***************************************************************************)
FormPcs == {"idle", "snapshot", "fill", "filled", "button", "opening", "confirm", "press", "bind",
            "validate", "send", "close", "delete", "restore", "restoring", "finish"}

\* Before PressOK the operation has no row.
NoRowYet == {"snapshot", "fill", "filled", "button", "opening", "confirm", "press"}

RowType == [id : Nat, form : Form!Forms, manual : BOOLEAN, mine : BOOLEAN]

\* The types, one by one.
FormFlags ==
  /\ pending \in BOOLEAN /\ market_dialog \in BOOLEAN /\ blocked \in BOOLEAN
  /\ leftover \in BOOLEAN /\ meddled \in BOOLEAN
FormScalars ==
  /\ form_pc \in FormPcs
  /\ last_id \in Nat /\ cursor \in 0 .. last_id /\ owned_row \in 0 .. last_id
  /\ effect \in {"none", "unknown", "submitted"}
  /\ error \in {"none", "request", "reset", "timeout", "unknown"}
FormData ==
  /\ form \in Form!Forms /\ form_state \in Form!Forms \cup {Form!NoForm}
  /\ request \in Form!Requests \cup {Form!NoForm} /\ dialog \in Form!Dialogs
  /\ list \subseteq RowType /\ \A r \in list : r.id \in 1 .. last_id

\* The fields still to enter, and what the steps say of the form that was read.
Todos == {SubSeq(Form!Order, n, Len(Form!Order)) : n \in 1 .. Len(Form!Order) + 1}
Fields(s) == {s[i] : i \in DOMAIN s}
Progress ==
  /\ todo \in Todos
  /\ form_pc # "idle" => request \in Form!Requests
  /\ form_pc \in {"filled", "restoring"} => todo # <<>>
  /\ form_pc \in {"restore", "restoring"} => form_state # Form!NoForm
  /\ form_pc \in {"restore", "restoring"} /\ ~meddled =>
       \A f \in Form!Fields \ Fields(todo) : form[f] = form_state[f]
  /\ form_pc \in {"finish", "idle"} /\ ~blocked /\ ~meddled /\ form_state # Form!NoForm => form = form_state

\* One dialog at a time, and none to come once the operation has seen its own.
DialogInv ==
  /\ dialog # Form!NoDialog => ~pending
  /\ form_pc \in {"confirm", "press", "bind", "validate", "send"} => ~pending
  /\ form_pc = "press" /\ dialog # Form!NoDialog => Form!OwnDialog
  /\ form_pc \in {"bind", "validate", "send"} => dialog = Form!NoDialog

\* The row the operation creates is the request's, and so is what it sends.
OwnRow ==
  /\ form_pc \in NoRowYet => ~leftover
  /\ form_pc \in {"opening", "confirm", "press"} => \A r \in list : r.mine => r.id <= cursor
  /\ leftover => \A r \in list : (r.mine /\ r.id > cursor) => Form!Summarised(r.form, request)
  /\ form_pc \in {"bind", "validate", "send"} => \E r \in list : r.mine /\ r.id > cursor
  /\ form_pc = "send" => Form!Valid
  /\ \A s \in sent : s.row = s.request

\* A row that may stay is either known, so that the clean-up deletes it, or the executor stops.
Unresolved == error # "none" /\ effect = "unknown" /\ owned_row = 0
Answered ==
  /\ form_pc \in {"snapshot", "fill", "filled", "button", "opening"} => effect = "none" /\ owned_row = 0
  /\ form_pc \in {"confirm", "press", "bind"} => effect = "unknown" /\ owned_row = 0
  /\ form_pc \in {"validate", "send"} => owned_row # 0
  /\ form_pc \in {"close", "delete"} /\ leftover => owned_row # 0 \/ Unresolved
  /\ form_pc \in {"restore", "restoring", "finish"} /\ leftover => blocked \/ Unresolved
  /\ form_pc = "idle" /\ leftover => blocked

\* The ghost leftover tells the truth about the list: once the operation is past its dialog, a
\* row of its own is there only if leftover says so, and the row to delete is that row.
NoneOwn == \A r \in list : r.mine => r.id <= cursor
LeftoverIsTrue ==
  /\ form_pc \in {"bind", "validate", "send"} => leftover
  /\ form_pc \in {"validate", "send", "close", "delete"} /\ owned_row # 0 =>
       \A r \in list : (r.mine /\ r.id > cursor) => r.id = owned_row
  /\ form_pc \in {"close", "delete", "restore", "restoring", "finish"} /\ effect # "none" /\ ~leftover => NoneOwn

FormInv ==
  /\ FormFlags /\ FormScalars /\ FormData /\ Progress /\ DialogInv /\ OwnRow /\ LeftoverIsTrue /\ Answered


\* What an exception and a failed clean-up leave behind.
LEMMA Refused ==
  ASSUME NEW at, Form!Refuse(at)
  PROVE  /\ form_pc = at /\ form_pc' \in {"close", "finish"} /\ error' \in {"request", "reset"}
         /\ form_pc' = "close" => at \in {"fill", "filled"} /\ blocked' = blocked /\ error' = "request"
         /\ form_pc' = "finish" => at \notin {"fill", "filled"} /\ blocked' = TRUE
         /\ UNCHANGED <<runs, events, sent>>
BY DEF Form!Refuse, Form!Raise, Form!CleanupFails, Form!Goto

\* Every step keeps the flags Boolean.
LEMMA FormFlagsStep ==
  ASSUME FormFlags, Form!Next
  PROVE  FormFlags'
<1> USE DEF FormFlags, Form!Goto, Form!Raise, Form!CleanupFails, Form!screen, Form!rows, Form!operation
<1>1. CASE Form!Begin
  BY <1>1, Zenon DEF Form!Begin
<1>2. CASE Form!Snapshot \/ Form!OpenPreorder
  BY <1>2, Zenon DEF Form!Snapshot, Form!OpenPreorder
<1>3. ASSUME NEW at, NEW read, Form!Enter(at, read)
      PROVE  FormFlags'
  BY <1>3, Zenon DEF Form!Enter, Form!Refuse
<1>4. ASSUME NEW at, NEW return, Form!ReadBack(at, return)
      PROVE  FormFlags'
  BY <1>4, Zenon DEF Form!ReadBack, Form!Refuse
<1>5. CASE Form!PressButton \/ Form!Opened
  BY <1>5, Zenon DEF Form!PressButton, Form!Opened
<1>6. CASE Form!Confirm \/ Form!PressOK
  BY <1>6, Zenon DEF Form!Confirm, Form!PressOK
<1>7. CASE Form!Bind \/ Form!ValidatePreorder \/ Form!SendLocal
  BY <1>7, Zenon DEF Form!Bind, Form!ValidatePreorder, Form!SendLocal
<1>8. CASE Form!CloseDialog
  BY <1>8, Zenon DEF Form!CloseDialog
<1>9. CASE Form!Cleanup
  <2>1. leftover' \in BOOLEAN /\ blocked' \in {TRUE, blocked}
    BY <1>9, Zenon DEF Form!Cleanup
  <2> QED BY <1>9, <2>1, Zenon DEF Form!Cleanup
<1>10. CASE Form!Restored
  BY <1>10, Zenon DEF Form!Restored
<1>11. CASE Form!Finish \/ Form!Resume
  BY <1>11, Zenon DEF Form!Finish, Form!Resume
<1>12. CASE Form!Appear \/ Form!Person
  BY <1>12, Zenon DEF Form!Appear, Form!Person
<1> QED BY <1>1, <1>2, <1>3, <1>4, <1>5, <1>6, <1>7, <1>8, <1>9, <1>10, <1>11, <1>12
        DEF Form!Next, Form!Operation

\* Every step keeps the types of the plain variables.
LEMMA FormScalarsStep ==
  ASSUME FormScalars, FormData, Form!Next
  PROVE  FormScalars'
<1> USE DEF FormScalars, FormPcs, Form!Goto, Form!Raise, Form!CleanupFails, Form!screen, Form!rows, Form!operation
<1>1. CASE Form!Begin
  BY <1>1 DEF Form!Begin
<1>2. CASE Form!Snapshot \/ Form!OpenPreorder
  BY <1>2 DEF Form!Snapshot, Form!OpenPreorder
<1>3. ASSUME NEW at, NEW read, Form!Enter(at, read), at \in {"fill", "restore"}, read \in {"filled", "restoring"}
      PROVE  FormScalars'
  <2>1. error' \in {"request", "reset"} \cup {error} /\ blocked' \in {TRUE, blocked} /\ form_pc' \in {at, read, "close", "finish"}
    BY <1>3, Refused DEF Form!Enter
  <2>2. UNCHANGED <<pending, last_id, leftover, market_dialog, cursor, owned_row, effect, meddled>>
    BY <1>3 DEF Form!Enter
  <2> QED BY <1>3, <2>1, <2>2
<1>4. ASSUME NEW at, NEW return, Form!ReadBack(at, return), return \in {"fill", "restore"}
      PROVE  FormScalars'
  <2>1. error' \in {"request", "reset"} \cup {error} /\ blocked' \in {TRUE, blocked} /\ form_pc' \in {return, "close", "finish"}
    BY <1>4, Refused DEF Form!ReadBack
  <2>2. UNCHANGED <<pending, last_id, leftover, market_dialog, cursor, owned_row, effect, meddled>>
    BY <1>4 DEF Form!ReadBack
  <2> QED BY <1>4, <2>1, <2>2
<1>5. CASE Form!PressButton \/ Form!Opened
  BY <1>5 DEF Form!PressButton, Form!Opened
<1>6. CASE Form!Confirm
  BY <1>6 DEF Form!Confirm
<1>7. CASE Form!PressOK
  <2>1. last_id' \in {last_id, last_id + 1} /\ form_pc' \in {"bind", "close"} /\ error' \in {error, "timeout", "reset"}
    BY <1>7, Zenon DEF Form!PressOK
  <2>2. UNCHANGED <<cursor, owned_row, effect>>
    BY <1>7 DEF Form!PressOK
  <2> QED BY <2>1, <2>2
<1>8. CASE Form!Bind
  BY <1>8 DEF Form!Bind, FormData, Form!Owned, Form!New
<1>9. CASE Form!ValidatePreorder \/ Form!SendLocal
  BY <1>9 DEF Form!ValidatePreorder, Form!SendLocal
<1>10. CASE Form!CloseDialog \/ Form!Cleanup
  BY <1>10 DEF Form!CloseDialog, Form!Cleanup
<1>11. CASE Form!Restored
  BY <1>11 DEF Form!Restored
<1>12. CASE Form!Finish \/ Form!Resume
  BY <1>12 DEF Form!Finish, Form!Resume
<1>13. CASE Form!Appear \/ Form!Person
  <2>1. last_id' \in {last_id, last_id + 1} /\ UNCHANGED <<form_pc, cursor, owned_row, effect, error>>
    BY <1>13, Zenon DEF Form!Appear, Form!Person
  <2> QED BY <2>1
<1> QED BY <1>1, <1>2, <1>3, <1>4, <1>5, <1>6, <1>7, <1>8, <1>9, <1>10, <1>11, <1>12, <1>13
        DEF Form!Next, Form!Operation

\* The values of the fields.
LEMMA FormsAre ==
  /\ Form!Requests \subseteq Form!Forms
  /\ Form!Fields = {"instrument", "volume", "price", "choice", "time_mode"}
  /\ \A g \in Form!Forms, f \in Form!Fields, v \in Form!Values : [g EXCEPT ![f] = v] \in Form!Forms
BY DEF Form!Requests, Form!Forms, Form!Fields, Form!Edits, Form!Values

\* The values a step may enter.
LEMMA Enters ==
  ASSUME FormData, NEW f \in Form!Fields, NEW v \in Form!Values, NEW g \in Form!Entered(f, v)
  PROVE  /\ g \in Form!Forms /\ g[f] = v
         /\ \A h \in Form!Fields \ {f} : (h \in {"volume", "price"} /\ f = "instrument") \/ g[h] = form[h]
<1>1. form \in [Form!Fields -> Form!Values]
  BY DEF FormData, Form!Forms
<1>2. CASE f # "instrument"
  <2>1. g = [form EXCEPT ![f] = v]
    BY <1>2 DEF Form!Entered
  <2> QED BY <1>1, <1>2, <2>1 DEF Form!Forms
<1>3. CASE f = "instrument"
  <2>1. PICK n \in Form!Values, p \in Form!Values :
          g = [form EXCEPT !["instrument"] = v, !["volume"] = n, !["price"] = p]
    BY <1>3 DEF Form!Entered
  <2>2. g = [h \in Form!Fields |-> IF h = "price" THEN p ELSE IF h = "volume" THEN n
                                   ELSE IF h = "instrument" THEN v ELSE form[h]]
    BY <1>1, <2>1
  <2> QED BY <1>1, <1>3, <2>2, FormsAre DEF Form!Forms
<1> QED BY <1>2, <1>3

\* A new row, made of what the dialog shows.
LEMMA NewRowMade ==
  ASSUME FormScalars, FormData, dialog # Form!NoDialog, NEW m \in BOOLEAN
  PROVE  /\ Form!NewRow(m) \in RowType /\ Form!NewRow(m).id = last_id + 1 /\ Form!NewRow(m).mine = m
         /\ Form!NewRow(m).form = dialog.form
<1>1. dialog.form \in Form!Forms /\ dialog.manual \in BOOLEAN
  BY Zenon DEF FormData, Form!Dialogs
<1>2. last_id + 1 \in Nat
  BY DEF FormScalars
<1> QED BY <1>1, <1>2, Zenon DEF Form!NewRow, RowType

\* The list with it is well typed.
LEMMA RowAdded ==
  ASSUME FormScalars, FormData, dialog # Form!NoDialog, NEW m \in BOOLEAN,
         list' = list \cup {Form!NewRow(m)}, last_id' = last_id + 1
  PROVE  list' \subseteq RowType /\ \A r \in list' : r.id \in 1 .. last_id'
<1> DEFINE n == Form!NewRow(m)
<1>1. n \in RowType /\ n.id = last_id + 1
  BY NewRowMade
<1> HIDE DEF n
<1>2. list' = list \cup {n}
  BY DEF n
<1>3. list' \subseteq RowType
  BY <1>1, <1>2 DEF FormData
<1>4. \A r \in list : r.id \in 1 .. last_id'
  BY DEF FormData, FormScalars
<1>5. n.id \in 1 .. last_id'
  BY <1>1 DEF FormScalars
<1> QED BY <1>2, <1>3, <1>4, <1>5

\* The fields are entered in one order, and the instrument, which disturbs others, is the first.
LEMMA TodosAre ==
  /\ Form!Order \in Todos /\ Fields(<<>>) = {}
  /\ \A s \in Todos : s # <<>> =>
       /\ Tail(s) \in Todos /\ Head(s) \in Form!Fields
       /\ Fields(s) = {Head(s)} \cup Fields(Tail(s))
       /\ Head(s) = "instrument" => {"volume", "price"} \subseteq Fields(Tail(s))
<1> DEFINE N == 1 .. 6
<1>1. Form!Order \in Seq(Form!Fields) /\ Len(Form!Order) = 5
  BY FormsAre DEF Form!Order
<1>2. \A n \in N : /\ SubSeq(Form!Order, n, 5) \in Seq(Form!Fields) /\ Len(SubSeq(Form!Order, n, 5)) = 6 - n
                   /\ \A i \in 1 .. 6 - n : SubSeq(Form!Order, n, 5)[i] = Form!Order[n + i - 1]
  <2> SUFFICES ASSUME NEW n \in N
               PROVE  /\ SubSeq(Form!Order, n, 5) \in Seq(Form!Fields) /\ Len(SubSeq(Form!Order, n, 5)) = 6 - n
                      /\ \A i \in 1 .. 6 - n : SubSeq(Form!Order, n, 5)[i] = Form!Order[n + i - 1]
    OBVIOUS
  <2>1. n \in Int /\ 5 \in Int /\ \A i \in n .. 5 : Form!Order[i] \in Form!Fields
    BY <1>1, ElementOfSeq
  <2> HIDE DEF N
  <2>2. /\ SubSeq(Form!Order, n, 5) \in Seq(Form!Fields)
        /\ Len(SubSeq(Form!Order, n, 5)) = IF n <= 5 THEN 5 - n + 1 ELSE 0
        /\ \A i \in 1 .. 5 - n + 1 : SubSeq(Form!Order, n, 5)[i] = Form!Order[n + i - 1]
    BY <1>1, <2>1, SubSeqProperties
  <2> QED BY <2>2 DEF N
<1>3. Todos = {SubSeq(Form!Order, n, 5) : n \in N}
  BY <1>1 DEF Todos
<1>4. SubSeq(Form!Order, 1, 5) = Form!Order
  BY <1>1, <1>2
<1>5. ASSUME NEW n \in N, SubSeq(Form!Order, n, 5) # <<>>
      PROVE  n # 6 /\ Tail(SubSeq(Form!Order, n, 5)) = SubSeq(Form!Order, n + 1, 5)
             /\ Head(SubSeq(Form!Order, n, 5)) = Form!Order[n]
  <2> DEFINE s == SubSeq(Form!Order, n, 5)
             t == SubSeq(Form!Order, n + 1, 5)
  <2>1. n # 6
    BY <1>2, <1>5
  <2>2. n + 1 \in N
    BY <2>1
  <2>3. /\ s \in Seq(Form!Fields) /\ s # <<>> /\ Len(s) = 6 - n /\ s[1] = Form!Order[n]
        /\ \A i \in 1 .. 6 - n : s[i] = Form!Order[n + i - 1]
    BY <1>2, <1>5, <2>1
  <2>4. t \in Seq(Form!Fields) /\ Len(t) = 5 - n /\ \A i \in 1 .. 5 - n : t[i] = Form!Order[n + i]
    BY <1>2, <2>2
  <2> HIDE DEF s, t
  <2>5. /\ Tail(s) \in Seq(Form!Fields) /\ Len(Tail(s)) = 5 - n
        /\ \A i \in 1 .. 5 - n : Tail(s)[i] = s[i + 1]
    BY <2>3, HeadTailProperties
  <2>6. \A i \in 1 .. 5 - n : Tail(s)[i] = t[i]
    BY <2>3, <2>4, <2>5
  <2>7. Tail(s) = t
    BY <2>4, <2>5, <2>6, SeqEqual
  <2>8. Head(s) = Form!Order[n]
    BY <2>3
  <2> QED BY <2>1, <2>7, <2>8 DEF s, t
<1> DEFINE S(n) == {Form!Order[j] : j \in n .. 5}
<1>6. ASSUME NEW n \in N
      PROVE  Fields(SubSeq(Form!Order, n, 5)) = S(n)
  <2>1. DOMAIN SubSeq(Form!Order, n, 5) = 1 .. 6 - n
    BY <1>2
  <2>2. Fields(SubSeq(Form!Order, n, 5)) = {Form!Order[n + i - 1] : i \in 1 .. 6 - n}
    <3>1. Fields(SubSeq(Form!Order, n, 5)) = {SubSeq(Form!Order, n, 5)[i] : i \in 1 .. 6 - n}
      BY <2>1 DEF Fields
    <3>2. \A i \in 1 .. 6 - n : SubSeq(Form!Order, n, 5)[i] = Form!Order[n + i - 1]
      BY <1>2
    <3> QED BY <3>1, <3>2
  <2>3. \A j \in n .. 5 : j - n + 1 \in 1 .. 6 - n /\ n + (j - n + 1) - 1 = j
    OBVIOUS
  <2>4. \A i \in 1 .. 6 - n : n + i - 1 \in n .. 5
    OBVIOUS
  <2> QED BY <2>2, <2>3, <2>4
<1>7. \A n \in 1 .. 5 : S(n) = {Form!Order[n]} \cup S(n + 1)
  OBVIOUS
<1>8. \A n \in 1 .. 5 : Form!Order[n] = "instrument" => n = 1
  BY DEF Form!Order
<1>9. "volume" \in S(2) /\ "price" \in S(2)
  <2>1. Form!Order[3] = "volume" /\ Form!Order[4] = "price"
    BY DEF Form!Order
  <2> QED BY <2>1
<1>10. ASSUME NEW s \in Todos, s # <<>>
       PROVE  /\ Tail(s) \in Todos /\ Head(s) \in Form!Fields
              /\ Fields(s) = {Head(s)} \cup Fields(Tail(s))
              /\ Head(s) = "instrument" => {"volume", "price"} \subseteq Fields(Tail(s))
  <2>1. PICK n \in N : s = SubSeq(Form!Order, n, 5)
    BY <1>3
  <2>2. n \in 1 .. 5 /\ n + 1 \in N /\ Tail(s) = SubSeq(Form!Order, n + 1, 5) /\ Head(s) = Form!Order[n]
    BY <1>5, <1>10, <2>1
  <2>3. Fields(s) = S(n) /\ Fields(Tail(s)) = S(n + 1)
    BY <1>6, <2>1, <2>2
  <2>4. Head(s) \in Form!Fields
    BY <1>1, <2>2, ElementOfSeq
  <2>5. Head(s) = "instrument" => Fields(Tail(s)) = S(2)
    BY <1>8, <2>2, <2>3
  <2>6. Tail(s) \in Todos
    BY <1>3, <2>2
  <2> HIDE DEF S
  <2> QED BY <1>7, <1>9, <2>2, <2>3, <2>4, <2>5, <2>6
<1>11. Form!Order \in Todos
  BY <1>3, <1>4
<1>12. Fields(<<>>) = {}
  BY DEF Fields
<1> QED BY <1>10, <1>11, <1>12

\* The value to enter is a value.
LEMMA WantedIs ==
  ASSUME FormData, Progress, form_pc \in {"fill", "filled", "restore", "restoring"}, todo # <<>>
  PROVE  Form!Field \in Form!Fields /\ Form!Wanted[Form!Field] \in Form!Values
<1>1. Form!Field \in Form!Fields
  BY TodosAre DEF Progress, Form!Field
<1>2. Form!Wanted \in Form!Forms
  BY FormsAre DEF FormData, Progress, Form!Wanted
<1> QED BY <1>1, <1>2 DEF Form!Forms

\* A step on one field, in fill or in restore: the field holds its value and is done with, it is
\* entered, or the operation cannot go on.
FieldSteps ==
  \/ Form!Enter("fill", "filled") \/ Form!ReadBack("filled", "fill")
  \/ Form!Enter("restore", "restoring") \/ Form!ReadBack("restoring", "restore")
Filling == form_pc \in {"fill", "filled"}
FieldDone ==
  /\ todo # <<>> /\ form[Form!Field] = Form!Wanted[Form!Field] /\ todo' = Tail(todo)
  /\ form_pc' = IF Filling THEN "fill" ELSE "restore"
  /\ UNCHANGED <<form, error, blocked>>
FieldEntered ==
  /\ todo # <<>> /\ form' \in Form!Entered(Form!Field, Form!Wanted[Form!Field])
  /\ form_pc' = IF Filling THEN "filled" ELSE "restoring"
  /\ UNCHANGED <<todo, error, blocked>>
FieldRefused ==
  /\ UNCHANGED <<form, todo>>
  /\ IF Filling THEN form_pc' = "close" /\ error' = "request" /\ UNCHANGED blocked
     ELSE form_pc' = "finish" /\ error' = "reset" /\ blocked' = TRUE

\* It has no other outcome.
LEMMA FieldOutcomes ==
  ASSUME Progress, FieldSteps
  PROVE  /\ form_pc \in {"fill", "filled", "restore", "restoring"}
         /\ UNCHANGED <<dialog, pending, list, last_id, leftover, request, form_state, market_dialog, cursor,
                        owned_row, effect, meddled, sent>>
         /\ FieldDone \/ FieldEntered \/ FieldRefused
<1> USE DEF Form!Goto, Form!rows, Form!screen
<1>1. ASSUME NEW at \in {"fill", "restore"}, NEW read, Form!Enter(at, read),
             read = IF at = "fill" THEN "filled" ELSE "restoring"
      PROVE  /\ form_pc = at
             /\ UNCHANGED <<dialog, pending, list, last_id, leftover, request, form_state, market_dialog, cursor,
                            owned_row, effect, meddled, sent>>
             /\ FieldDone \/ FieldEntered \/ FieldRefused
  <2>1. /\ form_pc = at
        /\ UNCHANGED <<dialog, pending, list, last_id, leftover, request, form_state, market_dialog, cursor,
                       owned_row, effect, meddled, sent>>
    BY <1>1, Refused DEF Form!Enter
  <2> QED BY <1>1, <2>1, Refused DEF Form!Enter, Form!Skipped, FieldDone, FieldEntered, FieldRefused, Filling,
             Form!Refuse, Form!Raise, Form!CleanupFails
<1>2. ASSUME NEW at \in {"filled", "restoring"}, NEW return, Form!ReadBack(at, return),
             return = IF at = "filled" THEN "fill" ELSE "restore"
      PROVE  /\ form_pc = at
             /\ UNCHANGED <<dialog, pending, list, last_id, leftover, request, form_state, market_dialog, cursor,
                            owned_row, effect, meddled, sent>>
             /\ FieldDone \/ FieldEntered \/ FieldRefused
  <2>1. /\ form_pc = at /\ todo # <<>>
        /\ UNCHANGED <<dialog, pending, list, last_id, leftover, request, form_state, market_dialog, cursor,
                       owned_row, effect, meddled, sent>>
    BY <1>2, Refused DEF Form!ReadBack, Progress
  <2> QED BY <1>2, <2>1, Refused DEF Form!ReadBack, FieldDone, FieldEntered, FieldRefused, Filling,
             Form!Refuse, Form!Raise, Form!CleanupFails
<1> QED BY <1>1, <1>2 DEF FieldSteps

\* Every step keeps the types of forms, dialogs and rows.
LEMMA FormDataStep ==
  ASSUME FormScalars, FormData, Progress, Form!Next
  PROVE  FormData'
<1> USE DEF Form!Goto, Form!Raise, Form!CleanupFails, Form!screen, Form!rows, Form!operation
<1> DEFINE Kept == UNCHANGED <<form, form_state, request, dialog, list, last_id>>
<1>0. ASSUME Kept PROVE FormData'
  BY <1>0 DEF FormData, RowType
<1>1. CASE Form!Begin
  BY <1>1 DEF Form!Begin, FormData, RowType
<1>2. CASE Form!Snapshot
  BY <1>2 DEF Form!Snapshot, FormData, RowType
<1>3. CASE FieldSteps
  <2>1. UNCHANGED <<form_state, request, dialog, list, last_id>>
    BY <1>3, FieldOutcomes
  <2>2. form' \in Form!Forms
    <3>1. CASE UNCHANGED form
      BY <3>1 DEF FormData
    <3>2. CASE FieldEntered
      BY <1>3, <3>2, FieldOutcomes, WantedIs, Enters DEF FieldEntered
    <3> QED BY <1>3, <3>1, <3>2, FieldOutcomes DEF FieldDone, FieldRefused
  <2> QED BY <2>1, <2>2 DEF FormData, RowType
<1>4. CASE Form!OpenPreorder \/ Form!PressButton \/ Form!Opened
  <2>1. Kept
    BY <1>4, Zenon DEF Form!OpenPreorder, Form!PressButton, Form!Opened
  <2> QED BY <1>0, <2>1
<1>5. CASE Form!Confirm
  <2>1. UNCHANGED <<form, form_state, request, list, last_id>>
    BY <1>5 DEF Form!Confirm
  <2>2. dialog' \in Form!Dialogs
    <3>1. CASE dialog # Form!NoDialog /\ dialog' = [dialog EXCEPT !.manual = TRUE]
      <4>1. dialog \in [form : Form!Forms, manual : BOOLEAN]
        BY <3>1 DEF FormData, Form!Dialogs
      <4>2. dialog' = [form |-> dialog.form, manual |-> TRUE]
        BY <3>1, <4>1
      <4> QED BY <4>1, <4>2, Zenon DEF Form!Dialogs
    <3>2. CASE dialog' = dialog
      BY <3>2 DEF FormData
    <3> QED BY <1>5, <3>1, <3>2 DEF Form!Confirm
  <2> QED BY <2>1, <2>2 DEF FormData, RowType
<1>6. CASE Form!PressOK
  <2>1. UNCHANGED <<form, form_state, request>>
    BY <1>6 DEF Form!PressOK
  <2>2. dialog' \in Form!Dialogs
    BY <1>6, Zenon DEF Form!PressOK, FormData, Form!Dialogs
  <2>3. \/ UNCHANGED <<list, last_id>>
        \/ dialog # Form!NoDialog /\ list' = list \cup {Form!NewRow(TRUE)} /\ last_id' = last_id + 1
    BY <1>6, Zenon DEF Form!PressOK
  <2>4. list' \subseteq RowType /\ \A r \in list' : r.id \in 1 .. last_id'
    BY <2>3, RowAdded DEF FormData
  <2> QED BY <2>1, <2>2, <2>4 DEF FormData, RowType
<1>7. CASE Form!Bind \/ Form!ValidatePreorder \/ Form!SendLocal
  <2>1. Kept
    BY <1>7, Zenon DEF Form!Bind, Form!ValidatePreorder, Form!SendLocal
  <2> QED BY <1>0, <2>1
<1>8. CASE Form!CloseDialog
  BY <1>8 DEF Form!CloseDialog, FormData, Form!Dialogs, RowType
<1>9. CASE Form!Cleanup
  BY <1>9 DEF Form!Cleanup, FormData, RowType
<1>10. CASE Form!Restored \/ Form!Finish \/ Form!Resume
  <2>1. Kept
    BY <1>10, Zenon DEF Form!Restored, Form!Finish, Form!Resume
  <2> QED BY <1>0, <2>1
<1>11. CASE Form!Appear
  <2>1. PICK m \in BOOLEAN : dialog' = [form |-> form, manual |-> m]
    BY <1>11 DEF Form!Appear
  <2>2. dialog' \in Form!Dialogs
    BY <2>1, Zenon DEF FormData, Form!Dialogs
  <2> QED BY <1>11, <2>2 DEF Form!Appear, FormData, RowType
<1>12. CASE Form!Person
  <2>1. UNCHANGED <<form_state, request>>
    BY <1>12 DEF Form!Person
  <2>2. CASE dialog = Form!NoDialog
    <3>1. PICK f \in Form!Fields, v \in Form!Values : form' = [form EXCEPT ![f] = v]
      BY <1>12, <2>2 DEF Form!Person
    <3>2. form' \in Form!Forms
      BY <3>1, FormsAre DEF FormData
    <3>3. UNCHANGED <<dialog, list, last_id>>
      BY <1>12, <2>2 DEF Form!Person
    <3> QED BY <2>1, <3>2, <3>3 DEF FormData, RowType
  <2>3. CASE dialog # Form!NoDialog
    <3>1. dialog' = Form!NoDialog /\ form' = form
      BY <1>12, <2>3 DEF Form!Person
    <3>2. \/ UNCHANGED <<list, last_id>>
          \/ list' = list \cup {Form!NewRow(FALSE)} /\ last_id' = last_id + 1
      BY <1>12, <2>3 DEF Form!Person
    <3>3. list' \subseteq RowType /\ \A r \in list' : r.id \in 1 .. last_id'
      BY <2>3, <3>2, RowAdded DEF FormData
    <3> QED BY <2>1, <3>1, <3>3 DEF FormData, RowType, Form!Dialogs
  <2> QED BY <2>2, <2>3
<1> QED BY <1>1, <1>2, <1>3, <1>4, <1>5, <1>6, <1>7, <1>8, <1>9, <1>10, <1>11, <1>12
        DEF Form!Next, Form!Operation, FieldSteps

\* What fill and restore have done so far.
LEMMA ProgressStep ==
  ASSUME FormFlags, FormScalars, FormData, Progress, Form!Next
  PROVE  Progress'
<1> USE DEF Form!Goto, Form!Raise, Form!CleanupFails, Form!screen, Form!rows, Form!operation
<1>1. CASE Form!Begin
  <2>1. todo' = todo /\ request' \in Form!Requests /\ form_state' = Form!NoForm /\ form_pc' \in {"snapshot", "idle"}
    BY <1>1 DEF Form!Begin
  <2> QED BY <2>1 DEF Progress
<1>2. CASE Form!Snapshot
  <2>1. todo' \in {todo, Form!Order} /\ form_pc = "snapshot" /\ form_pc' \in {"fill", "close"} /\ UNCHANGED request
    BY <1>2 DEF Form!Snapshot
  <2> QED BY <2>1, TodosAre DEF Progress
<1>3. CASE FieldSteps
  <2>1. /\ form_pc \in {"fill", "filled", "restore", "restoring"} /\ UNCHANGED <<request, form_state, meddled>>
        /\ FieldDone \/ FieldEntered \/ FieldRefused
    BY <1>3, FieldOutcomes
  <2>2. CASE FieldRefused
    BY <2>1, <2>2 DEF FieldRefused, Progress, Filling
  <2>3. CASE FieldDone
    <3>1. todo' \in Todos /\ Fields(todo) = {Form!Field} \cup Fields(todo')
      BY <2>3, TodosAre DEF FieldDone, Progress, Form!Field
    <3>2. form_pc' \in {"restore", "restoring"} => ~Filling /\ Form!Wanted = form_state
      BY <2>1, <2>3 DEF FieldDone, Filling, Form!Wanted
    <3>3. form_pc' \in {"fill", "restore"} /\ form_pc' # "idle" /\ form' = form
      BY <2>3 DEF FieldDone
    <3>4. form_pc' = "restore" => form_pc \in {"restore", "restoring"} /\ form[Form!Field] = form_state[Form!Field]
      BY <2>1, <2>3, <3>2 DEF FieldDone, Filling
    <3> QED BY <2>1, <3>1, <3>3, <3>4 DEF Progress
  <2>4. CASE FieldEntered
    <3>1. todo \in Todos /\ todo # <<>> /\ todo' = todo /\ form_pc' \in {"filled", "restoring"}
      BY <2>4 DEF FieldEntered, Progress
    <3>2. /\ form' \in Form!Entered(Form!Field, Form!Wanted[Form!Field])
          /\ Form!Field \in Form!Fields /\ Form!Wanted[Form!Field] \in Form!Values
      BY <2>1, <2>4, <3>1, WantedIs DEF FieldEntered
    <3>3. \A h \in Form!Fields \ {Form!Field} :
            (h \in {"volume", "price"} /\ Form!Field = "instrument") \/ form'[h] = form[h]
      BY <3>2, Enters
    <3>4. /\ Form!Field \in Fields(todo)
          /\ Form!Field = "instrument" => {"volume", "price"} \subseteq Fields(todo)
      BY <3>1, TodosAre DEF Form!Field
    <3>5. \A h \in Form!Fields \ Fields(todo) : form'[h] = form[h]
      BY <3>3, <3>4
    <3>6. form_pc' = "restoring" => form_pc \in {"restore", "restoring"}
      BY <2>1, <2>4 DEF FieldEntered, Filling
    <3> QED BY <2>1, <3>1, <3>5, <3>6 DEF Progress
  <2> QED BY <2>1, <2>2, <2>3, <2>4
<1>4. CASE Form!OpenPreorder \/ Form!PressButton \/ Form!Opened \/ Form!Confirm
  <2>1. UNCHANGED <<todo, request>> /\ form_pc # "idle" /\ form_pc' \in {"button", "opening", "confirm", "press", "close"}
    BY <1>4, Zenon DEF Form!OpenPreorder, Form!PressButton, Form!Opened, Form!Confirm
  <2> QED BY <2>1 DEF Progress
<1>5. CASE Form!PressOK \/ Form!Bind \/ Form!ValidatePreorder \/ Form!SendLocal
  <2>1. UNCHANGED <<todo, request>> /\ form_pc # "idle" /\ form_pc' \in {"bind", "validate", "send", "close"}
    BY <1>5, Zenon DEF Form!PressOK, Form!Bind, Form!ValidatePreorder, Form!SendLocal
  <2> QED BY <2>1 DEF Progress
<1>6. CASE Form!CloseDialog
  BY <1>6 DEF Form!CloseDialog, Progress
<1>7. CASE Form!Cleanup
  <2>1. /\ todo' = Form!Order /\ form_pc = "delete" /\ UNCHANGED <<form, form_state, request>>
        /\ \/ form_pc' = "restore" /\ form_state # Form!NoForm
           \/ form_pc' = "finish" /\ (form_state = Form!NoForm \/ blocked')
    BY <1>7 DEF Form!Cleanup, Form!Readable
  <2>2. todo' \in Todos /\ Form!Fields \ Fields(todo') = {}
    <3>1. Form!Order \in Seq(Form!Fields) /\ DOMAIN Form!Order = 1 .. 5
      BY FormsAre DEF Form!Order
    <3>2. /\ Form!Order[1] = "instrument" /\ Form!Order[2] = "choice" /\ Form!Order[3] = "volume"
          /\ Form!Order[4] = "price" /\ Form!Order[5] = "time_mode"
      BY DEF Form!Order
    <3>3. Form!Fields \subseteq Fields(Form!Order)
      BY <3>1, <3>2, FormsAre DEF Fields
    <3> QED BY <2>1, <3>3, TodosAre
  <2> QED BY <2>1, <2>2 DEF Progress
<1>8. CASE Form!Restored
  <2>1. form_pc = "restore" /\ form_pc' = "finish" /\ UNCHANGED <<todo, request, form, form_state>>
        /\ (form = form_state \/ blocked')
    BY <1>8 DEF Form!Restored, Form!Same
  <2> QED BY <2>1 DEF Progress
<1>9. CASE Form!Finish
  <2>1. form_pc = "finish" /\ form_pc' = "idle" /\ UNCHANGED <<todo, request, form, form_state, meddled>>
    BY <1>9 DEF Form!Finish
  <2>2. blocked => blocked'
    BY <1>9, Zenon DEF Form!Finish
  <2> QED BY <2>1, <2>2 DEF Progress
<1>10. CASE Form!Resume
  BY <1>10 DEF Form!Resume, Progress
<1>11. CASE Form!Appear
  BY <1>11, Zenon DEF Form!Appear, Progress
<1>12. CASE Form!Person
  <2>1. meddled' = TRUE /\ UNCHANGED <<form_pc, todo, request, form_state>>
    BY <1>12 DEF Form!Person
  <2> QED BY <2>1 DEF Progress
<1> QED BY <1>1, <1>2, <1>3, <1>4, <1>5, <1>6, <1>7, <1>8, <1>9, <1>10, <1>11, <1>12
        DEF Form!Next, Form!Operation, FieldSteps

\* The dialog.
LEMMA DialogStep ==
  ASSUME FormFlags, FormScalars, FormData, Progress, DialogInv, Form!Next
  PROVE  DialogInv'
<1> USE DEF Form!Goto, Form!Raise, Form!CleanupFails, Form!screen, Form!rows, Form!operation
<1>0. ASSUME UNCHANGED <<dialog, pending>>, form_pc' \notin {"confirm", "press", "bind", "validate", "send"}
      PROVE  DialogInv'
  BY <1>0 DEF DialogInv
<1>1. CASE Form!Begin \/ Form!Snapshot
  BY <1>0, <1>1 DEF Form!Begin, Form!Snapshot
<1>2. CASE FieldSteps
  BY <1>0, <1>2, FieldOutcomes DEF FieldDone, FieldEntered, FieldRefused
<1>3. CASE Form!OpenPreorder
  BY <1>0, <1>3 DEF Form!OpenPreorder
<1>4. CASE Form!PressButton
  BY <1>4 DEF Form!PressButton, DialogInv
<1>5. CASE Form!Opened
  BY <1>5 DEF Form!Opened, DialogInv
<1>6. CASE Form!Confirm
  <2>1. UNCHANGED <<pending, request>> /\ form_pc = "confirm"
    BY <1>6 DEF Form!Confirm
  <2>2. CASE dialog # Form!NoDialog /\ Form!OwnDialog /\ form_pc' = "press" /\ dialog' = [dialog EXCEPT !.manual = TRUE]
    <3>1. dialog \in [form : Form!Forms, manual : BOOLEAN]
      BY <2>2 DEF FormData, Form!Dialogs
    <3>2. dialog' = [form |-> dialog.form, manual |-> TRUE]
      BY <2>2, <3>1
    <3>3. dialog'.form = dialog.form
      BY <3>2
    <3>4. Form!OwnDialog'
      BY <2>1, <2>2, <3>3 DEF Form!OwnDialog, Form!Summarised
    <3> QED BY <2>1, <2>2, <3>4 DEF DialogInv
  <2>3. CASE form_pc' = "close" /\ UNCHANGED dialog
    BY <2>1, <2>3 DEF DialogInv
  <2> QED BY <1>6, <2>2, <2>3 DEF Form!Confirm
<1>7. CASE Form!PressOK
  <2>1. form_pc = "press" /\ UNCHANGED pending /\ form_pc' \in {"bind", "close"}
    BY <1>7, Zenon DEF Form!PressOK
  <2>2. dialog' = Form!NoDialog \/ (form_pc' = "close" /\ dialog' = dialog)
    BY <1>7 DEF Form!PressOK
  <2> QED BY <2>1, <2>2 DEF DialogInv
<1>8. CASE Form!Bind \/ Form!ValidatePreorder \/ Form!SendLocal
  <2>1. UNCHANGED <<dialog, pending>> /\ form_pc \in {"bind", "validate", "send"} /\ form_pc' \in {"validate", "send", "close"}
    BY <1>8, Zenon DEF Form!Bind, Form!ValidatePreorder, Form!SendLocal
  <2> QED BY <2>1 DEF DialogInv
<1>9. CASE Form!CloseDialog
  BY <1>9 DEF Form!CloseDialog, DialogInv
<1>10. CASE Form!Cleanup \/ Form!Restored \/ Form!Finish \/ Form!Resume
  <2>1. UNCHANGED <<dialog, pending>> /\ form_pc' \in {"restore", "finish", "idle"}
    BY <1>10, Zenon DEF Form!Cleanup, Form!Restored, Form!Finish, Form!Resume
  <2> QED BY <1>0, <2>1
<1>11. CASE Form!Appear
  <2>1. pending /\ pending' = FALSE /\ UNCHANGED form_pc
    BY <1>11 DEF Form!Appear
  <2> QED BY <2>1 DEF DialogInv
<1>12. CASE Form!Person
  <2>1. UNCHANGED <<form_pc, pending, request>> /\ dialog' \in {dialog, Form!NoDialog}
    BY <1>12, Zenon DEF Form!Person
  <2> QED BY <2>1 DEF DialogInv, Form!OwnDialog, Form!Summarised
<1> QED BY <1>1, <1>2, <1>3, <1>4, <1>5, <1>6, <1>7, <1>8, <1>9, <1>10, <1>11, <1>12
        DEF Form!Next, Form!Operation, FieldSteps

\* The steps in which no row, cursor or request changes, and what they may do.
LEMMA OwnRowStays ==
  ASSUME OwnRow, UNCHANGED <<list, cursor, request, leftover, sent>>, form_pc' = form_pc \/ form_pc' \notin NoRowYet \cup {"bind", "validate", "send"}
  PROVE  OwnRow'
BY DEF OwnRow, NoRowYet, Form!Summarised, Form!Valid, Form!New

\* The operation's row.
LEMMA OwnRowStep ==
  ASSUME FormFlags, FormScalars, FormData, Progress, DialogInv, OwnRow, Form!Next
  PROVE  OwnRow'
<1> USE DEF Form!Goto, Form!Raise, Form!CleanupFails, Form!screen, Form!rows, Form!operation
<1>0. ASSUME UNCHANGED <<list, cursor, request, leftover, sent>>, form_pc \in NoRowYet,
             form_pc' \in {"snapshot", "fill", "filled", "button", "confirm", "press", "close"},
             form_pc' \in {"confirm", "press"} => form_pc \in {"opening", "confirm", "press"}
      PROVE  OwnRow'
  BY <1>0 DEF OwnRow, NoRowYet
<1>1. CASE Form!Begin
  <2>1. UNCHANGED <<list, cursor, sent>> /\ leftover' = FALSE /\ form_pc' \in {"snapshot", "idle"}
    BY <1>1 DEF Form!Begin
  <2> QED BY <2>1 DEF OwnRow
<1>2. CASE Form!Snapshot \/ Form!OpenPreorder
  <2>1. UNCHANGED <<list, cursor, request, leftover, sent>> /\ form_pc \in {"snapshot", "fill"}
        /\ form_pc' \in {"fill", "button", "close"}
    BY <1>2, Zenon DEF Form!Snapshot, Form!OpenPreorder
  <2> QED BY <1>0, <2>1 DEF NoRowYet
<1>3. CASE FieldSteps
  <2>1. /\ form_pc \in {"fill", "filled", "restore", "restoring"} /\ UNCHANGED <<list, cursor, request, leftover, sent>>
        /\ FieldDone \/ FieldEntered \/ FieldRefused
    BY <1>3, FieldOutcomes
  <2>2. CASE Filling
    BY <1>0, <2>1, <2>2 DEF Filling, FieldDone, FieldEntered, FieldRefused, NoRowYet
  <2>3. CASE ~Filling
    BY <2>1, <2>3, OwnRowStays DEF Filling, FieldDone, FieldEntered, FieldRefused, NoRowYet
  <2> QED BY <2>2, <2>3
<1>4. CASE Form!PressButton
  <2>1. UNCHANGED <<list, request, leftover, sent>> /\ form_pc = "button"
        /\ \/ form_pc' = "opening" /\ cursor' = last_id
           \/ form_pc' = "close" /\ cursor' = cursor
    BY <1>4 DEF Form!PressButton
  <2>2. \A r \in list : r.id <= last_id
    BY DEF FormData, FormScalars
  <2> QED BY <2>1, <2>2 DEF OwnRow, NoRowYet
<1>5. CASE Form!Opened \/ Form!Confirm
  <2>1. UNCHANGED <<list, cursor, request, leftover, sent>> /\ form_pc \in {"opening", "confirm"}
        /\ form_pc' \in {"confirm", "press", "close"}
    BY <1>5, Zenon DEF Form!Opened, Form!Confirm
  <2> QED BY <1>0, <2>1 DEF NoRowYet
<1>6. CASE Form!PressOK
  <2>1. form_pc = "press" /\ form_pc' \in {"bind", "close"} /\ UNCHANGED <<cursor, request, sent>>
    BY <1>6, Zenon DEF Form!PressOK
  <2>2. CASE dialog = Form!NoDialog
    <3>1. UNCHANGED <<list, leftover>> /\ form_pc' = "close"
      BY <1>6, <2>2 DEF Form!PressOK
    <3> QED BY <1>0, <2>1, <3>1 DEF NoRowYet
  <2>3. CASE dialog # Form!NoDialog
    <3> DEFINE n == Form!NewRow(TRUE)
    <3>1. n.id = last_id + 1 /\ n.mine = TRUE /\ n.form = dialog.form
      BY <2>3, NewRowMade
    <3>2. list' = list \cup {n} /\ leftover' = TRUE
      BY <1>6, <2>3 DEF Form!PressOK
    <3>3. Form!Summarised(n.form, request)
      BY <2>1, <2>3, <3>1 DEF DialogInv, Form!OwnDialog
    <3> HIDE DEF n
    <3>4. \A r \in list : ~(r.mine /\ r.id > cursor)
      BY <2>1 DEF OwnRow, FormData, FormScalars, RowType
    <3>5. n.id > cursor
      BY <3>1 DEF FormScalars
    <3>6. \A r \in list' : (r.mine /\ r.id > cursor') => Form!Summarised(r.form, request)'
      BY <2>1, <3>2, <3>3, <3>4 DEF Form!Summarised
    <3>7. n \in list' /\ n.mine /\ n.id > cursor'
      BY <2>1, <3>1, <3>2, <3>5
    <3> QED BY <2>1, <3>2, <3>6, <3>7 DEF OwnRow, NoRowYet
  <2> QED BY <2>2, <2>3
<1>7. CASE Form!Bind
  <2>1. UNCHANGED <<list, cursor, request, leftover, sent>> /\ form_pc = "bind" /\ form_pc' \in {"validate", "close"}
    BY <1>7, Zenon DEF Form!Bind
  <2> QED BY <2>1 DEF OwnRow, NoRowYet, Form!Summarised
<1>8. CASE Form!ValidatePreorder
  <2>1. UNCHANGED <<list, cursor, request, leftover, sent>> /\ form_pc = "validate"
        /\ ((form_pc' = "send" /\ Form!Valid) \/ form_pc' = "close")
    BY <1>8, Zenon DEF Form!ValidatePreorder
  <2> QED BY <2>1 DEF OwnRow, NoRowYet, Form!Summarised, Form!Valid, Form!New
<1>9. CASE Form!SendLocal
  <2>1. UNCHANGED <<list, cursor, request, leftover>> /\ form_pc = "send" /\ form_pc' = "close"
    BY <1>9 DEF Form!SendLocal
  <2>2. PICK r \in Form!New : sent' = sent \cup {[row |-> r.form, request |-> request]}
    BY <1>9 DEF Form!SendLocal
  <2>3. r.form = request
    BY <2>1, <2>2 DEF OwnRow, Form!Valid
  <2>4. \A s \in sent' : s.row = s.request
    BY <2>2, <2>3 DEF OwnRow
  <2> QED BY <2>1, <2>4 DEF OwnRow, NoRowYet, Form!Summarised
<1>10. CASE Form!CloseDialog \/ Form!Restored \/ Form!Finish
  <2>1. UNCHANGED <<list, cursor, request, leftover, sent>> /\ form_pc' \in {"delete", "finish", "idle"}
    BY <1>10, Zenon DEF Form!CloseDialog, Form!Restored, Form!Finish
  <2> QED BY <2>1, OwnRowStays DEF NoRowYet
<1>11. CASE Form!Cleanup
  <2>1. UNCHANGED <<cursor, request, sent>> /\ list' \subseteq list /\ form_pc' \in {"restore", "finish"}
    BY <1>11 DEF Form!Cleanup
  <2>2. leftover' => leftover
    BY <1>11, Zenon DEF Form!Cleanup
  <2> QED BY <2>1, <2>2 DEF OwnRow, NoRowYet, Form!Summarised
<1>12. CASE Form!Resume
  <2>1. UNCHANGED <<form_pc, list, cursor, sent>> /\ leftover' = FALSE /\ form_pc = "idle"
    BY <1>12 DEF Form!Resume
  <2> QED BY <2>1 DEF OwnRow, NoRowYet
<1>13. CASE Form!Appear
  <2>1. UNCHANGED <<form_pc, list, cursor, request, leftover, sent>>
    BY <1>13 DEF Form!Appear
  <2> QED BY <2>1, OwnRowStays
<1>14. CASE Form!Person
  <2>1. UNCHANGED <<form_pc, cursor, request, leftover, sent>>
    BY <1>14 DEF Form!Person
  <2>2. CASE UNCHANGED list
    BY <2>1, <2>2, OwnRowStays
  <2>3. CASE dialog # Form!NoDialog /\ list' = list \cup {Form!NewRow(FALSE)}
    <3> DEFINE n == Form!NewRow(FALSE)
    <3>1. n.mine = FALSE
      BY <2>3, NewRowMade
    <3>2. list' = list \cup {n}
      BY <2>3
    <3> HIDE DEF n
    <3>3. form_pc # "send"
      BY <2>3 DEF DialogInv
    <3> QED BY <2>1, <3>1, <3>2, <3>3 DEF OwnRow, Form!Summarised
  <2> QED BY <1>14, <2>2, <2>3 DEF Form!Person
<1> QED BY <1>1, <1>2, <1>3, <1>4, <1>5, <1>6, <1>7, <1>8, <1>9, <1>10, <1>11, <1>12, <1>13, <1>14
        DEF Form!Next, Form!Operation, FieldSteps

\* The ghost.
LEMMA LeftoverStep ==
  ASSUME FormFlags, FormScalars, FormData, Progress, DialogInv, OwnRow, LeftoverIsTrue, Answered, Form!Next
  PROVE  LeftoverIsTrue'
<1> USE DEF Form!Goto, Form!Raise, Form!CleanupFails, Form!screen, Form!rows, Form!operation
<1>0. ASSUME form_pc' \in NoRowYet \cup {"idle"}
      PROVE  LeftoverIsTrue'
  BY <1>0 DEF LeftoverIsTrue, NoRowYet
<1>1. CASE Form!Begin
  BY <1>0, <1>1 DEF Form!Begin, NoRowYet
<1>2. CASE Form!Snapshot \/ Form!OpenPreorder
  <2>1. /\ UNCHANGED <<list, cursor, leftover, owned_row, effect>> /\ form_pc \in {"snapshot", "fill"}
        /\ form_pc' \in {"fill", "button", "close"}
    BY <1>2, Zenon DEF Form!Snapshot, Form!OpenPreorder
  <2> QED BY <1>0, <2>1 DEF LeftoverIsTrue, NoRowYet, Answered
<1>3. CASE FieldSteps
  <2>1. /\ form_pc \in {"fill", "filled", "restore", "restoring"} /\ UNCHANGED <<list, cursor, leftover, owned_row, effect>>
        /\ FieldDone \/ FieldEntered \/ FieldRefused
    BY <1>3, FieldOutcomes
  <2>2. CASE Filling
    BY <1>0, <2>1, <2>2 DEF Filling, FieldDone, FieldEntered, FieldRefused, NoRowYet, LeftoverIsTrue, Answered
  <2>3. CASE ~Filling
    BY <2>1, <2>3 DEF Filling, FieldDone, FieldEntered, FieldRefused, LeftoverIsTrue, NoneOwn
  <2> QED BY <2>2, <2>3
<1>4. CASE Form!PressButton
  <2>1. /\ UNCHANGED <<list, leftover, owned_row, effect>> /\ form_pc = "button"
        /\ form_pc' \in {"opening", "close"}
    BY <1>4 DEF Form!PressButton
  <2> QED BY <1>0, <2>1 DEF LeftoverIsTrue, NoRowYet, Answered
<1>5. CASE Form!Opened \/ Form!Confirm
  <2>1. /\ UNCHANGED <<list, cursor, leftover, owned_row>> /\ form_pc \in {"opening", "confirm"}
        /\ form_pc' \in {"confirm", "press", "close"}
    BY <1>5, Zenon DEF Form!Opened, Form!Confirm
  <2> QED BY <1>0, <2>1 DEF LeftoverIsTrue, NoRowYet, Answered, OwnRow, NoneOwn
<1>6. CASE Form!PressOK
  <2>1. form_pc = "press" /\ form_pc' \in {"bind", "close"} /\ UNCHANGED <<cursor, owned_row>>
    BY <1>6, Zenon DEF Form!PressOK
  <2>2. leftover' = TRUE \/ (form_pc' = "close" /\ UNCHANGED list)
    BY <1>6 DEF Form!PressOK
  <2> QED BY <2>1, <2>2 DEF LeftoverIsTrue, Answered, OwnRow, NoneOwn
<1>7. CASE Form!Bind
  <2>1. UNCHANGED <<list, cursor, leftover, effect>> /\ form_pc = "bind" /\ form_pc' \in {"validate", "close"}
    BY <1>7, Zenon DEF Form!Bind
  <2>2. CASE UNCHANGED owned_row
    BY <2>1, <2>2 DEF LeftoverIsTrue, Answered, NoneOwn
  <2>3. CASE \E r \in Form!Owned : owned_row' = r.id
    <3>1. PICK r \in Form!Owned : owned_row' = r.id
      BY <2>3
    <3>2. \A q \in list : q.id > cursor => q = r
      BY <3>1 DEF Form!Owned, Form!New
    <3> QED BY <2>1, <3>1, <3>2 DEF LeftoverIsTrue, NoneOwn
  <2> QED BY <1>7, <2>2, <2>3 DEF Form!Bind
<1>8. CASE Form!ValidatePreorder \/ Form!SendLocal
  <2>1. /\ UNCHANGED <<list, cursor, leftover, owned_row>> /\ form_pc \in {"validate", "send"}
        /\ form_pc' \in {"send", "close"}
    BY <1>8, Zenon DEF Form!ValidatePreorder, Form!SendLocal
  <2> QED BY <2>1 DEF LeftoverIsTrue, NoneOwn
<1>9. CASE Form!CloseDialog
  <2>1. /\ UNCHANGED <<list, cursor, leftover, owned_row, effect>> /\ form_pc = "close" /\ form_pc' \in {"delete", "finish"}
    BY <1>9, Zenon DEF Form!CloseDialog
  <2> QED BY <2>1 DEF LeftoverIsTrue, NoneOwn
<1>10. CASE Form!Cleanup
  <2>1. UNCHANGED <<cursor, effect>> /\ form_pc = "delete" /\ form_pc' \in {"restore", "finish"} /\ list' \subseteq list
    BY <1>10 DEF Form!Cleanup
  <2>2. \/ list' = {r \in list : r.id # owned_row} /\ leftover' = (leftover /\ owned_row = 0)
        \/ owned_row # 0 /\ UNCHANGED <<list, leftover>>
    BY <1>10 DEF Form!Cleanup
  <2>3. ASSUME ~leftover', effect # "none"
        PROVE  NoneOwn'
    <3>1. CASE ~leftover
      BY <2>1, <2>3, <3>1 DEF LeftoverIsTrue, NoneOwn
    <3>2. CASE leftover
      <4>1. owned_row # 0 /\ list' = {r \in list : r.id # owned_row}
        BY <2>2, <2>3, <3>2, Zenon
      <4> QED BY <2>1, <4>1 DEF LeftoverIsTrue, NoneOwn, FormData, FormScalars, RowType
    <3> QED BY <3>1, <3>2
  <2> QED BY <2>1, <2>3 DEF LeftoverIsTrue
<1>11. CASE Form!Restored
  <2>1. UNCHANGED <<list, cursor, leftover, effect>> /\ form_pc = "restore" /\ form_pc' = "finish"
    BY <1>11 DEF Form!Restored
  <2> QED BY <2>1 DEF LeftoverIsTrue, NoneOwn
<1>12. CASE Form!Finish \/ Form!Resume
  BY <1>0, <1>12 DEF Form!Finish, Form!Resume
<1>13. CASE Form!Appear
  <2>1. UNCHANGED <<form_pc, list, cursor, leftover, owned_row, effect>>
    BY <1>13 DEF Form!Appear
  <2> QED BY <2>1 DEF LeftoverIsTrue, NoneOwn
<1>14. CASE Form!Person
  <2>1. UNCHANGED <<form_pc, cursor, leftover, owned_row, effect>>
    BY <1>14 DEF Form!Person
  <2>2. \A r \in list' : r \in list \/ r.mine = FALSE
    <3>1. CASE UNCHANGED list
      BY <3>1
    <3>2. CASE dialog # Form!NoDialog /\ list' = list \cup {Form!NewRow(FALSE)}
      BY <3>2, NewRowMade
    <3> QED BY <1>14, <3>1, <3>2 DEF Form!Person
  <2> QED BY <2>1, <2>2 DEF LeftoverIsTrue, NoneOwn
<1> QED BY <1>1, <1>2, <1>3, <1>4, <1>5, <1>6, <1>7, <1>8, <1>9, <1>10, <1>11, <1>12, <1>13, <1>14
        DEF Form!Next, Form!Operation, FieldSteps

\* A row that stays, and the executor.
LEMMA AnsweredStep ==
  ASSUME FormFlags, FormScalars, FormData, Progress, OwnRow, Answered, Form!Next
  PROVE  Answered'
<1> USE DEF Form!Goto, Form!Raise, Form!CleanupFails, Form!screen, Form!rows, Form!operation
<1>1. CASE Form!Begin
  <2>1. leftover' = FALSE /\ form_pc' \in {"snapshot", "idle"} /\ owned_row' = 0 /\ effect' = "none"
    BY <1>1 DEF Form!Begin
  <2> QED BY <2>1 DEF Answered, NoRowYet
<1>2. CASE Form!Snapshot \/ Form!OpenPreorder \/ Form!PressButton
  <2>1. /\ UNCHANGED <<leftover, owned_row, effect>> /\ form_pc \in {"snapshot", "fill", "button"}
        /\ form_pc' \in {"fill", "button", "opening", "close"}
    BY <1>2, Zenon DEF Form!Snapshot, Form!OpenPreorder, Form!PressButton
  <2> QED BY <2>1 DEF Answered, OwnRow, NoRowYet
<1>3. CASE FieldSteps
  <2>1. /\ form_pc \in {"fill", "filled", "restore", "restoring"} /\ UNCHANGED <<leftover, owned_row, effect>>
        /\ FieldDone \/ FieldEntered \/ FieldRefused
    BY <1>3, FieldOutcomes
  <2>2. CASE Filling
    <3>1. form_pc' \in {"fill", "filled", "close"} /\ ~leftover
      BY <2>1, <2>2 DEF Filling, FieldDone, FieldEntered, FieldRefused, OwnRow, NoRowYet
    <3> QED BY <2>1, <2>2, <3>1 DEF Filling, Answered, NoRowYet
  <2>3. CASE ~Filling
    <3>1. \/ form_pc' \in {"restore", "restoring"} /\ UNCHANGED <<error, blocked>>
          \/ form_pc' = "finish" /\ blocked' = TRUE
      BY <2>1, <2>3, Zenon DEF Filling, FieldDone, FieldEntered, FieldRefused
    <3> QED BY <2>1, <2>3, <3>1 DEF Filling, Answered, Unresolved, NoRowYet
  <2> QED BY <2>2, <2>3
<1>4. CASE Form!Opened
  <2>1. /\ UNCHANGED <<leftover, owned_row>> /\ form_pc = "opening"
        /\ ((form_pc' = "confirm" /\ effect' = "unknown") \/ form_pc' = "close")
    BY <1>4 DEF Form!Opened
  <2> QED BY <2>1 DEF Answered, OwnRow, NoRowYet
<1>5. CASE Form!Confirm \/ Form!PressOK
  <2>1. /\ UNCHANGED <<owned_row, effect>> /\ form_pc \in {"confirm", "press"} /\ form_pc' \in {"press", "bind", "close"}
        /\ form_pc' = "close" => error' # "none"
    BY <1>5, Zenon DEF Form!Confirm, Form!PressOK
  <2> QED BY <2>1 DEF Answered, Unresolved
<1>6. CASE Form!Bind
  <2>1. UNCHANGED effect /\ form_pc = "bind"
        /\ \/ form_pc' = "validate" /\ \E r \in Form!Owned : owned_row' = r.id
           \/ form_pc' = "close" /\ error' # "none" /\ UNCHANGED owned_row
    BY <1>6 DEF Form!Bind
  <2>2. \A r \in Form!Owned : r.id # 0
    BY DEF Form!Owned, Form!New, FormData, FormScalars
  <2> QED BY <2>1, <2>2 DEF Answered, Unresolved
<1>7. CASE Form!ValidatePreorder \/ Form!SendLocal
  <2>1. UNCHANGED owned_row /\ form_pc \in {"validate", "send"} /\ form_pc' \in {"send", "close"}
    BY <1>7, Zenon DEF Form!ValidatePreorder, Form!SendLocal
  <2> QED BY <2>1 DEF Answered
<1>8. CASE Form!CloseDialog
  <2>1. UNCHANGED <<leftover, owned_row, effect>> /\ form_pc = "close"
    BY <1>8 DEF Form!CloseDialog
  <2>2. (form_pc' = "delete" /\ UNCHANGED error) \/ (form_pc' = "finish" /\ blocked')
    BY <1>8 DEF Form!CloseDialog
  <2> QED BY <2>1, <2>2 DEF Answered, Unresolved
<1>9. CASE Form!Cleanup
  <2>1. UNCHANGED effect /\ form_pc = "delete" /\ form_pc' \in {"restore", "finish"}
    BY <1>9 DEF Form!Cleanup
  <2>2. \/ leftover' = (leftover /\ owned_row = 0) /\ owned_row' = 0 /\ UNCHANGED error
        \/ blocked' = TRUE /\ form_pc' = "finish"
    BY <1>9, Zenon DEF Form!Cleanup
  <2>3. leftover' => blocked' \/ Unresolved'
    <3>1. CASE leftover' = (leftover /\ owned_row = 0) /\ owned_row' = 0 /\ UNCHANGED error
      <4>1. leftover' => leftover /\ owned_row = 0
        BY <3>1, Zenon
      <4> QED BY <2>1, <3>1, <4>1 DEF Answered, Unresolved
    <3> QED BY <2>2, <3>1
  <2> QED BY <2>1, <2>3 DEF Answered
<1>10. CASE Form!Restored
  <2>1. /\ UNCHANGED <<leftover, owned_row, effect>> /\ form_pc = "restore" /\ form_pc' = "finish"
        /\ (UNCHANGED <<error, blocked>> \/ blocked' = TRUE)
    BY <1>10 DEF Form!Restored
  <2> QED BY <2>1 DEF Answered, Unresolved
<1>11. CASE Form!Finish
  <2>1. UNCHANGED leftover /\ form_pc = "finish" /\ form_pc' = "idle"
    BY <1>11 DEF Form!Finish
  <2>2. blocked \/ Form!Isolates => blocked'
    BY <1>11, Zenon DEF Form!Finish
  <2> QED BY <2>1, <2>2 DEF Answered, Unresolved, Form!Isolates
<1>12. CASE Form!Resume
  BY <1>12 DEF Form!Resume, Answered
<1>13. CASE Form!Appear \/ Form!Person
  <2>1. UNCHANGED <<form_pc, leftover, owned_row, effect, error, blocked>>
    BY <1>13, Zenon DEF Form!Appear, Form!Person
  <2> QED BY <2>1 DEF Answered, Unresolved
<1> QED BY <1>1, <1>2, <1>3, <1>4, <1>5, <1>6, <1>7, <1>8, <1>9, <1>10, <1>11, <1>12, <1>13
        DEF Form!Next, Form!Operation, FieldSteps

\* A step of another part, or none, leaves the form alone.
LEMMA FormFrame ==
  ASSUME FormInv, UNCHANGED formVars
  PROVE  FormInv'
<1>1. UNCHANGED <<form_pc, form, dialog, pending, list, last_id, request, todo, form_state, market_dialog,
                  cursor, owned_row, effect, error, blocked, sent, leftover, meddled>>
  BY DEF formVars
<1>2. FormFlags' /\ FormScalars' /\ FormData' /\ Answered'
  BY <1>1 DEF FormInv, FormFlags, FormScalars, FormData, RowType, Answered, Unresolved
<1>3. Progress'
  BY <1>1 DEF FormInv, Progress
<1>4. DialogInv' /\ LeftoverIsTrue'
  BY <1>1 DEF FormInv, DialogInv, Form!OwnDialog, Form!Summarised, LeftoverIsTrue, NoneOwn
<1>5. OwnRow'
  BY <1>1, OwnRowStays DEF FormInv
<1> QED BY <1>2, <1>3, <1>4, <1>5 DEF FormInv

\* The invariant of the form holds in every state, whichever part moves: what is created and sent is
\* the request's, the ghost of the left row is right, and restore goes towards the form that was read.
THEOREM FormInvariant == Spec => []FormInv
<1>1. Init => FormInv
  <2> SUFFICES ASSUME Form!Init PROVE FormInv
    BY DEF Init
  <2>1. FormFlags
    BY Zenon DEF Form!Init, FormFlags
  <2>5. FormScalars
    BY DEF Form!Init, FormScalars, FormPcs
  <2>6. DialogInv /\ LeftoverIsTrue /\ Answered
    BY DEF Form!Init, DialogInv, LeftoverIsTrue, Answered
  <2>2. FormData
    <3>1. [f \in Form!Fields |-> 0] \in Form!Forms
      BY DEF Form!Forms, Form!Values
    <3> QED BY <3>1, FormsAre DEF Form!Init, FormData, Form!Dialogs
  <2>3. Progress
    <3>1. <<>> \in Todos
      <4>1. \E n \in 1 .. Len(Form!Order) + 1 : SubSeq(Form!Order, n, Len(Form!Order)) = <<>>
        <5>1. Len(Form!Order) = 5
          BY DEF Form!Order
        <5>2. SubSeq(Form!Order, 6, 5) = <<>>
          BY SubSeqEmpty
        <5> QED BY <5>1, <5>2
      <4> QED BY <4>1 DEF Todos
    <3> QED BY <3>1 DEF Form!Init, Progress
  <2>4. OwnRow
    BY DEF Form!Init, OwnRow, NoRowYet
  <2> QED BY <2>1, <2>2, <2>3, <2>4, <2>5, <2>6 DEF FormInv
<1>2. FormInv /\ [Next]_vars => FormInv'
  <2> SUFFICES ASSUME FormInv, [Next]_vars PROVE FormInv'
    OBVIOUS
  <2>1. CASE Form!Next
    BY <2>1, FormFlagsStep, FormScalarsStep, FormDataStep, ProgressStep, DialogStep, OwnRowStep, LeftoverStep, AnsweredStep
       DEF FormInv
  <2>2. CASE UNCHANGED formVars
    BY <2>2, FormFrame
  <2> QED BY <2>1, <2>2 DEF Next, vars
<1> QED BY <1>1, <1>2, PTL DEF Spec

\* What goes out through the form is the request in every field, and a row the bridge creates shows the
\* parameters of the operation that creates it (order_form.py, market.py), for any number of operations.
THEOREM FormSendsRequest == Spec => []SentAsRequested
<1>1. FormInv => SentAsRequested
  BY DEF FormInv, OwnRow, SentAsRequested, Form!SentAsRequested, Form!CreatedAsRequested
<1> QED BY <1>1, FormInvariant, PTL

\* An operation that ends unblocked has put the form back, and restore does not fail of itself
\* (order_form.py restore), for any number of operations and of things a person does.
THEOREM FormIsReturned == Spec => []FormReturned
<1>1. FormInv => FormReturned
  <2> SUFFICES ASSUME FormInv PROVE FormReturned
    OBVIOUS
  <2>1. Form!FormReturned
    BY DEF FormInv, Progress, Form!FormReturned
  <2>2. ASSUME form_pc = "restore", todo = <<>>, ~meddled
        PROVE  form = form_state
    <3>1. \A f \in Form!Fields : form[f] = form_state[f]
      BY <2>2, TodosAre DEF FormInv, Progress
    <3>2. form \in [Form!Fields -> Form!Values] /\ form_state \in [Form!Fields -> Form!Values]
      BY <2>2 DEF FormInv, FormData, Progress, Form!Forms
    <3> QED BY <3>1, <3>2
  <2> QED BY <2>1, <2>2 DEF FormReturned, Form!RestoreSucceeds
<1> QED BY <1>1, FormInvariant, PTL

(***************************************************************************)
(* The rows of the local list.  Others add rows, remove theirs, start,     *)
(* send and sort at any moment, so that no position says anything; what    *)
(* stays is whose a row is and which native id and identity it has.  The   *)
(* receipt ties a send to the native id, and that id to the row created    *)
(* after the cursor was read.                                              *)
(***************************************************************************)
ListRow == [identity : Rows!Identities, status : {"idle", "started", "sent"}, id : Nat, mine : BOOLEAN]
Touch == [id : Nat, key : {"send", "remove", "cancel"}, mine : BOOLEAN]
Places == 1 .. Len(row_list)

RowScalars ==
  /\ mode \in {"import", "form", "cancel"} /\ confirms \in BOOLEAN
  /\ row_last_id \in Nat /\ row_cursor \in 0 .. row_last_id /\ parked_id \in 0 .. row_last_id
  /\ row_pc \in {"before", "cursor", "create", "after", "validate", "select", "fresh", "reselect", "key",
                 "receipt", "confirm", "dialog", "clean", "gone", "done"}
  /\ message \in {"none", "added", "other"}
  /\ row_effect \in {"none", "unknown", "submitted"}
  /\ row_error \in {"none", "ORDER_IDENTITY_AMBIGUOUS", "OPERATION_STATUS_UNKNOWN", "GUI_RESET_FAILED"}
RowLists ==
  /\ row_list \in Seq(ListRow) /\ touched \in Seq(Touch) /\ captured \in Seq(Nat)
  /\ \A p \in Places : row_list[p].id \in 1 .. row_last_id

\* What the selection is for goes with the step and the mode.
Course ==
  /\ task \in {"send", "clean", "cancel"}
  /\ mode = "cancel" => task # "send" /\ parked_id = 0
  /\ mode # "cancel" => task # "cancel"
  /\ task = "send" => row_pc \in {"before", "cursor", "create", "after", "validate", "select", "fresh",
                                  "reselect", "key", "receipt", "confirm"}
  /\ task = "cancel" => row_pc \in {"before", "select", "fresh", "reselect", "key", "dialog", "done"}
  /\ task = "clean" => row_pc \in {"clean", "select", "fresh", "reselect", "key", "gone", "done"}
  /\ task = "clean" /\ mode = "cancel" => row_pc \in {"clean", "done"}

NotYet == {"before", "cursor", "create"}
NoneMine == \A p \in Places : ~row_list[p].mine

\* A row is the operation's by its native id, not by its place; the cursor separates it.
Whose ==
  /\ \A p \in Places : IF row_list[p].mine THEN row_list[p].identity # "same" ELSE row_list[p].identity # "own"
  /\ \A p \in Places : row_list[p].id = parked_id => row_list[p].mine
  /\ task = "send" /\ row_pc \in NotYet => NoneMine
  /\ task = "send" => row_error = "none" /\ row_effect = IF row_pc \in NotYet THEN "none" ELSE "unknown"
  /\ row_pc \in {"after", "validate"} =>
       /\ \E p \in Places : row_list[p].mine
       /\ \A p \in Places : row_list[p].mine => row_list[p].id > row_cursor

\* What the keys touched and what the receipt saw.
Keys ==
  /\ row_pc \notin {"receipt", "confirm"} /\ task # "clean" /\ row_pc # "done" => touched = <<>>
  /\ mode # "cancel" => \A i \in DOMAIN touched :
       /\ touched[i].key = "send" => captured # <<>> /\ captured[1] = touched[i].id
       /\ touched[i].key # "cancel"
  /\ \A i \in DOMAIN touched : touched[i].id = parked_id => touched[i].mine
  /\ row_pc = "confirm" => captured = <<parked_id>>
  /\ row_effect = "submitted" =>
       IF mode = "cancel" THEN row_pc = "done" /\ touched # <<>> /\ \A i \in DOMAIN touched : touched[i].mine
       ELSE task = "clean" /\ captured = <<parked_id>>

\* The row bound is the operation's, if it is there at all.
OwnBound == row_owned.identity = "own" /\ \A p \in Places : row_list[p].mine => row_list[p].identity = "own"
Left ==
  /\ row_pc = "validate" => \A p \in Places : (row_list[p].mine /\ row_list[p].identity # "different") => row_owned.identity = "own"
  /\ task = "send" /\ row_pc \in {"select", "fresh", "reselect", "key", "receipt", "confirm"} => OwnBound
  /\ mode # "cancel" /\ task = "clean" /\ row_error # "GUI_RESET_FAILED" =>
       NoneMine \/ (row_error # "none" /\ row_effect = "unknown") \/ OwnBound
  /\ mode # "cancel" /\ row_pc = "done" => row_owned = Rows!NoRow \/ row_error = "GUI_RESET_FAILED"

RowsInv == RowScalars /\ RowLists /\ Course /\ Whose /\ Keys /\ Left

\* Two rows are the same but for their status.
SameRow(r, q) == r.id = q.id /\ r.mine = q.mine /\ r.identity = q.identity

\* What the list's operations leave of the rows, on any sequence.
LEMMA Inserted ==
  ASSUME NEW S, NEW s \in Seq(S), NEW e \in S, NEW i \in 1 .. Len(s) + 1
  PROVE  /\ Rows!InsertAt(s, i, e) \in Seq(S)
         /\ \A q \in 1 .. Len(Rows!InsertAt(s, i, e)) :
              Rows!InsertAt(s, i, e)[q] = e \/ \E p \in 1 .. Len(s) : Rows!InsertAt(s, i, e)[q] = s[p]
         /\ \A p \in 1 .. Len(s) : \E q \in 1 .. Len(Rows!InsertAt(s, i, e)) : Rows!InsertAt(s, i, e)[q] = s[p]
<1> DEFINE a == SubSeq(s, 1, i - 1)
           b == SubSeq(s, i, Len(s))
           t == Rows!InsertAt(s, i, e)
<1>0. i \in Nat /\ i >= 1 /\ i <= Len(s) + 1 /\ Len(s) \in Nat
  OBVIOUS
<1>1. a \in Seq(S) /\ Len(a) = i - 1 /\ \A q \in 1 .. i - 1 : a[q] = s[q]
  <2>1. \A q \in 1 .. i - 1 : s[q] \in S
    BY ElementOfSeq
  <2> QED BY <1>0, <2>1, SubSeqProperties
<1>2. b \in Seq(S) /\ Len(b) = Len(s) - i + 1 /\ \A q \in 1 .. Len(s) - i + 1 : b[q] = s[i + q - 1]
  <2>1. \A q \in i .. Len(s) : s[q] \in S
    BY <1>0, ElementOfSeq
  <2>2. /\ b \in Seq(S) /\ Len(b) = IF i <= Len(s) THEN Len(s) - i + 1 ELSE 0
        /\ \A q \in 1 .. Len(s) - i + 1 : b[q] = s[i + q - 1]
    BY <1>0, <2>1, SubSeqProperties
  <2> QED BY <1>0, <2>2
<1>3. t = a \o <<e>> \o b
  BY DEF Rows!InsertAt
<1> HIDE DEF a, b, t
<1> DEFINE c == a \o <<e>>
<1>4. t \in Seq(S) /\ Len(t) = Len(s) + 1
  <2>1. c \in Seq(S) /\ Len(c) = i
    <3>1. c \in Seq(S)
      BY <1>1, ConcatProperties
    <3> QED BY <1>0, <1>1, <3>1
  <2>2. t \in Seq(S) /\ Len(t) = Len(c) + Len(b)
    BY <1>2, <1>3, <2>1, ConcatProperties
  <2> HIDE DEF c
  <2> QED BY <1>0, <1>2, <2>1, <2>2
<1>5. \A q \in 1 .. Len(s) + 1 : t[q] = IF q < i THEN s[q] ELSE IF q = i THEN e ELSE s[q - 1]
  <2>1. \A q \in 1 .. i : c[q] = IF q < i THEN s[q] ELSE e
    BY <1>0, <1>1
  <2>2. c \in Seq(S) /\ Len(c) = i
    <3>1. c \in Seq(S)
      BY <1>1, ConcatProperties
    <3> QED BY <1>0, <1>1, <3>1
  <2> HIDE DEF c
  <2>3. t = c \o b
    BY <1>3 DEF c
  <2>4. \A q \in 1 .. Len(s) + 1 : t[q] = IF q <= i THEN c[q] ELSE b[q - i]
    BY <1>0, <1>2, <2>2, <2>3
  <2>5. \A q \in i + 1 .. Len(s) + 1 : q - i \in 1 .. Len(s) - i + 1 /\ i + (q - i) - 1 = q - 1
    BY <1>0
  <2> QED BY <1>0, <1>2, <2>1, <2>4, <2>5
<1>6. \A q \in 1 .. Len(t) : t[q] = e \/ \E p \in 1 .. Len(s) : t[q] = s[p]
  <2> SUFFICES ASSUME NEW q \in 1 .. Len(s) + 1, q # i
               PROVE  \E p \in 1 .. Len(s) : t[q] = s[p]
    BY <1>4, <1>5
  <2>1. CASE q < i
    BY <1>0, <1>5, <2>1
  <2>2. CASE q > i
    <3>1. q - 1 \in 1 .. Len(s) /\ t[q] = s[q - 1]
      BY <1>0, <1>5, <2>2
    <3> QED BY <3>1
  <2> QED BY <1>0, <2>1, <2>2
<1>7. \A p \in 1 .. Len(s) : \E q \in 1 .. Len(t) : t[q] = s[p]
  <2> SUFFICES ASSUME NEW p \in 1 .. Len(s)
               PROVE  \E q \in 1 .. Len(s) + 1 : t[q] = s[p]
    BY <1>4
  <2>1. CASE p < i
    BY <1>0, <1>5, <2>1
  <2>2. CASE p >= i
    <3>1. p + 1 \in 1 .. Len(s) + 1 /\ t[p + 1] = s[p]
      BY <1>0, <1>5, <2>2
    <3> QED BY <3>1
  <2> QED BY <1>0, <2>1, <2>2
<1> QED BY <1>4, <1>6, <1>7 DEF t

\* Removal at a place.
LEMMA Removed ==
  ASSUME NEW S, NEW s \in Seq(S), NEW i \in 1 .. Len(s)
  PROVE  /\ Rows!RemoveAt(s, i) \in Seq(S)
         /\ \A q \in 1 .. Len(Rows!RemoveAt(s, i)) : \E p \in 1 .. Len(s) : Rows!RemoveAt(s, i)[q] = s[p]
         /\ \A p \in 1 .. Len(s) : p # i => \E q \in 1 .. Len(Rows!RemoveAt(s, i)) : Rows!RemoveAt(s, i)[q] = s[p]
<1> DEFINE a == SubSeq(s, 1, i - 1)
           b == SubSeq(s, i + 1, Len(s))
           t == Rows!RemoveAt(s, i)
<1>0. i \in Nat /\ i >= 1 /\ i <= Len(s) /\ Len(s) \in Nat
  OBVIOUS
<1>1. a \in Seq(S) /\ Len(a) = i - 1 /\ \A q \in 1 .. i - 1 : a[q] = s[q]
  <2>1. \A q \in 1 .. i - 1 : s[q] \in S
    BY ElementOfSeq
  <2> QED BY <1>0, <2>1, SubSeqProperties
<1>2. b \in Seq(S) /\ Len(b) = Len(s) - i /\ \A q \in 1 .. Len(s) - i : b[q] = s[i + q]
  <2>1. \A q \in i + 1 .. Len(s) : s[q] \in S
    BY <1>0, ElementOfSeq
  <2>2. /\ b \in Seq(S) /\ Len(b) = IF i + 1 <= Len(s) THEN Len(s) - (i + 1) + 1 ELSE 0
        /\ \A q \in 1 .. Len(s) - (i + 1) + 1 : b[q] = s[i + 1 + q - 1]
    BY <1>0, <2>1, SubSeqProperties
  <2> QED BY <1>0, <2>2
<1>3. t = a \o b
  BY DEF Rows!RemoveAt
<1> HIDE DEF a, b, t
<1>4. t \in Seq(S) /\ Len(t) = Len(s) - 1
  <2>1. t \in Seq(S) /\ Len(t) = Len(a) + Len(b)
    BY <1>1, <1>2, <1>3, ConcatProperties
  <2> QED BY <1>0, <1>1, <1>2, <2>1
<1>5. \A q \in 1 .. Len(s) - 1 : t[q] = IF q < i THEN s[q] ELSE s[q + 1]
  BY <1>0, <1>1, <1>2, <1>3
<1>6. \A q \in 1 .. Len(t) : \E p \in 1 .. Len(s) : t[q] = s[p]
  <2> SUFFICES ASSUME NEW q \in 1 .. Len(s) - 1
               PROVE  \E p \in 1 .. Len(s) : t[q] = s[p]
    BY <1>4
  <2>1. q \in 1 .. Len(s) /\ q + 1 \in 1 .. Len(s) /\ (t[q] = s[q] \/ t[q] = s[q + 1])
    BY <1>0, <1>5
  <2> QED BY <2>1
<1>7. \A p \in 1 .. Len(s) : p # i => \E q \in 1 .. Len(t) : t[q] = s[p]
  <2> SUFFICES ASSUME NEW p \in 1 .. Len(s), p # i
               PROVE  \E q \in 1 .. Len(s) - 1 : t[q] = s[p]
    BY <1>4
  <2>1. CASE p < i
    BY <1>0, <1>5, <2>1
  <2>2. CASE p > i
    <3>1. p - 1 \in 1 .. Len(s) - 1 /\ t[p - 1] = s[p]
      BY <1>0, <1>5, <2>2
    <3> QED BY <3>1
  <2> QED BY <1>0, <2>1, <2>2
<1> QED BY <1>4, <1>6, <1>7 DEF t

\* Sorting, as the reversal of the list.
LEMMA Reversed ==
  ASSUME NEW S, NEW s \in Seq(S)
  PROVE  /\ Rows!Reverse(s) \in Seq(S)
         /\ \A q \in 1 .. Len(Rows!Reverse(s)) : \E p \in 1 .. Len(s) : Rows!Reverse(s)[q] = s[p]
         /\ \A p \in 1 .. Len(s) : \E q \in 1 .. Len(Rows!Reverse(s)) : Rows!Reverse(s)[q] = s[p]
<1> DEFINE t == Rows!Reverse(s)
<1>1. t = [i \in 1 .. Len(s) |-> s[(Len(s) - i) + 1]] /\ Len(s) \in Nat
  BY DEF Rows!Reverse
<1> HIDE DEF t
<1>2. \A i \in 1 .. Len(s) : (Len(s) - i) + 1 \in 1 .. Len(s)
  BY <1>1
<1>3. \A i \in 1 .. Len(s) : t[i] = s[(Len(s) - i) + 1] /\ t[i] \in S
  BY <1>1, <1>2, ElementOfSeq
<1>4. t \in Seq(S) /\ Len(t) = Len(s)
  <2>1. t \in [1 .. Len(s) -> S]
    BY <1>1, <1>3
  <2> QED BY <1>1, <2>1
<1>5. \A p \in 1 .. Len(s) : (Len(s) - ((Len(s) - p) + 1)) + 1 = p
  BY <1>1
<1>6. \A p \in 1 .. Len(s) : t[(Len(s) - p) + 1] = s[p]
  BY <1>2, <1>3, <1>5
<1> QED BY <1>2, <1>3, <1>4, <1>6 DEF t

\* A change of one row's status.
LEMMA StatusSet ==
  ASSUME NEW s \in Seq(ListRow), NEW i \in 1 .. Len(s), NEW v \in {"idle", "started", "sent"}
  PROVE  /\ [s EXCEPT ![i].status = v] \in Seq(ListRow) /\ Len([s EXCEPT ![i].status = v]) = Len(s)
         /\ \A p \in 1 .. Len(s) : SameRow([s EXCEPT ![i].status = v][p], s[p])
<1> DEFINE t == [s EXCEPT ![i].status = v]
           r == [identity |-> s[i].identity, status |-> v, id |-> s[i].id, mine |-> s[i].mine]
<1>1. s[i] \in ListRow
  BY ElementOfSeq
<1>2. [s[i] EXCEPT !.status = v] = r
  BY <1>1 DEF ListRow
<1>3. r \in ListRow
  BY <1>1, Zenon DEF ListRow
<1>4. t = [s EXCEPT ![i] = r]
  BY <1>2
<1>5. r.identity = s[i].identity /\ r.id = s[i].id /\ r.mine = s[i].mine
  OBVIOUS
<1> HIDE DEF r, t
<1>6. t \in Seq(ListRow) /\ Len(t) = Len(s)
  BY <1>3, <1>4
<1>7. \A p \in 1 .. Len(s) : t[p] = IF p = i THEN r ELSE s[p]
  BY <1>4
<1> QED BY <1>5, <1>6, <1>7 DEF t, SameRow

\* A step of others, and of the operation's own send, as far as the invariant can see it: rows are
\* never lost if they are the operation's, and never become its own.
Evolves ==
  /\ row_list' \in Seq(ListRow) /\ row_last_id' \in {row_last_id, row_last_id + 1}
  /\ \A q \in Places' :
       \/ \E p \in Places : SameRow(row_list'[q], row_list[p])
       \/ /\ row_last_id' = row_last_id + 1 /\ row_list'[q].id = row_last_id + 1
          /\ row_list'[q].mine = FALSE /\ row_list'[q].identity # "own"
  /\ \A p \in Places : row_list[p].mine => \E q \in Places' : SameRow(row_list'[q], row_list[p])
Bystanders ==
  UNCHANGED <<mode, confirms, row_pc, task, row_cursor, message, row_owned, parked_id, row_effect, row_error, touched>>

\* What others do.
LEMMA OthersOutcome ==
  ASSUME RowScalars, RowLists, Rows!Others
  PROVE  /\ Evolves /\ Bystanders
         /\ UNCHANGED captured \/ (row_pc = "receipt" /\ \E n \in Nat : captured' = Append(captured, n))
<1>0. row_list \in Seq(ListRow) /\ row_last_id \in Nat
  BY DEF RowLists, RowScalars
<1>1. Bystanders
  BY Zenon DEF Rows!Others, Rows!Adds, Rows!Removes, Rows!Starts, Rows!Sends, Rows!Sorts, Rows!Meddles,
               Rows!operation, Bystanders
<1>2. CASE Rows!Adds
  <2>1. PICK i \in {"same", "different"}, p \in 1 .. Len(row_list) + 1 :
          row_list' = Rows!InsertAt(row_list, p, Rows!NewRow(i, FALSE))
    BY <1>2 DEF Rows!Adds
  <2>2. row_last_id' = row_last_id + 1 /\ UNCHANGED captured
    BY <1>2 DEF Rows!Adds
  <2> DEFINE e == Rows!NewRow(i, FALSE)
  <2>3. /\ e.id = row_last_id + 1 /\ e.mine = FALSE /\ e.identity # "own"
        /\ e.identity \in Rows!Identities /\ e.status = "idle"
    BY DEF Rows!NewRow, Rows!Identities
  <2>4. e \in ListRow
    <3>1. i \in Rows!Identities /\ row_last_id + 1 \in Nat
      BY <1>0 DEF Rows!Identities
    <3> QED BY <3>1, Zenon DEF Rows!NewRow, ListRow
  <2>5. row_list' = Rows!InsertAt(row_list, p, e)
    BY <2>1
  <2> HIDE DEF e
  <2>6. /\ row_list' \in Seq(ListRow)
        /\ \A q \in 1 .. Len(row_list') : row_list'[q] = e \/ \E j \in 1 .. Len(row_list) : row_list'[q] = row_list[j]
        /\ \A j \in 1 .. Len(row_list) : \E q \in 1 .. Len(row_list') : row_list'[q] = row_list[j]
    BY <1>0, <2>4, <2>5, Inserted
  <2> QED BY <1>1, <2>2, <2>3, <2>6 DEF Evolves, Places, SameRow
<1>3. CASE Rows!Removes
  <2>1. PICK i \in 1 .. Len(row_list) : row_list[i].mine \in {FALSE} /\ row_list' = Rows!RemoveAt(row_list, i)
    BY <1>3 DEF Rows!Removes
  <2>2. UNCHANGED <<row_last_id, captured>>
    BY <1>3 DEF Rows!Removes
  <2>3. /\ row_list' \in Seq(ListRow)
        /\ \A q \in 1 .. Len(row_list') : \E j \in 1 .. Len(row_list) : row_list'[q] = row_list[j]
        /\ \A j \in 1 .. Len(row_list) : j # i => \E q \in 1 .. Len(row_list') : row_list'[q] = row_list[j]
    BY <1>0, <2>1, Removed
  <2> QED BY <1>1, <2>1, <2>2, <2>3 DEF Evolves, Places, SameRow
<1>4. CASE Rows!Starts \/ Rows!Sends
  <2>1. PICK i \in 1 .. Len(row_list), v \in {"idle", "started", "sent"} : row_list' = [row_list EXCEPT ![i].status = v]
    BY <1>4 DEF Rows!Starts, Rows!Sends
  <2>2. UNCHANGED row_last_id
    BY <1>4 DEF Rows!Starts, Rows!Sends
  <2>3. /\ row_list' \in Seq(ListRow) /\ Len(row_list') = Len(row_list)
        /\ \A p \in 1 .. Len(row_list) : SameRow(row_list'[p], row_list[p])
    BY <1>0, <2>1, StatusSet, ZenonT(60)
  <2>4. UNCHANGED captured \/ (row_pc = "receipt" /\ \E n \in Nat : captured' = Append(captured, n))
    <3>1. \A p \in 1 .. Len(row_list) : row_list[p].id \in Nat
      BY DEF RowLists, RowScalars, Places
    <3> QED BY <1>4, <3>1 DEF Rows!Starts, Rows!Sends
  <2>5. Evolves
    BY <2>2, <2>3 DEF Evolves, Places
  <2> QED BY <1>1, <2>4, <2>5
<1>5. CASE Rows!Sorts
  <2>1. row_list' = Rows!Reverse(row_list) /\ UNCHANGED <<row_last_id, captured>>
    BY <1>5 DEF Rows!Sorts
  <2>2. /\ row_list' \in Seq(ListRow)
        /\ \A q \in 1 .. Len(row_list') : \E j \in 1 .. Len(row_list) : row_list'[q] = row_list[j]
        /\ \A j \in 1 .. Len(row_list) : \E q \in 1 .. Len(row_list') : row_list'[q] = row_list[j]
    BY <1>0, <2>1, Reversed
  <2> QED BY <1>1, <2>1, <2>2 DEF Evolves, Places, SameRow
<1> QED BY <1>2, <1>3, <1>4, <1>5 DEF Rows!Others

\* A capture keeps the first one.
LEMMA FirstCapture ==
  ASSUME captured \in Seq(Nat), NEW n \in Nat, captured' = Append(captured, n)
  PROVE  captured' \in Seq(Nat) /\ captured' # <<>> /\ (captured # <<>> => captured'[1] = captured[1])
OBVIOUS

\* Whatever others do, the invariant stays.
LEMMA OthersKeep ==
  ASSUME RowsInv, Evolves, Bystanders, captured' \in Seq(Nat),
         UNCHANGED captured \/ (row_pc = "receipt" /\ \E n \in Nat : captured' = Append(captured, n))
  PROVE  RowsInv'
<1> USE DEF RowsInv, Bystanders
<1>0. row_last_id \in Nat /\ row_last_id' \in Nat /\ row_last_id <= row_last_id' /\ parked_id \in 0 .. row_last_id
  BY DEF RowScalars, Evolves
<1>1. RowScalars'
  BY <1>0 DEF RowScalars
<1>2. \A p \in Places : row_list[p].id \in 1 .. row_last_id
  BY DEF RowLists
<1>3. \A q \in Places' : row_list'[q].id \in 1 .. row_last_id'
  BY <1>0, <1>2 DEF Evolves, SameRow
<1>4. RowLists'
  BY <1>3 DEF RowLists, Evolves
<1>5. Course'
  BY DEF Course
<1>6. NoneMine => NoneMine'
  BY DEF NoneMine, Evolves, SameRow
<1>7. \A q \in Places' : /\ IF row_list'[q].mine THEN row_list'[q].identity # "same" ELSE row_list'[q].identity # "own"
                         /\ row_list'[q].id = parked_id => row_list'[q].mine
  BY <1>0 DEF Whose, Evolves, SameRow
<1>8. /\ (\E p \in Places : row_list[p].mine) => \E q \in Places' : row_list'[q].mine
      /\ (\A p \in Places : row_list[p].mine => row_list[p].id > row_cursor)
         => \A q \in Places' : row_list'[q].mine => row_list'[q].id > row_cursor
  BY DEF Evolves, SameRow
<1>9. Whose'
  BY <1>6, <1>7, <1>8 DEF Whose
<1>10. Keys'
  <2>1. CASE UNCHANGED captured
    BY <2>1 DEF Keys
  <2>2. CASE row_pc = "receipt" /\ \E n \in Nat : captured' = Append(captured, n)
    <3>1. captured' # <<>> /\ (captured # <<>> => captured'[1] = captured[1])
      BY <2>2, FirstCapture DEF RowLists
    <3>2. row_effect # "submitted"
      BY <2>2 DEF Keys, Course
    <3> QED BY <2>2, <3>1, <3>2 DEF Keys
  <2> QED BY <2>1, <2>2
<1>11. \A q \in Places' : row_list'[q].mine => \E p \in Places : SameRow(row_list'[q], row_list[p])
  BY DEF Evolves
<1>12. OwnBound => OwnBound'
  BY <1>11 DEF OwnBound, SameRow
<1>13. Left'
  BY <1>6, <1>11, <1>12 DEF Left, SameRow
<1> QED BY <1>1, <1>4, <1>5, <1>9, <1>10, <1>13

\* A raised error: the clean-up follows, or the operation ends in it.
Raised ==
  /\ row_error' # "none" /\ task' = "clean"
  /\ IF task = "clean" THEN row_error' = "GUI_RESET_FAILED" /\ row_pc' = "done"
     ELSE row_error' \in {"ORDER_IDENTITY_AMBIGUOUS", "OPERATION_STATUS_UNKNOWN", "GUI_RESET_FAILED"} /\ row_pc' = "clean"
  /\ UNCHANGED <<row_owned, parked_id, row_effect>>
Still == UNCHANGED <<mode, confirms, row_list, row_last_id, touched, captured, row_cursor, message>>

\* An error leaves the invariant, wherever it is raised.
LEMMA RaisedKeeps ==
  ASSUME RowsInv, Raised, Still, row_pc # "done", row_pc # "clean"
  PROVE  RowsInv'
<1> USE DEF RowsInv, Still, Raised
<1>1. RowScalars' /\ RowLists'
  BY DEF RowScalars, RowLists, Places
<1>2. Course'
  BY DEF Course
<1>3. Whose'
  BY DEF Whose, Places, NoneMine
<1>4. Keys'
  <2>1. mode = "cancel" => row_effect # "submitted"
    BY DEF Keys
  <2> QED BY <2>1 DEF Keys, Course
<1>5. Left'
  <2>1. UNCHANGED <<NoneMine, OwnBound>>
    BY DEF NoneMine, OwnBound, Places
  <2>2. mode # "cancel" /\ task # "clean" => NoneMine \/ row_effect = "unknown"
    BY DEF Course, Whose
  <2> QED BY <2>1, <2>2 DEF Left
<1> QED BY <1>1, <1>2, <1>3, <1>4, <1>5

\* The errors of the model.
LEMMA RaisesAre ==
  ASSUME Rows!Unknown \/ Rows!Ambiguous
         \/ (Rows!Raises("GUI_RESET_FAILED") /\ UNCHANGED <<row_owned, parked_id, row_effect>>)
  PROVE  Raised
BY DEF Rows!Unknown, Rows!Ambiguous, Rows!Raises, Raised

\* Reading the list and the cursor, and creating the row.
LEMMA CreateKeeps ==
  ASSUME RowsInv, Rows!ReadBefore \/ Rows!ReadWorking \/ Rows!ReadCursor \/ Rows!Create
  PROVE  RowsInv'
<1>1. CASE Rows!ReadBefore
  <2>1. Still /\ row_pc = "before" /\ mode # "cancel"
    BY <1>1 DEF Rows!ReadBefore, Rows!Quiet, Rows!terminal, Still
  <2>2. CASE Rows!Ambiguous
    BY <2>1, <2>2, RaisesAre, RaisedKeeps
  <2>3. CASE row_pc' = "cursor" /\ UNCHANGED <<task, row_error, row_owned, parked_id, row_effect>>
    BY <2>1, <2>3 DEF RowsInv, RowScalars, RowLists, Course, Whose, Keys, Left, Still, Places, NoneMine, NotYet, OwnBound
  <2> QED BY <1>1, <2>2, <2>3 DEF Rows!ReadBefore, Rows!Continue
<1>2. CASE Rows!ReadWorking
  <2>1. Still /\ row_pc = "before" /\ mode = "cancel"
    BY <1>2 DEF Rows!ReadWorking, Rows!Quiet, Rows!terminal, Still
  <2>2. CASE Rows!Ambiguous
    BY <2>1, <2>2, RaisesAre, RaisedKeeps
  <2>3. CASE row_pc' = "select" /\ UNCHANGED <<task, row_error, parked_id, row_effect>>
    <3>1. task = "cancel"
      BY <2>1 DEF RowsInv, Course
    <3> QED BY <2>1, <2>3, <3>1 DEF RowsInv, RowScalars, RowLists, Course, Whose, Keys, Left, Still, Places, NoneMine
  <2> QED BY <1>2, <2>2, <2>3 DEF Rows!ReadWorking, Rows!Continue
<1>3. CASE Rows!ReadCursor
  <2>1. /\ UNCHANGED <<mode, confirms, row_list, row_last_id, touched, captured, message, task, row_error, row_owned,
                       parked_id, row_effect>>
        /\ row_pc = "cursor" /\ row_pc' = "create" /\ row_cursor' = row_last_id
    BY <1>3 DEF Rows!ReadCursor, Rows!Quiet, Rows!terminal, Rows!Continue
  <2>2. task = "send"
    BY <2>1 DEF RowsInv, Course
  <2> QED BY <2>1, <2>2 DEF RowsInv, RowScalars, RowLists, Course, Whose, Keys, Left, Places, NoneMine, NotYet
<1>4. CASE Rows!Create
  <2>1. /\ row_pc = "create" /\ row_pc' = "after" /\ row_effect' = "unknown"
        /\ UNCHANGED <<task, row_error, mode, confirms, touched, captured, row_cursor, row_owned, parked_id>>
    BY <1>4 DEF Rows!Create, Rows!Continue
  <2>2. PICK o \in {"added", "other"} :
          /\ message' = o /\ row_last_id' = row_last_id + 1
          /\ row_list' = Append(row_list, Rows!NewRow(IF o = "added" THEN "own" ELSE "different", TRUE))
    BY <1>4 DEF Rows!Create
  <2> DEFINE i == IF o = "added" THEN "own" ELSE "different"
             e == Rows!NewRow(i, TRUE)
  <2>3. e.id = row_last_id + 1 /\ e.mine = TRUE /\ e.identity # "same"
    BY DEF Rows!NewRow
  <2>4. e \in ListRow
    <3>1. i \in Rows!Identities /\ row_last_id + 1 \in Nat
      BY DEF Rows!Identities, RowsInv, RowScalars
    <3> QED BY <3>1, Zenon DEF Rows!NewRow, ListRow
  <2>5. row_list' = Append(row_list, e)
    BY <2>2
  <2> HIDE DEF e, i
  <2>6. /\ row_list' \in Seq(ListRow) /\ Len(row_list') = Len(row_list) + 1 /\ row_list'[Len(row_list) + 1] = e
        /\ \A p \in Places : row_list'[p] = row_list[p]
        /\ Len(row_list) \in Nat
    BY <2>4, <2>5 DEF RowsInv, RowLists, Places
  <2>7. task = "send" /\ row_error = "none" /\ mode # "cancel" /\ touched = <<>>
    BY <2>1 DEF RowsInv, Course, Whose, Keys
  <2>8. RowScalars'
    BY <2>1, <2>2 DEF RowsInv, RowScalars
  <2>9. \A q \in Places' : q = Len(row_list) + 1 \/ q \in Places
    BY <2>6 DEF Places
  <2>10. RowLists'
    <3>0. row_last_id' = row_last_id + 1 /\ row_last_id \in Nat
      BY <2>2 DEF RowsInv, RowScalars
    <3>1. \A p \in Places : row_list'[p].id \in 1 .. row_last_id'
      BY <2>6, <3>0 DEF RowsInv, RowLists
    <3>2. row_list'[Len(row_list) + 1].id \in 1 .. row_last_id'
      BY <2>3, <2>6, <3>0
    <3>3. \A q \in Places' : row_list'[q].id \in 1 .. row_last_id'
      BY <2>9, <3>1, <3>2
    <3> QED BY <2>1, <2>6, <3>3 DEF RowsInv, RowLists
  <2>11. Course' /\ Keys'
    BY <2>1, <2>7 DEF RowsInv, Course, Keys
  <2>12. row_last_id \in Nat /\ row_cursor \in 0 .. row_last_id /\ parked_id \in 0 .. row_last_id
    BY DEF RowsInv, RowScalars
  <2>13. Whose'
    <3>1. \E q \in Places' : row_list'[q].mine
      <4>1. Len(row_list) + 1 \in Places'
        BY <2>6 DEF Places
      <4> QED BY <2>3, <2>6, <4>1
    <3> QED BY <2>1, <2>3, <2>6, <2>7, <2>9, <2>12, <3>1 DEF RowsInv, Whose, NotYet, NoneMine
  <2>14. Left'
    BY <2>1, <2>7 DEF Left
  <2> QED BY <2>8, <2>10, <2>11, <2>13, <2>14 DEF RowsInv
<1> QED BY <1>1, <1>2, <1>3, <1>4

\* A set with one element, as the code counts it.
LEMMA OneElement ==
  ASSUME NEW S, IsFiniteSet(S), Rows!Cardinality(S) = 1, NEW x \in S, NEW y \in S
  PROVE  x = y
<1>1. Rows!Cardinality(S) = Cardinality(S)
  BY DEF Rows!Cardinality, Cardinality
<1>2. \E z : S = {z}
  BY <1>1, FS_Singleton
<1> QED BY <1>2

\* Positions are finitely many.
LEMMA SomePlaces ==
  ASSUME NEW n \in Nat, NEW S \in SUBSET (1 .. n)
  PROVE  IsFiniteSet(S)
<1>1. IsFiniteSet(1 .. n)
  BY FS_Interval
<1> QED BY <1>1, FS_Subset

\* Reading the list back and binding the row.
LEMMA BindKeeps ==
  ASSUME RowsInv, Rows!ReadAfter
  PROVE  RowsInv'
<1>1. /\ row_pc = "after" /\ message # "refused" /\ Still
      /\ task = "send" /\ mode # "cancel" /\ row_error = "none" /\ row_effect = "unknown" /\ touched = <<>>
  BY DEF Rows!ReadAfter, Rows!Quiet, Rows!terminal, Still, RowsInv, RowScalars, Course, Whose, Keys, NotYet
<1>2. CASE Rows!Unknown
  BY <1>1, <1>2, RaisesAre, RaisedKeeps
<1>3. CASE /\ \E p \in Rows!Bound(Rows!Exported(row_list)) : row_owned' = Rows!Exported(row_list)[p]
           /\ Rows!Continue("validate") /\ UNCHANGED <<parked_id, row_effect>>
  <2> DEFINE x == Rows!Exported(row_list)
             m == {p \in 1 .. Len(x) : x[p].identity \in Rows!SameParameters}
  <2>1. Len(x) = Len(row_list) /\ Len(row_list) \in Nat /\ \A p \in Places : x[p].identity = row_list[p].identity
    BY DEF Rows!Exported, Places, RowsInv, RowLists
  <2>2. PICK p \in Rows!Bound(x) : row_owned' = x[p]
    BY <1>3
  <2>3. p \in m /\ Rows!Cardinality(m) = 1
    BY <2>2 DEF Rows!Bound
  <2> HIDE DEF x
  <2>4. m = {q \in Places : row_list[q].identity \in Rows!SameParameters} /\ IsFiniteSet(m)
    <3>1. m = {q \in Places : row_list[q].identity \in Rows!SameParameters}
      BY <2>1 DEF Places
    <3>2. m \in SUBSET (1 .. Len(row_list))
      BY <3>1 DEF Places
    <3> QED BY <2>1, <3>1, <3>2, SomePlaces
  <2>5. ASSUME NEW q \in Places, row_list[q].mine, row_list[q].identity # "different"
        PROVE  row_owned'.identity = "own"
    <3>1. row_list[q].identity = "own"
      <4>1. row_list[q].identity \in {"own", "same", "different"}
        <5>1. row_list[q] \in ListRow
          BY ElementOfSeq DEF RowsInv, RowLists, Places
        <5> QED BY <5>1, Zenon DEF ListRow, Rows!Identities
      <4> QED BY <2>5, <4>1 DEF RowsInv, Whose
    <3>2. q \in m
      BY <2>4, <3>1 DEF Rows!SameParameters
    <3>3. q = p
      BY <2>3, <2>4, <3>2, OneElement
    <3> QED BY <2>1, <2>2, <3>1, <3>3
  <2>6. row_pc' = "validate" /\ UNCHANGED <<task, row_error, parked_id, row_effect>>
    BY <1>3 DEF Rows!Continue
  <2>7. RowScalars' /\ RowLists'
    BY <1>1, <2>6 DEF RowsInv, RowScalars, RowLists, Still, Places
  <2>8. Course' /\ Keys'
    BY <1>1, <2>6 DEF RowsInv, Course, Keys, Still
  <2>9. Whose'
    BY <1>1, <2>6 DEF RowsInv, Whose, Still, Places, NotYet
  <2>10. Left'
    BY <1>1, <2>5, <2>6 DEF Left, Still, Places
  <2> QED BY <2>7, <2>8, <2>9, <2>10 DEF RowsInv
<1> QED BY <1>1, <1>2, <1>3 DEF Rows!ReadAfter

\* Comparing the native record.
LEMMA ValidateKeeps ==
  ASSUME RowsInv, Rows!Validate
  PROVE  RowsInv'
<1>1. /\ row_pc = "validate" /\ Still
      /\ task = "send" /\ mode # "cancel" /\ row_error = "none" /\ row_effect = "unknown" /\ touched = <<>>
  BY DEF Rows!Validate, Rows!Quiet, Rows!terminal, Still, RowsInv, Course, Whose, Keys, NotYet
<1>2. CASE Rows!Unknown
  BY <1>1, <1>2, RaisesAre, RaisedKeeps
<1>3. CASE /\ Rows!Cardinality(Rows!NewRows) = 1 /\ \A p \in Rows!NewRows : row_list[p].identity \in Rows!SameParameters
           /\ parked_id' = row_list[CHOOSE p \in Rows!NewRows : TRUE].id
           /\ Rows!Continue("select") /\ UNCHANGED <<row_owned, row_effect>>
  <2>1. PICK q \in Places : row_list[q].mine
    BY <1>1 DEF RowsInv, Whose
  <2>2. Rows!NewRows = {p \in Places : row_list[p].id > row_cursor} /\ q \in Rows!NewRows
    BY <1>1, <2>1 DEF RowsInv, Whose, Rows!NewRows, Places
  <2>3. IsFiniteSet(Rows!NewRows)
    <3>1. Rows!NewRows \in SUBSET (1 .. Len(row_list)) /\ Len(row_list) \in Nat
      BY <2>2 DEF Places, RowsInv, RowLists
    <3> QED BY <3>1, SomePlaces
  <2>4. \A p \in Rows!NewRows : p = q
    BY <1>3, <2>2, <2>3, OneElement
  <2>5. (CHOOSE p \in Rows!NewRows : TRUE) = q
    BY <2>2, <2>4
  <2>6. parked_id' = row_list[q].id /\ row_list[q].id > row_cursor
    <3>1. parked_id' = row_list[CHOOSE p \in Rows!NewRows : TRUE].id
      BY <1>3, Zenon
    <3>2. parked_id' = row_list[q].id
      BY <2>5, <3>1, Zenon
    <3> QED BY <2>2, <3>2
  <2>7. \A p \in Places : row_list[p].mine => p = q
    BY <1>1, <2>2, <2>4 DEF RowsInv, Whose
  <2>8. row_list[q].identity = "own"
    <3>1. row_list[q].identity \in {"own", "same"}
      BY <1>3, <2>2 DEF Rows!SameParameters
    <3> QED BY <2>1, <3>1 DEF RowsInv, Whose
  <2>9. row_owned.identity = "own"
    BY <1>1, <2>1, <2>8 DEF RowsInv, Left
  <2>10. row_pc' = "select" /\ UNCHANGED <<task, row_error, row_owned, row_effect>>
    BY <1>3 DEF Rows!Continue
  <2>11. \A p \in Places : row_list[p].id = parked_id' => row_list[p].mine
    <3>1. \A p \in Places : row_list[p].id = parked_id' => p \in Rows!NewRows
      BY <2>2, <2>6
    <3> QED BY <2>1, <2>4, <3>1
  <2>12. RowScalars' /\ RowLists'
    BY <1>1, <2>6, <2>10 DEF RowsInv, RowScalars, RowLists, Still, Places
  <2>13. Course' /\ Keys'
    BY <1>1, <2>10 DEF RowsInv, Course, Keys, Still
  <2>14. Whose'
    BY <1>1, <2>10, <2>11 DEF RowsInv, Whose, Still, Places, NotYet
  <2>15. OwnBound'
    BY <1>1, <2>7, <2>8, <2>9, <2>10 DEF OwnBound, Still, Places
  <2>16. Left'
    BY <1>1, <2>10, <2>15 DEF Left, Still
  <2> QED BY <2>12, <2>13, <2>14, <2>16 DEF RowsInv
<1> QED BY <1>2, <1>3 DEF Rows!Validate

\* The row that a key touches, as it is recorded.
LEMMA HitMade ==
  ASSUME RowsInv, NEW k \in {"send", "remove", "cancel"}, selected \in Places, Rows!Hit(k)
  PROVE  /\ touched' \in Seq(Touch) /\ touched' # <<>> /\ Len(touched') = Len(touched) + 1 /\ Len(touched) \in Nat
         /\ \A i \in DOMAIN touched : i \in DOMAIN touched' /\ touched'[i] = touched[i]
         /\ \A i \in DOMAIN touched' : i \in DOMAIN touched \/ i = Len(touched) + 1
         /\ touched'[Len(touched) + 1].key = k
         /\ touched'[Len(touched) + 1].id = row_list[selected].id
         /\ touched'[Len(touched) + 1].mine = row_list[selected].mine
<1> DEFINE e == [id |-> row_list[selected].id, key |-> k, mine |-> row_list[selected].mine]
<1>1. row_list[selected] \in ListRow /\ touched \in Seq(Touch)
  BY ElementOfSeq DEF RowsInv, RowLists, Places
<1>2. e \in Touch
  BY <1>1, Zenon DEF Touch, ListRow
<1>3. e.key = k /\ e.id = row_list[selected].id /\ e.mine = row_list[selected].mine
  OBVIOUS
<1>4. touched' = Append(touched, e)
  BY DEF Rows!Hit
<1> HIDE DEF e
<1> QED BY <1>1, <1>2, <1>3, <1>4

\* Finding the position, looking again and selecting again.
LEMMA SelectKeeps ==
  ASSUME RowsInv, Rows!Select \/ Rows!Fresh \/ Rows!Reselect
  PROVE  RowsInv'
<1>1. Still /\ row_pc \in {"select", "fresh", "reselect"}
  BY Zenon DEF Rows!Select, Rows!Fresh, Rows!Reselect, Rows!Quiet, Rows!terminal, Rows!operation, Still
<1>2. Raised \/ (row_pc' \in {"fresh", "reselect", "key"} /\ UNCHANGED <<task, row_error, row_owned, parked_id, row_effect>>)
  BY RaisesAre DEF Rows!Select, Rows!Fresh, Rows!Reselect, Rows!Continue, Rows!operation
<1>3. CASE Raised
  BY <1>1, <1>3, RaisedKeeps
<1>4. CASE row_pc' \in {"fresh", "reselect", "key"} /\ UNCHANGED <<task, row_error, row_owned, parked_id, row_effect>>
  <2>1. RowScalars' /\ RowLists'
    BY <1>1, <1>4 DEF RowsInv, RowScalars, RowLists, Still, Places
  <2>2. Course' /\ Keys'
    BY <1>1, <1>4 DEF RowsInv, Course, Keys, Still
  <2>3. Whose'
    BY <1>1, <1>4 DEF RowsInv, Whose, Still, Places, NotYet
  <2>4. UNCHANGED <<NoneMine, OwnBound>>
    BY <1>1, <1>4 DEF NoneMine, OwnBound, Still, Places
  <2>5. Left'
    BY <1>1, <1>4, <2>4 DEF RowsInv, Course, Left, Still
  <2> QED BY <2>1, <2>2, <2>3, <2>5 DEF RowsInv
<1> QED BY <1>2, <1>3, <1>4

\* The key that sends.
LEMMA SendKeeps ==
  ASSUME RowsInv, Rows!Send
  PROVE  RowsInv'
<1>1. /\ row_pc = "key" /\ task = "send" /\ row_pc' = "receipt" /\ row_effect' = "unknown"
      /\ UNCHANGED <<task, row_error, mode, confirms, row_last_id, row_cursor, message, row_owned, parked_id>>
  BY DEF Rows!Send, Rows!Continue
<1>2. /\ mode # "cancel" /\ row_error = "none" /\ row_effect = "unknown" /\ touched = <<>> /\ OwnBound
  BY <1>1 DEF RowsInv, Course, Whose, Keys, NotYet, Left
<1>3. CASE UNCHANGED <<row_list, touched, captured>>
  <2>1. RowScalars' /\ RowLists'
    BY <1>1, <1>2, <1>3 DEF RowsInv, RowScalars, RowLists, Places
  <2>2. Course' /\ Keys'
    BY <1>1, <1>2, <1>3 DEF RowsInv, Course, Keys
  <2>3. Whose' /\ Left'
    BY <1>1, <1>2, <1>3 DEF RowsInv, Whose, Left, OwnBound, Places, NotYet
  <2> QED BY <2>1, <2>2, <2>3 DEF RowsInv
<1>4. CASE /\ selected \in Places /\ Rows!Hit("send") /\ row_list' = [row_list EXCEPT ![selected].status = "sent"]
           /\ captured' = <<row_list[selected].id>>
  <2>1. /\ row_list' \in Seq(ListRow) /\ Len(row_list') = Len(row_list)
        /\ \A p \in 1 .. Len(row_list) : SameRow(row_list'[p], row_list[p])
    BY <1>4, StatusSet DEF RowsInv, RowLists, Places
  <2>2. Places' = Places /\ \A p \in Places : SameRow(row_list'[p], row_list[p])
    BY <2>1 DEF Places
  <2>3. /\ touched' \in Seq(Touch) /\ DOMAIN touched' = {1} /\ touched'[1].key = "send"
        /\ touched'[1].id = row_list[selected].id /\ touched'[1].mine = row_list[selected].mine
    <3>1. touched' \in Seq(Touch) /\ Len(touched') = 1 /\ touched'[1].key = "send"
          /\ touched'[1].id = row_list[selected].id /\ touched'[1].mine = row_list[selected].mine
      BY <1>2, <1>4, HitMade
    <3> QED BY <3>1
  <2>4. captured' \in Seq(Nat) /\ captured' # <<>> /\ captured'[1] = row_list[selected].id
    <3>1. row_list[selected].id \in Nat
      BY <1>4 DEF RowsInv, RowLists, RowScalars
    <3> QED BY <1>4, <3>1
  <2>5. row_list[selected].id = parked_id => row_list[selected].mine
    BY <1>4 DEF RowsInv, Whose
  <2>6. RowScalars'
    BY <1>1 DEF RowsInv, RowScalars
  <2>7. RowLists'
    BY <1>1, <2>1, <2>2, <2>3, <2>4 DEF RowsInv, RowLists, SameRow
  <2>8. Course'
    BY <1>1 DEF RowsInv, Course
  <2>9. Keys'
    BY <1>1, <1>2, <2>3, <2>4, <2>5 DEF Keys
  <2>10. Whose'
    BY <1>1, <1>2, <2>2 DEF RowsInv, Whose, NotYet, SameRow
  <2>11. Left'
    BY <1>1, <1>2, <2>2 DEF RowsInv, Left, OwnBound, SameRow
  <2> QED BY <2>6, <2>7, <2>8, <2>9, <2>10, <2>11 DEF RowsInv
<1> QED BY <1>3, <1>4 DEF Rows!Send, Places

\* The receipt, and the list that shows the row as sent.
LEMMA ReceiptKeeps ==
  ASSUME RowsInv, Rows!Captured \/ Rows!Confirm
  PROVE  RowsInv'
<1>1. Still /\ row_pc \in {"receipt", "confirm"} /\ task = "send" /\ mode # "cancel" /\ OwnBound /\ row_error = "none"
  BY DEF Rows!Captured, Rows!Confirm, Rows!Quiet, Rows!terminal, Still, RowsInv, Course, Left, Whose
<1>2. CASE Rows!Unknown
  BY <1>1, <1>2, RaisesAre, RaisedKeeps
<1>3. ASSUME UNCHANGED <<row_error, row_owned, parked_id>>, captured = <<parked_id>>,
             \/ row_pc' = "confirm" /\ UNCHANGED <<task, row_effect>>
             \/ row_effect' = "submitted" /\ row_pc' = "clean" /\ task' = "clean"
      PROVE  RowsInv'
  <2>1. RowScalars' /\ RowLists'
    BY <1>1, <1>3 DEF RowsInv, RowScalars, RowLists, Still, Places
  <2>2. Course' /\ Keys'
    BY <1>1, <1>3 DEF RowsInv, Course, Keys, Still
  <2>3. Whose'
    BY <1>1, <1>3 DEF RowsInv, Whose, Still, Places, NotYet
  <2>4. OwnBound'
    BY <1>1, <1>3 DEF OwnBound, Still, Places
  <2>5. Left'
    BY <1>1, <1>3, <2>4 DEF RowsInv, Left, Still
  <2> QED BY <2>1, <2>2, <2>3, <2>5 DEF RowsInv
<1>4. CASE Rows!Captured
  BY <1>2, <1>3, <1>4 DEF Rows!Captured, Rows!Receipt, Rows!Continue
<1>5. CASE Rows!Confirm
  <2>1. captured = <<parked_id>>
    BY <1>5 DEF Rows!Confirm, RowsInv, Keys
  <2> QED BY <1>2, <1>3, <1>5, <2>1 DEF Rows!Confirm
<1> QED BY <1>4, <1>5

\* A removal by key: every row left was there.
Shrinks ==
  /\ row_list' \in Seq(ListRow)
  /\ \A q \in Places' : \E p \in Places : row_list'[q] = row_list[p]

\* The selected row, removed.
LEMMA SelectedRemoved ==
  ASSUME RowsInv, selected \in Places, row_list' = Rows!RemoveAt(row_list, selected)
  PROVE  Shrinks
BY Removed DEF RowsInv, RowLists, Shrinks, Places

\* Cancelling: the key, and the confirmation that names its order.
LEMMA CancelKeeps ==
  ASSUME RowsInv, Rows!Delete \/ Rows!Dialog
  PROVE  RowsInv'
<1>1. /\ row_pc \in {"key", "dialog"} /\ row_pc' \in {"dialog", "done"}
      /\ UNCHANGED <<task, mode, confirms, row_last_id, captured, row_cursor, message, row_owned, parked_id>>
  BY Zenon DEF Rows!Delete, Rows!Dialog, Rows!Continue
<1>2. task = "cancel" /\ mode = "cancel" /\ touched = <<>> /\ parked_id = 0 /\ row_effect # "submitted"
  <2>1. task = "cancel"
    BY DEF Rows!Delete, Rows!Dialog, RowsInv, Course
  <2> QED BY <1>1, <2>1 DEF RowsInv, Course, Keys
<1>3. /\ row_error' \in {row_error, "GUI_RESET_FAILED"} /\ row_effect' \in {row_effect, "unknown", "submitted"}
  BY Zenon DEF Rows!Delete, Rows!Dialog, Rows!Continue
<1>4. \/ UNCHANGED <<row_list, touched>> /\ row_effect' # "submitted"
      \/ /\ selected \in Places /\ Rows!Hit("cancel") /\ row_list' = Rows!RemoveAt(row_list, selected) /\ row_pc' = "done"
         /\ row_effect' = "submitted" => row_list[selected].identity = "own"
  BY <1>2 DEF Rows!Delete, Rows!Dialog, Rows!Continue, Places
<1>5. RowScalars' /\ Course' /\ Left'
  BY <1>1, <1>2, <1>3 DEF RowsInv, RowScalars, Course, Left
<1>6. CASE UNCHANGED <<row_list, touched>> /\ row_effect' # "submitted"
  <2>1. RowLists' /\ Whose' /\ Keys'
    BY <1>1, <1>2, <1>6 DEF RowsInv, RowLists, Whose, Keys, Places
  <2> QED BY <1>5, <2>1 DEF RowsInv
<1>7. CASE /\ selected \in Places /\ Rows!Hit("cancel") /\ row_list' = Rows!RemoveAt(row_list, selected) /\ row_pc' = "done"
           /\ row_effect' = "submitted" => row_list[selected].identity = "own"
  <2>1. Shrinks
    BY <1>7, SelectedRemoved
  <2>2. /\ touched' \in Seq(Touch) /\ touched' # <<>> /\ DOMAIN touched' = {1}
        /\ touched'[1].id = row_list[selected].id /\ touched'[1].mine = row_list[selected].mine
    <3>1. /\ touched' \in Seq(Touch) /\ touched' # <<>> /\ Len(touched') = 1
          /\ touched'[1].id = row_list[selected].id /\ touched'[1].mine = row_list[selected].mine
      BY <1>2, <1>7, HitMade
    <3> QED BY <3>1
  <2>3. RowLists'
    BY <1>1, <2>1, <2>2 DEF RowsInv, RowLists, Shrinks
  <2>4. Whose'
    BY <1>1, <1>2, <1>7, <2>1 DEF RowsInv, Whose, Shrinks
  <2>5. row_list[selected].id # parked_id /\ (row_list[selected].identity = "own" => row_list[selected].mine)
    BY <1>2, <1>7 DEF RowsInv, RowLists, RowScalars, Whose
  <2>6. Keys'
    BY <1>1, <1>2, <1>7, <2>2, <2>5 DEF Keys
  <2> QED BY <1>5, <2>3, <2>4, <2>6 DEF RowsInv
<1> QED BY <1>4, <1>6, <1>7

\* The clean-up.
LEMMA CleanKeeps ==
  ASSUME RowsInv, Rows!CleanNothing \/ Rows!Clean \/ Rows!RemoveOwned \/ Rows!Gone
  PROVE  RowsInv'
<1>1. CASE Rows!CleanNothing
  <2>1. /\ Still /\ row_pc = "clean" /\ row_pc' = "done" /\ (mode = "cancel" \/ row_owned = Rows!NoRow)
        /\ UNCHANGED <<task, row_error, row_owned, parked_id, row_effect>>
    BY <1>1 DEF Rows!CleanNothing, Rows!Continue, Rows!Quiet, Rows!terminal, Still
  <2>2. task = "clean"
    BY <2>1 DEF RowsInv, Course
  <2>3. RowScalars' /\ RowLists' /\ Course' /\ Keys'
    BY <2>1, <2>2 DEF RowsInv, RowScalars, RowLists, Course, Keys, Still, Places
  <2>4. Whose'
    BY <2>1, <2>2 DEF RowsInv, Whose, Still, Places
  <2>5. UNCHANGED <<NoneMine, OwnBound>>
    BY <2>1 DEF NoneMine, OwnBound, Still, Places
  <2>6. Left'
    BY <2>1, <2>2, <2>5 DEF RowsInv, Left, Still
  <2> QED BY <2>3, <2>4, <2>6 DEF RowsInv
<1>2. CASE Rows!Clean
  <2>1. /\ Still /\ row_pc = "clean" /\ row_pc' = "select" /\ mode # "cancel"
        /\ UNCHANGED <<task, row_error, row_owned, parked_id, row_effect>>
    BY <1>2 DEF Rows!Clean, Rows!Continue, Rows!Quiet, Rows!terminal, Still
  <2>2. task = "clean"
    BY <2>1 DEF RowsInv, Course
  <2>3. RowScalars' /\ RowLists' /\ Course' /\ Keys'
    BY <2>1, <2>2 DEF RowsInv, RowScalars, RowLists, Course, Keys, Still, Places
  <2>4. Whose'
    BY <2>1, <2>2 DEF RowsInv, Whose, Still, Places
  <2>5. UNCHANGED <<NoneMine, OwnBound>>
    BY <2>1 DEF NoneMine, OwnBound, Still, Places
  <2>6. Left'
    BY <2>1, <2>2, <2>5 DEF RowsInv, Left, Still
  <2> QED BY <2>3, <2>4, <2>6 DEF RowsInv
<1>3. CASE Rows!RemoveOwned
  <2>1. /\ row_pc = "key" /\ task = "clean" /\ row_pc' = "gone"
        /\ UNCHANGED <<task, row_error, mode, confirms, row_last_id, captured, row_cursor, message, row_owned, parked_id, row_effect>>
    BY <1>3 DEF Rows!RemoveOwned, Rows!Continue, Rows!operation
  <2>2. mode # "cancel"
    BY <2>1 DEF RowsInv, Course
  <2>3. \/ UNCHANGED <<row_list, touched>>
        \/ selected \in Places /\ Rows!Hit("remove") /\ row_list' = Rows!RemoveAt(row_list, selected)
    BY <1>3 DEF Rows!RemoveOwned, Places
  <2>4. Shrinks
    BY <2>3, SelectedRemoved DEF Shrinks, RowsInv, RowLists, Places
  <2>5. /\ touched' \in Seq(Touch)
        /\ \A i \in DOMAIN touched' :
             \/ i \in DOMAIN touched /\ touched'[i] = touched[i]
             \/ touched'[i].key = "remove" /\ (touched'[i].id = parked_id => touched'[i].mine)
    <3>1. CASE UNCHANGED touched
      BY <3>1 DEF RowsInv, RowLists
    <3>2. CASE selected \in Places /\ Rows!Hit("remove")
      <4>1. row_list[selected].id = parked_id => row_list[selected].mine
        BY <3>2 DEF RowsInv, Whose
      <4> QED BY <3>2, <4>1, HitMade
    <3> QED BY <2>3, <3>1, <3>2
  <2>6. RowScalars' /\ Course'
    BY <2>1, <2>2 DEF RowsInv, RowScalars, Course
  <2>7. RowLists'
    BY <2>1, <2>4, <2>5 DEF RowsInv, RowLists, Shrinks
  <2>8. Whose'
    BY <2>1, <2>4 DEF RowsInv, Whose, Shrinks
  <2>9. Keys'
    BY <2>1, <2>2, <2>5 DEF RowsInv, Keys
  <2>10. (NoneMine => NoneMine') /\ (OwnBound => OwnBound')
    BY <2>1, <2>4 DEF Shrinks, NoneMine, OwnBound
  <2>11. Left'
    BY <2>1, <2>2, <2>10 DEF RowsInv, Left
  <2> QED BY <2>6, <2>7, <2>8, <2>9, <2>11 DEF RowsInv
<1>4. CASE Rows!Gone
  <2>1. Still /\ row_pc = "gone" /\ task = "clean" /\ mode # "cancel"
    BY <1>4 DEF Rows!Gone, Rows!Quiet, Rows!terminal, Still, RowsInv, Course
  <2>2. CASE Rows!Raises("GUI_RESET_FAILED") /\ UNCHANGED <<row_owned, parked_id, row_effect>>
    BY <2>1, <2>2, RaisesAre, RaisedKeeps
  <2>3. CASE /\ Rows!Positions(row_list, row_owned.identity) = {} /\ row_owned' = Rows!NoRow /\ row_pc' = "done"
             /\ UNCHANGED <<task, row_error, parked_id, row_effect>>
    <3>1. RowScalars' /\ RowLists' /\ Course' /\ Keys'
      BY <2>1, <2>3 DEF RowsInv, RowScalars, RowLists, Course, Keys, Still, Places
    <3>2. Whose'
      BY <2>1, <2>3 DEF RowsInv, Whose, Still, Places
    <3>3. UNCHANGED NoneMine
      BY <2>1 DEF NoneMine, Still, Places
    <3>4. OwnBound => NoneMine
      BY <2>3 DEF OwnBound, NoneMine, Rows!Positions, Places
    <3>5. Left'
      BY <2>1, <2>3, <3>3, <3>4 DEF RowsInv, Left, Still
    <3> QED BY <3>1, <3>2, <3>5 DEF RowsInv
  <2> QED BY <1>4, <2>2, <2>3 DEF Rows!Gone
<1> QED BY <1>1, <1>2, <1>3, <1>4

\* A step of another part, or none, leaves the rows alone.
LEMMA RowsFrame ==
  ASSUME RowsInv, UNCHANGED rowVars
  PROVE  RowsInv'
<1>1. UNCHANGED <<mode, confirms, row_list, row_last_id, row_pc, task, row_cursor, message, row_owned, parked_id,
                  row_effect, row_error, touched, captured>>
  BY DEF rowVars
<1>2. RowScalars' /\ RowLists' /\ Course' /\ Keys'
  BY <1>1 DEF RowsInv, RowScalars, RowLists, Course, Keys, Places
<1>3. Whose'
  BY <1>1 DEF RowsInv, Whose, NoneMine, Places
<1>4. Left'
  BY <1>1 DEF RowsInv, Left, OwnBound, NoneMine, Places
<1> QED BY <1>2, <1>3, <1>4 DEF RowsInv

\* The lists there may be at the beginning.
LEMMA RowsInit ==
  ASSUME Rows!Init
  PROVE  RowsInv
<1>1. /\ mode \in {"import", "form", "cancel"} /\ confirms \in BOOLEAN
      /\ row_last_id = 2 /\ touched = <<>> /\ captured = <<>> /\ row_pc = "before"
      /\ task = (IF mode = "cancel" THEN "cancel" ELSE "send") /\ row_cursor = 0 /\ message = "none"
      /\ row_owned = Rows!NoRow /\ parked_id = 0 /\ row_effect = "none" /\ row_error = "none"
  BY DEF Rows!Init, Rows!None
<1> DEFINE Foreign(i) == [identity |-> i, status |-> "idle", id |-> 1, mine |-> FALSE]
<1>2. Rows!Working \in ListRow /\ Rows!Working.id = 2 /\ Rows!Working.mine = TRUE /\ Rows!Working.identity = "own"
  <2>1. "own" \in Rows!Identities
    BY DEF Rows!Identities
  <2>2. Rows!Working \in ListRow
    BY <2>1, Zenon DEF Rows!Working, ListRow
  <2> QED BY <2>2 DEF Rows!Working
<1>3. \A i \in {"same", "different"} : /\ Foreign(i) \in ListRow /\ Foreign(i).id = 1 /\ Foreign(i).mine = FALSE
                                       /\ Foreign(i).identity # "own"
  <2> SUFFICES ASSUME NEW i \in {"same", "different"}
               PROVE  /\ Foreign(i) \in ListRow /\ Foreign(i).id = 1 /\ Foreign(i).mine = FALSE
                      /\ Foreign(i).identity # "own"
    OBVIOUS
  <2>1. i \in Rows!Identities
    BY DEF Rows!Identities
  <2>2. Foreign(i) \in ListRow
    BY <2>1, Zenon DEF ListRow
  <2> QED BY <2>2
<1>4. PICK t \in Rows!Tables : row_list = IF mode = "cancel" THEN Append(t, Rows!Working) ELSE t
  BY DEF Rows!Init
<1> HIDE DEF Foreign
<1>5. t = <<>> \/ \E i \in {"same", "different"} : t = <<Foreign(i)>>
  BY <1>4 DEF Rows!Tables, Foreign
<1>6. /\ t \in Seq(ListRow)
      /\ \A p \in 1 .. Len(t) : t[p].id = 1 /\ t[p].mine = FALSE /\ t[p].identity # "own"
  <2>1. CASE t = <<>>
    BY <2>1
  <2>2. CASE \E i \in {"same", "different"} : t = <<Foreign(i)>>
    <3>1. PICK f \in ListRow : f.id = 1 /\ f.mine = FALSE /\ f.identity # "own" /\ t = <<f>>
      BY <1>3, <2>2
    <3> QED BY <3>1
  <2> QED BY <1>5, <2>1, <2>2
<1>7. /\ row_list \in Seq(ListRow)
      /\ \A p \in Places : \/ row_list[p].id = 1 /\ row_list[p].mine = FALSE /\ row_list[p].identity # "own"
                           \/ mode = "cancel" /\ row_list[p] = Rows!Working
  <2>1. CASE mode # "cancel"
    BY <1>4, <1>6, <2>1 DEF Places
  <2>2. CASE mode = "cancel"
    <3>1. row_list = Append(t, Rows!Working)
      BY <1>4, <2>2
    <3>2. row_list \in Seq(ListRow) /\ Len(row_list) = Len(t) + 1 /\ Len(t) \in Nat
      BY <1>2, <1>6, <3>1
    <3>3. \A p \in 1 .. Len(t) : row_list[p] = t[p]
      BY <1>2, <1>6, <3>1
    <3>4. row_list[Len(t) + 1] = Rows!Working
      BY <1>2, <1>6, <3>1
    <3> QED BY <1>6, <2>2, <3>2, <3>3, <3>4 DEF Places
  <2> QED BY <2>1, <2>2
<1>8. RowScalars /\ Course
  BY <1>1 DEF RowScalars, Course
<1>9. RowLists
  BY <1>1, <1>2, <1>7 DEF RowLists
<1>10. Whose
  BY <1>1, <1>2, <1>7 DEF Whose, NoneMine, NotYet
<1>11. Keys /\ Left
  BY <1>1 DEF Keys, Left
<1> QED BY <1>8, <1>9, <1>10, <1>11 DEF RowsInv

\* The invariant of the rows holds in every state, whichever part moves: the row behind the armed native
\* id is the operation's, and a bound row that is the operation's is found again or the executor stops.
THEOREM RowsInvariant == Spec => []RowsInv
<1>1. Init => RowsInv
  BY RowsInit DEF Init
<1>2. RowsInv /\ [Next]_vars => RowsInv'
  <2> SUFFICES ASSUME RowsInv, [Next]_vars PROVE RowsInv'
    OBVIOUS
  <2>1. CASE Rows!Others
    <3>1. /\ Evolves /\ Bystanders
          /\ UNCHANGED captured \/ (row_pc = "receipt" /\ \E n \in Nat : captured' = Append(captured, n))
      BY <2>1, OthersOutcome DEF RowsInv
    <3>2. captured' \in Seq(Nat)
      BY <3>1, FirstCapture DEF RowsInv, RowLists
    <3> QED BY <3>1, <3>2, OthersKeep
  <2>2. CASE Rows!Done
    BY <2>2, RowsFrame DEF Rows!Done, Rows!vars, Rows!operation, Rows!terminal, rowVars
  <2>3. CASE Rows!Next
    BY <2>1, <2>2, <2>3, CreateKeeps, BindKeeps, ValidateKeeps, SelectKeeps, SendKeeps, ReceiptKeeps, CancelKeeps, CleanKeeps
       DEF Rows!Next
  <2>4. CASE UNCHANGED rowVars
    BY <2>4, RowsFrame
  <2> QED BY <2>3, <2>4 DEF Next, vars
<1> QED BY <1>1, <1>2, PTL DEF Spec

\* "submitted" is said only of the operation's own row, sent once while it was watched, however often
\* others add, remove, start, send or sort (orders.py send_local and cancel, steps.py).
THEOREM RowIsOwn == Spec => []SubmittedIsOwn
<1>1. RowsInv => SubmittedIsOwn
  <2> SUFFICES ASSUME RowsInv, row_effect = "submitted"
               PROVE  /\ \A i \in 1 .. Len(touched) : touched[i].key # "remove" => touched[i].mine
                      /\ IF mode = "cancel" THEN touched # <<>> ELSE captured = <<parked_id>>
                      /\ \A p \in 1 .. Len(row_list) : row_list[p].id = parked_id => row_list[p].mine
    BY DEF SubmittedIsOwn, Rows!SubmittedIsOwn
  <2>1. DOMAIN touched = 1 .. Len(touched) /\ \A i \in 1 .. Len(touched) : touched[i].key \in {"send", "remove", "cancel"}
    <3>1. touched \in Seq(Touch)
      BY DEF RowsInv, RowLists
    <3>2. \A i \in 1 .. Len(touched) : touched[i] \in Touch
      BY <3>1, ElementOfSeq
    <3>3. \A x \in Touch : x.key \in {"send", "remove", "cancel"}
      BY Zenon DEF Touch
    <3> QED BY <3>1, <3>2, <3>3
  <2>2. \A i \in 1 .. Len(touched) : touched[i].key # "remove" => touched[i].mine
    <3>1. CASE mode = "cancel"
      BY <2>1, <3>1 DEF RowsInv, Keys
    <3>2. CASE mode # "cancel"
      <4>1. captured = <<parked_id>>
        BY <3>2 DEF RowsInv, Keys
      <4>2. captured[1] = parked_id
        BY <4>1
      <4> QED BY <2>1, <3>2, <4>2 DEF RowsInv, Keys
    <3> QED BY <3>1, <3>2
  <2> QED BY <2>2 DEF RowsInv, Keys, Whose, Places
<1> QED BY <1>1, RowsInvariant, PTL

\* A row that an operation created and has not deleted leaves the executor blocked or paused, on both
\* paths (executor.py cleanup and fail; orders.py cleanup).
THEOREM LeftoverIsBlocked == Spec => []LeftoverBlocks
<1>1. FormInv /\ RowsInv => LeftoverBlocks
  <2> SUFFICES ASSUME FormInv, RowsInv PROVE LeftoverBlocks
    OBVIOUS
  <2>1. Form!LeftoverBlocks
    BY DEF FormInv, Answered, Form!LeftoverBlocks
  <2>2. ASSUME row_pc = "done", mode # "cancel", Rows!Mine # {}
        PROVE  Rows!Paused
    <3>1. ~NoneMine /\ task = "clean"
      BY <2>2 DEF Rows!Mine, NoneMine, Places, RowsInv, Course
    <3>2. OwnBound => row_owned # Rows!NoRow
      BY DEF OwnBound, Rows!NoRow, Rows!None
    <3> QED BY <2>2, <3>1, <3>2 DEF RowsInv, Left, Rows!Paused, Rows!None
  <2> QED BY <2>1, <2>2 DEF LeftoverBlocks, Rows!LeftoverMeansPaused
<1> QED BY <1>1, FormInvariant, RowsInvariant, PTL

MeddleFits == row_meddled \in 0 .. MaxMeddle

\* The number of disturbances stays within its bound.
LEMMA MeddleBounded == Spec => []MeddleFits
<1>0. MaxMeddle \in Nat
  BY ConstantsAssumption DEF Rows!Constants
<1>1. Init => MeddleFits
  BY <1>0 DEF MeddleFits, Init, Rows!Init
<1>2. MeddleFits /\ [Next]_vars => MeddleFits'
  <2> SUFFICES ASSUME row_meddled \in 0 .. MaxMeddle, [Next]_vars
               PROVE  row_meddled' \in 0 .. MaxMeddle
    BY DEF MeddleFits
  <2>1. CASE Rows!Others
    <3>1. row_meddled < MaxMeddle /\ row_meddled' = row_meddled + 1
      BY <2>1, Zenon DEF Rows!Others, Rows!Adds, Rows!Removes, Rows!Starts, Rows!Sends, Rows!Sorts, Rows!Meddles, Rows!May
    <3> QED BY <1>0, <3>1
  <2>2. ASSUME Rows!Next, ~Rows!Others
        PROVE  UNCHANGED row_meddled
    <3>1. CASE \/ Rows!ReadBefore \/ Rows!ReadWorking \/ Rows!ReadCursor \/ Rows!ReadAfter \/ Rows!Validate \/ Rows!Fresh
               \/ Rows!Captured \/ Rows!Confirm \/ Rows!CleanNothing \/ Rows!Clean \/ Rows!Gone
      BY <3>1, Zenon DEF Rows!ReadBefore, Rows!ReadWorking, Rows!ReadCursor, Rows!ReadAfter, Rows!Validate, Rows!Fresh,
         Rows!Captured, Rows!Confirm, Rows!CleanNothing, Rows!Clean, Rows!Gone, Rows!Quiet, Rows!terminal
    <3>2. CASE \/ Rows!Create \/ Rows!Select \/ Rows!Reselect \/ Rows!Send \/ Rows!Delete \/ Rows!Dialog
               \/ Rows!RemoveOwned \/ Rows!Done
      BY <3>2, Zenon DEF Rows!Create, Rows!Select, Rows!Reselect, Rows!Send, Rows!Delete, Rows!Dialog, Rows!RemoveOwned,
         Rows!Done, Rows!vars, Rows!terminal
    <3> QED BY <2>2, <3>1, <3>2 DEF Rows!Next
  <2>3. CASE UNCHANGED rowVars
    BY <2>3 DEF rowVars
  <2>4. Rows!Next \/ UNCHANGED rowVars
    BY Zenon DEF Next, vars
  <2>5. CASE UNCHANGED row_meddled
    BY <2>5
  <2> QED BY <2>1, <2>2, <2>3, <2>4, <2>5
<1> QED BY <1>1, <1>2, PTL DEF Spec

\* The four parts are well typed in every state, for all bounds.
THEOREM TypesHold == Spec => []TypesOK
<1>1. ReceiptInv => Send!TypeOK
  BY DEF ReceiptInv, SendTypes
<1>2. SessionInv => Login!TypeOK
  <2> SUFFICES ASSUME SessionInv PROVE Login!TypeOK
    OBVIOUS
  <2>1. Login!Choice = {"ours", "other"} /\ Login!Choice \cup {"none"} = {"none", "ours", "other"}
    BY DEF Login!Choice
  <2>2. {known, disconnected, identity_lost, login_established, accepted} \subseteq BOOLEAN
    BY Zenon DEF SessionInv, LoginScalars
  <2>3. {gen, login_generation, session} \subseteq Nat /\ (session # Login!None => login_established)
    BY DEF SessionInv, LoginScalars, Login!None
  <2>4. terminal \in [screen : {"login", "main"}, account : Login!Choice \cup {"none"},
                      site : Login!Choice \cup {"none"}, link : BOOLEAN, number : Nat]
    BY <2>1, Zenon DEF SessionInv, LoginRecords, TerminalType
  <2>5. window \in [site : Login!Choice, user : Login!Choice]
    BY <2>1, Zenon DEF SessionInv, LoginRecords
  <2> QED BY <2>2, <2>3, <2>4, <2>5 DEF SessionInv, LoginScalars, Login!TypeOK
<1>3. FormInv => Form!TypeOK
  <2> SUFFICES ASSUME FormInv PROVE Form!TypeOK
    OBVIOUS
  <2>1. {pending, market_dialog, blocked, leftover, meddled} \subseteq BOOLEAN
    BY Zenon DEF FormInv, FormFlags
  <2>2. list \subseteq [id : 1 .. last_id, form : Form!Forms, manual : BOOLEAN, mine : BOOLEAN]
    <3> SUFFICES ASSUME NEW r \in list
                 PROVE  r \in [id : 1 .. last_id, form : Form!Forms, manual : BOOLEAN, mine : BOOLEAN]
      OBVIOUS
    <3>1. r \in RowType /\ r.id \in 1 .. last_id
      BY DEF FormInv, FormData
    <3>2. /\ r = [id |-> r.id, form |-> r.form, manual |-> r.manual, mine |-> r.mine]
          /\ r.form \in Form!Forms /\ r.manual \in BOOLEAN /\ r.mine \in BOOLEAN
      BY <3>1, Zenon DEF RowType
    <3> QED BY <3>1, <3>2, Zenon
  <2>3. todo \in {SubSeq(Form!Order, n, Len(Form!Order)) : n \in 1 .. Len(Form!Order) + 1}
    BY DEF FormInv, Progress, Todos
  <2> QED BY <2>1, <2>2, <2>3 DEF FormInv, FormScalars, FormData, Form!TypeOK
<1>4. RowsInv /\ MeddleFits => Rows!TypeOK
  <2> SUFFICES ASSUME RowsInv, row_meddled \in 0 .. MaxMeddle PROVE Rows!TypeOK
    BY DEF MeddleFits
  <2>1. ASSUME NEW p \in Places
        PROVE  row_list[p] \in [identity : Rows!Identities, status : {"idle", "started", "sent"},
                                id : 1 .. row_last_id, mine : BOOLEAN]
    <3> DEFINE r == row_list[p]
    <3>1. r \in ListRow /\ r.id \in 1 .. row_last_id
      BY ElementOfSeq DEF RowsInv, RowLists, Places
    <3> HIDE DEF r
    <3>2. /\ r = [identity |-> r.identity, status |-> r.status, id |-> r.id, mine |-> r.mine]
          /\ r.identity \in Rows!Identities /\ r.status \in {"idle", "started", "sent"} /\ r.mine \in BOOLEAN
      BY <3>1, Zenon DEF ListRow
    <3>3. r \in [identity : Rows!Identities, status : {"idle", "started", "sent"}, id : 1 .. row_last_id, mine : BOOLEAN]
      BY <3>1, <3>2, Zenon
    <3> QED BY <3>3 DEF r
  <2> QED BY <2>1 DEF RowsInv, RowScalars, Course, Rows!TypeOK, Rows!None, Places
<1> QED BY <1>1, <1>2, <1>3, <1>4, ReceiptInvariant, SessionInvariant, FormInvariant, RowsInvariant, MeddleBounded, PTL
        DEF TypesOK

=============================================================================
