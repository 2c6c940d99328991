----------------------------- MODULE ScreenPart -----------------------------
(***************************************************************************)
(* One operation on the screen, as a part of MCTerminal, where it must     *)
(* come to an end, and of MCReadings, where what it returns must be right. *)
(***************************************************************************)
EXTENDS Naturals, Sequences

CONSTANTS MaxRuns, MaxEvents   \* operations on the screen and disturbances

VARIABLES
  pc, back, next, ready, expired, touched, cached, job, got, failed, runs, win, held, table,
  closing, asked, serial, base, events

Screen == INSTANCE Gui WITH Operations <- {"grid", "balance"}, XdoFails <- TRUE

ASSUME ScreenAssumption == Screen!Constants

screenVars == <<pc, back, next, ready, expired, touched, cached, job, got, failed, runs, win, held,
                table, closing, asked, serial, base, events>>

=============================================================================
