---------------------------- MODULE MCTaskEditor ----------------------------
(***************************************************************************)
(* Small instances of the editor and the store for TLC.                    *)
(***************************************************************************)
EXTENDS TaskEditor, TLC

CONSTANTS t1, t2, u1

(* With a weekly window the main window cannot be refreshed.               *)
WeeklyOrNot == {t1 :> <<"weekly", "monthly">>, t1 :> <<"monthly", "dated">>}
=============================================================================
