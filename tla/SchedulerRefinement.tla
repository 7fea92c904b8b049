------------------------ MODULE SchedulerRefinement -------------------------
(***************************************************************************)
(* The scheduler implements RunJournal.                                    *)
(***************************************************************************)
EXTENDS SchedulerProperties

(* Of a run: where it comes from, and its record.  Only a deletion takes   *)
(* the record of a run that has begun.                                     *)
Origin == [r \in Runs |-> <<owner[r], start[r]>>]

Journal == [r \in Runs |-> IF owner[r] # None /\ row[r] = "none" THEN "erased" ELSE row[r]]

Abstract == INSTANCE RunJournal WITH
    Seconds <- 0..MaxClock, origin <- Origin, journal <- Journal, process <- proc

(* The history keeps the promise of RunJournal, with every interleaving of *)
(* the worker's statements, and across deletions, stops, crashes and       *)
(* launches that fail, as long as the worker alone launches, under a       *)
(* policy that forbids overlap, and no statement fails.                    *)
ImplementsRunJournal == Abstract!Spec
=============================================================================
