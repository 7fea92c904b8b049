---------------------------- MODULE MCPipeServer ----------------------------
(***************************************************************************)
(* Small instances of the pipe for TLC.                                    *)
(***************************************************************************)
EXTENDS PipeServer, Integers, TLC

CONSTANTS c1, c2

(* Every two sizes once, in whatever order: the calls are alike.           *)
PairsOfSizes ==
    LET sizes == <<"small", "brim", "huge", "vast">>
    IN  UNION {{c1 :> sizes[i] @@ c2 :> sizes[j] : j \in i..4} : i \in 1..4}
=============================================================================
