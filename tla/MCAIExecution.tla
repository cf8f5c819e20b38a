--------------------------- MODULE MCAIExecution ---------------------------
(***************************************************************************)
(* Small instances of AIExecution for TLC: a question whose task tries     *)
(* twice (document.ask), and a request whose task repairs a malformed      *)
(* answer (document.classify, with fewer tries).  Handlers are             *)
(* interchangeable.                                                        *)
(***************************************************************************)
EXTENDS AIExecution, TLC

CONSTANTS question1, request2

MCRequests == {question1, request2}
MCMaxTries == (question1 :> 2) @@ (request2 :> 1)
MCRepairs == (question1 :> 0) @@ (request2 :> 1)
EqualCost == (question1 :> 1) @@ (request2 :> 1)
DearerFallback == (question1 :> 4) @@ (request2 :> 1)

Sym == Permutations(Handlers)
=============================================================================
