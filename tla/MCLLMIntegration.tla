-------------------------- MODULE MCLLMIntegration --------------------------
(***************************************************************************)
(* A small instance of LLMIntegration: arguments in two parts, in one and  *)
(* in none; calls answered at once, in place and later; a picture, a PDF   *)
(* and another file.                                                       *)
(***************************************************************************)
EXTENDS LLMIntegration, TLC

CONSTANTS a, b, c, d, e

MCCalls == {a, b, c, d, e}
MCParts == a :> 2 @@ b :> 1 @@ c :> 1 @@ d :> 0 @@ e :> 2
MCKind == a :> "service" @@ b :> "mcp" @@ c :> "blocked" @@ d :> "refused" @@ e :> "internal"
MCAttachments == <<"image", "file", "pdf">>
=============================================================================
