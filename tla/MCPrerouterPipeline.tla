------------------------- MODULE MCPrerouterPipeline -------------------------
(* A small instance of PrerouterPipeline. *)
EXTENDS PrerouterPipeline

CONSTANTS e1, e2

MCRoutes == {{e1}, {e2}}

=============================================================================
