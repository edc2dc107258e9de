----------------------------- MODULE MCPipeline -----------------------------
(***************************************************************************)
(* All providers, and a demo that is run up to three times.                *)
(***************************************************************************)
EXTENDS Pipeline

AllProviders == {"fixture-local", "dry-run", "live"}
FixtureOnly  == {"fixture-local"}
=============================================================================
