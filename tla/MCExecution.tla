----------------------------- MODULE MCExecution -----------------------------
EXTENDS Execution
CONSTANTS a, b
MCAgents == {a, b}
MCCheckPlans == {<<"install", "test">>, <<"test", "lint">>}
MCChecks == {"install", "test", "lint"}
=============================================================================
