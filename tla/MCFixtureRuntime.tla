-------------------------- MODULE MCFixtureRuntime --------------------------
EXTENDS FixtureRuntime
=============================================================================
