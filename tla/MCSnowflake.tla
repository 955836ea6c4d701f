---------------------------- MODULE MCSnowflake -----------------------------
(* Instances of Snowflake for TLC.                                          *)
EXTENDS Snowflake
=============================================================================
