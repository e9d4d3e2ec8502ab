---------------------------- MODULE MCConnection ----------------------------
(* A small instance of Connection.                                         *)
EXTENDS Connection

MCProgram == <<"sub", "pub", "unsub", "sub", "pub">>

=============================================================================
