------------------------------- MODULE MCGet -------------------------------
(* An instance of Get: one key that starts with a slash.                   *)
EXTENDS Get

MCNames == << <<"/", "a">>, <<"a">>, <<"a", "/", "b">> >>
MCArgs == { <<"/", "a">> }
=============================================================================
