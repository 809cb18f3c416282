------------------------------ MODULE MCRemove ------------------------------
(* An instance of Remove: keys of which one is a directory, one starts like *)
(* the directory, one starts with a slash, and one has two uploads; and     *)
(* arguments of every kind.                                                 *)
EXTENDS Remove

MCNames ==
  << <<"/", "a">>, <<"a">>, <<"a">>, <<"a", "-">>, <<"a", "/", "b">>, <<"b">> >>

MCArgs == { <<>>, <<"a">>, <<"a", "/">>, <<"a", "*">>, <<"*">>, <<"/">>, <<"/", "a">> }
=============================================================================
