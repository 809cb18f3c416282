----------------------------- MODULE MCProgram -----------------------------
(* An instance of Program.  The parser is tried on every file of up to     *)
(* three lines, also where a second file stands behind it; before the      *)
(* other commands it reads an empty file, which is valid.                  *)
EXTENDS Program

MCGetNames ==
  << <<"/", "a">>, <<"a">>, <<"a", "-">>, <<"a", "/">>, <<"a", "/", "b">> >>
MCGetArgs == { <<>>, <<"a">>, <<"a", "/">>, <<"/">>, <<"/", "a">> }

MCListNames ==
  << <<"/", ".", "/", "a">>, <<"/", "a">>, <<"a">>, <<"a", "-">>, <<"a", "/", "b">>,
     <<"a", "/", "c", "/", "d">> >>
MCListArgs == { <<>>, <<"a">>, <<"a", "*">>, <<"/">>, <<"/", "a">> }

MCPutNames == << <<"d", "/", "e", "/", "x">>, <<"d", "/", "y">>, <<"x">>, <<"z">> >>
MCPutRoots ==
  LET paths == { <<"d">>, <<"x">>, <<"z">> }
  IN {<<>>} \cup {<<p>> : p \in paths} \cup {<<p, q>> : p, q \in paths}
MCPutKeys == { <<>>, <<"k">>, <<"k", "/">>, <<"/", "k">> }

MCCommands ==
  {"put", "get", "cat", "ls", "uploads ls", "exist", "help", "unknown",
   "policy put", "policy cat", "policy rm", "space", "traffic", "traffic date", "list buckets"}
MCFates == {"answered", "garbled", "unanswered", "unsent", "refused", "redirected"}

Empty == <<>>
Good == << Line("section", "logging", "", FALSE), Line("option", "type", "none", FALSE) >>

MCLines ==
  { Line("blank", "", "", FALSE), Line("comment", "", "", TRUE),
    Line("section", "logging", "", FALSE), Line("section", "storage", "", TRUE), Line("section", "", "", FALSE),
    Line("option", "type", "none", FALSE), Line("option", "type", "syslog", TRUE),
    Line("junk", "", "", FALSE) }

SeqsUpTo(S, n) == UNION {[1 .. m -> S] : m \in 0 .. n}

MCDisks(name) ==
  IF name = "help"
  THEN { <<f>> : f \in SeqsUpTo(MCLines, 3) } \cup
       { <<f, g>> : f \in SeqsUpTo(MCLines, 2) \cup {Missing}, g \in {Missing, Good} }
  ELSE { <<Empty>> }
=============================================================================
