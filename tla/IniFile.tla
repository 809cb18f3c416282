------------------------------ MODULE IniFile ------------------------------
(***************************************************************************)
(* The parser of the configuration (ini/parser.go), as an operator, and    *)
(* what a file means, line by line, to compare it with.                    *)
(*                                                                         *)
(* A line is a record: "blank" and "comment" lines, a "section" with its   *)
(* name, an "option" with a name and a value, or "junk", among which is a  *)
(* comment with a quotation mark.  A line that is longer than the buffer   *)
(* of bufio.Reader is read in two pieces.                                  *)
(***************************************************************************)
EXTENDS Integers, Sequences, SequencesExt

Kinds == {"blank", "comment", "section", "option", "junk"}
Line(kind, name, value, long) ==
  [kind |-> kind, name |-> name, value |-> value, long |-> long]
Lines == [kind : Kinds, name : STRING, value : STRING, long : BOOLEAN]

(* bufio.Reader.ReadLine: the pieces of a line, each with isPrefix.        *)
Piece(line, n, isPrefix) == [line |-> line, n |-> n, isPrefix |-> isPrefix]
PiecesOf(line) ==
  IF line.long THEN <<Piece(line, 1, TRUE), Piece(line, 2, FALSE)>>
  ELSE <<Piece(line, 1, FALSE)>>

(* Where a reader is in a file: the line, and the piece of it, to be read  *)
(* next.                                                                   *)
Top == [line |-> 1, n |-> 1]
PieceAt(file, pos) == PiecesOf(file[pos.line])[pos.n]
Behind(pos, p) ==
  IF p.isPrefix THEN [pos EXCEPT !.n = @ + 1] ELSE [line |-> pos.line + 1, n |-> 1]

(* What a line, put together from pieces, is: only all the pieces of one   *)
(* line in their order are that line.                                      *)
Whole(ps) ==
  LET l == ps[1].line
  IN IF ps = PiecesOf(l) THEN l ELSE Line("junk", "", "", FALSE)

(* Mutants: a comment stays in the line; a section that is named again is  *)
(* begun anew.                                                             *)
KeepsComment(st) == st
BeginsAnew(c, s) ==
  [sections |-> c.sections \cup {s}, options |-> {o \in c.options : o.section # s}]

(* Sections and options: NewSection keeps what a section of that name has, *)
(* the last option of a name wins.                                         *)
NoConfig == [sections |-> {}, options |-> {}]
WithSection(c, s) == [c EXCEPT !.sections = @ \cup {s}]
WithOption(c, s, name, value) ==
  [c EXCEPT !.options =
     {o \in @ : o.section # s \/ o.name # name}
       \cup {[section |-> s, name |-> name, value |-> value]}]

(* The variables of parseFile.  section is nil before the first section;   *)
(* `[]` names one as well.                                                 *)
Start == [config |-> NoConfig, section |-> <<>>, line |-> <<>>,
          wasPrefix |-> FALSE, lineNum |-> 0, error |-> 0]

Skip(st) == [st EXCEPT !.line = <<>>]
Collect(st, p) == IF st.wasPrefix THEN Append(st.line, p) ELSE <<p>>

(* An option that stands before all sections is dropped.                   *)
Classify(st, l) ==
  CASE l.kind = "section" -> [st EXCEPT !.config = WithSection(@, l.name),
                                        !.section = <<l.name>>, !.wasPrefix = FALSE]
    [] l.kind = "option" -> [st EXCEPT !.config = IF st.section = <<>> THEN @
                                         ELSE WithOption(@, st.section[1], l.name, l.value),
                                       !.wasPrefix = FALSE]
    [] OTHER -> [st EXCEPT !.error = st.lineNum]

(***************************************************************************)
(* The loop of parseFile.  Blank lines and comments, which are empty when  *)
(* the comment is taken away, go on without setting wasPrefix: behind a    *)
(* long one the next line is appended, to nothing.                         *)
(***************************************************************************)
Read(st, p) ==
  LET line == Collect(st, p)
      st2 == [st EXCEPT !.line = line, !.lineNum = @ + 1]
  IN IF st.error # 0 THEN st
     ELSE IF p.isPrefix THEN [st EXCEPT !.line = line, !.wasPrefix = TRUE]
     ELSE IF Whole(line).kind \in {"blank", "comment"} THEN Skip(st2)
     ELSE Classify(st2, Whole(line))

Value(config, section, name, default) ==
  LET found == {o \in config.options : o.section = section /\ o.name = name}
  IN IF found = {} THEN default ELSE (CHOOSE o \in found : TRUE).value

-----------------------------------------------------------------------------
(* What the file means: an option belongs to the section whose line is the *)
(* nearest above it, and the last one of a name counts.                    *)
IsValid(file) == \A i \in DOMAIN file : file[i].kind # "junk"

HeadsOf(file, i) == {h \in 1 .. i : file[h].kind = "section"}
SectionAt(file, i) == file[CHOOSE h \in HeadsOf(file, i) : \A g \in HeadsOf(file, i) : g <= h].name

OptionsOf(file) == {i \in DOMAIN file : file[i].kind = "option" /\ HeadsOf(file, i) # {}}

Meaning(file) ==
  [sections |-> {file[i].name : i \in {j \in DOMAIN file : file[j].kind = "section"}},
   options |->
     {[section |-> SectionAt(file, i), name |-> file[i].name, value |-> file[i].value] :
        i \in {j \in OptionsOf(file) :
                 ~\E k \in OptionsOf(file) : /\ k > j /\ file[k].name = file[j].name
                                             /\ SectionAt(file, k) = SectionAt(file, j)}}]
=============================================================================
