--------------------------- MODULE ProgramProofs ---------------------------
(***************************************************************************)
(* Theorems about the whole process, for every disk, every list of names   *)
(* and every setting: what it runs with, and what exit status 0 means.     *)
(***************************************************************************)
EXTENDS Program, SequenceTheorems, TLAPS

(* What the other commands of the process say, and what Exit adds.         *)
ExitInv ==
  /\ phase \in {"open", "read", "env", "run", "exited"}
  /\ code \in -1 .. 2
  /\ phase = "exited" <=> code # -1
  /\ code = 0 => status \notin {"running", "error"}
  /\ cmdName \in Commands
BrokenType == broken \in BOOLEAN

Visible == ~hidden
Tokens == STRING \cup {"/"}

LEMMA CommandsMeans ==
  ASSUME UNCHANGED commands
  PROVE  /\ UNCHANGED <<objects, recursive, arg, key, pc, listing, status, old, hidden,
                        troubles, changes>>
         /\ UNCHANGED <<cat, left, failed, files, made, said>>
         /\ UNCHANGED <<kind, more, lastKey, todo, printed, twice>>
         /\ UNCHANGED <<stdin, given, roots, walk, stored>>
         /\ UNCHANGED <<call, policy, shown>>
BY DEF commands, command, ofGet, ofList, ofPut, ofCall

LEMMA LoadFileMeans ==
  /\ LoadFileReturns(FALSE) => phase' = "env" /\ UNCHANGED <<configs, code>>
  /\ LoadFileReturns(TRUE) =>
       \/ /\ Len(configs) > 1 /\ configs' = Tail(configs)
          /\ phase' = "open" /\ UNCHANGED code
       \/ /\ ~(Len(configs) > 1) /\ UNCHANGED configs
          /\ phase' = "exited" /\ code' = 1
BY DEF LoadFileReturns, Taken, Exits

(* Every step is one of main, in which the command stands still, or one of *)
(* the command, in which main does.                                        *)
LEMMA StepMeans ==
  ASSUME [Next]_vars
  PROVE  /\ UNCHANGED <<cmdName, first>>
         /\ \/ UNCHANGED commands
            \/ (RunCommand \/ Other) /\ phase = "run" /\ status = "running" /\ UNCHANGED main
<1>1. CASE OpenFile \/ ReadLine \/ EndOfFile \/ InitEnvironment \/ Exit
  BY <1>1 DEF OpenFile, ReadLine, EndOfFile, InitEnvironment, Exit
<1>2. CASE RunCommand \/ Other
  BY <1>2 DEF RunCommand, Other, main
<1>3. CASE Done \/ UNCHANGED vars
  BY <1>3 DEF Done, vars, main
<1> QED
  BY <1>1, <1>2, <1>3 DEF Next, Step

LEMMA ExitNext ==
  ASSUME ExitInv, [Next]_vars
  PROVE  ExitInv'
<1>1. UNCHANGED commands => UNCHANGED status
  BY CommandsMeans
<1>2. UNCHANGED cmdName
  BY StepMeans
<1>3. CASE OpenFile
  <2>1. /\ UNCHANGED status /\ phase = "open"
        /\ (phase' = "read" /\ UNCHANGED code) \/ LoadFileReturns(TRUE)
    BY <1>1, <1>3 DEF OpenFile
  <2>2. \/ phase' \in {"open", "read", "env"} /\ UNCHANGED code
        \/ phase' = "exited" /\ code' = 1
    BY <2>1, LoadFileMeans
  <2> QED
    BY <1>2, <2>1, <2>2 DEF ExitInv
<1>4. CASE ReadLine
  <2>1. /\ UNCHANGED status /\ phase = "read"
        /\ UNCHANGED <<phase, code>> \/ LoadFileReturns(TRUE)
    BY <1>1, <1>4 DEF ReadLine
  <2>2. \/ phase' \in {"open", "read", "env"} /\ UNCHANGED code
        \/ phase' = "exited" /\ code' = 1
    BY <2>1, LoadFileMeans
  <2> QED
    BY <1>2, <2>1, <2>2 DEF ExitInv
<1>5. CASE EndOfFile
  <2>1. UNCHANGED status /\ phase = "read" /\ LoadFileReturns(FALSE)
    BY <1>1, <1>5 DEF EndOfFile
  <2>2. \/ phase' \in {"open", "read", "env"} /\ UNCHANGED code
        \/ phase' = "exited" /\ code' = 1
    BY <2>1, LoadFileMeans
  <2> QED
    BY <1>2, <2>1, <2>2 DEF ExitInv
<1>6. CASE InitEnvironment
  BY <1>1, <1>2, <1>6 DEF InitEnvironment, Exits, ExitInv
<1>7. CASE Exit
  <2>1. UNCHANGED status /\ phase = "run" /\ status # "running" /\ phase' = "exited"
    BY <1>1, <1>7 DEF Exit, Exits
  <2>2. code' \in {0, 1, 2} /\ (code' = 0 => status # "error")
    BY <1>7 DEF Exit, Exits, ExitCode
  <2> QED
    BY <1>2, <2>1, <2>2 DEF ExitInv
<1>8. CASE RunCommand \/ Other
  BY <1>8 DEF RunCommand, Other, main, ExitInv
<1>9. CASE Done \/ UNCHANGED vars
  BY <1>1, <1>9 DEF Done, vars, main, ExitInv
<1> QED
  BY <1>3, <1>4, <1>5, <1>6, <1>7, <1>8, <1>9 DEF Next, Step

LEMMA BrokenNext ==
  ASSUME BrokenType, [Next]_vars
  PROVE  BrokenType'
<1>1. CASE EndOfFile
  BY <1>1 DEF EndOfFile, BrokenType
<1>2. CASE InitEnvironment \/ Exit
  BY <1>2 DEF InitEnvironment, Exit, file, BrokenType
<1>3. CASE OpenFile \/ ReadLine
  BY <1>3 DEF OpenFile, ReadLine, BrokenType
<1>4. CASE RunCommand \/ Other \/ Done \/ UNCHANGED vars
  BY <1>4 DEF RunCommand, Other, Done, vars, main, BrokenType
<1> QED
  BY <1>1, <1>2, <1>3, <1>4 DEF Next, Step

LEMMA ExitInit ==
  ASSUME Init
  PROVE  ExitInv /\ BrokenType
<1>1. phase = "open" /\ code = -1 /\ broken = FALSE /\ cmdName \in Commands
  BY DEF Init
<1>2. BrokenType
  BY <1>1, Zenon DEF BrokenType
<1>3. ExitInv
  BY <1>1 DEF ExitInv
<1> QED
  BY <1>2, <1>3
LEMMA ExitAlways == Spec => [](ExitInv /\ BrokenType)
<1>1. Init => ExitInv /\ BrokenType
  BY ExitInit
<1>2. ExitInv /\ BrokenType /\ [Next]_vars => (ExitInv /\ BrokenType)'
  BY ExitNext, BrokenNext
<1> QED
  BY <1>1, <1>2, PTL DEF Spec

-----------------------------------------------------------------------------
(***************************************************************************)
(* The commands that are one call.                                         *)
(***************************************************************************)

(* A call in progress has failed so far: the first request ends it else.   *)
Failing(c) == c.sent > 0 => O!DoErr(c.first)

CallInv ==
  Calls => /\ O!TypeOK
           /\ status \in {"running", "ok", "error", "panic"}
           /\ status = "running" => Failing(call)
           /\ O!DoesIt

LEMMA CallProgress ==
  ASSUME NEW c \in O!Calls, NEW r \in O!Responses, Failing(c)
  PROVE  LET d == O!Attempted(c, r)
         IN  /\ d \in O!Calls
             /\ d.resp = r
             /\ ~O!Finished(d) => Failing(d)
             /\ O!Finished(d) /\ ~O!ReturnsErr(d) => O!Below400(r)
<1> DEFINE d == O!Attempted(c, r)
<1>1. c.sent \in Nat /\ (c.sent > 0 => c.first # "ok")
  BY DEF O!Calls, Failing, O!DoErr
<1>2. /\ d.sent = c.sent + 1 /\ d.resp = r
      /\ d.first = IF c.sent = 0 THEN r ELSE c.first
      /\ d \in O!Calls
  BY DEF O!Attempted, O!Calls
<1> HIDE DEF d
<1>3. r = "ok" => O!Below400(r)
  BY DEF O!Below400
<1>4. ~O!Finished(d) => d.first # "ok"
  BY <1>1, <1>2, <1>3 DEF O!Finished
<1> QED
  BY <1>1, <1>2, <1>3, <1>4 DEF O!ReturnsErr, Failing, O!DoErr, d

(* What the answer of the service comes to, and what of it is printed.     *)
LEMMA ReplyMeans ==
  ASSUME NEW fate \in O!Fates, NEW a \in {"ok", "notfound"}
  PROVE  /\ O!Reply(fate, a) \in O!Responses
         /\ O!Below400(O!Reply(fate, a)) /\ O!Reply(fate, a) # "redirect" => O!Handled(fate)
<1>1. CASE fate = "answered"
  <2>1. O!Reply(fate, a) = a
    BY <1>1 DEF O!Reply
  <2> QED BY <1>1, <2>1 DEF O!Below400, O!Handled, O!Responses, O!Answers
<1>2. CASE fate = "garbled"
  <2>1. O!Reply(fate, a) = IF a = "ok" THEN "garbled" ELSE a
    BY <1>2, Zenon DEF O!Reply
  <2> QED BY <1>2, <2>1 DEF O!Below400, O!Handled, O!Responses, O!Answers
<1>3. CASE fate = "refused"
  <2>1. O!Reply(fate, a) = "rejected"
    BY <1>3, Zenon DEF O!Reply
  <2> QED BY <1>3, <2>1 DEF O!Below400, O!Responses, O!Answers
<1>4. CASE fate \in {"unanswered", "unsent"}
  <2>1. O!Reply(fate, a) = "lost"
    BY <1>4, Zenon DEF O!Reply
  <2> QED BY <1>4, <2>1 DEF O!Below400, O!Responses, O!Answers
<1>5. CASE fate = "redirected"
  <2>1. O!Reply(fate, a) = "redirect"
    BY <1>5, Zenon DEF O!Reply
  <2> QED BY <1>5, <2>1 DEF O!Below400, O!Responses, O!Answers
<1> QED
  BY <1>1, <1>2, <1>3, <1>4, <1>5 DEF O!Fates

LEMMA FilledMeans ==
  ASSUME NEW r \in O!Responses, NEW out \in O!Filled(r)
  PROVE  /\ out \in {"none", "some", "all"}
         /\ out # "none" => out = "all" \/ r = "garbled"
<1>1. CASE r = "ok"
  <2>1. O!Filled(r) = {"all"}
    BY <1>1, Zenon DEF O!Filled
  <2> QED BY <2>1
<1>2. CASE r = "garbled"
  <2>1. O!Filled(r) = {"none", "some", "all"}
    BY <1>2, Zenon DEF O!Filled
  <2> QED BY <1>2, <2>1
<1>3. CASE r \notin {"ok", "garbled"}
  <2>1. O!Filled(r) = {"none"}
    BY <1>3, Zenon DEF O!Filled
  <2> QED BY <2>1
<1> QED
  BY <1>1, <1>2, <1>3

(* What a request has done to the policy.                                  *)
LEMMA DoneMeans ==
  ASSUME NEW fate
  PROVE  /\ O!Done(fate) \in {policy, "new", "none"}
         /\ cmdName = "policy put" /\ O!Handled(fate) => O!Done(fate) = "new"
         /\ cmdName = "policy rm" /\ O!Handled(fate) => O!Done(fate) = "none"
<1>1. CASE cmdName = "policy put" /\ O!Handled(fate)
  BY <1>1, Zenon DEF O!Done
<1>2. CASE cmdName = "policy rm" /\ O!Handled(fate)
  BY <1>2, Zenon DEF O!Done
<1>3. CASE ~(cmdName = "policy put" /\ O!Handled(fate)) /\ ~(cmdName = "policy rm" /\ O!Handled(fate))
  BY <1>3, Zenon DEF O!Done
<1> QED
  BY <1>1, <1>2, <1>3

LEMMA ServeMeans ==
  ASSUME NEW a \in O!Serve
  PROVE  a \in {"ok", "notfound"}
<1>1. CASE cmdName = "policy cat"
  BY <1>1, Zenon DEF O!Serve
<1>2. CASE cmdName = "policy rm" /\ policy = "none"
  BY <1>2, Zenon DEF O!Serve
<1>3. CASE cmdName # "policy cat" /\ ~(cmdName = "policy rm" /\ policy = "none")
  BY <1>3, Zenon DEF O!Serve
<1> QED
  BY <1>1, <1>2, <1>3

LEMMA RequestStep ==
  ASSUME Calls, CallInv, O!Request, UNCHANGED cmdName
  PROVE  CallInv'
<1>1. /\ call \in O!Calls /\ policy \in {"none", "old", "new"}
      /\ shown \in {"none", "some", "all"}
      /\ pc = "call" /\ status = "running" /\ Failing(call)
      /\ Calls'
  BY DEF CallInv, O!TypeOK, O!Request, Calls
<1>2. PICK fate \in O!FatesNow, a \in O!Serve :
        LET c == O!Attempted(call, O!Reply(fate, a))
        IN /\ call' = c
           /\ policy' = O!Done(fate)
           /\ \/ ~O!Finished(c) /\ UNCHANGED <<pc, status, shown>>
              \/ O!Finished(c) /\ O!Fails(c) /\ O!Ends("error", "none")
              \/ O!Finished(c) /\ ~O!Fails(c) /\ O!ShowAnswer(c)
  BY DEF O!Request
<1>3. fate \in O!Fates /\ a \in {"ok", "notfound"}
  <2>1. NetFates \subseteq O!Fates
    BY CallAssumption
  <2> QED
    BY <2>1, ServeMeans DEF O!FatesNow, O!Fates
<1> DEFINE r == O!Reply(fate, a)
           c == O!Attempted(call, r)
<1>4. r \in O!Responses /\ (O!Below400(r) /\ r # "redirect" => O!Handled(fate))
  BY <1>3, ReplyMeans
<1> HIDE DEF r
<1>5. /\ c \in O!Calls /\ c.resp = r
      /\ ~O!Finished(c) => Failing(c)
      /\ O!Finished(c) /\ ~O!ReturnsErr(c) => O!Below400(r)
  BY <1>1, <1>4, CallProgress
<1>6. /\ call' = c
      /\ policy' = O!Done(fate)
      /\ \/ ~O!Finished(c) /\ UNCHANGED <<pc, status, shown>>
         \/ O!Finished(c) /\ O!Fails(c) /\ O!Ends("error", "none")
         \/ O!Finished(c) /\ ~O!Fails(c) /\ O!ShowAnswer(c)
  BY <1>2 DEF r
<1> HIDE DEF c
<1>7. policy' \in {"none", "old", "new"}
  BY <1>1, <1>6, DoneMeans
<1>8. CASE ~O!Finished(c) /\ UNCHANGED <<pc, status, shown>>
  <2>1. Failing(call')
    BY <1>5, <1>6, <1>8
  <2>2. Failing(call)'
    BY <2>1 DEF Failing, O!DoErr
  <2>3. O!DoesIt'
    BY <1>1, <1>8 DEF O!DoesIt
  <2> QED
    BY <1>1, <1>5, <1>6, <1>7, <1>8, <2>2, <2>3 DEF CallInv, O!TypeOK, O!Calls, O!Responses, O!Answers
<1>9. ASSUME NEW s \in {"ok", "error", "panic"}, NEW out \in {"none", "some", "all"},
             O!Ends(s, out),
             s = "ok" => /\ cmdName = "policy put" => policy' = "new"
                         /\ cmdName = "policy rm" => policy' = "none"
                         /\ cmdName \notin {"policy put", "policy rm"} =>
                              out = "all" \/ c.resp = "garbled"
      PROVE  CallInv'
  <2>1. pc' = "done" /\ status' = s /\ shown' = out
    BY <1>9 DEF O!Ends
  <2>2. status' = "ok" =>
          /\ cmdName' = "policy put" => policy' = "new"
          /\ cmdName' = "policy rm" => policy' = "none"
          /\ cmdName' \notin {"policy put", "policy rm"} => shown' = "all" \/ call'.resp = "garbled"
    BY <1>6, <1>9, <2>1
  <2>3. O!DoesIt'
    <3>1. CASE cmdName' = "policy put"
      BY <2>2, <3>1, Zenon DEF O!DoesIt
    <3>2. CASE cmdName' = "policy rm"
      BY <2>2, <3>2, Zenon DEF O!DoesIt
    <3>3. CASE cmdName' \notin {"policy put", "policy rm"}
      BY <2>2, <3>3, Zenon DEF O!DoesIt
    <3> QED
      BY <3>1, <3>2, <3>3
  <2>4. O!TypeOK'
    BY <1>5, <1>6, <1>7, <2>1 DEF O!TypeOK, O!Calls, O!Responses, O!Answers
  <2> QED
    BY <2>1, <2>3, <2>4 DEF CallInv
<1>10. CASE O!Ends("error", "none")
  BY <1>9, <1>10
<1>11. CASE O!Finished(c) /\ ~O!Fails(c) /\ O!ShowAnswer(c)
  <2>1. O!Below400(r) /\ (cmdName \in {"policy put", "policy rm", "policy cat"} => O!Handled(fate))
    BY <1>4, <1>5, <1>11 DEF O!Fails, O!Policies
  <2>2. CASE cmdName \in {"policy put", "policy rm"}
    <3>1. O!Ends("ok", "none")
      BY <1>11, <2>2 DEF O!ShowAnswer
    <3>2. /\ cmdName = "policy put" => policy' = "new"
          /\ cmdName = "policy rm" => policy' = "none"
      BY <1>6, <2>1, DoneMeans
    <3> QED
      BY <1>9, <2>2, <3>1, <3>2
  <2>3. CASE cmdName = "policy cat"
    <3>1. O!Ends("ok", "all") \/ O!Ends("error", "some")
      BY <1>11, <2>3 DEF O!ShowAnswer
    <3> QED
      BY <1>9, <2>3, <3>1
  <2>4. CASE cmdName \notin {"policy put", "policy rm", "policy cat"}
    <3>1. PICK out \in O!Filled(c.resp) :
            \/ out # "none" /\ O!Ends("ok", out)
            \/ out = "none" /\ cmdName # "traffic date" /\ O!Ends("panic", "none")
            \/ out # "all" /\ cmdName = "traffic date" /\ O!Ends("error", "none")
            \/ out = "some" /\ cmdName \in {"traffic", "traffic date"} /\ O!Ends("panic", "some")
      BY <1>11, <2>4 DEF O!ShowAnswer
    <3>2. out \in {"none", "some", "all"} /\ (out # "none" => out = "all" \/ c.resp = "garbled")
      BY <1>4, <1>5, <3>1, FilledMeans
    <3> QED
      BY <1>9, <2>4, <3>1, <3>2
  <2> QED
    BY <2>2, <2>3, <2>4
<1> QED
  BY <1>6, <1>8, <1>10, <1>11

LEMMA CallNext ==
  ASSUME CallInv, [Next]_vars
  PROVE  CallInv'
<1>1. UNCHANGED cmdName
  BY StepMeans
<1>2. CASE ~Calls
  BY <1>1, <1>2 DEF Calls, CallInv
<1>3. CASE UNCHANGED commands
  BY <1>1, <1>3, CommandsMeans
     DEF CallInv, Calls, O!TypeOK, O!Calls, O!Responses, O!Answers, Failing, O!DoErr, O!DoesIt
<1>4. CASE Calls /\ (RunCommand \/ Other) /\ status = "running"
  <2>1. ~Gets /\ ~Lists /\ ~Puts /\ cmdName # "help"
    BY <1>4 DEF Gets, Lists, Puts, Calls
  <2>2. O!Step
    BY <1>4, <2>1, Zenon DEF RunCommand, Other
  <2>3. CASE O!Begin
    <3>1. /\ UNCHANGED <<call, policy>> /\ Calls' /\ status' # "ok"
          /\ \/ pc' = "done" /\ status' = "error" /\ shown' = "none"
             \/ pc' = "call" /\ UNCHANGED <<shown, status>>
      BY <1>1, <1>4, <2>3 DEF O!Begin, O!Ends, Calls
    <3>2. O!DoesIt'
      BY <3>1 DEF O!DoesIt
    <3> QED
      BY <1>4, <3>1, <3>2 DEF CallInv, O!TypeOK, O!Calls, O!Responses, O!Answers, Failing, O!DoErr
  <2> QED
    BY <1>1, <1>4, <2>2, <2>3, RequestStep DEF O!Step
<1> QED
  BY <1>2, <1>3, <1>4, StepMeans

LEMMA CallInit ==
  ASSUME Init
  PROVE  CallInv
<1> SUFFICES ASSUME Calls PROVE CallInv
  BY DEF CallInv
<1>1. ~Gets /\ ~Lists /\ ~Puts /\ cmdName \notin {"help", "unknown"}
  BY DEF Gets, Lists, Puts, Calls
<1>2. O!Init
  BY <1>1, Zenon DEF Init
<1>3. /\ call = O!NewCall /\ policy \in {"none", "old"} /\ shown = "none" /\ pc = "start"
      /\ status = "running"
  BY <1>2 DEF O!Init
<1>4. O!TypeOK /\ Failing(call) /\ O!DoesIt
  BY <1>3 DEF O!TypeOK, O!NewCall, O!Calls, O!Responses, O!Answers, Failing, O!DoesIt
<1> QED
  BY <1>3, <1>4 DEF CallInv

(***************************************************************************)
(* Exit status 0 of policy, space, traffic and ls without an argument: the *)
(* policy is the file, or is gone, or the whole answer was printed.        *)
(***************************************************************************)
THEOREM ZeroIsDone == Spec => []ZeroMeansDone
<1>1. CallInv /\ ExitInv => ZeroMeansDone
  BY DEF CallInv, ExitInv, ZeroMeansDone
<1>2. CallInv /\ [Next]_vars => CallInv'
  BY CallNext
<1>3. Init => CallInv
  BY CallInit
<1> QED
  BY <1>1, <1>2, <1>3, ExitAlways, PTL DEF Spec

-----------------------------------------------------------------------------
(***************************************************************************)
(* The parser.  What the first k lines of a file mean, and the section     *)
(* that is open behind them.                                               *)
(***************************************************************************)
OptionsTo(f, k) == {i \in 1 .. k : f[i].kind = "option" /\ HeadsOf(f, i) # {}}
Stands(f, k, j) ==
  ~\E i \in OptionsTo(f, k) : /\ i > j /\ f[i].name = f[j].name
                              /\ SectionAt(f, i) = SectionAt(f, j)
OptionAt(f, i) ==
  [section |-> SectionAt(f, i), name |-> f[i].name, value |-> f[i].value]

MeaningTo(f, k) ==
  [sections |-> {f[i].name : i \in {j \in 1 .. k : f[j].kind = "section"}},
   options |-> {OptionAt(f, i) : i \in {j \in OptionsTo(f, k) : Stands(f, k, j)}}]
OpenAt(f, k) == IF HeadsOf(f, k) = {} THEN <<>> ELSE <<SectionAt(f, k)>>

LEMMA MeaningParts ==
  ASSUME NEW f, NEW k
  PROVE  MeaningTo(f, k) = [sections |-> MeaningTo(f, k).sections, options |-> MeaningTo(f, k).options]
BY DEF MeaningTo

LEMMA WithSectionMeans ==
  ASSUME NEW c, c = [sections |-> c.sections, options |-> c.options], NEW s
  PROVE  WithSection(c, s) = [sections |-> c.sections \cup {s}, options |-> c.options]
<1>1. \A x : [c EXCEPT !.sections = x] = [sections |-> x, options |-> c.options]
  OBVIOUS
<1> QED
  BY <1>1 DEF WithSection

LEMMA MeaningIsMeaningTo ==
  ASSUME NEW f \in Seq(Lines)
  PROVE  Meaning(f) = MeaningTo(f, Len(f))
<1>1. DOMAIN f = 1 .. Len(f)
  OBVIOUS
<1>2. OptionsOf(f) = OptionsTo(f, Len(f))
  BY <1>1 DEF OptionsOf, OptionsTo
<1> QED
  BY <1>1, <1>2, Zenon DEF Meaning, MeaningTo, Stands, OptionAt

LEMMA NothingMeans ==
  ASSUME NEW f
  PROVE  MeaningTo(f, 0) = NoConfig /\ OpenAt(f, 0) = <<>>
BY DEF MeaningTo, NoConfig, OpenAt, OptionsTo, HeadsOf

(* A line that is no section leaves the section open.                      *)
LEMMA OpenStays ==
  ASSUME NEW f \in Seq(Lines), NEW k \in Nat, k + 1 <= Len(f), f[k + 1].kind # "section"
  PROVE  /\ HeadsOf(f, k + 1) = HeadsOf(f, k)
         /\ SectionAt(f, k + 1) = SectionAt(f, k)
         /\ OpenAt(f, k + 1) = OpenAt(f, k)
<1>1. HeadsOf(f, k + 1) = HeadsOf(f, k)
  BY DEF HeadsOf
<1>2. SectionAt(f, k + 1) = SectionAt(f, k)
  BY <1>1 DEF SectionAt
<1> QED
  BY <1>1, <1>2 DEF OpenAt

LEMMA OpenChanges ==
  ASSUME NEW f \in Seq(Lines), NEW k \in Nat, k + 1 <= Len(f), f[k + 1].kind = "section"
  PROVE  OpenAt(f, k + 1) = <<f[k + 1].name>>
<1> DEFINE heads == HeadsOf(f, k + 1)
           IsLast(h) == \A g \in heads : g <= h
<1>1. heads \subseteq 1 .. k + 1 /\ k + 1 \in heads
  BY DEF HeadsOf
<1> HIDE DEF heads
<1>2. \E h \in heads : IsLast(h)
  BY <1>1
<1>3. (CHOOSE h \in heads : IsLast(h)) \in heads /\ IsLast(CHOOSE h \in heads : IsLast(h))
  BY <1>2, Zenon
<1> DEFINE last == CHOOSE h \in heads : IsLast(h)
<1>4. last = k + 1
  <2>1. last \in 1 .. k + 1
    BY <1>1, <1>3
  <2>2. k + 1 <= last
    BY <1>1, <1>3
  <2> QED
    BY <2>1, <2>2
<1> QED
  BY <1>1, <1>4 DEF OpenAt, SectionAt, heads

-----------------------------------------------------------------------------
LEMMA OtherLineMeans ==
  ASSUME NEW f \in Seq(Lines), NEW k \in Nat, k + 1 <= Len(f),
         f[k + 1].kind \notin {"section", "option"}
  PROVE  MeaningTo(f, k + 1) = MeaningTo(f, k) /\ OpenAt(f, k + 1) = OpenAt(f, k)
<1>1. OptionsTo(f, k + 1) = OptionsTo(f, k)
  BY DEF OptionsTo
<1>2. {j \in 1 .. k + 1 : f[j].kind = "section"} = {j \in 1 .. k : f[j].kind = "section"}
  OBVIOUS
<1>3. MeaningTo(f, k + 1) = MeaningTo(f, k)
  BY <1>1, <1>2, Zenon DEF MeaningTo, Stands
<1> QED
  BY <1>3, OpenStays

LEMMA SectionMeans ==
  ASSUME NEW f \in Seq(Lines), NEW k \in Nat, k + 1 <= Len(f), f[k + 1].kind = "section"
  PROVE  MeaningTo(f, k + 1) = WithSection(MeaningTo(f, k), f[k + 1].name)
<1>1. OptionsTo(f, k + 1) = OptionsTo(f, k)
  BY DEF OptionsTo
<1>2. \A j : Stands(f, k + 1, j) = Stands(f, k, j)
  BY <1>1, Zenon DEF Stands
<1>3. {f[i].name : i \in {j \in 1 .. k + 1 : f[j].kind = "section"}} =
        {f[i].name : i \in {j \in 1 .. k : f[j].kind = "section"}} \cup {f[k + 1].name}
  <2>1. {j \in 1 .. k + 1 : f[j].kind = "section"} =
          {j \in 1 .. k : f[j].kind = "section"} \cup {k + 1}
    OBVIOUS
  <2> QED
    BY <2>1
<1>4. MeaningTo(f, k + 1).options = MeaningTo(f, k).options
  BY <1>1, <1>2 DEF MeaningTo
<1>5. MeaningTo(f, k + 1).sections = MeaningTo(f, k).sections \cup {f[k + 1].name}
  BY <1>3 DEF MeaningTo
<1> DEFINE A == MeaningTo(f, k).sections
           B == MeaningTo(f, k).options
<1>6. WithSection(MeaningTo(f, k), f[k + 1].name) =
        [sections |-> A \cup {f[k + 1].name}, options |-> B]
  BY MeaningParts, WithSectionMeans
<1> QED
  BY <1>4, <1>5, <1>6, MeaningParts

LEMMA OptionMeans ==
  ASSUME NEW f \in Seq(Lines), NEW k \in Nat, k + 1 <= Len(f), f[k + 1].kind = "option"
  PROVE  /\ OpenAt(f, k + 1) = OpenAt(f, k)
         /\ HeadsOf(f, k) = {} => MeaningTo(f, k + 1) = MeaningTo(f, k)
         /\ HeadsOf(f, k) # {} =>
              MeaningTo(f, k + 1) =
                WithOption(MeaningTo(f, k), SectionAt(f, k), f[k + 1].name, f[k + 1].value)
<1>1. /\ HeadsOf(f, k + 1) = HeadsOf(f, k) /\ SectionAt(f, k + 1) = SectionAt(f, k)
      /\ OpenAt(f, k + 1) = OpenAt(f, k)
  BY OpenStays
<1>2. {j \in 1 .. k + 1 : f[j].kind = "section"} = {j \in 1 .. k : f[j].kind = "section"}
  OBVIOUS
<1>3. CASE HeadsOf(f, k) = {}
  <2>1. OptionsTo(f, k + 1) = OptionsTo(f, k)
    BY <1>1, <1>3 DEF OptionsTo
  <2> QED
    BY <1>1, <1>2, <1>3, <2>1, Zenon DEF MeaningTo, Stands
<1>4. CASE HeadsOf(f, k) # {}
  <2> DEFINE s == SectionAt(f, k)
             name == f[k + 1].name
             new == [section |-> s, name |-> name, value |-> f[k + 1].value]
             Options(m) == {OptionAt(f, i) : i \in {j \in OptionsTo(f, m) : Stands(f, m, j)}}
  <2>1. OptionsTo(f, k + 1) = OptionsTo(f, k) \cup {k + 1} /\ k + 1 \notin OptionsTo(f, k)
    BY <1>1, <1>4 DEF OptionsTo
  <2>2. \A j \in OptionsTo(f, k) :
          Stands(f, k + 1, j) <=> Stands(f, k, j) /\ ~(name = f[j].name /\ s = SectionAt(f, j))
    <3>1. \A j \in OptionsTo(f, k) : j \in Int /\ k + 1 > j
      BY DEF OptionsTo
    <3> QED
      BY <1>1, <2>1, <3>1 DEF Stands
  <2>3. Stands(f, k + 1, k + 1)
    <3>1. \A j \in OptionsTo(f, k + 1) : j \in Int /\ ~(j > k + 1)
      BY DEF OptionsTo
    <3> QED
      BY <3>1 DEF Stands
  <2>4. OptionAt(f, k + 1) = new
    BY <1>1 DEF OptionAt
  <2>5. \A j : OptionAt(f, j).section = SectionAt(f, j) /\ OptionAt(f, j).name = f[j].name
    BY DEF OptionAt
  <2>6. Options(k + 1) = {o \in Options(k) : o.section # s \/ o.name # name} \cup {new}
    <3> HIDE DEF new, s, name
    <3>1. ASSUME NEW o \in Options(k + 1)
          PROVE  o \in {p \in Options(k) : p.section # s \/ p.name # name} \cup {new}
      <4>1. PICK j \in OptionsTo(f, k + 1) : Stands(f, k + 1, j) /\ o = OptionAt(f, j)
        OBVIOUS
      <4> QED
        BY <2>1, <2>2, <2>4, <2>5, <4>1
    <3>2. ASSUME NEW o \in Options(k), o.section # s \/ o.name # name
          PROVE  o \in Options(k + 1)
      <4>1. PICK j \in OptionsTo(f, k) : Stands(f, k, j) /\ o = OptionAt(f, j)
        OBVIOUS
      <4>2. Stands(f, k + 1, j) /\ j \in OptionsTo(f, k + 1)
        BY <2>1, <2>2, <2>5, <3>2, <4>1
      <4> QED
        BY <4>1, <4>2
    <3>3. new \in Options(k + 1)
      BY <2>1, <2>3, <2>4
    <3> QED
      BY <3>1, <3>2, <3>3
  <2>7. MeaningTo(f, k + 1).sections = MeaningTo(f, k).sections
    BY <1>2 DEF MeaningTo
  <2>8. \A m : MeaningTo(f, m).options = Options(m)
    BY DEF MeaningTo
  <2> DEFINE A == MeaningTo(f, k).sections
             B == MeaningTo(f, k).options
  <2>9. WithOption(MeaningTo(f, k), s, name, f[k + 1].value) =
          [sections |-> A, options |-> {o \in B : o.section # s \/ o.name # name} \cup {new}]
    <3> DEFINE c == MeaningTo(f, k)
               v == f[k + 1].value
    <3>1. c = [sections |-> c.sections, options |-> c.options]
      BY MeaningParts
    <3> HIDE DEF c, v, s, name
    <3>2. WithOption(c, s, name, v) =
            [sections |-> c.sections,
             options |-> {o \in c.options : o.section # s \/ o.name # name}
                           \cup {[section |-> s, name |-> name, value |-> v]}]
      <4>1. \A x : [c EXCEPT !.options = x] = [sections |-> c.sections, options |-> x]
        BY <3>1
      <4> QED
        BY <4>1 DEF WithOption
    <3> QED
      BY <3>2 DEF c, v
  <2> HIDE DEF Options, new, s, name
  <2>10. MeaningTo(f, k + 1) = [sections |-> A, options |-> Options(k + 1)]
    BY <2>7, <2>8, MeaningParts
  <2>11. B = Options(k)
    BY <2>8
  <2>12. MeaningTo(f, k + 1) = WithOption(MeaningTo(f, k), s, name, f[k + 1].value)
    BY <2>6, <2>9, <2>10, <2>11
  <2> QED
    BY <1>1, <1>4, <2>12 DEF s, name
<1> QED
  BY <1>1, <1>3, <1>4

-----------------------------------------------------------------------------
(***************************************************************************)
(* What the variables of parseFile hold when everything above `at` in the  *)
(* file has been read.                                                     *)
(***************************************************************************)
ReadSoFar(f, at, st) ==
  /\ at = [line |-> at.line, n |-> at.n]
  /\ at.line \in 1 .. Len(f) + 1 /\ at.n \in {1, 2}
  /\ st = [config |-> st.config, section |-> st.section, line |-> st.line,
           wasPrefix |-> st.wasPrefix, lineNum |-> st.lineNum, error |-> st.error]
  /\ st.error = 0 /\ st.lineNum \in Nat
  /\ \A i \in 1 .. at.line - 1 : f[i].kind # "junk"
  /\ st.config = MeaningTo(f, at.line - 1)
  /\ st.section = OpenAt(f, at.line - 1)
  /\ at.n = 1 => (st.wasPrefix => st.line = <<>>)
  /\ at.n = 2 => /\ at.line \in DOMAIN f /\ f[at.line].long /\ st.wasPrefix
                 /\ st.line = <<Piece(f[at.line], 1, TRUE)>>

LEMMA NothingIsRead ==
  ASSUME NEW f \in Seq(Lines)
  PROVE  ReadSoFar(f, Top, Start)
<1>1. Len(f) \in Nat
  OBVIOUS
<1>2. /\ Top = [line |-> 1, n |-> 1] /\ Top.line = 1 /\ Top.n = 1
      /\ Start.config = NoConfig /\ Start.section = <<>> /\ Start.line = <<>>
      /\ Start.lineNum = 0 /\ Start.error = 0
      /\ Start = [config |-> Start.config, section |-> Start.section, line |-> Start.line,
                  wasPrefix |-> Start.wasPrefix, lineNum |-> Start.lineNum, error |-> Start.error]
  BY DEF Top, Start
<1>3. ~Start.wasPrefix
  BY DEF Start
<1> QED
  BY <1>1, <1>2, <1>3, NothingMeans DEF ReadSoFar

LEMMA AppendToOne ==
  ASSUME NEW a, NEW b
  PROVE  Append(<<a>>, b) = <<a, b>>
<1> DEFINE S == {a, b}
           s == Append(<<a>>, b)
           t == <<a, b>>
<1>1. <<a>> \in Seq(S) /\ b \in S /\ Len(<<a>>) = 1 /\ <<a>>[1] = a
  OBVIOUS
<1>2. t \in Seq(S) /\ Len(t) = 2 /\ t[1] = a /\ t[2] = b
  OBVIOUS
<1> HIDE DEF S
<1>3. s \in Seq(S) /\ Len(s) = 2 /\ s[1] = a /\ s[2] = b
  <2>1. /\ s \in Seq(S)
        /\ Len(s) = Len(<<a>>) + 1
        /\ \A i \in 1 .. Len(<<a>>) : s[i] = <<a>>[i]
        /\ s[Len(<<a>>) + 1] = b
    BY <1>1, AppendProperties
  <2> QED
    BY <1>1, <2>1
<1> HIDE DEF s, t
<1>4. \A i \in 1 .. Len(s) : s[i] = t[i]
  BY <1>2, <1>3
<1>5. s = t
  BY <1>2, <1>3, <1>4, SeqEqual
<1> QED
  BY <1>5 DEF s, t

(* A reader gets a line whole, at once or in two pieces.                   *)
LEMMA PieceMeans ==
  ASSUME NEW f \in Seq(Lines), NEW at, NEW st, ReadSoFar(f, at, st), at.line \in DOMAIN f
  PROVE  LET l == f[at.line]
             p == PieceAt(f, at)
         IN  /\ p.isPrefix => /\ at.n = 1 /\ l.long /\ Collect(st, p) = <<Piece(l, 1, TRUE)>>
                              /\ Behind(at, p) = [line |-> at.line, n |-> 2]
             /\ ~p.isPrefix => /\ Whole(Collect(st, p)) = l
                               /\ Behind(at, p) = [line |-> at.line + 1, n |-> 1]
<1> DEFINE l == f[at.line]
           p == PieceAt(f, at)
           p1 == Piece(l, 1, TRUE)
           p2 == Piece(l, 2, FALSE)
           p0 == Piece(l, 1, FALSE)
<1>1. l \in Lines
  OBVIOUS
<1>2. /\ p1.isPrefix = TRUE /\ p2.isPrefix = FALSE /\ p0.isPrefix = FALSE
      /\ p1.line = l /\ p0.line = l
  BY DEF Piece
<1> HIDE DEF p1, p2, p0
<1>3. ASSUME NEW q, at.n = 1 PROVE Collect(st, q) = <<q>>
  <2>1. CASE st.wasPrefix
    <3>1. st.line = <<>>
      BY <1>3, <2>1 DEF ReadSoFar
    <3>2. Collect(st, q) = Append(<<>>, q)
      BY <2>1, <3>1, Zenon DEF Collect
    <3> QED
      BY <3>2
  <2>2. CASE ~st.wasPrefix
    BY <2>2, Zenon DEF Collect
  <2> QED
    BY <2>1, <2>2
<1>4. Behind(at, p1) = [line |-> at.line, n |-> 2] \/ at.n # 1
  BY <1>2 DEF Behind, ReadSoFar
<1>5. \A q : ~q.isPrefix => Behind(at, q) = [line |-> at.line + 1, n |-> 1]
  BY DEF Behind
<1>6. CASE l.long /\ at.n = 1
  <2>1. p = p1
    BY <1>6 DEF PieceAt, PiecesOf, p1, p2
  <2> QED
    BY <1>2, <1>3, <1>4, <1>6, <2>1 DEF p1
<1>7. CASE l.long /\ at.n = 2
  <2>1. p = p2
    BY <1>7 DEF PieceAt, PiecesOf, p1, p2
  <2>2. Collect(st, p2) = <<p1, p2>>
    <3>1. st.wasPrefix /\ st.line = <<p1>>
      BY <1>7 DEF ReadSoFar, p1
    <3>2. Collect(st, p2) = Append(<<p1>>, p2)
      BY <3>1, Zenon DEF Collect
    <3> QED
      BY <3>2, AppendToOne
  <2>3. PiecesOf(l) = <<p1, p2>> /\ <<p1, p2>>[1] = p1
    BY <1>7 DEF PiecesOf, p1, p2
  <2>4. Whole(<<p1, p2>>) = l
    BY <1>2, <2>3 DEF Whole
  <2> QED
    BY <1>2, <1>5, <2>1, <2>2, <2>4
<1>8. CASE ~l.long
  <2>1. at.n = 1
    BY <1>8 DEF ReadSoFar
  <2>2. PiecesOf(l) = <<p0>>
    BY <1>8, Zenon DEF PiecesOf, p0
  <2>4. p = p0 /\ <<p0>>[1] = p0
    BY <2>1, <2>2 DEF PieceAt
  <2>3. Whole(<<p0>>) = l
    BY <1>2, <2>2, <2>4 DEF Whole
  <2> QED
    BY <1>2, <1>3, <1>5, <1>8, <2>1, <2>2, <2>3, <2>4
<1> QED
  BY <1>6, <1>7, <1>8 DEF ReadSoFar

(* A line that is read whole adds what it means.                           *)
LEMMA LineMeans ==
  ASSUME NEW f \in Seq(Lines), NEW at, NEW st, ReadSoFar(f, at, st), at.line \in DOMAIN f,
         NEW next, NEW line,
         LET l == f[at.line]
             st2 == [st EXCEPT !.line = line, !.lineNum = @ + 1]
         IN next = IF l.kind \in {"blank", "comment"} THEN Skip(st2) ELSE Classify(st2, l)
  PROVE  \/ next.error # 0 /\ f[at.line].kind = "junk"
         \/ next.error = 0 /\ ReadSoFar(f, [line |-> at.line + 1, n |-> 1], next)
<1> DEFINE l == f[at.line]
           k == at.line - 1
           st2 == [st EXCEPT !.line = line, !.lineNum = @ + 1]
           at2 == [line |-> at.line + 1, n |-> 1]
<1>1. l \in Lines /\ k \in Nat /\ k + 1 = at.line /\ k + 1 <= Len(f) /\ Len(f) \in Nat
  BY DEF ReadSoFar
<1>2. st2 = [config |-> st.config, section |-> st.section, line |-> line,
             wasPrefix |-> st.wasPrefix, lineNum |-> st.lineNum + 1, error |-> 0]
  <2>1. /\ st = [config |-> st.config, section |-> st.section, line |-> st.line,
                 wasPrefix |-> st.wasPrefix, lineNum |-> st.lineNum, error |-> st.error]
        /\ st.error = 0
    BY DEF ReadSoFar
  <2>2. ASSUME NEW s, s = [st EXCEPT !.line = line, !.lineNum = @ + 1]
        PROVE  s = [config |-> st.config, section |-> st.section, line |-> line,
                    wasPrefix |-> st.wasPrefix, lineNum |-> st.lineNum + 1, error |-> 0]
    BY <2>1, <2>2
  <2> QED
    BY <2>2, Zenon
<1>3. next = IF l.kind \in {"blank", "comment"} THEN Skip(st2) ELSE Classify(st2, l)
  OBVIOUS
<1> HIDE DEF st2
<1>4. ASSUME NEW config, NEW section, NEW line2, NEW wasPrefix,
             next = [config |-> config, section |-> section, line |-> line2,
                     wasPrefix |-> wasPrefix, lineNum |-> st.lineNum + 1, error |-> 0],
             config = MeaningTo(f, k + 1), section = OpenAt(f, k + 1),
             wasPrefix => line2 = <<>>, l.kind # "junk"
      PROVE  next.error = 0 /\ ReadSoFar(f, at2, next)
  <2>1. /\ next.config = config /\ next.section = section /\ next.line = line2
        /\ next.lineNum = st.lineNum + 1 /\ next.error = 0
        /\ next = [config |-> next.config, section |-> next.section, line |-> next.line,
                   wasPrefix |-> next.wasPrefix, lineNum |-> next.lineNum, error |-> next.error]
    BY <1>4
  <2>2. next.wasPrefix = wasPrefix
    BY <1>4
  <2>3. /\ at2.line = k + 2 /\ at2.n = 1 /\ at2 = [line |-> at2.line, n |-> at2.n]
        /\ at2.line - 1 = k + 1
    BY <1>1
  <2>4. \A i \in 1 .. k + 1 : f[i].kind # "junk"
    BY <1>1, <1>4 DEF ReadSoFar
  <2>5. st.lineNum \in Nat
    BY DEF ReadSoFar
  <2>6. at2.line \in 1 .. Len(f) + 1
    BY <1>1, <2>3
  <2> HIDE DEF at2, k, l
  <2> QED
    BY <1>4, <2>1, <2>2, <2>3, <2>4, <2>5, <2>6 DEF ReadSoFar
<1>5. CASE l.kind \in {"blank", "comment"}
  <2>1. next = [config |-> st.config, section |-> st.section, line |-> <<>>,
                wasPrefix |-> st.wasPrefix, lineNum |-> st.lineNum + 1, error |-> 0]
    BY <1>2, <1>3, <1>5 DEF Skip
  <2>2. st.config = MeaningTo(f, k + 1) /\ st.section = OpenAt(f, k + 1)
    BY <1>1, <1>5, OtherLineMeans DEF ReadSoFar
  <2> QED
    BY <1>4, <1>5, <2>1, <2>2
<1>6. CASE l.kind = "section"
  <2>1. next = [st2 EXCEPT !.config = WithSection(@, l.name),
                           !.section = <<l.name>>, !.wasPrefix = FALSE]
    BY <1>3, <1>6, Zenon DEF Classify
  <2>2. next = [config |-> WithSection(st.config, l.name), section |-> <<l.name>>,
                line |-> line, wasPrefix |-> FALSE, lineNum |-> st.lineNum + 1, error |-> 0]
    BY <1>2, <2>1
  <2>3. WithSection(st.config, l.name) = MeaningTo(f, k + 1) /\ <<l.name>> = OpenAt(f, k + 1)
    BY <1>1, <1>6, SectionMeans, OpenChanges DEF ReadSoFar
  <2> QED
    BY <1>4, <1>6, <2>2, <2>3
<1>7. CASE l.kind = "option"
  <2> DEFINE c == IF st.section = <<>> THEN st.config
                  ELSE WithOption(st.config, st.section[1], l.name, l.value)
  <2>1. next = [st2 EXCEPT !.config = IF st2.section = <<>> THEN @
                                      ELSE WithOption(@, st2.section[1], l.name, l.value),
                           !.wasPrefix = FALSE]
    BY <1>3, <1>7, Zenon DEF Classify
  <2>2. next = [config |-> c, section |-> st.section,
                line |-> line, wasPrefix |-> FALSE, lineNum |-> st.lineNum + 1, error |-> 0]
    BY <1>2, <2>1
  <2>3. c = MeaningTo(f, k + 1) /\ st.section = OpenAt(f, k + 1)
    <3>1. st.section = OpenAt(f, k) /\ st.config = MeaningTo(f, k)
      BY DEF ReadSoFar
    <3>2. CASE HeadsOf(f, k) = {}
      <4>1. st.section = <<>>
        BY <3>1, <3>2 DEF OpenAt
      <4> QED
        BY <1>1, <1>7, <3>1, <3>2, <4>1, OptionMeans
    <3>3. CASE HeadsOf(f, k) # {}
      <4>1. st.section # <<>> /\ st.section[1] = SectionAt(f, k)
        BY <3>1, <3>3 DEF OpenAt
      <4> QED
        BY <1>1, <1>7, <3>1, <3>3, <4>1, OptionMeans
    <3> QED
      BY <3>2, <3>3
  <2> HIDE DEF c
  <2> QED
    BY <1>4, <1>7, <2>2, <2>3
<1>8. CASE l.kind = "junk"
  <2>1. next = [st2 EXCEPT !.error = st2.lineNum]
    BY <1>3, <1>8, Zenon DEF Classify
  <2>2. next.error = st.lineNum + 1 /\ st.lineNum \in Nat
    BY <1>2, <2>1 DEF ReadSoFar
  <2> QED
    BY <1>8, <2>2
<1> QED
  BY <1>1, <1>5, <1>6, <1>7, <1>8 DEF Lines, Kinds

(* One round of the loop: an error at a line that is junk, or the loop     *)
(* goes on behind the piece.                                               *)
LEMMA ReadMeans ==
  ASSUME NEW f \in Seq(Lines), NEW at, NEW st, ReadSoFar(f, at, st), at.line \in DOMAIN f
  PROVE  LET p == PieceAt(f, at)
             next == Read(st, p)
         IN  \/ next.error # 0 /\ f[at.line].kind = "junk"
             \/ next.error = 0 /\ ReadSoFar(f, Behind(at, p), next)
<1> DEFINE l == f[at.line]
           p == PieceAt(f, at)
           line == Collect(st, p)
           next == Read(st, p)
           st2 == [st EXCEPT !.line = line, !.lineNum = @ + 1]
<1>1. /\ p.isPrefix => /\ at.n = 1 /\ l.long /\ Collect(st, p) = <<Piece(l, 1, TRUE)>>
                       /\ Behind(at, p) = [line |-> at.line, n |-> 2]
      /\ ~p.isPrefix => /\ Whole(Collect(st, p)) = l
                        /\ Behind(at, p) = [line |-> at.line + 1, n |-> 1]
  BY PieceMeans
<1>2. st.error = 0
  BY DEF ReadSoFar
<1> HIDE DEF p
<1>3. next = IF p.isPrefix THEN [st EXCEPT !.line = line, !.wasPrefix = TRUE]
             ELSE IF Whole(line).kind \in {"blank", "comment"} THEN Skip(st2)
             ELSE Classify(st2, Whole(line))
  BY <1>2, Zenon DEF Read
<1> HIDE DEF next
<1>4. CASE p.isPrefix
  <2>1. next = [st EXCEPT !.line = line, !.wasPrefix = TRUE]
    BY <1>3, <1>4
  <2>2. next = [config |-> st.config, section |-> st.section, line |-> line,
                wasPrefix |-> TRUE, lineNum |-> st.lineNum, error |-> st.error]
    BY <2>1 DEF ReadSoFar
  <2>3. line = <<Piece(l, 1, TRUE)>> /\ Behind(at, p) = [line |-> at.line, n |-> 2] /\ l.long
    BY <1>1, <1>4
  <2> DEFINE at2 == [line |-> at.line, n |-> 2]
  <2>4. at2.line = at.line /\ at2.n = 2 /\ at2 = [line |-> at2.line, n |-> at2.n]
    OBVIOUS
  <2> HIDE DEF at2, line
  <2>5. ReadSoFar(f, at2, next) /\ next.error = 0
    <3>1. /\ next.config = st.config /\ next.section = st.section /\ next.line = line
          /\ next.lineNum = st.lineNum /\ next.error = st.error
          /\ next = [config |-> next.config, section |-> next.section, line |-> next.line,
                     wasPrefix |-> next.wasPrefix, lineNum |-> next.lineNum, error |-> next.error]
      BY <2>2
    <3>2. next.wasPrefix
      BY <2>2
    <3> QED
      BY <1>4, <2>3, <2>4, <3>1, <3>2 DEF ReadSoFar
  <2> QED
    BY <2>3, <2>5 DEF at2, p, next
<1>5. CASE ~p.isPrefix
  <2>1. next = IF l.kind \in {"blank", "comment"} THEN Skip(st2) ELSE Classify(st2, l)
    BY <1>1, <1>3, <1>5
  <2> HIDE DEF line
  <2>2. \/ next.error # 0 /\ l.kind = "junk"
        \/ next.error = 0 /\ ReadSoFar(f, [line |-> at.line + 1, n |-> 1], next)
    BY <2>1, LineMeans, Zenon
  <2> QED
    BY <1>1, <1>5, <2>2 DEF p, next
<1> QED
  BY <1>4, <1>5


(* The files that are still to be tried are the last ones of those that    *)
(* there were, and all before them were in vain.                           *)
InVain(f) == f = Missing \/ ~IsValid(f)
Remaining(n) ==
  /\ n \in DOMAIN first /\ Len(configs) = Len(first) - n + 1
  /\ \A i \in DOMAIN configs : configs[i] = first[n + i - 1]
  /\ \A m \in 1 .. n - 1 : InVain(first[m])

ConfigInv ==
  /\ first \in Seq(Seq(Lines) \cup {Missing})
  /\ configs \in Seq(Seq(Lines) \cup {Missing})
  /\ \E n \in Nat : Remaining(n)
  /\ phase = "read" => Head(configs) # Missing /\ ReadSoFar(Head(configs), pos, parser)
  /\ phase \in {"env", "run"} /\ ~broken =>
       /\ Head(configs) # Missing /\ IsValid(Head(configs))
       /\ parser.config = Meaning(Head(configs))

LEMMA ConfigsMeans ==
  ASSUME ConfigInv
  PROVE  /\ configs # <<>> /\ Len(configs) \in Nat \ {0}
         /\ Head(configs) = configs[1]
         /\ Head(configs) # Missing => Head(configs) \in Seq(Lines)
<1>1. PICK n \in Nat : Remaining(n)
  BY DEF ConfigInv
<1>2. n \in 1 .. Len(first) /\ Len(first) \in Nat /\ Len(configs) \in Nat
  BY <1>1 DEF ConfigInv, Remaining
<1>3. Len(configs) \in Nat \ {0}
  BY <1>1, <1>2 DEF Remaining
<1> QED
  BY <1>3 DEF ConfigInv

(* A file that was tried in vain is gone; it was the last one, or the next *)
(* one is tried.                                                           *)
LEMMA FailedLoad ==
  ASSUME ConfigInv, InVain(Head(configs)), LoadFileReturns(TRUE), UNCHANGED first
  PROVE  ConfigInv'
<1>1. CASE /\ ~(Len(configs) > 1) /\ UNCHANGED configs
           /\ phase' = "exited" /\ code' = 1
  <2>1. \A n : Remaining(n)' = Remaining(n)
    BY <1>1 DEF Remaining, InVain, IsValid, Missing
  <2> QED
    BY <1>1, <2>1 DEF ConfigInv
<1>2. CASE /\ Len(configs) > 1 /\ configs' = Tail(configs)
           /\ phase' = "open" /\ UNCHANGED code
  <2>1. PICK n \in Nat : Remaining(n)
    BY DEF ConfigInv
  <2>2. /\ n \in 1 .. Len(first) /\ Len(first) \in Nat /\ Len(configs) \in Nat
        /\ Len(configs) = Len(first) - n + 1
    BY <2>1 DEF ConfigInv, Remaining
  <2>0. \A i \in 1 .. Len(configs) : configs[i] = first[n + i - 1]
    <3>1. DOMAIN configs = 1 .. Len(configs)
      BY DEF ConfigInv
    <3> QED
      BY <2>1, <3>1 DEF Remaining
  <2>3. /\ configs' \in Seq(Seq(Lines) \cup {Missing})
        /\ Len(configs') = Len(configs) - 1
        /\ \A i \in 1 .. Len(configs') : configs'[i] = configs[i + 1]
    <3>1. configs \in Seq(Seq(Lines) \cup {Missing}) /\ configs # <<>>
      BY ConfigsMeans DEF ConfigInv
    <3> QED
      BY <1>2, <3>1, HeadTailProperties
  <2>4. InVain(first[n])
    <3>1. Head(configs) = first[n]
      <4>1. 1 \in 1 .. Len(configs) /\ n + 1 - 1 = n
        BY <2>2, ConfigsMeans
      <4> QED
        BY <2>0, <4>1, ConfigsMeans
    <3> QED
      BY <3>1
  <2>5. \A m \in 1 .. (n + 1) - 1 : InVain(first[m])
    BY <2>1, <2>2, <2>4 DEF Remaining
  <2>6. \A i \in 1 .. Len(configs') : configs'[i] = first[(n + 1) + i - 1]
    <3> SUFFICES ASSUME NEW i \in 1 .. Len(configs') PROVE configs'[i] = first[(n + 1) + i - 1]
      OBVIOUS
    <3>1. i + 1 \in 1 .. Len(configs) /\ n + (i + 1) - 1 = (n + 1) + i - 1
      BY <1>2, <2>2, <2>3
    <3>2. configs[i + 1] = first[n + (i + 1) - 1]
      BY <2>0, <3>1
    <3> QED
      BY <2>3, <3>1, <3>2
  <2>7. n + 1 \in DOMAIN first /\ Len(configs') = Len(first) - (n + 1) + 1
    BY <1>2, <2>2, <2>3 DEF ConfigInv
  <2>8. Remaining(n + 1)'
    <3>1. DOMAIN configs' = 1 .. Len(configs')
      BY <2>3
    <3> QED
      BY <2>5, <2>6, <2>7, <3>1 DEF Remaining, InVain, IsValid, Missing
  <2> QED
    BY <1>2, <2>1, <2>3, <2>8 DEF ConfigInv
<1> QED
  BY <1>1, <1>2, LoadFileMeans

LEMMA ConfigNext ==
  ASSUME ConfigInv, [Next]_vars
  PROVE  ConfigInv'
<1>1. UNCHANGED first
  BY StepMeans
<1>2. UNCHANGED configs => ((\E n \in Nat : Remaining(n)) => (\E n \in Nat : Remaining(n))')
  BY <1>1 DEF Remaining, InVain, IsValid, Missing
<1> DEFINE f == Head(configs)
<1>3. CASE OpenFile
  <2>1. CASE f = Missing
    <3>1. LoadFileReturns(TRUE)
      BY <1>3, <2>1 DEF OpenFile
    <3> QED
      BY <1>1, <2>1, <3>1, FailedLoad DEF InVain
  <2>2. CASE f # Missing
    <3>1. phase' = "read" /\ UNCHANGED configs /\ parser' = Start /\ pos' = Top
      BY <1>3, <2>2 DEF OpenFile
    <3>2. ReadSoFar(f, Top, Start)
      BY <2>2, ConfigsMeans, NothingIsRead
    <3> QED
      BY <1>1, <1>2, <2>2, <3>1, <3>2 DEF ConfigInv
  <2> QED
    BY <2>1, <2>2
<1>4. CASE ReadLine
  <2> DEFINE piece == PieceAt(f, pos)
             next == Read(parser, piece)
  <2>1. /\ phase = "read" /\ pos.line \in DOMAIN f /\ parser' = next /\ pos' = Behind(pos, piece)
        /\ UNCHANGED broken
        /\ IF next.error # 0 THEN LoadFileReturns(TRUE) ELSE UNCHANGED <<phase, configs, code>>
    BY <1>4 DEF ReadLine
  <2>2. f \in Seq(Lines) /\ f # Missing /\ ReadSoFar(f, pos, parser)
    BY <2>1, ConfigsMeans DEF ConfigInv
  <2>3. \/ next.error # 0 /\ f[pos.line].kind = "junk"
        \/ next.error = 0 /\ ReadSoFar(f, Behind(pos, piece), next)
    BY <2>1, <2>2, ReadMeans
  <2> HIDE DEF f, piece, next
  <2>4. CASE next.error # 0 /\ f[pos.line].kind = "junk"
    <3>1. InVain(f)
      BY <2>1, <2>4 DEF InVain, IsValid
    <3>2. LoadFileReturns(TRUE)
      BY <2>1, <2>4
    <3> QED
      BY <1>1, <3>1, <3>2, FailedLoad DEF f
  <2>5. CASE next.error = 0 /\ ReadSoFar(f, Behind(pos, piece), next)
    <3>1. UNCHANGED <<phase, configs, code>>
      BY <2>1, <2>5
    <3>2. ReadSoFar(f, pos', parser')
      BY <2>1, <2>5
    <3> QED
      BY <1>1, <1>2, <2>1, <2>2, <3>1, <3>2 DEF ConfigInv, f
  <2> QED
    BY <2>3, <2>4, <2>5
<1>5. CASE EndOfFile
  <2>1. /\ phase = "read" /\ UNCHANGED <<configs, parser>> /\ phase' = "env"
        /\ broken' = (broken \/ pos.line \in DOMAIN f)
    BY <1>5, LoadFileMeans DEF EndOfFile
  <2>2. f \in Seq(Lines) /\ f # Missing /\ ReadSoFar(f, pos, parser)
    BY <2>1, ConfigsMeans DEF ConfigInv
  <2>3. ~broken' => pos.line \notin DOMAIN f
    BY <2>1
  <2>4. ~broken' => IsValid(f) /\ parser.config = Meaning(f)
    <3> SUFFICES ASSUME pos.line \notin DOMAIN f PROVE IsValid(f) /\ parser.config = Meaning(f)
      BY <2>3
    <3> HIDE DEF f
    <3>1. Len(f) \in Nat /\ DOMAIN f = 1 .. Len(f)
      BY <2>2
    <3>2. pos.line = Len(f) + 1
      BY <2>2, <3>1 DEF ReadSoFar
    <3>3. pos.line - 1 = Len(f)
      BY <3>1, <3>2
    <3> QED
      BY <2>2, <3>1, <3>3, MeaningIsMeaningTo DEF ReadSoFar, IsValid
  <2> QED
    BY <1>1, <1>2, <2>1, <2>2, <2>4 DEF ConfigInv
<1>6. CASE InitEnvironment
  <2>1. phase = "env" /\ phase' \in {"run", "exited"} /\ UNCHANGED <<configs, parser, broken>>
    BY <1>6 DEF InitEnvironment, Exits, file
  <2> QED
    BY <1>1, <1>2, <2>1 DEF ConfigInv
<1>7. CASE Exit
  <2>1. phase' = "exited" /\ UNCHANGED <<configs, parser, broken>>
    BY <1>7 DEF Exit, Exits, file
  <2> QED
    BY <1>1, <1>2, <2>1 DEF ConfigInv
<1>8. CASE RunCommand \/ Other \/ Done \/ UNCHANGED vars
  <2>1. UNCHANGED <<phase, configs, pos, parser, broken>>
    BY <1>8 DEF RunCommand, Other, Done, vars, main
  <2> QED
    BY <1>1, <1>2, <2>1 DEF ConfigInv
<1> QED
  BY <1>3, <1>4, <1>5, <1>6, <1>7, <1>8 DEF Next, Step

LEMMA ConfigInit ==
  ASSUME Init
  PROVE  ConfigInv
<1>1. /\ cmdName \in Commands /\ configs \in Disks(cmdName) /\ first = configs /\ phase = "open"
  BY DEF Init
<1>2. configs \in Seq(Seq(Lines) \cup {Missing}) /\ configs # <<>>
  BY <1>1, DisksAssumption
<1>3. Len(configs) \in Nat \ {0} /\ DOMAIN configs = 1 .. Len(configs)
  BY <1>2, EmptySeq
<1>4. Remaining(1)
  BY <1>1, <1>3 DEF Remaining
<1> QED
  BY <1>1, <1>2, <1>4 DEF ConfigInv

(***************************************************************************)
(* Whatever the disk holds, a command runs with what the first file says   *)
(* that is there and has no syntax error.                                  *)
(***************************************************************************)
THEOREM FirstGoodFileCounts == Spec => []RunsAsConfigured
<1>1. ConfigInv => RunsAsConfigured
  <2> SUFFICES ASSUME ConfigInv, phase \in {"env", "run"}, ~broken
               PROVE  \E n \in DOMAIN first :
                        /\ parser.config = Meaning(first[n])
                        /\ first[n] # Missing /\ IsValid(first[n])
                        /\ \A m \in 1 .. n - 1 : first[m] = Missing \/ ~IsValid(first[m])
    BY DEF RunsAsConfigured
  <2>1. PICK n \in Nat : Remaining(n)
    BY DEF ConfigInv
  <2>2. n \in DOMAIN first /\ Head(configs) = first[n]
    <3>1. configs[1] = first[n + 1 - 1] /\ n \in DOMAIN first
      BY <2>1, ConfigsMeans DEF Remaining, ConfigInv
    <3> QED
      BY <3>1, ConfigsMeans
  <2> QED
    BY <2>1, <2>2 DEF ConfigInv, Remaining, InVain
<1> QED
  BY <1>1, ConfigInit, ConfigNext, PTL DEF Spec
-----------------------------------------------------------------------------
(***************************************************************************)
(* ls and uploads ls: the lemmas on pages hold of its names.               *)
(***************************************************************************)
LL == INSTANCE ListingProofs WITH Names <- ListNames

LEMMA ListsAssumed == LL!ListingAssumption /\ LL!OrderAssumption
<1>1. LL!ListingAssumption
  BY ListAssumption DEF L!ListingAssumption, LL!ListingAssumption
<1>2. L!OrderAssumption
  BY ListAssumption
<1>3. LL!OrderAssumption
  BY <1>2, Zenon
     DEF L!OrderAssumption, LL!OrderAssumption, L!Ids, LL!Ids,
         L!HasPrefix, LL!HasPrefix, L!IsPrefix, LL!IsPrefix
<1> QED
  BY <1>1, <1>3

LEMMA ListsOperators ==
  /\ L!Ids = LL!Ids
  /\ L!NoListing = LL!NoListing
  /\ \A k, t : L!StartsWith(k, t) = LL!StartsWith(k, t)
  /\ \A k, t : L!EndsWith(k, t) = LL!EndsWith(k, t)
  /\ \A k, t : L!TrimLeft(k, t) = LL!TrimLeft(k, t)
  /\ \A k, p : L!HasPrefix(k, p) = LL!HasPrefix(k, p)
  /\ \A S : L!Min(S) = LL!Min(S)
  /\ \A S : L!SetToSeq(S) = LL!SetToSeq(S)
  /\ \A S, n : L!FirstOf(S, n) = LL!FirstOf(S, n)
  /\ \A l : L!Undecoded(l) = LL!Undecoded(l)
<1>1. L!Ids = LL!Ids /\ L!NoListing = LL!NoListing
  BY DEF L!Ids, LL!Ids, L!NoListing, LL!NoListing
<1>2. \A k, t : L!StartsWith(k, t) = LL!StartsWith(k, t)
  BY Zenon DEF L!StartsWith, LL!StartsWith
<1>3. \A k, t : L!EndsWith(k, t) = LL!EndsWith(k, t)
  BY Zenon DEF L!EndsWith, LL!EndsWith
<1>4. \A k, t : L!TrimLeft(k, t) = LL!TrimLeft(k, t)
  BY Zenon DEF L!TrimLeft, LL!TrimLeft, L!Min, LL!Min
<1>5. \A k, p : L!HasPrefix(k, p) = LL!HasPrefix(k, p)
  BY Zenon DEF L!HasPrefix, LL!HasPrefix, L!IsPrefix, LL!IsPrefix
<1>6. \A S : L!Min(S) = LL!Min(S)
  BY Zenon DEF L!Min, LL!Min
<1>7. \A S : L!Cardinality(S) = LL!Cardinality(S)
  BY DEF L!Cardinality, LL!Cardinality, L!IsFiniteSet, LL!IsFiniteSet
<1>8. \A S : L!SetToSeq(S) = LL!SetToSeq(S)
  BY <1>7, Zenon DEF L!SetToSeq, LL!SetToSeq, L!IsInjective, LL!IsInjective
<1>9. \A S, n : L!FirstOf(S, n) = LL!FirstOf(S, n)
  BY <1>7, Zenon DEF L!FirstOf, LL!FirstOf
<1>10. \A l : L!Undecoded(l) = LL!Undecoded(l)
  BY <1>1, <1>7, <1>9 DEF L!Undecoded, LL!Undecoded
<1> QED
  BY <1>1, <1>2, <1>3, <1>4, <1>5, <1>6, <1>8, <1>9, <1>10

LEMMA ListsPages ==
  ASSUME NEW S, NEW prefix, NEW delimiter, NEW marker, NEW size
  PROVE  L!ListPage(S, prefix, delimiter, marker, size) =
             LL!ListPage(S, prefix, delimiter, marker, size)
<1> DEFINE behind == {i \in S : i > marker /\ L!HasPrefix(ListNames[i], prefix)}
           inDir == {i \in behind : delimiter /\ L!SlashesBehind(ListNames[i], prefix) # {}}
           dir == [i \in inDir |->
                     SubSeq(ListNames[i], 1, L!Min(L!SlashesBehind(ListNames[i], prefix)))]
           repeated == {i \in inDir : \E j \in inDir : j < i /\ dir[i] = dir[j]}
           page == L!FirstOf(behind \ repeated, size)
           dirs == {dir[i] : i \in page \cap inDir}
           covered == page \cup {i \in L!Ids : \E d \in dirs : L!HasPrefix(ListNames[i], d)}
           behindLL == {i \in S : i > marker /\ LL!HasPrefix(ListNames[i], prefix)}
           inDirLL == {i \in behindLL : delimiter /\ LL!SlashesBehind(ListNames[i], prefix) # {}}
           dirLL == [i \in inDirLL |->
                     SubSeq(ListNames[i], 1, LL!Min(LL!SlashesBehind(ListNames[i], prefix)))]
           repeatedLL == {i \in inDirLL : \E j \in inDirLL : j < i /\ dirLL[i] = dirLL[j]}
           pageLL == LL!FirstOf(behindLL \ repeatedLL, size)
           dirsLL == {dirLL[i] : i \in pageLL \cap inDirLL}
           coveredLL == pageLL \cup {i \in LL!Ids : \E d \in dirsLL : LL!HasPrefix(ListNames[i], d)}
<1>1. L!ListPage(S, prefix, delimiter, marker, size) =
            [nil |-> FALSE, keys |-> page \ inDir, dirs |-> dirs,
             truncated |-> ~(behind \subseteq covered),
             next |-> IF behind \subseteq covered THEN 0 ELSE L!Max(covered)]
  BY Zenon DEF L!ListPage
<1>2. LL!ListPage(S, prefix, delimiter, marker, size) =
            [nil |-> FALSE, keys |-> pageLL \ inDirLL, dirs |-> dirsLL,
             truncated |-> ~(behindLL \subseteq coveredLL),
             next |-> IF behindLL \subseteq coveredLL THEN 0 ELSE LL!Max(coveredLL)]
  BY Zenon DEF LL!ListPage
<1>3. \A k, p : L!SlashesBehind(k, p) = LL!SlashesBehind(k, p)
  BY DEF L!SlashesBehind, LL!SlashesBehind
<1>4. \A T : L!Min(T) = LL!Min(T) /\ L!Max(T) = LL!Max(T)
  BY Zenon DEF L!Min, LL!Min, L!Max, LL!Max
<1>5. behind = behindLL
  BY ListsOperators
<1> HIDE DEF behind, behindLL
<1>6. inDir = inDirLL
  BY <1>3, <1>5
<1> HIDE DEF inDir, inDirLL
<1>7. dir = dirLL
  BY <1>3, <1>4, <1>6
<1> HIDE DEF dir, dirLL
<1>8. repeated = repeatedLL
  BY <1>6, <1>7
<1> HIDE DEF repeated, repeatedLL
<1>9. page = pageLL
  BY <1>5, <1>8, ListsOperators
<1> HIDE DEF page, pageLL
<1>10. dirs = dirsLL
  BY <1>6, <1>7, <1>9
<1> HIDE DEF dirs, dirsLL
<1>11. covered = coveredLL
  BY <1>9, <1>10, ListsOperators
<1> HIDE DEF covered, coveredLL
<1> QED
  BY <1>1, <1>2, <1>4, <1>5, <1>6, <1>9, <1>10, <1>11


-----------------------------------------------------------------------------
(***************************************************************************)
(* ls and uploads ls.  What the listings that are still to be asked for    *)
(* may find; each of them is a part of its own, and what it prints is new. *)
(***************************************************************************)
Flags == BOOLEAN
Tasks == [prefix : Seq(Tokens), delimiter : Flags, marker : L!Ids \cup {0},
          size : Nat \ {0}, depth : Nat]

InsideOut(ts) ==
  /\ ts \in Seq(Tasks)
  /\ \A m, n \in DOMAIN ts : m <= n => ts[n].depth <= ts[m].depth

RegionOf(t) == LL!Region(t.prefix, t.marker)

IsNew(t, i, line) ==
  /\ line.id # i
  /\ line.id = 0 /\ LL!HasPrefix(ListNames[i], line.key) => Len(line.key) <= Len(t.prefix)

Separate(s, t) == \A i : ~(i \in RegionOf(s) /\ i \in RegionOf(t))

Apart(ts, lines) ==
  /\ \A n \in DOMAIN ts : ts[n].delimiter => LL!Clear(ts[n].prefix, ts[n].marker)
  /\ \A m, n \in DOMAIN ts : m # n => Separate(ts[m], ts[n])
  /\ \A n \in DOMAIN ts : \A i \in RegionOf(ts[n]) : \A line \in lines : IsNew(ts[n], i, line)

LEMMA PlacesOf ==
  ASSUME NEW T, NEW s \in Seq(T)
  PROVE  /\ Len(s) \in Nat /\ DOMAIN s = 1 .. Len(s)
         /\ \A n \in DOMAIN s : n \in Nat /\ 1 <= n /\ n <= Len(s) /\ s[n] \in T
BY LenProperties, ElementOfSeq

LEMMA ConcatPlaces ==
  ASSUME NEW T, NEW a \in Seq(T), NEW b \in Seq(T)
  PROVE  /\ a \o b \in Seq(T)
         /\ \A n \in DOMAIN (a \o b) :
              \/ n \in DOMAIN a /\ (a \o b)[n] = a[n]
              \/ n > Len(a) /\ n - Len(a) \in DOMAIN b /\ (a \o b)[n] = b[n - Len(a)]
         /\ \A n \in DOMAIN a : n \in DOMAIN (a \o b) /\ (a \o b)[n] = a[n]
         /\ \A n \in DOMAIN b : n + Len(a) \in DOMAIN (a \o b) /\ (a \o b)[n + Len(a)] = b[n]
<1>1. /\ a \o b \in Seq(T) /\ Len(a \o b) = Len(a) + Len(b)
      /\ \A i \in 1 .. Len(a) + Len(b) :
           (a \o b)[i] = IF i <= Len(a) THEN a[i] ELSE b[i - Len(a)]
  BY ConcatProperties
<1>2. /\ Len(a) \in Nat /\ Len(b) \in Nat /\ DOMAIN (a \o b) = 1 .. Len(a) + Len(b)
      /\ DOMAIN a = 1 .. Len(a) /\ DOMAIN b = 1 .. Len(b)
  BY <1>1, PlacesOf
<1> DEFINE c == a \o b
<1> HIDE DEF c
<1>3. /\ \A i \in 1 .. Len(a) + Len(b) : c[i] = IF i <= Len(a) THEN a[i] ELSE b[i - Len(a)]
      /\ DOMAIN c = 1 .. Len(a) + Len(b)
  BY <1>1, <1>2 DEF c
<1>4. \A n \in DOMAIN c :
              \/ n \in DOMAIN a /\ c[n] = a[n]
              \/ n > Len(a) /\ n - Len(a) \in DOMAIN b /\ c[n] = b[n - Len(a)]
  BY <1>2, <1>3
<1>5. \A n \in DOMAIN a : n \in DOMAIN c /\ c[n] = a[n]
  BY <1>2, <1>3
<1>6. \A n \in DOMAIN b : n + Len(a) \in DOMAIN c /\ c[n + Len(a)] = b[n]
  BY <1>2, <1>3
<1> QED
  BY <1>1, <1>4, <1>5, <1>6 DEF c

LEMMA ConcatInsideOut ==
  ASSUME NEW a, NEW b, InsideOut(a), InsideOut(b),
         \A m \in DOMAIN a, n \in DOMAIN b : b[n].depth <= a[m].depth
  PROVE  InsideOut(a \o b)
<1>1. a \in Seq(Tasks) /\ b \in Seq(Tasks)
  BY DEF InsideOut
<1>2. Len(a) \in Nat /\ DOMAIN a = 1 .. Len(a) /\ DOMAIN b = 1 .. Len(b) /\ Len(b) \in Nat
  BY <1>1, PlacesOf
<1> DEFINE c == a \o b
<1>3. /\ c \in Seq(Tasks)
      /\ \A n \in DOMAIN c :
           \/ n \in DOMAIN a /\ c[n] = a[n]
           \/ n > Len(a) /\ n - Len(a) \in DOMAIN b /\ c[n] = b[n - Len(a)]
  BY <1>1, ConcatPlaces
<1>4. \A n \in DOMAIN c : n \in Nat
  BY <1>3, PlacesOf
<1> HIDE DEF c
<1>5. ASSUME NEW m \in DOMAIN c, NEW n \in DOMAIN c, m <= n
      PROVE  c[n].depth <= c[m].depth
  <2>1. CASE m \in DOMAIN a /\ n \in DOMAIN a /\ c[m] = a[m] /\ c[n] = a[n]
    BY <1>5, <2>1 DEF InsideOut
  <2>2. CASE m \in DOMAIN a /\ n - Len(a) \in DOMAIN b /\ c[m] = a[m] /\ c[n] = b[n - Len(a)]
    BY <2>2
  <2>3. CASE /\ m - Len(a) \in DOMAIN b /\ c[m] = b[m - Len(a)]
             /\ n - Len(a) \in DOMAIN b /\ c[n] = b[n - Len(a)]
    <3>1. m - Len(a) <= n - Len(a)
      BY <1>2, <1>4, <1>5
    <3> QED
      BY <2>3, <3>1 DEF InsideOut
  <2>4. ~(m > Len(a) /\ n \in DOMAIN a)
    BY <1>2, <1>4, <1>5
  <2> QED
    BY <1>3, <2>1, <2>2, <2>3, <2>4
<1> QED
  BY <1>3, <1>5 DEF InsideOut, c

LEMMA ConcatApart ==
  ASSUME NEW a \in Seq(Tasks), NEW b \in Seq(Tasks), NEW lines,
         Apart(a, lines), Apart(b, lines),
         \A m \in DOMAIN a, n \in DOMAIN b : Separate(a[m], b[n])
  PROVE  Apart(a \o b, lines)
<1> DEFINE c == a \o b
<1>1. Len(a) \in Nat /\ \A m \in DOMAIN a : m \in Nat
  BY PlacesOf
<1>2. /\ c \in Seq(Tasks)
      /\ \A n \in DOMAIN c :
           \/ n \in DOMAIN a /\ c[n] = a[n]
           \/ n > Len(a) /\ n - Len(a) \in DOMAIN b /\ c[n] = b[n - Len(a)]
  BY ConcatPlaces
<1>3. \A n \in DOMAIN c : n \in Nat
  BY <1>2, PlacesOf
<1> HIDE DEF c
<1>4. \A s, t : Separate(s, t) => Separate(t, s)
  BY DEF Separate
<1>5. ASSUME NEW m \in DOMAIN c, NEW n \in DOMAIN c, m # n
      PROVE  Separate(c[m], c[n])
  <2>1. CASE m \in DOMAIN a /\ n \in DOMAIN a /\ c[m] = a[m] /\ c[n] = a[n]
    BY <1>5, <2>1 DEF Apart
  <2>2. CASE m \in DOMAIN a /\ n - Len(a) \in DOMAIN b /\ c[m] = a[m] /\ c[n] = b[n - Len(a)]
    BY <2>2
  <2>3. CASE n \in DOMAIN a /\ m - Len(a) \in DOMAIN b /\ c[n] = a[n] /\ c[m] = b[m - Len(a)]
    BY <1>4, <2>3
  <2>4. CASE /\ m - Len(a) \in DOMAIN b /\ c[m] = b[m - Len(a)]
             /\ n - Len(a) \in DOMAIN b /\ c[n] = b[n - Len(a)]
    <3>1. m - Len(a) # n - Len(a)
      BY <1>1, <1>3, <1>5
    <3> QED
      BY <2>4, <3>1 DEF Apart
  <2> QED
    BY <1>2, <2>1, <2>2, <2>3, <2>4
<1>6. \A n \in DOMAIN c : (\E m \in DOMAIN a : c[n] = a[m]) \/ (\E m \in DOMAIN b : c[n] = b[m])
  BY <1>2
<1>7. ASSUME NEW n \in DOMAIN c
      PROVE  /\ c[n].delimiter => LL!Clear(c[n].prefix, c[n].marker)
             /\ \A i \in RegionOf(c[n]) : \A line \in lines : IsNew(c[n], i, line)
  <2>1. CASE \E m \in DOMAIN a : c[n] = a[m]
    BY <2>1 DEF Apart
  <2>2. CASE \E m \in DOMAIN b : c[n] = b[m]
    BY <2>2 DEF Apart
  <2> QED
    BY <1>6, <2>1, <2>2
<1> QED
  BY <1>5, <1>7 DEF Apart, c

LEMMA PlaceShifted ==
  ASSUME NEW length \in Nat, NEW k \in 1 .. length + 1,
         NEW rest, rest = length - k + 1, NEW n \in 1 .. rest
  PROVE  n + k - 1 \in 1 .. length
OBVIOUS

(* What is left of the listings, behind the first ones.                    *)
LEMMA SuffixKeeps ==
  ASSUME NEW ts, InsideOut(ts), NEW lines, NEW k \in 1 .. Len(ts) + 1,
         NEW ss \in Seq(Tasks), Len(ss) = Len(ts) - k + 1,
         \A n \in 1 .. Len(ss) : ss[n] = ts[n + k - 1]
  PROVE  InsideOut(ss) /\ (Apart(ts, lines) => Apart(ss, lines))
<1>1. /\ Len(ts) \in Nat /\ DOMAIN ts = 1 .. Len(ts) /\ Len(ss) \in Nat
      /\ DOMAIN ss = 1 .. Len(ss)
  BY PlacesOf DEF InsideOut
<1>2. ASSUME NEW n \in DOMAIN ss
      PROVE  n + k - 1 \in DOMAIN ts /\ ss[n] = ts[n + k - 1]
  <2>1. n \in 1 .. Len(ss)
    BY <1>1, Zenon
  <2>2. n + k - 1 \in 1 .. Len(ts)
    BY <1>1, <2>1, PlaceShifted, Zenon
  <2> QED
    BY <1>1, <2>1, <2>2, Zenon
<1>3. \A m, n \in DOMAIN ss : /\ m <= n => m + k - 1 <= n + k - 1
                              /\ m # n => m + k - 1 # n + k - 1
  <2>1. DOMAIN ss \subseteq Nat /\ k \in Nat
    BY <1>1
  <2>2. \A m, n \in Nat : /\ m <= n => m + k - 1 <= n + k - 1
                         /\ m # n => m + k - 1 # n + k - 1
    BY <2>1
  <2> QED
    BY <2>1, <2>2
<1>4. InsideOut(ss)
  BY <1>2, <1>3 DEF InsideOut
<1>5. Apart(ts, lines) => Apart(ss, lines)
  BY <1>2, <1>3 DEF Apart
<1> QED
  BY <1>4, <1>5

(***************************************************************************)
(* What a page leads to.                                                   *)
(***************************************************************************)
Deep == recursive

IsPage(l) ==
  /\ LL!IsListing(l)
  /\ LL!IsFiniteSet(l.dirs) /\ l.dirs \subseteq LL!Keys

IsTask(s, prefix, delimiter, marker, depth) ==
  /\ s \in Tasks
  /\ s.prefix = prefix /\ s.delimiter = delimiter /\ s.marker = marker /\ s.depth = depth

LEMMA TaskMeans ==
  ASSUME NEW p \in Seq(Tokens), NEW delimiter \in Flags, NEW m \in L!Ids \cup {0},
         NEW size \in Nat \ {0}, NEW depth \in Nat
  PROVE  IsTask(L!Task(p, delimiter, m, size, depth), p, delimiter, m, depth)
<1> DEFINE s == [prefix |-> p, delimiter |-> delimiter, marker |-> m, size |-> size,
                 depth |-> depth]
<1>1. L!Task(p, delimiter, m, size, depth) = s
  BY DEF L!Task
<1>2. s \in Tasks
  BY DEF Tasks
<1> QED
  BY <1>1, <1>2 DEF IsTask

LEMMA TasksMeans ==
  ASSUME NEW t \in Tasks
  PROVE  /\ t.prefix \in Seq(Tokens) /\ t.delimiter \in Flags
         /\ t.marker \in LL!Ids \cup {0} /\ t.marker \in Nat
         /\ t.size \in Nat \ {0} /\ t.depth \in Nat
<1>1. L!Ids = LL!Ids
  BY ListsOperators
<1>2. \A i \in LL!Ids : i \in Nat
  BY ListsAssumed, LL!IdsAreNumbers
<1>3. /\ t.prefix \in Seq(Tokens) /\ t.delimiter \in Flags
      /\ t.marker \in LL!Ids \cup {0}
      /\ t.size \in Nat \ {0} /\ t.depth \in Nat
  BY <1>1 DEF Tasks
<1> QED
  BY <1>2, <1>3

LEMMA NextPagesMeans ==
  ASSUME NEW t \in Tasks, NEW l, IsPage(l)
  PROVE  /\ InsideOut(L!NextPages(t, l))
         /\ \A n \in DOMAIN L!NextPages(t, l) :
              /\ n = 1 /\ l.truncated
              /\ L!NextPages(t, l)[n].prefix = t.prefix
              /\ L!NextPages(t, l)[n].delimiter = t.delimiter
              /\ L!NextPages(t, l)[n].marker = l.next
              /\ L!NextPages(t, l)[n].depth = t.depth + 1
         /\ l.truncated => 1 \in DOMAIN L!NextPages(t, l)
<1>0. PICK depth \in Nat : depth = t.depth + 1
  BY TasksMeans
<1> DEFINE next == L!Task(t.prefix, t.delimiter, l.next, t.size, depth)
           ts == L!NextPages(t, l)
<1>1. /\ t.prefix \in Seq(Tokens) /\ t.delimiter \in Flags /\ t.size \in Nat \ {0}
  BY TasksMeans
<1>2. l.next \in L!Ids \cup {0} /\ l.truncated \in BOOLEAN
  BY ListsOperators DEF IsPage, LL!IsListing
<1>3. IsTask(next, t.prefix, t.delimiter, l.next, depth)
  BY <1>1, <1>2, TaskMeans
<1>4. /\ l.truncated => ts = <<next>>
      /\ ~l.truncated => ts = <<>>
  BY <1>0, Zenon DEF L!NextPages, L!NextMarker
<1> HIDE DEF next, ts
<1>5. /\ <<next>> \in Seq(Tasks) /\ <<>> \in Seq(Tasks)
      /\ DOMAIN <<next>> = {1} /\ DOMAIN <<>> = {} /\ <<next>>[1] = next
  BY <1>3 DEF IsTask
<1>6. next.depth <= next.depth
  BY <1>1, <1>3 DEF IsTask
<1>7. InsideOut(ts)
  BY <1>4, <1>5, <1>6 DEF InsideOut
<1>8. \A n \in DOMAIN ts : n = 1 /\ l.truncated /\ ts[n] = next
  BY <1>4, <1>5
<1>9. l.truncated => 1 \in DOMAIN ts
  BY <1>4, <1>5
<1> QED
  BY <1>0, <1>3, <1>7, <1>8, <1>9 DEF ts, IsTask

HasAll(ts, dirs) == \A d \in dirs : \E n \in DOMAIN ts : ts[n].prefix = d

LEMMA DirectoriesMeans ==
  ASSUME NEW t \in Tasks, NEW l, IsPage(l)
  PROVE  /\ InsideOut(L!Directories(t, l))
         /\ \A n \in DOMAIN L!Directories(t, l) :
              /\ L!Directories(t, l)[n].prefix \in l.dirs
              /\ L!Directories(t, l)[n].marker = 0
              /\ L!Directories(t, l)[n].depth = t.depth + 1
         /\ \A m, n \in DOMAIN L!Directories(t, l) :
              L!Directories(t, l)[m].prefix = L!Directories(t, l)[n].prefix => m = n
         /\ Deep => HasAll(L!Directories(t, l), l.dirs)
<1>0. PICK depth \in Nat : depth = t.depth + 1
  BY TasksMeans
<1> DEFINE dirs == LL!SetToSeq(l.dirs)
           ts == L!Directories(t, l)
           Dir(d) == L!Task(d, TRUE, 0, t.size, depth)
<1>1. t.size \in Nat \ {0} /\ depth <= depth
  BY TasksMeans
<1>2. ASSUME NEW d \in l.dirs
      PROVE  IsTask(Dir(d), d, TRUE, 0, depth)
  <2>1. LL!Keys \subseteq Seq(Tokens)
    <3>1. LL!Tokens = Tokens
      BY DEF Tokens, LL!Tokens
    <3> QED
      BY <3>1, ListsAssumed, LL!KeysAreTokens
  <2>2. d \in Seq(Tokens)
    BY <2>1 DEF IsPage
  <2>3. TRUE \in Flags /\ 0 \in L!Ids \cup {0}
    BY Zenon DEF Flags
  <2>4. \A b \in Flags : IsTask(L!Task(d, b, 0, t.size, depth), d, b, 0, depth)
    BY <1>1, <2>2, TaskMeans
  <2> QED
    BY <2>3, <2>4, Zenon
<1>3. /\ dirs \in Seq(l.dirs)
      /\ \A a, b \in DOMAIN dirs : dirs[a] = dirs[b] => a = b
      /\ \A x \in l.dirs : \E a \in DOMAIN dirs : dirs[a] = x
  BY ListsAssumed, LL!SetToSeqMeans DEF IsPage
<1>4. ts = IF Deep THEN [n \in DOMAIN dirs |-> Dir(dirs[n])] ELSE <<>>
  BY <1>0, ListsOperators, Zenon DEF L!Directories, Deep
<1> HIDE DEF dirs, ts, Dir
<1>5. /\ Len(dirs) \in Nat /\ DOMAIN dirs = 1 .. Len(dirs)
      /\ \A n \in DOMAIN dirs : dirs[n] \in l.dirs
  BY <1>3, PlacesOf
<1>6. CASE Deep
  <2>1. ts = [n \in DOMAIN dirs |-> Dir(dirs[n])]
    BY <1>4, <1>6
  <2>2. ts \in Seq(Tasks) /\ DOMAIN ts = DOMAIN dirs
    <3>1. ts = [n \in 1 .. Len(dirs) |-> Dir(dirs[n])]
      BY <1>5, <2>1
    <3>2. \A n \in 1 .. Len(dirs) : Dir(dirs[n]) \in Tasks
      BY <1>2, <1>5, Zenon DEF IsTask
    <3> QED
      BY <1>5, <3>1, <3>2
  <2>3. \A n \in DOMAIN ts : /\ dirs[n] \in l.dirs /\ ts[n].prefix = dirs[n]
                             /\ ts[n].marker = 0 /\ ts[n].depth = depth
    <3>1. \A d \in l.dirs : Dir(d).prefix = d /\ Dir(d).marker = 0 /\ Dir(d).depth = depth
      BY <1>2, Zenon DEF IsTask
    <3> QED
      BY <1>5, <2>1, <2>2, <3>1
  <2>4. InsideOut(ts)
    BY <1>1, <2>2, <2>3 DEF InsideOut
  <2>5. \A m, n \in DOMAIN ts : ts[m].prefix = ts[n].prefix => m = n
    BY <1>3, <2>2, <2>3
  <2>6. HasAll(ts, l.dirs)
    BY <1>3, <2>2, <2>3 DEF HasAll
  <2> QED
    BY <1>0, <2>3, <2>4, <2>5, <2>6 DEF ts
<1>7. CASE ~Deep
  <2>1. ts = <<>>
    BY <1>4, <1>7
  <2>2. ts \in Seq(Tasks) /\ DOMAIN ts = {}
    BY <2>1
  <2>3. InsideOut(ts)
    BY <2>2 DEF InsideOut
  <2> QED
    BY <1>7, <2>2, <2>3 DEF ts
<1> QED
  BY <1>6, <1>7

(* The lines of a page are new, and it leads to parts of what it came from *)
(* that are apart from one another and from all that is still to be asked  *)
(* for.                                                                    *)
LinesOf(l, new) ==
  \A line \in new : line.id \in l.keys \/ (line.id = 0 /\ line.key \in l.dirs)

LEMMA TailMeans ==
  ASSUME NEW ts, InsideOut(ts), ts # <<>>
  PROVE  /\ ts[1] \in Tasks /\ 1 \in DOMAIN ts
         /\ Tail(ts) \in Seq(Tasks) /\ InsideOut(Tail(ts))
         /\ \A lines : Apart(ts, lines) => Apart(Tail(ts), lines)
         /\ \A n \in DOMAIN Tail(ts) : n + 1 \in DOMAIN ts /\ n + 1 # 1 /\ Tail(ts)[n] = ts[n + 1]
         /\ \A n \in DOMAIN ts : n = 1 \/ \E m \in DOMAIN Tail(ts) : ts[n] = Tail(ts)[m]
<1>1. ts \in Seq(Tasks) /\ Len(ts) \in Nat /\ Len(ts) # 0 /\ DOMAIN ts = 1 .. Len(ts)
  BY EmptySeq, PlacesOf DEF InsideOut
<1>2. /\ Tail(ts) \in Seq(Tasks) /\ Len(Tail(ts)) = Len(ts) - 1
      /\ \A n \in 1 .. Len(ts) - 1 : Tail(ts)[n] = ts[n + 1]
  BY <1>1, HeadTailProperties
<1>3. DOMAIN Tail(ts) = 1 .. Len(ts) - 1
  BY <1>2, PlacesOf
<1> DEFINE ss == Tail(ts)
<1> HIDE DEF ss
<1>4. /\ ss \in Seq(Tasks) /\ Len(ss) = Len(ts) - 2 + 1
      /\ \A n \in 1 .. Len(ss) : ss[n] = ts[n + 2 - 1]
      /\ 2 \in 1 .. Len(ts) + 1
  BY <1>1, <1>2 DEF ss
<1>5. InsideOut(ss) /\ \A lines : Apart(ts, lines) => Apart(ss, lines)
  BY <1>4, SuffixKeeps
<1>6. ts[1] \in Tasks /\ 1 \in DOMAIN ts
  BY <1>1
<1>7. \A n \in DOMAIN ss : n + 1 \in DOMAIN ts /\ n + 1 # 1 /\ ss[n] = ts[n + 1]
  BY <1>1, <1>2, <1>3 DEF ss
<1>8. ASSUME NEW n \in DOMAIN ts, n # 1
      PROVE  \E m \in DOMAIN ss : ts[n] = ss[m]
  <2>1. n - 1 \in DOMAIN ss /\ ss[n - 1] = ts[n - 1 + 1] /\ n - 1 + 1 = n
    BY <1>1, <1>2, <1>3, <1>8 DEF ss
  <2> QED
    BY <2>1
<1> QED
  BY <1>4, <1>5, <1>6, <1>7, <1>8 DEF ss

LEMMA PageApart ==
  ASSUME NEW ts, InsideOut(ts), ts # <<>>, NEW t, t = ts[1],
         NEW lines, Apart(ts, lines),
         NEW S, NEW l, IsPage(l), LL!Divides(l, S, t.prefix, t.marker),
         t.delimiter /\ l.truncated => LL!Clear(t.prefix, l.next),
         NEW new, LinesOf(l, new)
  PROVE  /\ new \cap lines = {}
         /\ Apart(L!Nested(t, l) \o Tail(ts), lines \cup new)
<1> DEFINE next == L!NextPages(t, l)
           below == L!Directories(t, l)
           rest == Tail(ts)
           all == lines \cup new
<1>1. /\ t \in Tasks /\ 1 \in DOMAIN ts /\ rest \in Seq(Tasks) /\ Apart(rest, lines)
      /\ \A n \in DOMAIN rest : \E m \in DOMAIN ts : m # 1 /\ rest[n] = ts[m]
  BY TailMeans
<1>2. /\ InsideOut(next)
      /\ \A n \in DOMAIN next : /\ n = 1 /\ l.truncated
                                /\ next[n].prefix = t.prefix
                                /\ next[n].delimiter = t.delimiter
                                /\ next[n].marker = l.next
  BY <1>1, NextPagesMeans
<1>3. /\ InsideOut(below)
      /\ \A n \in DOMAIN below : below[n].prefix \in l.dirs /\ below[n].marker = 0
      /\ \A m, n \in DOMAIN below : below[m].prefix = below[n].prefix => m = n
  BY <1>1, DirectoriesMeans
<1> HIDE DEF next, below, rest
<1> DEFINE R == RegionOf(t)
           N == LL!Region(t.prefix, l.next)
           D(d) == LL!Region(d, 0)
<1>4. \A k, m, i : i \in LL!Region(k, m) <=> i \in LL!Ids /\ i > m /\ LL!HasPrefix(ListNames[i], k)
  BY DEF LL!Region, LL!Behind
<1>5. \A i \in LL!Ids : i \in Nat /\ i # 0
  BY ListsAssumed, LL!IdsAreNumbers
<1>6. l.next \in Int /\ t.marker \in Int /\ Len(t.prefix) \in Nat
  <2>1. l.next \in LL!Ids \cup {0}
    BY DEF IsPage, LL!IsListing
  <2> QED
    BY <1>1, <1>5, <2>1, TasksMeans, LenProperties
<1>7. l.keys \subseteq R
  BY DEF LL!Divides, RegionOf
<1>8. \A d \in l.dirs : /\ D(d) \subseteq R /\ D(d) # {} /\ Len(d) \in Nat /\ Len(d) > Len(t.prefix)
                        /\ \A i \in D(d) : i \notin l.keys
                        /\ \A i \in D(d), e \in l.dirs : LL!HasPrefix(ListNames[i], e) => e = d
                        /\ \A i \in LL!Ids : LL!HasPrefix(ListNames[i], d) => i \in D(d)
  <2>1. \A d \in l.dirs : Len(d) \in Nat
    BY LenProperties DEF IsPage, LL!Keys
  <2> QED
    BY <2>1 DEF LL!Divides, RegionOf
<1>9. l.truncated => /\ N \subseteq R
                     /\ \A i \in N : i \notin l.keys /\ \A d \in l.dirs : i \notin D(d)
  <2> SUFFICES ASSUME l.truncated, NEW i \in N
               PROVE  i \in R /\ i \notin l.keys /\ \A d \in l.dirs : i \notin D(d)
    OBVIOUS
  <2>1. l.next > t.marker
    BY DEF LL!Divides
  <2>2. i \in LL!Ids /\ i > l.next /\ LL!HasPrefix(ListNames[i], t.prefix) /\ i \in Nat
    BY <1>4, <1>5
  <2>3. i > t.marker
    BY <1>6, <2>1, <2>2
  <2>4. i \in R
    BY <1>4, <2>2, <2>3 DEF RegionOf
  <2>5. ~(i <= l.next)
    BY <1>6, <2>2
  <2> QED
    BY <2>4, <2>5 DEF LL!Divides
<1>10. \A n \in DOMAIN rest : \A i : ~(i \in R /\ i \in RegionOf(rest[n]))
  BY <1>1 DEF Apart, Separate
<1>11. \A i \in R : \A line \in lines : IsNew(t, i, line)
  BY <1>1 DEF Apart
<1>12. R \subseteq LL!Ids
  BY <1>4 DEF RegionOf
<1>13. \A n \in DOMAIN rest : RegionOf(rest[n]) \subseteq LL!Ids
  BY <1>4 DEF RegionOf
<1>14. \A n \in DOMAIN next : RegionOf(next[n]) = N /\ l.truncated
  BY <1>2 DEF RegionOf
<1>15. \A n \in DOMAIN below : RegionOf(below[n]) = D(below[n].prefix) /\ below[n].prefix \in l.dirs
  BY <1>3 DEF RegionOf
<1>16. \A d \in l.dirs : \A i \in D(d) : LL!HasPrefix(ListNames[i], d)
  BY <1>4
<1> HIDE DEF R, N, D
<1>17. new \cap lines = {}
  <2> SUFFICES ASSUME NEW line \in new, line \in lines PROVE FALSE
    OBVIOUS
  <2>1. CASE line.id \in l.keys
    BY <1>7, <1>11, <2>1 DEF IsNew
  <2>2. CASE line.id = 0 /\ line.key \in l.dirs
    <3>1. PICK d \in l.dirs : d = line.key
      BY <2>2
    <3>2. PICK i \in D(d) : TRUE
      BY <1>8
    <3>3. i \in R /\ LL!HasPrefix(ListNames[i], d)
      BY <1>8, <1>16, <3>2
    <3>4. IsNew(t, i, line)
      BY <1>11, <3>3
    <3>5. Len(d) <= Len(t.prefix)
      BY <2>2, <3>1, <3>3, <3>4 DEF IsNew
    <3> QED
      BY <1>6, <1>8, <3>5
  <2> QED
    BY <2>1, <2>2 DEF LinesOf
<1>18. Apart(next, all)
  <2>1. \A n \in DOMAIN next : next[n].delimiter => LL!Clear(next[n].prefix, next[n].marker)
    BY <1>2
  <2>2. ASSUME NEW n \in DOMAIN next, NEW i \in RegionOf(next[n]), NEW line \in all
        PROVE  IsNew(next[n], i, line)
    <3>1. i \in N /\ i \in R /\ i \in LL!Ids
      BY <1>9, <1>12, <1>14
    <3>2. CASE line \in lines
      <4>1. IsNew(t, i, line)
        BY <1>11, <3>1, <3>2
      <4> QED
        BY <1>2, <4>1 DEF IsNew
    <3>3. CASE line \in new /\ line.id \in l.keys
      <4>1. line.id # i
        BY <1>9, <1>14, <3>1, <3>3
      <4>2. line.id # 0
        BY <1>5, <1>7, <1>12, <3>3
      <4> QED
        BY <4>1, <4>2 DEF IsNew
    <3>4. CASE line \in new /\ line.id = 0 /\ line.key \in l.dirs
      <4>1. line.id # i
        BY <1>5, <3>1, <3>4
      <4>2. ~LL!HasPrefix(ListNames[i], line.key)
        BY <1>8, <1>9, <1>14, <3>1, <3>4
      <4> QED
        BY <4>1, <4>2 DEF IsNew
    <3> QED
      BY <3>2, <3>3, <3>4 DEF LinesOf
  <2>3. \A m, n \in DOMAIN next : m = n
    BY <1>2
  <2> QED
    BY <2>1, <2>2, <2>3 DEF Apart
<1>19. Apart(below, all)
  <2>1. \A n \in DOMAIN below : LL!Clear(below[n].prefix, below[n].marker)
    BY <1>3, ListsAssumed, LL!ClearAtStart
  <2>2. ASSUME NEW n \in DOMAIN below, NEW i \in RegionOf(below[n]), NEW line \in all
        PROVE  IsNew(below[n], i, line)
    <3>0. PICK d \in l.dirs : d = below[n].prefix
      BY <1>3
    <3>1. i \in D(d) /\ i \in R /\ i \in LL!Ids
      BY <1>8, <1>12, <1>15, <3>0
    <3>2. CASE line \in lines
      <4>1. IsNew(t, i, line)
        BY <1>11, <3>1, <3>2
      <4>2. Len(line.key) <= Len(t.prefix) => Len(line.key) <= Len(d)
        <5>1. ASSUME Len(line.key) <= Len(t.prefix) PROVE Len(line.key) <= Len(d)
          BY <1>6, <1>8, <5>1
        <5> QED
          BY <5>1
      <4> QED
        BY <3>0, <4>1, <4>2 DEF IsNew
    <3>3. CASE line \in new /\ line.id \in l.keys
      <4>1. line.id # i
        BY <1>8, <3>1, <3>3
      <4>2. line.id # 0
        BY <1>5, <1>7, <1>12, <3>3
      <4> QED
        BY <4>1, <4>2 DEF IsNew
    <3>4. CASE line \in new /\ line.id = 0 /\ line.key \in l.dirs
      <4>1. line.id # i
        BY <1>5, <3>1, <3>4
      <4>2. LL!HasPrefix(ListNames[i], line.key) => line.key = d
        BY <1>8, <3>1, <3>4
      <4>3. Len(d) <= Len(d)
        BY <1>8
      <4> QED
        BY <3>0, <4>1, <4>2, <4>3 DEF IsNew
    <3> QED
      BY <3>2, <3>3, <3>4 DEF LinesOf
  <2>3. ASSUME NEW m \in DOMAIN below, NEW n \in DOMAIN below, m # n
        PROVE  Separate(below[m], below[n])
    <3> SUFFICES ASSUME NEW i, i \in RegionOf(below[m]), i \in RegionOf(below[n])
                 PROVE  FALSE
      BY DEF Separate
    <3>1. PICK d \in l.dirs, e \in l.dirs : d = below[m].prefix /\ e = below[n].prefix
      BY <1>3
    <3>2. i \in D(d) /\ i \in D(e)
      BY <1>15, <3>1
    <3>3. e = d
      BY <1>8, <1>16, <3>2
    <3> QED
      BY <1>3, <2>3, <3>1, <3>3
  <2> QED
    BY <2>1, <2>2, <2>3 DEF Apart
<1>20. Apart(rest, all)
  <2>1. ASSUME NEW n \in DOMAIN rest, NEW i \in RegionOf(rest[n]), NEW line \in all
        PROVE  IsNew(rest[n], i, line)
    <3>1. i \notin R /\ i \in LL!Ids
      BY <1>10, <1>13
    <3>2. CASE line \in lines
      BY <1>1, <3>2 DEF Apart
    <3>3. CASE line \in new /\ line.id \in l.keys
      <4>1. line.id # i
        BY <1>7, <3>1, <3>3
      <4>2. line.id # 0
        BY <1>5, <1>7, <1>12, <3>3
      <4> QED
        BY <4>1, <4>2 DEF IsNew
    <3>4. CASE line \in new /\ line.id = 0 /\ line.key \in l.dirs
      <4>1. line.id # i
        BY <1>5, <3>1, <3>4
      <4>2. ~LL!HasPrefix(ListNames[i], line.key)
        BY <1>8, <3>1, <3>4
      <4> QED
        BY <4>1, <4>2 DEF IsNew
    <3> QED
      BY <3>2, <3>3, <3>4 DEF LinesOf
  <2> QED
    BY <1>1, <2>1 DEF Apart
<1>21. next \in Seq(Tasks) /\ below \in Seq(Tasks)
  BY <1>2, <1>3 DEF InsideOut
<1>22. \A m \in DOMAIN next, n \in DOMAIN below : Separate(next[m], below[n])
  BY <1>9, <1>14, <1>15 DEF Separate
<1>23. Apart(next \o below, all) /\ next \o below \in Seq(Tasks)
  BY <1>18, <1>19, <1>21, <1>22, ConcatApart, ConcatPlaces
<1>24. \A m \in DOMAIN (next \o below) :
         \/ \E k \in DOMAIN next : (next \o below)[m] = next[k]
         \/ \E k \in DOMAIN below : (next \o below)[m] = below[k]
  BY <1>21, ConcatPlaces
<1>25. ASSUME NEW m \in DOMAIN (next \o below), NEW n \in DOMAIN rest
       PROVE  Separate((next \o below)[m], rest[n])
  <2>1. ASSUME NEW k \in DOMAIN next PROVE Separate(next[k], rest[n])
    BY <1>9, <1>10, <1>14 DEF Separate
  <2>2. ASSUME NEW k \in DOMAIN below PROVE Separate(below[k], rest[n])
    BY <1>8, <1>10, <1>15 DEF Separate
  <2> QED
    BY <1>24, <2>1, <2>2
<1>26. Apart((next \o below) \o rest, all)
  BY <1>1, <1>20, <1>23, <1>25, ConcatApart
<1> QED
  BY <1>17, <1>26 DEF L!Nested, next, below, rest

LEMMA NestedInsideOut ==
  ASSUME NEW ts, InsideOut(ts), ts # <<>>, NEW t, t = ts[1], NEW l, IsPage(l)
  PROVE  InsideOut(L!Nested(t, l) \o Tail(ts))
<1> DEFINE next == L!NextPages(t, l)
           below == L!Directories(t, l)
           rest == Tail(ts)
<1>1. /\ t \in Tasks /\ 1 \in DOMAIN ts /\ InsideOut(rest)
      /\ \A n \in DOMAIN rest : n + 1 \in DOMAIN ts /\ rest[n] = ts[n + 1]
      /\ Len(ts) \in Nat /\ DOMAIN ts = 1 .. Len(ts)
  BY TailMeans, PlacesOf DEF InsideOut
<1>2. InsideOut(next) /\ \A n \in DOMAIN next : next[n].depth = t.depth + 1
  BY <1>1, NextPagesMeans
<1>3. InsideOut(below) /\ \A n \in DOMAIN below : below[n].depth = t.depth + 1
  BY <1>1, DirectoriesMeans
<1>4. t.depth \in Nat
  BY <1>1, TasksMeans
<1>5. next \in Seq(Tasks) /\ below \in Seq(Tasks)
  BY <1>2, <1>3 DEF InsideOut
<1> HIDE DEF next, below, rest
<1>6. InsideOut(next \o below)
  <2>1. \A m \in DOMAIN next, n \in DOMAIN below : below[n].depth <= next[m].depth
    BY <1>2, <1>3, <1>4
  <2> QED
    BY <1>2, <1>3, <2>1, ConcatInsideOut
<1>7. \A m \in DOMAIN (next \o below) : (next \o below)[m].depth = t.depth + 1
  <2>1. \A m \in DOMAIN (next \o below) :
         \/ \E k \in DOMAIN next : (next \o below)[m] = next[k]
         \/ \E k \in DOMAIN below : (next \o below)[m] = below[k]
    BY <1>5, ConcatPlaces
  <2> QED
    BY <1>2, <1>3, <2>1
<1>8. \A n \in DOMAIN rest : rest[n].depth <= t.depth /\ rest[n].depth \in Nat
  <2>1. \A n \in DOMAIN ts : ts[n] \in Tasks
    BY PlacesOf DEF InsideOut
  <2>2. \A n \in DOMAIN ts : 1 <= n
    BY <1>1
  <2>3. \A n \in DOMAIN ts : ts[n].depth <= t.depth /\ ts[n].depth \in Nat
    BY <1>1, <2>1, <2>2, TasksMeans DEF InsideOut
  <2> QED
    BY <1>1, <2>3
<1>9. \A m \in DOMAIN (next \o below), n \in DOMAIN rest :
        rest[n].depth <= (next \o below)[m].depth
  BY <1>4, <1>7, <1>8
<1>10. InsideOut((next \o below) \o rest)
  BY <1>1, <1>6, <1>9, ConcatInsideOut
<1> QED
  BY <1>10 DEF L!Nested, next, below, rest

(* What is sought of a listing is on the page or sought of what it leads   *)
(* to.                                                                     *)
SoughtIn(ts, i) == \E n \in DOMAIN ts : i \in RegionOf(ts[n])

LEMMA PageFinds ==
  ASSUME NEW ts, InsideOut(ts), ts # <<>>, NEW t, t = ts[1],
         NEW S, NEW l, IsPage(l), LL!Divides(l, S, t.prefix, t.marker),
         NEW i \in S, SoughtIn(ts, i)
  PROVE  \/ i \in l.keys
         \/ ~Deep /\ \E d \in l.dirs : LL!HasPrefix(ListNames[i], d)
         \/ SoughtIn(L!Nested(t, l) \o Tail(ts), i)
<1> DEFINE next == L!NextPages(t, l)
           below == L!Directories(t, l)
           rest == Tail(ts)
<1>1. /\ t \in Tasks /\ rest \in Seq(Tasks)
      /\ \A n \in DOMAIN ts : n = 1 \/ \E m \in DOMAIN rest : ts[n] = rest[m]
  BY TailMeans
<1>2. /\ InsideOut(next)
      /\ \A n \in DOMAIN next : next[n].prefix = t.prefix /\ next[n].marker = l.next
      /\ l.truncated => 1 \in DOMAIN next
  BY <1>1, NextPagesMeans
<1>3. /\ InsideOut(below)
      /\ \A n \in DOMAIN below : below[n].marker = 0
      /\ Deep => HasAll(below, l.dirs)
  BY <1>1, DirectoriesMeans
<1>4. next \in Seq(Tasks) /\ below \in Seq(Tasks)
  BY <1>2, <1>3 DEF InsideOut
<1> HIDE DEF next, below, rest
<1>5. next \o below \in Seq(Tasks)
  BY <1>4, ConcatPlaces
<1>6. /\ SoughtIn(next, i) => SoughtIn(next \o below, i)
      /\ SoughtIn(below, i) => SoughtIn(next \o below, i)
  <2>1. /\ \A n \in DOMAIN next : /\ n \in DOMAIN (next \o below)
                                  /\ (next \o below)[n] = next[n]
        /\ \A n \in DOMAIN below : /\ n + Len(next) \in DOMAIN (next \o below)
                                   /\ (next \o below)[n + Len(next)] = below[n]
    BY <1>4, ConcatPlaces
  <2> QED
    BY <2>1 DEF SoughtIn
<1> DEFINE nested == next \o below
<1> HIDE DEF nested
<1>7. /\ SoughtIn(nested, i) => SoughtIn(nested \o rest, i)
      /\ SoughtIn(rest, i) => SoughtIn(nested \o rest, i)
  <2>1. /\ \A n \in DOMAIN nested : /\ n \in DOMAIN (nested \o rest)
                                    /\ (nested \o rest)[n] = nested[n]
        /\ \A n \in DOMAIN rest : /\ n + Len(nested) \in DOMAIN (nested \o rest)
                                  /\ (nested \o rest)[n + Len(nested)] = rest[n]
    BY <1>1, <1>5, ConcatPlaces DEF nested
  <2> QED
    BY <2>1 DEF SoughtIn
<1>8. SoughtIn(rest, i) \/ i \in RegionOf(t)
  BY <1>1 DEF SoughtIn
<1>9. CASE i \in RegionOf(t)
  <2>1. i \in LL!Behind(S, t.prefix, t.marker)
    BY <1>9 DEF RegionOf, LL!Region, LL!Behind
  <2>2. \/ i \in l.keys
        \/ \E d \in l.dirs : i \in LL!Region(d, 0)
        \/ l.truncated /\ i \in LL!Region(t.prefix, l.next)
    BY <2>1 DEF LL!Divides
  <2>3. CASE \E d \in l.dirs : i \in LL!Region(d, 0)
    <3>1. PICK d \in l.dirs : i \in LL!Region(d, 0)
      BY <2>3
    <3>2. CASE ~Deep
      <4>1. LL!HasPrefix(ListNames[i], d)
        BY <3>1 DEF LL!Region, LL!Behind
      <4> QED
        BY <3>2, <4>1
    <3>3. CASE Deep
      <4>1. SoughtIn(below, i)
        BY <1>3, <3>1, <3>3 DEF SoughtIn, RegionOf, HasAll
      <4> QED
        BY <1>6, <1>7, <4>1 DEF nested, L!Nested, next, below, rest
    <3> QED
      BY <3>2, <3>3
  <2>4. CASE l.truncated /\ i \in LL!Region(t.prefix, l.next)
    <3>1. SoughtIn(next, i)
      BY <1>2, <2>4 DEF SoughtIn, RegionOf
    <3> QED
      BY <1>6, <1>7, <3>1 DEF nested, L!Nested, next, below, rest
  <2> QED
    BY <2>2, <2>3, <2>4
<1>10. CASE SoughtIn(rest, i)
  BY <1>7, <1>10 DEF nested, L!Nested, next, below, rest
<1> QED
  BY <1>8, <1>9, <1>10

-----------------------------------------------------------------------------
(***************************************************************************)
(* ls and uploads ls.  A line is printed once where Counting holds, and    *)
(* nothing is left out where Faithful does: until the listing of the       *)
(* argument has returned, what has no line yet is still sought.            *)
(***************************************************************************)
Once == ~twice
Counting == troubles = 0 /\ ~(kind = "table" /\ LL!StartsWith(lastKey, "/"))
Faithful == kind # "exist" /\ Visible /\ troubles = 0 /\ lastKey = arg

ListTypes ==
  /\ objects \subseteq LL!Ids /\ old \subseteq LL!Ids
  /\ arg \in Seq(STRING) /\ key \in Seq(STRING) /\ lastKey \in Seq(STRING)
  /\ listing = L!NoListing
  /\ kind \in {"text", "table", "uploads", "exist"}
  /\ pc \in {"exec", "exists", "list", "next", "done"}
  /\ status \in {"running", "ok", "error", "panic"}
  /\ pc = "done" <=> status # "running"
  /\ troubles \in Nat /\ changes \in Nat /\ troubles + changes <= MaxEvents
  /\ InsideOut(todo) /\ (pc = "list" => todo # <<>>)
  /\ pc = "exists" => /\ kind # "uploads"
                      /\ L!IsLs => key # <<>> /\ ~LL!EndsWith(key, "/")
  /\ \A line \in printed : line.id \in LL!Ids \cup {0}

OnceInv ==
  /\ kind = "table" /\ pc = "next" => ~LL!StartsWith(key, "/")
  /\ pc = "list" /\ troubles = 0 => Apart(todo, {})
  /\ Counting =>
       /\ kind = "table" => ~LL!StartsWith(key, "/")
       /\ Once
       /\ pc \in {"exec", "exists"} => printed = {}
       /\ pc = "list" => Apart(todo, printed)

Told(i) ==
  \/ L!ObjectLine(i) \in printed
  \/ ~Deep /\ \E line \in printed : line.id = 0 /\ LL!HasPrefix(ListNames[i], line.key)
  \/ ~Deep /\ \E n \in DOMAIN ListNames[i] :
                ListNames[i][n] = "/" /\ ~L!HasLine(SubSeq(ListNames[i], 1, n))

(* The first attempt asks for what the argument names; before there is a   *)
(* second one, whose key is not the argument, all of it has been told.     *)
Missed == {i \in objects \cap old : L!Asked(i) /\ ~Told(i)}

AllInv ==
  Faithful =>
    /\ pc = "list" /\ key = arg => \A i \in Missed : SoughtIn(todo, i)
    /\ pc = "next" \/ (pc # "done" /\ key # arg) => Missed = {}

ListInv == Lists => ListTypes /\ OnceInv /\ AllInv

LEMMA StartIsKey ==
  ASSUME key \in Seq(STRING)
  PROVE  key \in Seq(Tokens) /\ L!Start \in Seq(Tokens)
<1>1. STRING \subseteq Tokens /\ "/" \in Tokens
  BY DEF Tokens
<1>2. key \in Seq(Tokens)
  BY <1>1, SeqMonotonic
<1>3. CASE L!IsWildcard(key)
  <2>1. key # <<>>
    BY <1>3 DEF L!IsWildcard, L!EndsWith
  <2>2. Len(key) \in Nat /\ Len(key) # 0
    BY <1>2, <2>1, EmptySeq, LenProperties
  <2>3. \A n \in 1 .. Len(key) - 1 : key[n] \in Tokens
    BY <1>2, <2>2, ElementOfSeq
  <2>4. SubSeq(key, 1, Len(key) - 1) \in Seq(Tokens)
    BY <2>2, <2>3, SubSeqProperties
  <2> QED
    BY <1>2, <1>3, <2>4 DEF L!Start
<1>4. CASE ~L!IsWildcard(key)
  <2>1. Append(key, "/") \in Seq(Tokens)
    BY <1>1, <1>2, AppendProperties
  <2> QED
    BY <1>2, <1>4, <2>1 DEF L!Start
<1> QED
  BY <1>3, <1>4

LEMMA NamesOfList == \A i \in LL!Ids : ListNames[i] \in LL!Keys
BY ListsAssumed, LL!NamesAreKeys

(* What the argument names begins with what is asked for.                  *)
LEMMA AskedOfUploads ==
  ASSUME NEW i, kind = "uploads", key = arg, L!Asked(i)
  PROVE  LL!HasPrefix(ListNames[i], key)
BY ListsOperators DEF L!Asked

LEMMA AskedOfObject ==
  ASSUME NEW i \in LL!Ids, NEW j \in LL!Ids, L!IsLs, key \in Seq(STRING), key = arg,
         L!Asked(i), ListNames[j] = key
  PROVE  LL!HasPrefix(ListNames[i], key)
<1>1. key \in LL!Keys /\ kind # "uploads"
  BY DEF LL!Keys, L!IsLs
<1>2. LL!HasPrefix(key, key)
  BY <1>1, ListsAssumed, LL!PrefixOfItself
<1>3. j \in L!Ids
  BY ListsOperators
<1>4. ListNames[i] = arg \/ L!Below(ListNames[i], arg)
  BY <1>1, <1>3 DEF L!Asked
<1>5. L!Below(ListNames[i], arg) => L!HasPrefix(ListNames[i], arg)
  BY DEF L!Below
<1> QED
  BY <1>2, <1>4, <1>5, ListsOperators

LEMMA AskedOfDirectory ==
  ASSUME NEW i \in LL!Ids, L!IsLs, key \in Seq(STRING), key = arg, L!Asked(i),
         key = <<>> \/ LL!EndsWith(key, "/") \/ ListNames[i] # key
  PROVE  LL!HasPrefix(ListNames[i], L!Start)
<1>1. key \in LL!Keys /\ kind # "uploads" /\ ListNames[i] \in LL!Keys
  BY NamesOfList DEF LL!Keys, L!IsLs
<1>2. L!Below(ListNames[i], arg) =>
        /\ LL!HasPrefix(ListNames[i], key)
        /\ \/ key = <<>> \/ LL!EndsWith(key, "/")
           \/ LL!StartsWith(SubSeq(ListNames[i], Len(key) + 1, Len(ListNames[i])), "/")
  BY ListsOperators DEF L!Below
<1>3. CASE key = <<>> \/ LL!EndsWith(key, "/")
  <2>1. ~L!IsWildcard(key)
    BY <1>3, ListsOperators DEF L!IsWildcard, LL!EndsWith
  <2>2. L!Start = key
    BY <1>3, <2>1, ListsOperators DEF L!Start
  <2>3. ListNames[i] = key \/ L!Below(ListNames[i], arg)
    BY <1>1, <2>1 DEF L!Asked
  <2>4. LL!HasPrefix(key, key)
    BY <1>1, ListsAssumed, LL!PrefixOfItself
  <2> QED
    BY <1>2, <2>2, <2>3, <2>4
<1>4. CASE ~(key = <<>> \/ LL!EndsWith(key, "/")) /\ L!IsWildcard(key)
  <2>1. L!Start = SubSeq(key, 1, Len(key) - 1)
    BY <1>4 DEF L!Start
  <2>2. L!HasPrefix(ListNames[i], SubSeq(arg, 1, Len(arg) - 1))
    BY <1>1, <1>4 DEF L!Asked
  <2> QED
    BY <2>1, <2>2, ListsOperators
<1>5. CASE ~(key = <<>> \/ LL!EndsWith(key, "/")) /\ ~L!IsWildcard(key)
  <2>1. L!Start = Append(key, "/")
    BY <1>5, ListsOperators DEF L!Start
  <2>2. L!Below(ListNames[i], arg)
    BY <1>1, <1>5 DEF L!Asked
  <2>3. /\ LL!HasPrefix(ListNames[i], key)
        /\ LL!StartsWith(SubSeq(ListNames[i], Len(key) + 1, Len(ListNames[i])), "/")
    BY <1>2, <1>5, <2>2
  <2>4. LL!HasPrefix(ListNames[i], Append(key, "/"))
    BY <1>1, <2>3, ListsAssumed, LL!DirectoryMeans
  <2> QED
    BY <2>1, <2>4
<1> QED
  BY <1>3, <1>4, <1>5

(* The first listing of an argument.                                       *)
LEMMA OneTask ==
  ASSUME NEW p \in Seq(Tokens), NEW delimiter \in Flags, NEW size \in Nat \ {0},
         NEW ts, ts = <<L!Task(p, delimiter, 0, size, 0)>>
  PROVE  /\ InsideOut(ts) /\ ts # <<>> /\ Apart(ts, {})
         /\ \A i \in LL!Ids : LL!HasPrefix(ListNames[i], p) => SoughtIn(ts, i)
<1> DEFINE t == L!Task(p, delimiter, 0, size, 0)
<1>1. IsTask(t, p, delimiter, 0, 0)
  BY TaskMeans
<1>2. t \in Tasks /\ t.prefix = p /\ t.marker = 0 /\ t.depth = 0
  BY <1>1 DEF IsTask
<1> HIDE DEF t
<1>3. ts = <<t>>
  BY DEF t
<1>4. ts \in Seq(Tasks) /\ DOMAIN ts = {1} /\ ts[1] = t /\ ts # <<>>
  BY <1>2, <1>3
<1>5. InsideOut(ts)
  BY <1>2, <1>4 DEF InsideOut
<1>6. Apart(ts, {})
  <2>1. LL!Clear(p, 0)
    BY ListsAssumed, LL!ClearAtStart
  <2> QED
    BY <1>2, <1>4, <2>1 DEF Apart
<1>7. ASSUME NEW i \in LL!Ids, LL!HasPrefix(ListNames[i], p)
      PROVE  SoughtIn(ts, i)
  <2>1. i > 0
    BY ListsAssumed, LL!IdsAreNumbers
  <2>2. i \in LL!Region(p, 0)
    BY <1>7, <2>1 DEF LL!Region, LL!Behind
  <2> QED
    BY <1>2, <1>4, <2>2 DEF SoughtIn, RegionOf
<1> QED
  BY <1>4, <1>5, <1>6, <1>7

-----------------------------------------------------------------------------
(* The ways in which a step of ls ends.                                    *)
LEMMA ToldStays ==
  ASSUME UNCHANGED <<kind, recursive>>, printed \subseteq printed', NEW i, Told(i)
  PROVE  Told(i)'
<1>1. Deep' <=> Deep
  BY Zenon DEF Deep
<1>2. L!ObjectLine(i)' = L!ObjectLine(i)
  BY DEF L!ObjectLine
<1>3. \A d : L!HasLine(d)' <=> L!HasLine(d)
  BY Zenon DEF L!HasLine, L!IsDot
<1>4. CASE L!ObjectLine(i) \in printed
  BY <1>2, <1>4 DEF Told
<1>5. CASE ~Deep /\ \E line \in printed : line.id = 0 /\ LL!HasPrefix(ListNames[i], line.key)
  BY <1>1, <1>5, Zenon DEF Told
<1>6. CASE ~Deep /\ \E n \in DOMAIN ListNames[i] :
             ListNames[i][n] = "/" /\ ~L!HasLine(SubSeq(ListNames[i], 1, n))
  BY <1>1, <1>3, <1>6, Zenon DEF Told
<1> QED
  BY <1>4, <1>5, <1>6 DEF Told

LEMMA AskedStays ==
  ASSUME UNCHANGED <<kind, arg>>
  PROVE  \A i : L!Asked(i)' <=> L!Asked(i)
BY Zenon DEF L!Asked

LEMMA MissedStays ==
  ASSUME UNCHANGED <<kind, arg, recursive>>, printed \subseteq printed',
         objects' \cap old' \subseteq objects \cap old
  PROVE  Missed' \subseteq Missed
<1>1. ASSUME NEW i \in Missed' PROVE i \in Missed
  <2>1. i \in objects' \cap old' /\ L!Asked(i)' /\ ~Told(i)'
    BY <1>1 DEF Missed
  <2> QED
    BY <2>1, AskedStays, ToldStays DEF Missed
<1> QED
  BY <1>1

LEMMA FlagsStay ==
  /\ UNCHANGED hidden => (Visible' <=> Visible)
  /\ UNCHANGED twice => (Once' <=> Once)
  /\ UNCHANGED recursive => (Deep' <=> Deep)
  /\ L!Going => UNCHANGED <<key, listing, status>> /\ (Visible' <=> Visible)
<1>1. ASSUME UNCHANGED hidden PROVE Visible' <=> Visible
  BY <1>1, Zenon DEF Visible
<1>2. ASSUME UNCHANGED twice PROVE Once' <=> Once
  BY <1>2, Zenon DEF Once
<1>3. ASSUME UNCHANGED recursive PROVE Deep' <=> Deep
  BY <1>3, Zenon DEF Deep
<1>4. L!Going => UNCHANGED <<key, listing, status>> /\ UNCHANGED hidden
  BY DEF L!Going
<1> QED
  BY <1>1, <1>2, <1>3, <1>4

Counts == troubles' \in Nat /\ troubles' + changes' <= MaxEvents

ListAsks(p, delimiter, size) ==
  L!AskFor(<<L!Task(p, delimiter, 0, size, 0)>>) /\ L!Going

LEMMA Asking ==
  ASSUME ListTypes, OnceInv, AllInv, pc # "done",
         NEW p \in Seq(Tokens), NEW delimiter \in Flags, NEW size \in Nat \ {0},
         ListAsks(p, delimiter, size),
         UNCHANGED <<objects, old, changes, arg, lastKey, recursive, kind, printed, twice>>,
         Counts,
         troubles' = 0 => troubles = 0 /\ pc \in {"exec", "exists"},
         Faithful /\ troubles' = 0 /\ key = arg =>
           \A i \in objects \cap old : L!Asked(i) => LL!HasPrefix(ListNames[i], p)
  PROVE  ListTypes' /\ OnceInv' /\ AllInv'
<1>1. /\ pc' = "list" /\ todo' = <<L!Task(p, delimiter, 0, size, 0)>>
      /\ UNCHANGED <<key, listing, status>> /\ (Visible' <=> Visible)
  BY FlagsStay DEF ListAsks, L!AskFor
<1>2. /\ InsideOut(todo') /\ todo' # <<>> /\ Apart(todo', {})
      /\ \A i \in LL!Ids : LL!HasPrefix(ListNames[i], p) => SoughtIn(todo', i)
  BY <1>1, OneTask
<1>3. UNCHANGED <<objects, old, changes, arg, lastKey, kind, printed>>
  OBVIOUS
<1>4. ListTypes'
  <2>1. InsideOut(todo)'
    BY <1>2 DEF InsideOut
  <2> QED
    BY <1>1, <1>2, <1>3, <2>1 DEF ListTypes, Counts
<1>5. Once' <=> Once
  BY FlagsStay
<1>6. OnceInv'
  <2>1. Counting' => Counting /\ printed = {}
    BY <1>3 DEF Counting, OnceInv
  <2>2. Counting' => Apart(todo', printed')
    BY <1>2, <1>3, <2>1
  <2>3. /\ Apart(todo, printed)' <=> Apart(todo', printed')
        /\ Apart(todo, {})' <=> Apart(todo', {})
    BY DEF Apart, RegionOf, Separate, IsNew
  <2> QED
    BY <1>1, <1>2, <1>3, <1>5, <2>1, <2>2, <2>3 DEF OnceInv
<1>7. AllInv'
  <2> SUFFICES ASSUME Faithful' PROVE AllInv'
    BY DEF AllInv
  <2>1. Faithful /\ troubles' = 0
    BY <1>1, <1>3 DEF Faithful
  <2>2. Missed' \subseteq Missed
    BY MissedStays
  <2>3. ASSUME key = arg, NEW i \in Missed' PROVE SoughtIn(todo, i)'
    <3>1. i \in objects \cap old /\ L!Asked(i) /\ i \in LL!Ids
      BY <2>2, <2>3 DEF Missed, ListTypes
    <3>2. SoughtIn(todo', i)
      BY <1>2, <2>1, <2>3, <3>1
    <3> QED
      BY <3>2 DEF SoughtIn, RegionOf
  <2>4. key # arg => Missed = {}
    BY <2>1 DEF AllInv
  <2> QED
    BY <1>1, <1>3, <2>2, <2>3, <2>4 DEF AllInv
<1> QED
  BY <1>4, <1>6, <1>7

LEMMA Retrying ==
  ASSUME ListTypes, OnceInv, L!Again, pc # "done",
         UNCHANGED <<objects, old, changes, arg, lastKey, kind>>, Counts,
         \A line \in printed' : line.id \in LL!Ids \cup {0},
         Counting' => kind # "table" /\ Once' /\ printed' = {},
         Faithful' => Missed' = {}
  PROVE  ListTypes' /\ OnceInv' /\ AllInv'
<1>1. /\ key' = L!Trimmed /\ pc' = "exec" /\ todo' = <<>> /\ UNCHANGED <<listing, status>>
  BY DEF L!Again
<1>2. key' \in Seq(STRING)
  <2>1. key \in LL!Keys
    BY DEF ListTypes, LL!Keys
  <2>2. LL!TrimLeft(key, "/") \in LL!Keys
    BY <2>1, ListsAssumed, LL!TrimLeftIsKey
  <2>3. L!Trimmed = LL!TrimLeft(key, "/")
    BY ListsOperators DEF L!Trimmed
  <2> QED
    BY <1>1, <2>2, <2>3 DEF LL!Keys
<1>3. InsideOut(todo)'
  BY <1>1 DEF InsideOut
<1>4. ListTypes'
  BY <1>1, <1>2, <1>3 DEF ListTypes, Counts
<1>5. OnceInv'
  BY <1>1 DEF OnceInv
<1>6. AllInv'
  BY <1>1 DEF AllInv
<1> QED
  BY <1>4, <1>5, <1>6

LEMMA Stopping ==
  ASSUME ListTypes, pc' = "done", status' \in {"ok", "error", "panic"},
         listing' = L!NoListing, UNCHANGED key, arg' \in Seq(STRING), InsideOut(todo)',
         UNCHANGED <<objects, old, changes, lastKey, kind>>, Counts,
         \A line \in printed' : line.id \in LL!Ids \cup {0},
         Counting' => Once' /\ (kind = "table" => ~LL!StartsWith(key, "/"))
  PROVE  ListTypes' /\ OnceInv' /\ AllInv'
<1>1. ListTypes'
  BY DEF ListTypes, Counts
<1>2. OnceInv'
  BY DEF OnceInv
<1>3. AllInv'
  BY DEF AllInv
<1> QED
  BY <1>1, <1>2, <1>3

LEMMA Returning ==
  ASSUME ListTypes, OnceInv, pc # "done", pc' = "next", UNCHANGED <<key, listing, status>>,
         InsideOut(todo)',
         UNCHANGED <<objects, old, changes, kind, arg, lastKey, recursive>>, Counts,
         troubles' = 0 => troubles = 0,
         \A line \in printed' : line.id \in LL!Ids \cup {0},
         kind = "table" => ~LL!StartsWith(key, "/"),
         Counting' => Once',
         Faithful' => Missed' = {}
  PROVE  ListTypes' /\ OnceInv' /\ AllInv'
<1>1. ListTypes'
  BY DEF ListTypes, Counts
<1>2. OnceInv'
  BY DEF OnceInv
<1>3. AllInv'
  BY DEF AllInv
<1> QED
  BY <1>1, <1>2, <1>3

LEMMA TroubleMeans ==
  ASSUME ListTypes
  PROVE  /\ L!Trouble /\ UNCHANGED changes => Counts /\ troubles' # 0
         /\ UNCHANGED <<troubles, changes>> => Counts
<1>1. MaxEvents \in Nat
  BY ListAssumption DEF L!CommandAssumption
<1> QED
  BY <1>1 DEF L!Trouble, L!Bounded, ListTypes, Counts

LEMMA EndMeans ==
  /\ L!End(TRUE) => /\ pc' = "done" /\ status' = "error" /\ listing' = L!NoListing
                    /\ UNCHANGED key
  /\ L!End(FALSE) => /\ pc' = "done" /\ status' = "ok" /\ listing' = L!NoListing
                     /\ UNCHANGED key
  /\ L!Panic => pc' = "done" /\ status' = "panic" /\ UNCHANGED <<key, listing>>
BY DEF L!End, L!Panic

LEMMA ListNextArgument ==
  ASSUME ListTypes, OnceInv, L!NextArgument
  PROVE  ListTypes' /\ OnceInv' /\ AllInv'
<1>1. /\ pc = "next"
      /\ UNCHANGED <<objects, recursive, old, changes, troubles, kind, lastKey, todo>>
      /\ Counts /\ UNCHANGED <<objects, old, changes, lastKey, kind>>
  BY TroubleMeans DEF L!NextArgument, L!others
<1>2. InsideOut(todo)'
  BY <1>1 DEF ListTypes, InsideOut
<1>3. CASE /\ arg' = <<>> /\ key' = lastKey /\ pc' = "exec"
           /\ printed' = {} /\ twice' = FALSE /\ UNCHANGED <<listing, status>>
  <2>1. <<>> \in Seq(STRING)
    OBVIOUS
  <2>2. ListTypes'
    BY <1>1, <1>2, <1>3, <2>1 DEF ListTypes, Counts
  <2>3. Once'
    BY <1>3, Zenon DEF Once
  <2>4. OnceInv'
    BY <1>1, <1>3, <2>3 DEF OnceInv, Counting
  <2>5. AllInv'
    BY <1>1, <1>3 DEF AllInv, Faithful
  <2> QED
    BY <2>2, <2>4, <2>5
<1>4. CASE L!End(FALSE) /\ UNCHANGED <<arg, L!output>>
  <2>1. /\ pc' = "done" /\ status' = "ok" /\ listing' = L!NoListing /\ UNCHANGED key
        /\ UNCHANGED <<arg, printed, twice>>
    BY <1>4, EndMeans DEF L!output
  <2>2. arg' \in Seq(STRING) /\ \A line \in printed' : line.id \in LL!Ids \cup {0}
    BY <2>1 DEF ListTypes
  <2>3. Counting' => Once' /\ (kind = "table" => ~LL!StartsWith(key, "/"))
    BY <1>1, <2>1, FlagsStay DEF OnceInv, Counting
  <2> QED
    BY <1>1, <1>2, <2>1, <2>2, <2>3, Stopping
<1>5. \/ /\ arg' = <<>> /\ key' = lastKey /\ pc' = "exec"
         /\ printed' = {} /\ twice' = FALSE /\ UNCHANGED <<listing, status>>
      \/ L!End(FALSE) /\ UNCHANGED <<arg, L!output>>
  <2>1. \/ /\ arg' = <<>> /\ key' = lastKey /\ pc' = "exec"
           /\ printed' = {} /\ twice' = FALSE /\ UNCHANGED <<listing, status, hidden>>
        \/ L!End(FALSE) /\ UNCHANGED <<more, arg, L!output>>
    BY Zenon DEF L!NextArgument
  <2> QED
    BY <2>1 DEF L!output
<1> QED
  BY <1>3, <1>4, <1>5

LEMMA SizesMeans ==
  /\ PageSize \in Nat \ {0} /\ 1 \in Nat \ {0}
  /\ TRUE \in Flags /\ FALSE \in Flags
<1>1. PageSize \in Nat \ {0}
  BY ListAssumption DEF L!CommandAssumption
<1>2. TRUE \in Flags /\ FALSE \in Flags
  BY Zenon DEF Flags
<1>3. 1 \in Nat \ {0}
  OBVIOUS
<1> QED
  BY <1>1, <1>2, <1>3, Zenon

(* The listing of the directory that an argument stands for.               *)
LEMMA AskingForDirectory ==
  ASSUME ListTypes, OnceInv, AllInv, pc # "done", L!AskForDirectory, L!Going,
         UNCHANGED <<objects, old, changes, arg, lastKey, recursive, kind, printed, twice>>,
         Counts,
         troubles' = 0 =>
           /\ troubles = 0 /\ pc \in {"exec", "exists"} /\ L!IsLs
           /\ \/ key = <<>> \/ LL!EndsWith(key, "/")
              \/ \A i \in objects : ListNames[i] # key
  PROVE  ListTypes' /\ OnceInv' /\ AllInv'
<1>1. L!Start \in Seq(Tokens)
  BY StartIsKey DEF ListTypes
<1>2. ListAsks(L!Start, TRUE, PageSize)
  BY Zenon DEF ListAsks, L!AskForDirectory
<1>3. ASSUME troubles' = 0, key = arg, NEW i \in objects \cap old, L!Asked(i)
      PROVE  LL!HasPrefix(ListNames[i], L!Start)
  <2>1. i \in LL!Ids /\ key \in Seq(STRING)
    BY <1>3 DEF ListTypes
  <2> QED
    BY <1>3, <2>1, AskedOfDirectory
<1>4. PICK p \in Seq(Tokens) : p = L!Start
  BY <1>1
<1>5. PICK delimiter \in Flags : ListAsks(p, delimiter, PageSize)
  BY <1>2, <1>4, SizesMeans, Zenon
<1> QED
  BY <1>3, <1>4, <1>5, SizesMeans, Asking

LEMMA ListExec ==
  ASSUME ListTypes, OnceInv, AllInv, L!Exec
  PROVE  ListTypes' /\ OnceInv' /\ AllInv'
<1>1. /\ pc = "exec" /\ L!Going
      /\ UNCHANGED <<objects, old, changes, arg, lastKey, recursive, kind>>
      /\ UNCHANGED <<printed, twice, troubles>>
      /\ UNCHANGED <<key, listing, status>> /\ (Visible' <=> Visible)
  BY FlagsStay DEF L!Exec, L!command, L!others, L!output
<1>2. Counts /\ key \in Seq(Tokens)
  BY <1>1, TroubleMeans, StartIsKey DEF ListTypes
<1>3. CASE kind = "uploads" /\ L!AskFor(<<L!Task(key, TRUE, 0, PageSize, 0)>>)
  <2>1. ListAsks(key, TRUE, PageSize)
    BY <1>1, <1>3, Zenon DEF ListAsks
  <2>2. PICK delimiter \in Flags : ListAsks(key, delimiter, PageSize)
    BY <2>1, SizesMeans, Zenon
  <2>3. key = arg =>
          \A i \in objects \cap old : L!Asked(i) => LL!HasPrefix(ListNames[i], key)
    BY <1>3, AskedOfUploads
  <2> QED
    BY <1>1, <1>2, <2>2, <2>3, SizesMeans, Asking
<1>4. CASE L!IsLs /\ (key = <<>> \/ L!EndsWith(key, "/")) /\ L!AskForDirectory
  BY <1>1, <1>2, <1>4, ListsOperators, AskingForDirectory
<1>5. CASE /\ pc' = "exists" /\ UNCHANGED todo
           /\ kind # "uploads"
           /\ L!IsLs => key # <<>> /\ ~L!EndsWith(key, "/")
  <2>1. InsideOut(todo)'
    BY <1>5 DEF InsideOut, ListTypes
  <2>2. L!IsLs' <=> L!IsLs
    BY <1>1 DEF L!IsLs
  <2>3. ListTypes'
    BY <1>1, <1>2, <1>5, <2>1, <2>2, ListsOperators DEF ListTypes, Counts
  <2>4. OnceInv'
    BY <1>1, <1>5, FlagsStay DEF OnceInv, Counting
  <2>5. AllInv'
    BY <1>1, <1>5, MissedStays DEF AllInv, Faithful
  <2> QED
    BY <2>3, <2>4, <2>5
<1>6. kind = "exist" => ~L!IsLs
  BY DEF L!IsLs
<1> QED
  BY <1>3, <1>4, <1>5, <1>6 DEF L!Exec, L!IsLs

LEMMA ListExists ==
  ASSUME ListTypes, OnceInv, AllInv, L!Exists
  PROVE  ListTypes' /\ OnceInv' /\ AllInv'
<1>1. /\ pc = "exists"
      /\ UNCHANGED <<objects, old, changes, arg, lastKey, recursive, kind, printed, twice>>
  BY DEF L!Exists, L!command, L!others, L!output
<1>2. /\ \A line \in printed' : line.id \in LL!Ids \cup {0}
      /\ Counts /\ (troubles' = 0 => troubles = 0) /\ key \in Seq(Tokens)
      /\ Once' <=> Once
      /\ arg' \in Seq(STRING)
  <2>1. UNCHANGED troubles \/ L!Trouble
    BY DEF L!Exists
  <2> QED
    BY <1>1, <2>1, TroubleMeans, FlagsStay, StartIsKey DEF ListTypes
<1> DEFINE yes == key = <<>> \/ \E i \in objects : ListNames[i] = key
<1>3. CASE L!End(TRUE) /\ UNCHANGED todo
  <2>1. InsideOut(todo)'
    BY <1>3 DEF InsideOut, ListTypes
  <2>2. Counting' => Once' /\ (kind = "table" => ~LL!StartsWith(key, "/"))
    BY <1>1, <1>2 DEF OnceInv, Counting
  <2> QED
    BY <1>1, <1>2, <1>3, <2>1, <2>2, EndMeans, Stopping
<1>4. CASE yes /\ L!Yes /\ UNCHANGED troubles
  <2>1. CASE L!IsLs
    <3>1. L!AskFor(<<L!Task(key, FALSE, 0, 1, 0)>>) /\ L!Going
      BY <1>4, <2>1 DEF L!Yes
    <3>2. ListAsks(key, FALSE, 1)
      BY <3>1, Zenon DEF ListAsks
    <3>3. PICK delimiter \in Flags : ListAsks(key, delimiter, 1)
      BY <3>2, SizesMeans, Zenon
    <3>4. PICK j \in objects : ListNames[j] = key
      BY <1>1, <1>4, <2>1 DEF ListTypes
    <3>5. key = arg =>
            \A i \in objects \cap old : L!Asked(i) => LL!HasPrefix(ListNames[i], key)
      BY <2>1, <3>4, AskedOfObject DEF ListTypes
    <3> QED
      BY <1>1, <1>2, <3>3, <3>5, SizesMeans, Asking
  <2>2. CASE ~L!IsLs
    <3>1. pc' = "next" /\ L!Going /\ UNCHANGED todo
      BY <1>4, <2>2 DEF L!Yes
    <3>2. InsideOut(todo)' /\ kind = "exist"
      BY <1>1, <2>2, <3>1 DEF InsideOut, ListTypes, L!IsLs
    <3>3. UNCHANGED <<key, listing, status>>
      BY <3>1, FlagsStay
    <3>4. ~Faithful' /\ (Counting' => Once')
      BY <1>1, <1>2, <3>2 DEF Faithful, OnceInv, Counting
    <3> QED
      BY <1>1, <1>2, <3>1, <3>2, <3>3, <3>4, Returning
  <2> QED
    BY <2>1, <2>2
<1>5. CASE L!No /\ ((~yes /\ UNCHANGED troubles) \/ L!Trouble)
  <2>1. CASE L!IsLs /\ L!AskForDirectory /\ L!Going
    <3>1. troubles' = 0 => \A i \in objects : ListNames[i] # key
      BY <1>5, TroubleMeans, <1>1
    <3> QED
      BY <1>1, <1>2, <2>1, <3>1, AskingForDirectory
  <2>2. CASE ~L!IsLs /\ L!Again
    <3>1. kind # "table" /\ (Counting' => Counting)
      BY <1>1, <1>2, <2>2 DEF L!IsLs, Counting
    <3>2. Counting' => kind # "table" /\ Once' /\ printed' = {}
      BY <1>1, <1>2, <3>1 DEF OnceInv
    <3>3. ~Faithful'
      BY <1>1, <2>2 DEF Faithful, L!IsLs, ListTypes
    <3> QED
      BY <1>1, <1>2, <2>2, <3>2, <3>3, Retrying
  <2>3. CASE L!End(TRUE) /\ UNCHANGED todo
    BY <1>3, <2>3
  <2> QED
    BY <1>5, <2>1, <2>2, <2>3 DEF L!No
<1>6. \/ L!End(TRUE) /\ UNCHANGED todo
      \/ yes /\ L!Yes /\ UNCHANGED troubles
      \/ L!No /\ ((~yes /\ UNCHANGED troubles) \/ L!Trouble)
  BY DEF L!Exists
<1> QED
  BY <1>3, <1>4, <1>5, <1>6

-----------------------------------------------------------------------------
(* A page, and what a step does with it.                                   *)
LinesFor(l) ==
  {L!ObjectLine(i) : i \in l.keys} \cup {L!DirLine(d) : d \in {e \in l.dirs : L!HasLine(e)}}

LEMMA LinesForMeans ==
  ASSUME NEW l
  PROVE  /\ LinesOf(l, LinesFor(l))
         /\ \A i \in l.keys : L!ObjectLine(i) \in LinesFor(l)
         /\ \A d \in l.dirs : L!HasLine(d) =>
              \E line \in LinesFor(l) : line.id = 0 /\ line.key = d
<1>1. \A i : L!ObjectLine(i).id = i
  BY DEF L!ObjectLine
<1>2. \A d : L!DirLine(d).id = 0 /\ L!DirLine(d).key = d
  BY DEF L!DirLine
<1> QED
  BY <1>1, <1>2 DEF LinesFor, LinesOf

Shown(t, l) ==
  /\ printed' = printed \cup LinesFor(l)
  /\ L!Continue(L!Nested(t, l) \o Tail(todo), printed \cup LinesFor(l))
  /\ Once /\ LinesFor(l) \cap printed = {} => Once'

LEMMA ShowMeans ==
  ASSUME NEW t, NEW l, L!Show(t, l)
  PROVE  \/ l.nil /\ L!AskForDirectory /\ L!Going /\ UNCHANGED L!output
         \/ (L!Panic \/ L!End(TRUE)) /\ UNCHANGED <<todo, L!output>>
         \/ ~l.nil /\ Shown(t, l)
<1>1. \/ l.nil /\ L!AskForDirectory /\ L!Going /\ UNCHANGED L!output
      \/ L!Panic /\ UNCHANGED <<todo, L!output>>
      \/ L!End(TRUE) /\ UNCHANGED <<todo, L!output>>
      \/ /\ ~l.nil
         /\ twice' = (twice \/ LinesFor(l) \cap printed # {})
         /\ printed' = printed \cup LinesFor(l)
         /\ L!Continue(L!Nested(t, l) \o Tail(todo), printed \cup LinesFor(l))
  BY Zenon DEF L!Show, LinesFor
<1>2. ASSUME twice' = (twice \/ LinesFor(l) \cap printed # {})
      PROVE  Once /\ LinesFor(l) \cap printed = {} => Once'
  BY <1>2, Zenon DEF Once
<1>3. ASSUME ~l.nil, twice' = (twice \/ LinesFor(l) \cap printed # {}),
             printed' = printed \cup LinesFor(l),
             L!Continue(L!Nested(t, l) \o Tail(todo), printed \cup LinesFor(l))
      PROVE  ~l.nil /\ Shown(t, l)
  BY <1>2, <1>3 DEF Shown
<1> QED
  BY <1>1, <1>3, Zenon

LEMMA ContinueMeans ==
  ASSUME NEW ts, NEW lines, L!Continue(ts, lines)
  PROVE  \/ ts # <<>> /\ pc' = "list" /\ todo' = ts /\ L!Going
         \/ /\ L!Again /\ L!StartsWith(key, "/") /\ (kind = "table" \/ lines = {})
            /\ L!IsLs /\ ts = <<>> /\ (Visible' => Visible)
         \/ /\ ts = <<>> /\ pc' = "next" /\ todo' = <<>> /\ UNCHANGED <<key, listing, status>>
            /\ (Visible' => Visible)
            /\ kind = "table" => ~L!StartsWith(key, "/")
<1>1. CASE ts # <<>>
  BY <1>1 DEF L!Continue, L!AskFor
<1>2. CASE ts = <<>>
  <2>1. L!Returned(lines, FALSE)
    BY <1>2 DEF L!Continue
  <2>2. ASSUME hidden' = (hidden \/ FALSE) PROVE Visible' => Visible
    BY <2>2, Zenon DEF Visible
  <2>3. \/ /\ L!Again /\ L!StartsWith(key, "/") /\ (kind = "table" \/ lines = {})
           /\ L!IsLs /\ hidden' = (hidden \/ FALSE)
        \/ /\ pc' = "next" /\ todo' = <<>> /\ UNCHANGED <<key, listing, status>>
           /\ hidden' = (hidden \/ FALSE)
           /\ ~(L!IsLs /\ (kind = "table" \/ lines = {}) /\ L!StartsWith(key, "/"))
    BY <2>1, Zenon DEF L!Returned
  <2>4. kind = "table" => L!IsLs
    BY DEF L!IsLs
  <2> QED
    BY <1>2, <2>2, <2>3, <2>4
<1> QED
  BY <1>1, <1>2

LEMMA PageTypes ==
  ASSUME ListTypes, pc = "list", NEW t, t = todo[1], NEW p,
         p = L!ListPage(objects, t.prefix, t.delimiter, t.marker, t.size)
  PROVE  /\ t \in Tasks /\ IsPage(p) /\ p.nil = FALSE
         /\ \A l \in L!Undecoded(p) : IsPage(l)
         /\ Apart(todo, {}) => /\ LL!Divides(p, objects, t.prefix, t.marker)
                               /\ t.delimiter /\ p.truncated => LL!Clear(t.prefix, p.next)
<1>1. t \in Tasks /\ 1 \in DOMAIN todo
  BY TailMeans DEF ListTypes
<1>2. /\ t.prefix \in Seq(Tokens) /\ t.delimiter \in Flags /\ t.marker \in Nat
      /\ t.size \in Nat \ {0}
  BY <1>1, TasksMeans
<1>3. PICK delimiter \in BOOLEAN : delimiter = t.delimiter
  BY <1>2, Zenon DEF Flags
<1>4. PICK prefix \in Seq(LL!Tokens) : prefix = t.prefix
  <2>1. LL!Tokens = Tokens
    BY DEF LL!Tokens, Tokens
  <2> QED
    BY <1>2, <2>1
<1>5. PICK marker \in Nat, size \in Nat \ {0} : marker = t.marker /\ size = t.size
  BY <1>2
<1>6. p = LL!ListPage(objects, prefix, delimiter, marker, size)
  BY <1>3, <1>4, <1>5, ListsPages, Zenon
<1>7. objects \in SUBSET LL!Ids
  BY DEF ListTypes
<1>8. LL!IsPageFor(p, LL!Behind(objects, prefix, marker), prefix, delimiter)
  BY <1>6, <1>7, ListsAssumed, LL!PageCovers
<1>9. IsPage(p) /\ p.nil = FALSE
  <2>1. ASSUME NEW d \in p.dirs PROVE d \in LL!Keys
    <3>1. PICK j \in LL!Behind(objects, prefix, marker) :
            LL!SlashesBehind(ListNames[j], prefix) # {} /\ d = LL!DirOf(j, prefix)
      BY <1>8, <2>1 DEF LL!IsPageFor
    <3>2. j \in LL!Ids
      BY <1>7, <3>1 DEF LL!Behind
    <3> QED
      BY <3>1, <3>2, ListsAssumed, LL!DirMeans
  <2> QED
    BY <1>8, <2>1 DEF LL!IsPageFor, IsPage
<1>10. ASSUME NEW l \in L!Undecoded(p) PROVE IsPage(l)
  <2>1. l \in LL!Undecoded(p) /\ LL!IsListing(p)
    BY <1>9, ListsOperators DEF IsPage
  <2>2. LL!IsListing(l) /\ l.dirs \in {{}, p.dirs}
    BY <2>1, ListsAssumed, LL!UndecodedIsPart
  <2>3. LL!IsFiniteSet({})
    BY LL!FS_EmptySet
  <2> QED
    BY <1>9, <2>2, <2>3 DEF IsPage
<1>11. ASSUME Apart(todo, {})
       PROVE  LL!Divides(p, objects, t.prefix, t.marker)
              /\ (t.delimiter /\ p.truncated => LL!Clear(t.prefix, p.next))
  <2>1. t.delimiter => LL!Clear(t.prefix, t.marker)
    BY <1>1, <1>11 DEF Apart
  <2>2. delimiter => LL!Clear(prefix, marker)
    BY <1>3, <1>4, <1>5, <2>1, Zenon
  <2>3. LL!GoodPage(p, objects, prefix, delimiter, marker)
    BY <1>6, <1>7, <2>2, ListsAssumed, LL!PageDivides
  <2>4. /\ LL!Divides(p, objects, prefix, marker)
        /\ delimiter /\ p.truncated => LL!Clear(prefix, p.next)
    BY <2>3, Zenon DEF LL!GoodPage
  <2> QED
    BY <1>3, <1>4, <1>5, <2>4, Zenon
<1> QED
  BY <1>1, <1>9, <1>10, <1>11

LEMMA Showing ==
  ASSUME ListTypes, OnceInv, AllInv, pc = "list", NEW t, t = todo[1], NEW l, IsPage(l),
         L!Show(t, l),
         UNCHANGED <<objects, old, changes, kind, arg, lastKey, recursive>>, Counts,
         troubles' = 0 =>
           /\ troubles = 0 /\ l.nil = FALSE
           /\ LL!Divides(l, objects, t.prefix, t.marker)
           /\ t.delimiter /\ l.truncated => LL!Clear(t.prefix, l.next)
  PROVE  ListTypes' /\ OnceInv' /\ AllInv'
<1> DEFINE ts == L!Nested(t, l) \o Tail(todo)
           new == LinesFor(l)
<1>1. todo # <<>> /\ InsideOut(todo) /\ pc # "done"
  BY DEF ListTypes
<1>2. Counting' => Counting /\ troubles' = 0
  BY DEF Counting
<1>3. CASE l.nil /\ L!AskForDirectory /\ L!Going /\ UNCHANGED L!output
  <2>1. UNCHANGED <<printed, twice>> /\ troubles' # 0
    BY <1>3 DEF L!output
  <2> QED
    BY <1>1, <1>3, <2>1, AskingForDirectory
<1>4. CASE (L!Panic \/ L!End(TRUE)) /\ UNCHANGED <<todo, L!output>>
  <2>1. UNCHANGED <<printed, twice, todo>>
    BY <1>4 DEF L!output
  <2>2. /\ InsideOut(todo)' /\ arg' \in Seq(STRING) /\ listing = L!NoListing
        /\ \A line \in printed' : line.id \in LL!Ids \cup {0}
    BY <2>1 DEF InsideOut, ListTypes
  <2>3. Counting' => Once' /\ (kind = "table" => ~LL!StartsWith(key, "/"))
    BY <1>2, <2>1, FlagsStay DEF OnceInv
  <2>4. pc' = "done" /\ status' \in {"error", "panic"} /\ UNCHANGED key /\ listing' = L!NoListing
    BY <1>4, <2>2, EndMeans
  <2> QED
    BY <1>1, <2>1, <2>2, <2>3, <2>4, Stopping
<1>5. CASE ~l.nil /\ Shown(t, l)
  <2>1. printed' = printed \cup new /\ L!Continue(ts, printed \cup new)
    BY <1>5 DEF Shown
  <2>2. InsideOut(ts)
    BY <1>1, NestedInsideOut
  <2>3. LinesOf(l, new)
    BY LinesForMeans
  <2>4. \A line \in printed' : line.id \in LL!Ids \cup {0}
    <3>1. l.keys \subseteq LL!Ids
      BY DEF IsPage, LL!IsListing
    <3>2. \A line \in new : line.id \in LL!Ids \cup {0}
      BY <2>3, <3>1 DEF LinesOf
    <3> QED
      BY <2>1, <3>2 DEF ListTypes
  <2>5. troubles' = 0 => Apart(ts, {})
    <3> SUFFICES ASSUME troubles' = 0 PROVE Apart(ts, {})
      OBVIOUS
    <3>1. Apart(todo, {}) /\ LinesOf(l, {})
      BY DEF OnceInv, LinesOf
    <3>2. Apart(ts, {} \cup {})
      BY <1>1, <3>1, PageApart
    <3>3. {} \cup {} = {}
      OBVIOUS
    <3> QED
      BY <3>2, <3>3
  <2>6. Counting' => Once' /\ Apart(ts, printed')
    <3> SUFFICES ASSUME Counting' PROVE Once' /\ Apart(ts, printed')
      OBVIOUS
    <3>1. Apart(todo, printed) /\ Once
      BY <1>2 DEF OnceInv
    <3>2. new \cap printed = {} /\ Apart(ts, printed \cup new)
      BY <1>1, <1>2, <2>3, <3>1, PageApart
    <3> QED
      BY <1>5, <2>1, <3>1, <3>2 DEF Shown
  <2>7. ASSUME troubles' = 0, NEW i \in objects \cap old, Told(i) \/ SoughtIn(todo, i)
        PROVE  Told(i)' \/ SoughtIn(ts, i)
    <3>1. printed \subseteq printed' /\ UNCHANGED <<kind, recursive>>
      BY <2>1
    <3>2. CASE Told(i)
      BY <3>1, <3>2, ToldStays
    <3>3. CASE SoughtIn(todo, i)
      <4>1. \/ i \in l.keys
            \/ ~Deep /\ \E d \in l.dirs : LL!HasPrefix(ListNames[i], d)
            \/ SoughtIn(ts, i)
        BY <1>1, <2>7, <3>3, PageFinds
      <4>2. CASE i \in l.keys
        <5>1. L!ObjectLine(i) \in printed'
          BY <2>1, <4>2, LinesForMeans
        <5>2. L!ObjectLine(i)' = L!ObjectLine(i)
          BY DEF L!ObjectLine
        <5> QED
          BY <5>1, <5>2 DEF Told
      <4>3. CASE ~Deep /\ \E d \in l.dirs : LL!HasPrefix(ListNames[i], d)
        <5>1. PICK d \in l.dirs : LL!HasPrefix(ListNames[i], d)
          BY <4>3
        <5>2. ~Deep'
          BY <3>1, <4>3, FlagsStay, Zenon
        <5>3. CASE L!HasLine(d)
          <6>1. PICK line \in new : line.id = 0 /\ line.key = d
            BY <5>3, LinesForMeans
          <6>2. line \in printed'
            BY <2>1, <6>1
          <6> QED
            BY <5>1, <5>2, <6>1, <6>2, Zenon DEF Told
        <5>4. CASE ~L!HasLine(d)
          <6>1. \E n \in DOMAIN ListNames[i] :
                  ListNames[i][n] = "/" /\ d = SubSeq(ListNames[i], 1, n)
            <7>1. /\ d \in LL!Keys /\ LL!Region(d, 0) # {}
                  /\ \E n \in 1 .. Len(d) : d[n] = "/" /\ n = Len(d)
              BY <2>7 DEF LL!Divides
            <7>2. ListNames[i] \in LL!Keys
              BY NamesOfList DEF ListTypes
            <7>3. /\ Len(d) <= Len(ListNames[i])
                  /\ \A n \in 1 .. Len(d) : ListNames[i][n] = d[n]
              BY <5>1, <7>1, <7>2, ListsAssumed, LL!PrefixMeans DEF LL!Keys
            <7>4. d = SubSeq(ListNames[i], 1, Len(d))
              <8>1. d = SubSeq(d, 1, Len(d))
                BY <7>1, SubSeqFull DEF LL!Keys
              <8> QED
                BY <5>1, <8>1 DEF LL!HasPrefix, LL!IsPrefix
            <7>5. /\ Len(d) \in Nat /\ Len(ListNames[i]) \in Nat
                  /\ DOMAIN ListNames[i] = 1 .. Len(ListNames[i])
              BY <7>1, <7>2, PlacesOf DEF LL!Keys
            <7>6. PICK n \in 1 .. Len(d) : d[n] = "/" /\ n = Len(d)
              BY <7>1
            <7>7. n \in DOMAIN ListNames[i] /\ ListNames[i][n] = "/"
              BY <7>3, <7>5, <7>6
            <7> QED
              BY <7>4, <7>6, <7>7
          <6>2. ~L!HasLine(d)'
            BY <3>1, <5>4, Zenon DEF L!HasLine, L!IsDot
          <6>3. \A n : d = SubSeq(ListNames[i], 1, n) => ~L!HasLine(SubSeq(ListNames[i], 1, n))'
            BY <6>2, Zenon DEF L!HasLine, L!IsDot
          <6> QED
            BY <5>2, <6>1, <6>3, Zenon DEF Told
        <5> QED
          BY <5>3, <5>4
      <4> QED
        BY <4>1, <4>2, <4>3
    <3> QED
      BY <2>7, <3>2, <3>3
  <2> HIDE DEF ts, new
  <2>m. ASSUME Faithful, troubles' = 0
        PROVE  /\ Missed' \subseteq Missed
               /\ key = arg => \A i \in Missed' : SoughtIn(ts, i)
               /\ key # arg => Missed' = {}
    <3>1. Missed' \subseteq Missed
      BY <2>1, MissedStays
    <3>2. ASSUME key = arg, NEW i \in Missed' PROVE SoughtIn(ts, i)
      <4>1. SoughtIn(todo, i) /\ i \in objects \cap old /\ ~Told(i)'
        BY <2>m, <3>1, <3>2 DEF AllInv, Missed
      <4> QED
        BY <2>7, <2>m, <4>1
    <3>3. key # arg => Missed = {}
      BY <1>1, <2>m DEF AllInv
    <3> QED
      BY <3>1, <3>2, <3>3
  <2>n. ASSUME Faithful, troubles' = 0, ts = <<>> PROVE Missed' = {}
    <3>1. \A i : ~SoughtIn(ts, i)
      BY <2>n DEF SoughtIn
    <3> QED
      BY <2>m, <2>n, <3>1
  <2>8. CASE ts # <<>> /\ pc' = "list" /\ todo' = ts /\ L!Going
    <3>1. UNCHANGED <<key, listing, status>> /\ (Visible' <=> Visible)
      BY <2>8, FlagsStay
    <3>2. InsideOut(todo)' /\ todo' # <<>>
      BY <2>2, <2>8 DEF InsideOut
    <3>3. ListTypes'
      BY <2>4, <2>8, <3>1, <3>2 DEF ListTypes, Counts
    <3>4. /\ Apart(todo, printed)' <=> Apart(todo', printed')
          /\ Apart(todo, {})' <=> Apart(todo', {})
      BY DEF Apart, RegionOf, Separate, IsNew
    <3>5. OnceInv'
      BY <1>2, <2>5, <2>6, <2>8, <3>1, <3>4 DEF OnceInv
    <3>6. AllInv'
      <4> SUFFICES ASSUME Faithful' PROVE AllInv'
        BY DEF AllInv
      <4>1. Faithful /\ troubles' = 0
        BY <3>1 DEF Faithful
      <4>2. key = arg => \A i \in Missed' : SoughtIn(todo, i)'
        BY <2>8, <2>m, <4>1 DEF SoughtIn, RegionOf
      <4> QED
        BY <2>8, <2>m, <3>1, <4>1, <4>2 DEF AllInv
    <3> QED
      BY <3>3, <3>5, <3>6
  <2>9. CASE /\ L!Again /\ L!StartsWith(key, "/") /\ L!IsLs
             /\ kind = "table" \/ printed \cup new = {}
             /\ ts = <<>> /\ (Visible' => Visible)
    <3>1. Counting' => kind # "table" /\ Once' /\ printed' = {}
      BY <1>2, <2>1, <2>6, <2>9, ListsOperators DEF OnceInv
    <3>2. Faithful' => Missed' = {}
      BY <2>9, <2>n DEF Faithful
    <3> QED
      BY <1>1, <2>4, <2>9, <3>1, <3>2, Retrying
  <2>10. CASE /\ ts = <<>> /\ pc' = "next" /\ todo' = <<>> /\ UNCHANGED <<key, listing, status>>
              /\ Visible' => Visible
              /\ kind = "table" => ~L!StartsWith(key, "/")
    <3>1. InsideOut(todo)'
      BY <2>10 DEF InsideOut
    <3>2. Faithful' => Missed' = {}
      BY <2>10, <2>n DEF Faithful
    <3> QED
      BY <1>1, <2>4, <2>6, <2>10, <3>1, <3>2, ListsOperators, Returning
  <2> QED
    BY <2>1, <2>8, <2>9, <2>10, ContinueMeans
<1> QED
  BY <1>3, <1>4, <1>5, ShowMeans

(* An error.                                                               *)
LEMMA RestMeans ==
  ASSUME InsideOut(todo), NEW t
  PROVE  /\ InsideOut(L!Rest(t))
         /\ \A lines : Apart(todo, lines) => Apart(L!Rest(t), lines)
<1> DEFINE around == {n \in DOMAIN todo : todo[n].depth < t.depth}
           rest == L!Rest(t)
<1>1. todo \in Seq(Tasks) /\ Len(todo) \in Nat /\ DOMAIN todo = 1 .. Len(todo)
  BY PlacesOf DEF InsideOut
<1>2. CASE kind = "uploads" /\ around # {}
  <2>1. rest = SubSeq(todo, LL!Min(around), Len(todo))
    BY <1>2, ListsOperators DEF L!Rest
  <2>2. around \in SUBSET Nat
    BY <1>1
  <2> HIDE DEF around
  <2>3. PICK x \in around : \A y \in around : x <= y
    BY <1>2, <2>2, ListsAssumed, LL!LeastOf
  <2>4. LL!Min(around) \in around
    BY <1>2, <2>2, ListsAssumed, LL!LeastOf
  <2>5. PICK k \in 1 .. Len(todo) : k = LL!Min(around)
    BY <1>1, <2>4 DEF around
  <2>6. rest = SubSeq(todo, k, Len(todo))
    BY <2>1, <2>5
  <2>7. \A n \in k .. Len(todo) : todo[n] \in Tasks
    BY <1>1, PlacesOf
  <2> HIDE DEF rest
  <2>8. /\ rest \in Seq(Tasks) /\ Len(rest) = Len(todo) - k + 1
        /\ \A n \in 1 .. Len(todo) - k + 1 : rest[n] = todo[k + n - 1]
    BY <1>1, <2>6, <2>7, SubSeqProperties
  <2>9. \A n \in 1 .. Len(rest) : rest[n] = todo[n + k - 1]
    <3> SUFFICES ASSUME NEW n \in 1 .. Len(rest) PROVE rest[n] = todo[n + k - 1]
      OBVIOUS
    <3>1. rest[n] = todo[k + n - 1] /\ k + n - 1 = n + k - 1
      BY <1>1, <2>8
    <3> QED
      BY <3>1
  <2>10. k \in 1 .. Len(todo) + 1
    BY <1>1
  <2>11. InsideOut(rest) /\ \A lines : Apart(todo, lines) => Apart(rest, lines)
    BY <2>8, <2>9, <2>10, SuffixKeeps
  <2> QED
    BY <2>11 DEF rest
<1>3. CASE ~(kind = "uploads" /\ around # {})
  <2>1. rest = <<>>
    BY <1>3 DEF L!Rest
  <2>2. rest \in Seq(Tasks) /\ DOMAIN rest = {}
    BY <2>1
  <2> HIDE DEF rest
  <2>3. InsideOut(rest) /\ \A lines : Apart(rest, lines)
    BY <2>2 DEF InsideOut, Apart
  <2> QED
    BY <2>3 DEF rest
<1> QED
  BY <1>2, <1>3

LEMMA Dropping ==
  ASSUME ListTypes, OnceInv, pc = "list", NEW t, L!Fails(t),
         UNCHANGED <<objects, old, changes, kind, arg, lastKey, recursive>>,
         UNCHANGED <<printed, twice, troubles>>
  PROVE  ListTypes' /\ OnceInv' /\ AllInv'
<1>1. /\ pc # "done" /\ Counts /\ InsideOut(todo)
      /\ (Counting' => Counting) /\ (Once' <=> Once)
      /\ \A line \in printed' : line.id \in LL!Ids \cup {0}
      /\ arg' \in Seq(STRING)
  <2>1. Counts
    BY TroubleMeans
  <2>2. Once' <=> Once
    BY FlagsStay
  <2> QED
    BY <2>1, <2>2 DEF ListTypes, Counting
<1>2. CASE L!End(TRUE) /\ UNCHANGED todo
  <2>1. InsideOut(todo)'
    BY <1>1, <1>2 DEF InsideOut
  <2>2. Counting' => Once' /\ (kind = "table" => ~LL!StartsWith(key, "/"))
    BY <1>1 DEF OnceInv
  <2> QED
    BY <1>1, <1>2, <2>1, <2>2, EndMeans, Stopping
<1>3. CASE L!Again /\ kind = "table" /\ L!StartsWith(key, "/") /\ ~Visible'
  <2>1. ~Counting' /\ ~Faithful'
    BY <1>1, <1>3, ListsOperators DEF OnceInv, Faithful
  <2> QED
    BY <1>1, <1>3, <2>1, Retrying
<1>4. CASE /\ pc' = "next" /\ todo' = <<>> /\ UNCHANGED <<key, listing, status>> /\ ~Visible'
           /\ kind = "table" => ~L!StartsWith(key, "/")
  <2>1. InsideOut(todo)' /\ ~Faithful' /\ (Counting' => Once')
    BY <1>1, <1>4 DEF InsideOut, Faithful, OnceInv
  <2> QED
    BY <1>1, <1>4, <2>1, ListsOperators, Returning
<1>5. CASE /\ L!Rest(t) # <<>> /\ pc' = "list" /\ todo' = L!Rest(t)
           /\ UNCHANGED <<key, listing, status>> /\ ~Visible'
  <2>1. /\ InsideOut(todo')
        /\ \A lines : Apart(todo, lines) => Apart(todo', lines)
    BY <1>1, <1>5, RestMeans
  <2>2. InsideOut(todo)'
    BY <2>1 DEF InsideOut
  <2>3. ListTypes'
    BY <1>1, <1>5, <2>2 DEF ListTypes, Counts
  <2>4. /\ Apart(todo, printed)' <=> Apart(todo', printed')
        /\ Apart(todo, {})' <=> Apart(todo', {})
    BY DEF Apart, RegionOf, Separate, IsNew
  <2>5. OnceInv'
    BY <1>1, <1>5, <2>1, <2>4 DEF OnceInv
  <2>6. AllInv'
    BY <1>5 DEF AllInv, Faithful
  <2> QED
    BY <2>3, <2>5, <2>6
<1>6. \/ L!End(TRUE) /\ UNCHANGED todo
      \/ L!Again /\ kind = "table" /\ L!StartsWith(key, "/") /\ ~Visible'
      \/ /\ pc' = "next" /\ todo' = <<>> /\ UNCHANGED <<key, listing, status>> /\ ~Visible'
         /\ kind = "table" => ~L!StartsWith(key, "/")
      \/ /\ L!Rest(t) # <<>> /\ pc' = "list" /\ todo' = L!Rest(t)
         /\ UNCHANGED <<key, listing, status>> /\ ~Visible'
  <2>1. \/ L!End(TRUE) /\ UNCHANGED todo
        \/ kind # "text" /\ L!Rest(t) = <<>> /\ L!Returned(printed, TRUE)
        \/ /\ L!Rest(t) # <<>> /\ L!AskFor(L!Rest(t)) /\ hidden' = TRUE
           /\ UNCHANGED <<key, listing, status>>
    BY Zenon DEF L!Fails
  <2>2. hidden' = TRUE => ~Visible'
    BY Zenon DEF Visible
  <2>3. CASE kind # "text" /\ L!Rest(t) = <<>> /\ L!Returned(printed, TRUE)
    <3>1. \/ /\ L!IsLs /\ L!Again /\ L!StartsWith(key, "/")
             /\ hidden' = (hidden \/ TRUE)
          \/ /\ pc' = "next" /\ todo' = <<>> /\ UNCHANGED <<key, listing, status>>
             /\ hidden' = (hidden \/ TRUE)
             /\ ~(L!IsLs /\ kind = "table" /\ L!StartsWith(key, "/"))
      BY <2>3, Zenon DEF L!Returned
    <3>2. ASSUME hidden' = (hidden \/ TRUE) PROVE ~Visible'
      BY <3>2, Zenon DEF Visible
    <3> QED
      BY <2>3, <3>1, <3>2 DEF L!IsLs
  <2> QED
    BY <2>1, <2>2, <2>3 DEF L!AskFor
<1> QED
  BY <1>2, <1>3, <1>4, <1>5, <1>6

LEMMA ListList ==
  ASSUME ListTypes, OnceInv, AllInv, L!List
  PROVE  ListTypes' /\ OnceInv' /\ AllInv'
<1> DEFINE t == todo[1]
           page == L!ListPage(objects, t.prefix, t.delimiter, t.marker, t.size)
<1>1. /\ pc = "list" /\ UNCHANGED <<objects, old, changes, kind, arg, lastKey, recursive>>
      /\ \/ L!Fails(t) /\ UNCHANGED <<troubles, L!output>>
         \/ L!Show(t, page) /\ UNCHANGED troubles
         \/ L!Trouble /\ \E l \in L!Undecoded(page) : L!Show(t, l)
  BY DEF L!List, L!command, L!others
<1>2. /\ t \in Tasks /\ IsPage(page) /\ page.nil = FALSE
      /\ \A l \in L!Undecoded(page) : IsPage(l)
      /\ Apart(todo, {}) => /\ LL!Divides(page, objects, t.prefix, t.marker)
                            /\ t.delimiter /\ page.truncated => LL!Clear(t.prefix, page.next)
  BY <1>1, PageTypes
<1> HIDE DEF page
<1>3. CASE L!Fails(t) /\ UNCHANGED <<troubles, L!output>>
  BY <1>1, <1>3, Dropping DEF L!output
<1>4. CASE L!Show(t, page) /\ UNCHANGED troubles
  <2>1. Counts
    BY <1>1, <1>4, TroubleMeans
  <2>2. troubles' = 0 => troubles = 0 /\ Apart(todo, {})
    BY <1>1, <1>4 DEF OnceInv
  <2> QED
    BY <1>1, <1>2, <1>4, <2>1, <2>2, Showing
<1>5. ASSUME L!Trouble, NEW l \in L!Undecoded(page), L!Show(t, l)
      PROVE  ListTypes' /\ OnceInv' /\ AllInv'
  <2>1. Counts /\ troubles' # 0
    BY <1>1, <1>5, TroubleMeans
  <2> QED
    BY <1>1, <1>2, <1>5, <2>1, Showing
<1> QED
  BY <1>1, <1>3, <1>4, <1>5

LEMMA ListOther ==
  ASSUME ListTypes, OnceInv, AllInv, L!Other
  PROVE  ListTypes' /\ OnceInv' /\ AllInv'
<1>1. /\ UNCHANGED <<recursive, arg, key, pc, listing, status, hidden>>
      /\ UNCHANGED <<troubles, kind, more, lastKey, todo, printed, twice>>
  BY DEF L!Other, L!command, L!exec, L!output
<1>2. PICK i \in LL!Ids : L!Put(i) \/ L!TakeAway(i)
  BY ListsOperators DEF L!Other
<1>3. /\ objects' \subseteq LL!Ids /\ old' \subseteq old
      /\ objects' \cap old' \subseteq objects \cap old
      /\ changes' \in Nat /\ troubles' + changes' <= MaxEvents
  <2>1. MaxEvents \in Nat
    BY ListAssumption DEF L!CommandAssumption
  <2> QED
    BY <1>1, <1>2, <2>1 DEF L!Put, L!TakeAway, L!Bounded, ListTypes
<1>4. (Visible' <=> Visible) /\ (Once' <=> Once)
  BY <1>1, FlagsStay
<1>5. /\ InsideOut(todo)' <=> InsideOut(todo)
      /\ Apart(todo, printed)' <=> Apart(todo, printed)
      /\ Apart(todo, {})' <=> Apart(todo, {})
      /\ \A j : SoughtIn(todo, j)' <=> SoughtIn(todo, j)
  BY <1>1 DEF InsideOut, Apart, SoughtIn, RegionOf, Separate, IsNew
<1>6. ListTypes'
  <2>1. L!IsLs' <=> L!IsLs
    BY <1>1 DEF L!IsLs
  <2> QED
    BY <1>1, <1>3, <1>5, <2>1 DEF ListTypes
<1>7. OnceInv'
  BY <1>1, <1>4, <1>5 DEF OnceInv, Counting
<1>8. AllInv'
  <2>1. Missed' \subseteq Missed
    BY <1>1, <1>3, MissedStays
  <2>2. Faithful' => Faithful
    BY <1>1, <1>4 DEF Faithful
  <2> QED
    BY <1>1, <1>5, <2>1, <2>2 DEF AllInv
<1> QED
  BY <1>6, <1>7, <1>8

LEMMA ListNext ==
  ASSUME ListInv, [Next]_vars
  PROVE  ListInv'
<1>1. UNCHANGED cmdName
  BY StepMeans
<1>2. CASE ~Lists
  BY <1>1, <1>2 DEF Lists, ListInv
<1>3. CASE Lists /\ UNCHANGED commands
  <2>1. /\ UNCHANGED <<objects, recursive, arg, key, pc, listing, status, old, hidden>>
        /\ UNCHANGED <<troubles, changes, kind, lastKey, todo, printed, twice>>
    BY <1>3, CommandsMeans
  <2>2. (Visible' <=> Visible) /\ (Once' <=> Once)
    BY <2>1, FlagsStay
  <2>3. /\ InsideOut(todo)' <=> InsideOut(todo)
        /\ Apart(todo, printed)' <=> Apart(todo, printed)
        /\ Apart(todo, {})' <=> Apart(todo, {})
        /\ \A j : SoughtIn(todo, j)' <=> SoughtIn(todo, j)
        /\ L!IsLs' <=> L!IsLs
    BY <2>1 DEF InsideOut, Apart, SoughtIn, RegionOf, Separate, IsNew, L!IsLs
  <2>4. ListTypes'
    BY <1>3, <2>1, <2>3 DEF ListInv, ListTypes
  <2>5. OnceInv'
    BY <1>3, <2>1, <2>2, <2>3 DEF ListInv, OnceInv, Counting
  <2>6. AllInv'
    <3>1. Missed' \subseteq Missed
      BY <2>1, MissedStays
    <3>2. Faithful' => Faithful
      BY <2>1, <2>2 DEF Faithful
    <3> QED
      BY <1>3, <2>1, <2>3, <3>1, <3>2 DEF ListInv, AllInv
  <2> QED
    BY <2>4, <2>5, <2>6 DEF ListInv
<1>4. CASE Lists /\ (RunCommand \/ Other)
  <2>1. ~Gets /\ ~Puts /\ ~Calls /\ cmdName # "help"
    BY <1>4 DEF Gets, Lists, Puts, Calls
  <2>2. L!Step \/ L!Other
    BY <1>4, <2>1, Zenon DEF RunCommand, Other
  <2>3. ListTypes /\ OnceInv /\ AllInv
    BY <1>4 DEF ListInv
  <2>4. ListTypes' /\ OnceInv' /\ AllInv'
    BY <2>2, <2>3, ListNextArgument, ListExec, ListExists, ListList, ListOther DEF L!Step
  <2> QED
    BY <2>4 DEF ListInv
<1> QED
  BY <1>2, <1>3, <1>4, StepMeans

LEMMA ListInit ==
  ASSUME Init
  PROVE  ListInv
<1> SUFFICES ASSUME Lists PROVE ListTypes /\ OnceInv /\ AllInv
  BY DEF ListInv
<1>1. ~Gets /\ ~Puts /\ ~Calls /\ cmdName \notin {"help", "unknown"}
  BY Zenon DEF Gets, Lists, Puts, Calls
<1>2. L!Init
  BY <1>1, Zenon DEF Init
<1>3. /\ kind \in {"text", "table", "uploads", "exist"} /\ pc = "exec"
      /\ todo = <<>> /\ printed = {}
      /\ objects \in SUBSET L!Ids
      /\ arg \in ListArgs /\ key = arg /\ lastKey = arg /\ listing = L!NoListing
      /\ status = "running" /\ old = objects /\ troubles = 0 /\ changes = 0
  BY <1>2 DEF L!Init, L!InitCommand
<1>4. twice = FALSE
  BY <1>2 DEF L!Init
<1>5. Once
  BY <1>4, Zenon DEF Once
<1>6. arg \in Seq(STRING) /\ MaxEvents \in Nat
  BY <1>3, ListAssumption DEF L!CommandAssumption
<1>7. InsideOut(todo)
  BY <1>3 DEF InsideOut
<1>8. ListTypes
  BY <1>3, <1>6, <1>7, ListsOperators DEF ListTypes
<1>9. OnceInv
  BY <1>3, <1>5 DEF OnceInv, Counting
<1>10. AllInv
  BY <1>3 DEF AllInv
<1> QED
  BY <1>8, <1>9, <1>10

LEMMA ListAlways == Spec => []ListInv
<1>1. Init => ListInv
  BY ListInit
<1>2. ListInv /\ [Next]_vars => ListInv'
  BY ListNext
<1> QED
  BY <1>1, <1>2, PTL DEF Spec

(***************************************************************************)
(* When the listing of an argument returns, everything that it named all   *)
(* along has its line, or a directory around it has one: over pages,       *)
(* directories in directories and changes of other clients, for any order  *)
(* of the names and any size of the pages.                                 *)
(***************************************************************************)
THEOREM AllIsListed == Spec => []Listed
<1>1. ListInv => Listed
  <2> SUFFICES ASSUME ListInv, Lists,
                      pc = "next", kind # "exist", ~hidden, troubles = 0, lastKey = arg,
                      NEW i \in objects \cap old, L!Asked(i)
               PROVE  \/ L!ObjectLine(i) \in printed
                      \/ ~recursive /\ \E line \in printed :
                                         line.id = 0 /\ L!HasPrefix(ListNames[i], line.key)
                      \/ ~recursive /\ \E n \in DOMAIN ListNames[i] :
                           ListNames[i][n] = "/" /\ ~L!HasLine(SubSeq(ListNames[i], 1, n))
    BY Zenon DEF Listed, L!ListsAll
  <2>1. Visible
    BY Zenon DEF Visible
  <2>2. Told(i)
    BY <2>1 DEF ListInv, AllInv, Faithful, Missed
  <2> QED
    BY <2>2, ListsOperators, Zenon DEF Told, Deep
<1> QED
  BY <1>1, ListAlways, PTL

(***************************************************************************)
(* No line is printed again: what is still to be asked for is apart from   *)
(* what has been printed, whatever other clients change meanwhile.         *)
(***************************************************************************)
THEOREM ListedOnlyOnce == Spec => []ListedOnce
<1>1. ListInv => ListedOnce
  <2> SUFFICES ASSUME ListInv, Lists, troubles = 0,
                      ~(kind = "table" /\ L!StartsWith(lastKey, "/"))
               PROVE  ~twice
    BY Zenon DEF ListedOnce, L!ListsOnce
  <2>1. Once
    BY ListsOperators DEF ListInv, OnceInv, Counting
  <2> QED
    BY <2>1, Zenon DEF Once
<1> QED
  BY <1>1, ListAlways, PTL
-----------------------------------------------------------------------------
(***************************************************************************)
(* put: the lemmas on keys hold of its names.                              *)
(***************************************************************************)
PL == INSTANCE ListingProofs WITH Names <- PutNames

LEMMA PutsAssumed == PL!ListingAssumption /\ PL!OrderAssumption
<1>1. PL!ListingAssumption
  BY PutAssumption DEF P!ListingAssumption, PL!ListingAssumption
<1>2. P!OrderAssumption
  BY PutAssumption
<1>3. PL!OrderAssumption
  BY <1>2, Zenon
     DEF P!OrderAssumption, PL!OrderAssumption, P!Ids, PL!Ids,
         P!HasPrefix, PL!HasPrefix, P!IsPrefix, PL!IsPrefix
<1> QED
  BY <1>1, <1>3

LEMMA PutsOperators ==
  /\ \A k, t : P!EndsWith(k, t) = PL!EndsWith(k, t)
  /\ \A k, t : P!TrimLeft(k, t) = PL!TrimLeft(k, t)
  /\ \A k, t : P!TrimRight(k, t) = PL!TrimRight(k, t)
  /\ \A k, p : P!HasPrefix(k, p) = PL!HasPrefix(k, p)
  /\ \A p : P!Base(p) = PL!Base(p)
<1>1. \A k, t : P!EndsWith(k, t) = PL!EndsWith(k, t)
  BY Zenon DEF P!EndsWith, PL!EndsWith
<1>2. \A k, t : P!TrimLeft(k, t) = PL!TrimLeft(k, t)
  BY Zenon DEF P!TrimLeft, PL!TrimLeft, P!Min, PL!Min
<1>3. \A k, t : P!TrimRight(k, t) = PL!TrimRight(k, t)
  BY Zenon DEF P!TrimRight, PL!TrimRight, P!Max, PL!Max
<1>4. \A k, p : P!HasPrefix(k, p) = PL!HasPrefix(k, p)
  BY Zenon DEF P!HasPrefix, PL!HasPrefix, P!IsPrefix, PL!IsPrefix
<1>5. \A p : P!Base(p) = PL!Base(p)
  <2>1. \A S : P!Max(S) = PL!Max(S)
    BY Zenon DEF P!Max, PL!Max
  <2> QED
    BY <1>3, <2>1 DEF P!Base, PL!Base
<1> QED
  BY <1>1, <1>2, <1>3, <1>4, <1>5

(* What is proved of filepath.Base, for put.                               *)
LEMMA PutsBase ==
  /\ \A p \in Seq(Tokens) : P!Base(p) \in Seq(Tokens)
  /\ \A p \in Seq(Tokens) : p # <<>> /\ ~P!EndsWith(p, "/") =>
       /\ P!Base(p) # <<>> /\ ~P!EndsWith(P!Base(p), "/")
       /\ P!Base(P!Base(p)) = P!Base(p)
  /\ \A u, w \in Seq(Tokens) :
       /\ w # <<>> /\ ~P!EndsWith(w, "/")
       /\ u = <<>> \/ P!EndsWith(u, "/")
       => P!Base(u \o w) = P!Base(w)
<1>0. Tokens = PL!Tokens
  BY DEF Tokens, PL!Tokens
<1>1. \A p \in Seq(Tokens) : P!Base(p) \in Seq(Tokens)
  BY <1>0, PutsAssumed, PutsOperators, PL!BaseIsPart
<1>2. ASSUME NEW p \in Seq(Tokens), p # <<>>, ~P!EndsWith(p, "/")
      PROVE  /\ P!Base(p) # <<>> /\ ~P!EndsWith(P!Base(p), "/")
             /\ P!Base(P!Base(p)) = P!Base(p)
  BY <1>0, <1>2, PutsAssumed, PutsOperators, PL!BaseIsEnd
<1>3. ASSUME NEW u \in Seq(Tokens), NEW w \in Seq(Tokens), w # <<>>, ~P!EndsWith(w, "/"),
             u = <<>> \/ P!EndsWith(u, "/")
      PROVE  P!Base(u \o w) = P!Base(w)
  BY <1>0, <1>3, PutsAssumed, PutsOperators, PL!BaseOfEnd
<1> QED
  BY <1>1, <1>2, <1>3

(* The tail of a path below a directory.                                   *)
LEMMA PutsRest ==
  ASSUME NEW root \in Seq(STRING), NEW k \in Seq(STRING), ~P!EndsWith(k, "/"),
         P!HasPrefix(k, Append(P!TrimRight(root, "/"), "/"))
  PROVE  LET rest == P!TrimLeft(SubSeq(k, Len(P!TrimRight(root, "/")) + 1, Len(k)), "/")
         IN  /\ rest \in Seq(Tokens) /\ rest # <<>> /\ ~P!EndsWith(rest, "/")
             /\ P!Base(rest) = P!Base(k)
<1> DEFINE clean == PL!TrimRight(root, "/")
           dir == Append(clean, "/")
<1>1. STRING \subseteq Tokens /\ "/" \in Tokens /\ Tokens = PL!Tokens
  BY DEF Tokens, PL!Tokens
<1>2. root \in Seq(Tokens) /\ k \in Seq(Tokens)
  BY <1>1, SeqMonotonic
<1>3. clean \in Seq(Tokens)
  <2>1. PICK m \in 0 .. Len(root) : clean = SubSeq(root, 1, m)
    BY <1>2, PutsAssumed, PL!TrimRightMeans
  <2>2. Len(root) \in Nat /\ \A i \in 1 .. m : root[i] \in Tokens
    BY <1>2, <2>1, ElementOfSeq, LenProperties
  <2> QED
    BY <2>1, <2>2, SubSeqProperties
<1>4. P!TrimRight(root, "/") = clean /\ P!HasPrefix(k, dir) = PL!HasPrefix(k, dir)
  BY PutsOperators
<1> HIDE DEF clean
<1>5. /\ dir \in Seq(Tokens) /\ Len(dir) = Len(clean) + 1 /\ dir[Len(clean) + 1] = "/"
      /\ Len(clean) \in Nat
  BY <1>1, <1>3, AppendProperties, LenProperties
<1>6. PL!HasPrefix(k, dir)
  BY <1>4
<1> HIDE DEF dir
<1>7. Len(dir) <= Len(k) /\ \A n \in 1 .. Len(dir) : k[n] = dir[n]
  BY <1>2, <1>5, <1>6, PutsAssumed, PL!PrefixMeans
<1>8. Len(clean) + 1 <= Len(k) /\ k[Len(clean) + 1] = "/"
  BY <1>5, <1>7
<1>9. ~PL!EndsWith(k, "/")
  BY PutsOperators
<1> DEFINE tail == SubSeq(k, Len(clean) + 1, Len(k))
           rest == PL!TrimLeft(tail, "/")
<1>10. /\ rest \in Seq(Tokens) /\ rest # <<>> /\ ~PL!EndsWith(rest, "/")
       /\ PL!Base(rest) = PL!Base(k)
  BY <1>1, <1>2, <1>5, <1>8, <1>9, PutsAssumed, PL!RestMeans
<1>11. P!TrimLeft(tail, "/") = rest
  BY PutsOperators
<1> HIDE DEF rest, tail
<1>12. ~P!EndsWith(rest, "/") /\ P!Base(rest) = P!Base(k)
  BY <1>10, PutsOperators
<1> QED
  BY <1>4, <1>10, <1>11, <1>12 DEF tail

-----------------------------------------------------------------------------
(***************************************************************************)
(* put.  A file is in the bucket, or another one that has its name.        *)
(***************************************************************************)
InBucket(i) ==
  \/ \E e \in stored : e.id = i
  \/ \E j \in P!Given \ {i} : P!Base(PutNames[j]) = P!Base(PutNames[i])

(* What is stored is some given file, at the key that it got.              *)
IsStored(e) ==
  \E m \in DOMAIN given : e.id \in P!FilesOf(given[m]) /\ e.key = P!KeyOf(given[m], e.id)

Named == key = <<>> \/ P!EndsWith(key, "/")

(* The loop over the arguments, when n of them are done.                   *)
PutsUpTo(n) ==
  /\ n \in Nat /\ Len(given) = n + Len(roots)
  /\ \A m \in DOMAIN roots : roots[m] = given[n + m]
  /\ Visible => \A m \in 1 .. n : \A i \in P!FilesOf(given[m]) : InBucket(i)

(* What every step of put leaves: its arguments, and an end that is an end.*)
PutTypes ==
  /\ given \in Seq(Seq(STRING)) /\ roots \in Seq(Seq(STRING))
  /\ pc \in {"start", "next", "walk", "done"}
  /\ status \in {"running", "ok", "error", "panic"}
  /\ pc = "done" <=> status # "running"
  /\ walk \subseteq P!Ids
  /\ \A e, f \in stored : e.key = f.key => e = f

InLoop ==
  /\ key \in Seq(Tokens)
  /\ Named \/ Len(given) <= 1
  /\ \A e \in stored : IsStored(e)
  /\ \E n \in 0 .. Len(given) : PutsUpTo(n)

Walking ==
  /\ roots # <<>> /\ walk \subseteq P!FilesOf(roots[1])
  /\ Visible => \A i \in P!FilesOf(roots[1]) \ walk : InBucket(i)

PutInv ==
  Puts =>
    /\ PutTypes
    /\ pc = "start" => roots = given /\ stored = {} /\ key \in Seq(STRING)
    /\ pc \in {"next", "walk"} => InLoop
    /\ pc = "walk" => Walking
    /\ P!PutsAll

LEMMA PathMeans ==
  ASSUME NEW i \in P!Ids
  PROVE  /\ PutNames[i] \in Seq(STRING) /\ PutNames[i] \in Seq(Tokens)
         /\ PutNames[i] # <<>> /\ ~P!EndsWith(PutNames[i], "/")
<1>1. PutNames \in Seq(Seq(STRING)) /\ PutNames[i] # <<>> /\ ~P!EndsWith(PutNames[i], "/")
  BY PutAssumption DEF P!ListingAssumption
<1>2. PutNames[i] \in Seq(STRING)
  BY <1>1, ElementOfSeq DEF P!Ids
<1>3. STRING \subseteq Tokens
  BY DEF Tokens
<1> QED
  BY <1>1, <1>2, <1>3, SeqMonotonic

(* What a key tells of the file: the name, but for the file that gets the  *)
(* very key of the command line.                                           *)
LEMMA KeyOfMeans ==
  ASSUME key \in Seq(Tokens), NEW root \in Seq(STRING), NEW i \in P!FilesOf(root)
  PROVE  /\ Named \/ PutNames[i] # root =>
              P!Base(P!KeyOf(root, i)) = P!Base(PutNames[i])
         /\ ~Named /\ PutNames[i] = root => P!KeyOf(root, i) = key
         /\ ~Named /\ PutNames[i] # root => P!KeyOf(root, i) # key
<1> DEFINE k == PutNames[i]
           b == P!Base(root)
<1>1. /\ k \in Seq(STRING) /\ k \in Seq(Tokens) /\ k # <<>> /\ ~P!EndsWith(k, "/")
      /\ k = root \/ P!HasPrefix(k, Append(P!TrimRight(root, "/"), "/"))
  BY PathMeans DEF P!FilesOf, P!IsIn
<1>2. b \in Seq(Tokens)
  <2>1. STRING \subseteq Tokens
    BY DEF Tokens
  <2> QED
    BY <2>1, PutsBase, SeqMonotonic
<1>3. CASE k = root
  <2>1. P!KeyOf(root, i) = key \o (IF Named THEN b ELSE <<>>)
    BY <1>3 DEF P!KeyOf, Named
  <2>2. CASE Named
    <3>1. b # <<>> /\ ~P!EndsWith(b, "/") /\ P!Base(b) = b
      BY <1>1, <1>3, PutsBase
    <3>2. P!Base(key \o b) = P!Base(b)
      BY <1>2, <2>2, <3>1, PutsBase DEF Named
    <3> QED
      BY <1>3, <2>1, <2>2, <3>1, <3>2
  <2>3. CASE ~Named
    <3>1. key \o <<>> = key
      BY ConcatEmptySeq
    <3> QED
      BY <1>3, <2>1, <2>3, <3>1
  <2> QED
    BY <2>2, <2>3
<1>4. CASE k # root
  <2> DEFINE rest == P!TrimLeft(SubSeq(k, Len(P!TrimRight(root, "/")) + 1, Len(k)), "/")
             start == key \o (IF Named THEN b ELSE <<>>)
             u == start \o <<"/">>
  <2>1. P!KeyOf(root, i) = u \o rest
    BY <1>4 DEF P!KeyOf, Named
  <2>2. /\ rest \in Seq(Tokens) /\ rest # <<>> /\ ~P!EndsWith(rest, "/")
        /\ P!Base(rest) = P!Base(k)
    BY <1>1, <1>4, PutsRest
  <2> HIDE DEF rest
  <2>3. start \in Seq(Tokens) /\ Len(start) >= Len(key) /\ Len(start) \in Nat /\ Len(key) \in Nat
    <3>1. <<>> \in Seq(Tokens) /\ Len(<<>>) = 0
      BY EmptySeq
    <3> QED
      BY <1>2, <3>1, ConcatProperties, LenProperties
  <2> HIDE DEF start
  <2>4. /\ <<"/">> \in Seq(Tokens) /\ Len(<<"/">>) = 1 /\ <<"/">>[1] = "/"
    BY DEF Tokens
  <2>5. u \in Seq(Tokens) /\ Len(u) = Len(start) + 1 /\ u[Len(start) + 1] = "/"
    BY <2>3, <2>4, ConcatProperties
  <2> HIDE DEF u
  <2>6. P!EndsWith(u, "/")
    BY <2>3, <2>5, EmptySeq DEF P!EndsWith
  <2>7. P!Base(u \o rest) = P!Base(rest)
    BY <2>2, <2>5, <2>6, PutsBase
  <2>8. Len(u \o rest) = Len(u) + Len(rest) /\ Len(rest) \in Nat
    BY <2>2, <2>5, ConcatProperties, LenProperties
  <2>9. u \o rest # key
    BY <2>3, <2>5, <2>8
  <2> QED
    BY <1>4, <2>1, <2>2, <2>7, <2>9
<1> QED
  BY <1>3, <1>4

(* Files that have one key have one name.                                  *)
LEMMA KeysApart ==
  ASSUME key \in Seq(Tokens), NEW r \in Seq(STRING), NEW s \in Seq(STRING),
         Named \/ r = s, NEW i \in P!FilesOf(r), NEW j \in P!FilesOf(s),
         P!KeyOf(r, i) = P!KeyOf(s, j)
  PROVE  P!Base(PutNames[i]) = P!Base(PutNames[j])
<1>1. CASE Named
  BY <1>1, KeyOfMeans
<1>2. CASE ~Named /\ PutNames[i] = r
  <2>1. P!KeyOf(s, j) = key
    BY <1>2, KeyOfMeans
  <2>2. PutNames[j] = s
    BY <1>2, <2>1, KeyOfMeans
  <2> QED
    BY <1>2, <2>2
<1>3. CASE ~Named /\ PutNames[i] # r
  <2>1. P!KeyOf(r, i) # key
    BY <1>3, KeyOfMeans
  <2>2. PutNames[j] # s
    BY <1>3, <2>1, KeyOfMeans
  <2> QED
    BY <1>3, <2>2, KeyOfMeans
<1> QED
  BY <1>1, <1>2, <1>3

(* A file that is stored takes the place of none but one of its name.      *)
LEMMA StoreKeeps ==
  ASSUME key \in Seq(Tokens), given \in Seq(Seq(STRING)), Named \/ Len(given) <= 1,
         \A e \in stored : IsStored(e),
         NEW m \in DOMAIN given, NEW i \in P!FilesOf(given[m]),
         P!Store(P!KeyOf(given[m], i), i), UNCHANGED <<given, key>>
  PROVE  /\ \A e \in stored' : IsStored(e)'
         /\ InBucket(i)'
         /\ \A j : InBucket(j) => InBucket(j)'
<1>1. PICK new :
        /\ new = [key |-> P!KeyOf(given[m], i), id |-> i]
        /\ stored' = {e \in stored : e.key # P!KeyOf(given[m], i)} \cup {new}
  BY DEF P!Store
<1>2. \A r, j : P!KeyOf(r, j)' = P!KeyOf(r, j)
  BY DEF P!KeyOf
<1>3. \A n \in DOMAIN given : given[n] \in Seq(STRING) /\ P!FilesOf(given[n]) \subseteq P!Given
  BY ElementOfSeq DEF P!Given
<1>4. \A e \in stored' : IsStored(e)'
  <2>1. ASSUME NEW e \in stored PROVE IsStored(e)'
    BY <1>2, <2>1 DEF IsStored
  <2>2. IsStored(new)'
    <3>1. new.id = i /\ new.key = P!KeyOf(given[m], i)'
      BY <1>1, <1>2
    <3> QED
      BY <3>1 DEF IsStored
  <2> QED
    BY <1>1, <2>1, <2>2
<1>5. InBucket(i)'
  <2>1. new \in stored' /\ new.id = i
    BY <1>1
  <2> QED
    BY <2>1 DEF InBucket
<1>6. P!Given' = P!Given
  BY DEF P!Given
<1>7. ASSUME NEW j, InBucket(j) PROVE InBucket(j)'
  <2>1. CASE \E k \in P!Given \ {j} : P!Base(PutNames[k]) = P!Base(PutNames[j])
    BY <1>6, <2>1 DEF InBucket
  <2>2. ASSUME NEW e \in stored, e.id = j PROVE InBucket(j)'
    <3>1. CASE e.key # P!KeyOf(given[m], i)
      BY <1>1, <2>2, <3>1 DEF InBucket
    <3>2. CASE e.key = P!KeyOf(given[m], i)
      <4>1. PICK n \in DOMAIN given : j \in P!FilesOf(given[n]) /\ e.key = P!KeyOf(given[n], j)
        BY <2>2 DEF IsStored
      <4>2. Named \/ given[n] = given[m]
        <5>1. DOMAIN given = 1 .. Len(given) /\ Len(given) \in Nat
          BY LenProperties
        <5>2. CASE Len(given) <= 1
          <6>1. n = 1 /\ m = 1
            BY <5>1, <5>2
          <6> QED BY <6>1
        <5> QED
          BY <5>2
      <4>3. P!Base(PutNames[i]) = P!Base(PutNames[j])
        <5>1. P!KeyOf(given[m], i) = P!KeyOf(given[n], j)
          BY <3>2, <4>1
        <5>2. given[m] \in Seq(STRING) /\ given[n] \in Seq(STRING)
          BY <1>3
        <5> QED
          BY <4>1, <4>2, <5>1, <5>2, KeysApart
      <4>4. CASE j = i
        BY <1>5, <4>4
      <4>5. CASE j # i
        <5>1. i \in P!Given \ {j}
          BY <1>3, <4>5
        <5> QED
          BY <1>6, <4>3, <5>1 DEF InBucket
      <4> QED
        BY <4>4, <4>5
    <3> QED
      BY <3>1, <3>2
  <2> QED
    BY <1>7, <2>1, <2>2 DEF InBucket
<1> QED
  BY <1>4, <1>5, <1>7

LEMMA StoreIsOne ==
  ASSUME \A e, f \in stored : e.key = f.key => e = f,
         NEW k, NEW i, P!Store(k, i)
  PROVE  \A e, f \in stored' : e.key = f.key => e = f
BY DEF P!Store

LEMMA PutEnds ==
  ASSUME PutTypes, NEW s \in {"error", "panic"}, P!Ends(s), UNCHANGED given,
         walk' \subseteq P!Ids,
         \A e, f \in stored' : e.key = f.key => e = f
  PROVE  PutInv'
<1>1. pc' = "done" /\ status' = s /\ UNCHANGED roots
  BY DEF P!Ends, P!running
<1>2. P!PutsAll'
  BY <1>1 DEF P!PutsAll
<1> QED
  BY <1>1, <1>2 DEF PutTypes, PutInv

LEMMA SameBucket ==
  ASSUME UNCHANGED <<given, stored, key>>
  PROVE  /\ \A j : InBucket(j)' <=> InBucket(j)
         /\ \A e : IsStored(e)' <=> IsStored(e)
         /\ Named' <=> Named
<1>1. P!Given' = P!Given /\ \A r, j : P!KeyOf(r, j)' = P!KeyOf(r, j)
  BY DEF P!Given, P!KeyOf
<1>2. \A j : InBucket(j)' <=> InBucket(j)
  BY <1>1 DEF InBucket
<1>3. \A e : IsStored(e)' <=> IsStored(e)
  BY <1>1 DEF IsStored
<1>4. Named' <=> Named
  BY DEF Named
<1> QED
  BY <1>2, <1>3, <1>4

LEMMA PutBegin ==
  ASSUME Puts, PutInv, P!Begin
  PROVE  PutInv'
<1>1. /\ PutTypes /\ pc = "start" /\ status = "running" /\ roots = given /\ stored = {}
      /\ key \in Seq(STRING) /\ UNCHANGED <<given, stdin>>
      /\ Len(given) \in Nat
  BY LenProperties DEF PutInv, PutTypes, P!Begin
<1>2. CASE P!Ends("error") /\ UNCHANGED stored
  <2>1. walk' \subseteq P!Ids /\ \A e, f \in stored' : e.key = f.key => e = f
    BY <1>1, <1>2 DEF P!Ends, PutTypes
  <2> QED
    BY <1>1, <1>2, <2>1, PutEnds
<1>3. CASE P!Ends("ok") /\ stdin = "data" /\ P!Store(key, 0)
  <2>1. pc' = "done" /\ status' = "ok" /\ stdin' = "data" /\ UNCHANGED <<roots, walk>>
    BY <1>1, <1>3 DEF P!Ends
  <2>2. \A e, f \in stored' : e.key = f.key => e = f
    BY <1>1, <1>3, StoreIsOne DEF PutTypes
  <2>3. P!PutsAll'
    BY <2>1 DEF P!PutsAll
  <2> QED
    BY <1>1, <2>1, <2>2, <2>3 DEF PutInv, PutTypes
<1>4. CASE P!Ends("ok") /\ roots = <<>> /\ UNCHANGED stored
  <2>1. pc' = "done" /\ status' = "ok" /\ UNCHANGED <<roots, walk>>
    BY <1>4 DEF P!Ends
  <2>2. P!Given' = {}
    BY <1>1, <1>4 DEF P!Given
  <2>3. P!PutsAll'
    BY <2>2 DEF P!PutsAll
  <2> QED
    BY <1>1, <1>4, <2>1, <2>3 DEF PutInv, PutTypes
<1>5. CASE key' = P!Directory /\ pc' = "next" /\ UNCHANGED <<roots, walk, stored, status, hidden>>
  <2>1. key' \in Seq(Tokens) /\ (Named' \/ Len(given) <= 1)
    <3>1. key \in Seq(Tokens) /\ "/" \in Tokens
      <4>1. STRING \subseteq Tokens
        BY DEF Tokens
      <4> QED
        BY <1>1, <4>1, SeqMonotonic DEF Tokens
    <3>2. CASE Len(roots) > 1 /\ key # <<>> /\ ~P!EndsWith(key, "/")
      <4>1. key' = Append(key, "/")
        BY <1>5, <3>2 DEF P!Directory
      <4>2. /\ Append(key, "/") \in Seq(Tokens) /\ Append(key, "/") # <<>>
            /\ Len(Append(key, "/")) = Len(key) + 1
            /\ Append(key, "/")[Len(key) + 1] = "/"
        BY <3>1, AppendProperties
      <4>3. P!EndsWith(key', "/")
        BY <4>1, <4>2 DEF P!EndsWith
      <4> QED
        BY <4>1, <4>2, <4>3 DEF Named
    <3>3. CASE ~(Len(roots) > 1 /\ key # <<>> /\ ~P!EndsWith(key, "/"))
      <4>1. key' = key
        BY <1>5, <3>3 DEF P!Directory
      <4>2. Named \/ Len(given) <= 1
        BY <1>1, <3>3 DEF Named
      <4>3. Named => Named'
        BY <4>1 DEF Named
      <4> QED
        BY <3>1, <4>1, <4>2, <4>3
    <3> QED
      BY <3>2, <3>3
  <2>2. PutsUpTo(0)'
    BY <1>1, <1>5 DEF PutsUpTo
  <2>3. InLoop'
    BY <1>1, <1>5, <2>1, <2>2 DEF InLoop
  <2>4. P!PutsAll'
    BY <1>1, <1>5 DEF P!PutsAll
  <2> QED
    BY <1>1, <1>5, <2>3, <2>4 DEF PutInv, PutTypes
<1> QED
  BY <1>1, <1>2, <1>3, <1>4, <1>5 DEF P!Begin

LEMMA PutNextRoot ==
  ASSUME Puts, PutInv, P!NextRoot
  PROVE  PutInv'
<1>1. /\ PutTypes /\ InLoop /\ pc = "next" /\ status = "running"
      /\ UNCHANGED <<given, stored, stdin>>
      /\ Len(given) \in Nat /\ Len(roots) \in Nat
  BY LenProperties DEF PutInv, PutTypes, P!NextRoot
<1>2. CASE P!Ends("error")
  <2>1. walk' \subseteq P!Ids /\ \A e, f \in stored' : e.key = f.key => e = f
    BY <1>1, <1>2 DEF P!Ends, PutTypes
  <2> QED
    BY <1>1, <1>2, <2>1, PutEnds
<1>3. CASE roots = <<>> /\ P!Ends("ok")
  <2>1. pc' = "done" /\ status' = "ok" /\ UNCHANGED <<roots, walk, key, hidden>>
    BY <1>3 DEF P!Ends
  <2>2. PICK n \in 0 .. Len(given) : PutsUpTo(n)
    BY <1>1 DEF InLoop
  <2>3. n = Len(given)
    BY <1>1, <1>3, <2>2, EmptySeq DEF PutsUpTo
  <2>4. Visible => \A i \in P!Given : InBucket(i)
    BY <1>1, <2>2, <2>3, LenProperties DEF PutsUpTo, PutTypes, P!Given
  <2>5. P!PutsAll'
    <3>1. P!Given' = P!Given
      BY <1>1 DEF P!Given
    <3>2. ~hidden' => Visible
      BY <2>1, Zenon DEF Visible
    <3>3. ASSUME ~hidden', NEW i \in P!Given
          PROVE  \/ \E e \in stored' : e.id = i
                 \/ \E j \in P!Given' \ {i} : P!Base(PutNames[j]) = P!Base(PutNames[i])
      BY <1>1, <2>4, <3>1, <3>2, <3>3 DEF InBucket
    <3> QED
      BY <3>1, <3>3, Zenon DEF P!PutsAll
  <2> QED
    BY <1>1, <2>1, <2>5 DEF PutInv, PutTypes
<1>4. CASE /\ roots # <<>> /\ walk' = P!FilesOf(roots[1]) /\ pc' = "walk"
           /\ UNCHANGED <<roots, key, status, hidden>>
  <2>1. walk' \subseteq P!Ids
    BY <1>4 DEF P!FilesOf
  <2>2. Visible' <=> Visible
    BY <1>4, Zenon DEF Visible
  <2>3. InLoop'
    <3>1. ASSUME NEW n, PutsUpTo(n) PROVE PutsUpTo(n)'
      BY <1>1, <1>4, <2>2, <3>1, SameBucket DEF PutsUpTo
    <3>2. (Named \/ Len(given) <= 1)'
      BY <1>1, <1>4, SameBucket DEF InLoop
    <3>3. \A e \in stored' : IsStored(e)'
      BY <1>1, <1>4, SameBucket DEF InLoop
    <3> QED
      BY <1>1, <1>4, <3>1, <3>2, <3>3 DEF InLoop
  <2>4. Walking'
    BY <1>4 DEF Walking
  <2>5. P!PutsAll'
    BY <1>1, <1>4 DEF P!PutsAll
  <2> QED
    BY <1>1, <1>4, <2>1, <2>3, <2>4, <2>5 DEF PutInv, PutTypes
<1> QED
  BY <1>1, <1>2, <1>3, <1>4 DEF P!NextRoot

LEMMA PutPutFile ==
  ASSUME Puts, PutInv, NEW i \in P!Ids, P!PutFile(i)
  PROVE  PutInv'
<1>1. /\ PutTypes /\ InLoop /\ Walking /\ pc = "walk" /\ status = "running"
      /\ UNCHANGED <<given, stdin>> /\ i \in walk
      /\ Len(given) \in Nat /\ Len(roots) \in Nat
  BY LenProperties DEF PutInv, PutTypes, P!PutFile, P!FirstOf
<1>2. PICK n \in 0 .. Len(given) : PutsUpTo(n)
  BY <1>1 DEF InLoop
<1>3. n + 1 \in DOMAIN given /\ roots[1] = given[n + 1] /\ i \in P!FilesOf(given[n + 1])
  <2>1. Len(roots) >= 1 /\ DOMAIN roots = 1 .. Len(roots) /\ DOMAIN given = 1 .. Len(given)
    BY <1>1, EmptySeq, LenProperties DEF Walking, PutTypes
  <2> QED
    BY <1>1, <1>2, <2>1 DEF PutsUpTo, Walking
<1>4. CASE /\ P!Store(P!Target(i), i)
           /\ \/ P!Ends("error")
              \/ walk' = walk \ {i} /\ UNCHANGED <<roots, key, pc, status, hidden>>
  <2>1. \A e, f \in stored' : e.key = f.key => e = f
    BY <1>1, <1>4, StoreIsOne DEF PutTypes
  <2>2. CASE P!Ends("error")
    <3>1. walk' \subseteq P!Ids
      BY <1>1, <2>2 DEF P!Ends, PutTypes
    <3> QED
      BY <1>1, <2>1, <2>2, <3>1, PutEnds
  <2>3. CASE walk' = walk \ {i} /\ UNCHANGED <<roots, key, pc, status, hidden>>
    <3>1. P!Store(P!KeyOf(given[n + 1], i), i)
      BY <1>3, <1>4 DEF P!Target
    <3>2. /\ \A e \in stored' : IsStored(e)'
          /\ InBucket(i)'
          /\ \A j : InBucket(j) => InBucket(j)'
      BY <1>1, <1>3, <2>3, <3>1, StoreKeeps DEF InLoop, PutTypes
    <3>3. (Visible' <=> Visible) /\ (Named' <=> Named)
      BY <2>3, Zenon DEF Visible, Named
    <3>4. PutsUpTo(n)'
      BY <1>1, <1>2, <2>3, <3>2, <3>3 DEF PutsUpTo
    <3>5. InLoop'
      BY <1>1, <2>3, <3>2, <3>3, <3>4 DEF InLoop
    <3>6. Walking'
      BY <1>1, <2>3, <3>2, <3>3 DEF Walking
    <3>7. P!PutsAll'
      BY <1>1, <2>3 DEF P!PutsAll
    <3> QED
      BY <1>1, <2>1, <2>3, <3>5, <3>6, <3>7 DEF PutInv, PutTypes
  <2> QED
    BY <1>4, <2>2, <2>3
<1>5. CASE (P!Ends("error") \/ P!Ends("panic")) /\ UNCHANGED stored
  <2>1. walk' \subseteq P!Ids /\ \A e, f \in stored' : e.key = f.key => e = f
    BY <1>1, <1>5 DEF P!Ends, PutTypes
  <2> QED
    BY <1>1, <1>5, <2>1, PutEnds
<1>6. ASSUME NEW dir, walk' = {j \in walk : ~P!IsIn(j, dir)}, hidden' = TRUE,
             UNCHANGED <<roots, key, pc, status, stored>>
      PROVE  PutInv'
  <2>1. ~Visible'
    BY <1>6, Zenon DEF Visible
  <2>2. PutsUpTo(n)'
    BY <1>1, <1>2, <1>6, <2>1 DEF PutsUpTo
  <2>3. (Named' <=> Named) /\ \A e \in stored' : IsStored(e)'
    BY <1>1, <1>6, SameBucket DEF InLoop
  <2>4. InLoop'
    BY <1>1, <1>6, <2>2, <2>3 DEF InLoop
  <2>5. Walking'
    BY <1>1, <1>6, <2>1 DEF Walking
  <2>6. P!PutsAll'
    BY <1>1, <1>6 DEF P!PutsAll
  <2> QED
    BY <1>1, <1>6, <2>4, <2>5, <2>6 DEF PutInv, PutTypes
<1>7. \/ P!Ends("error") /\ UNCHANGED stored
      \/ P!Ends("error") /\ P!Store(P!Target(i), i)
      \/ P!Ends("panic") /\ UNCHANGED stored
      \/ /\ walk' = walk \ {i}
         /\ P!Store(P!Target(i), i)
         /\ UNCHANGED <<roots, key, pc, status, hidden>>
      \/ \E dir : /\ walk' = {j \in walk : ~P!IsIn(j, dir)}
                  /\ hidden' = TRUE
                  /\ UNCHANGED <<roots, key, pc, status, stored>>
  BY Zenon DEF P!PutFile
<1> QED
  BY <1>4, <1>5, <1>6, <1>7

LEMMA PutEndRoot ==
  ASSUME Puts, PutInv, P!EndRoot
  PROVE  PutInv'
<1>1. /\ PutTypes /\ InLoop /\ Walking /\ pc = "walk" /\ status = "running"
      /\ walk = {} /\ roots' = Tail(roots) /\ pc' = "next"
      /\ UNCHANGED <<given, stdin, key, walk, stored, status, hidden>>
      /\ Len(given) \in Nat /\ Len(roots) \in Nat
  BY LenProperties DEF PutInv, PutTypes, P!EndRoot
<1>2. PICK n \in 0 .. Len(given) : PutsUpTo(n)
  BY <1>1 DEF InLoop
<1>3. /\ Len(roots) >= 1 /\ DOMAIN roots = 1 .. Len(roots)
      /\ roots' \in Seq(Seq(STRING)) /\ Len(roots') = Len(roots) - 1
      /\ DOMAIN roots' = 1 .. Len(roots')
      /\ \A m \in 1 .. Len(roots') : roots'[m] = roots[m + 1]
  <2>1. Len(roots) >= 1 /\ DOMAIN roots = 1 .. Len(roots)
    BY <1>1, EmptySeq, LenProperties DEF Walking, PutTypes
  <2>2. /\ Tail(roots) \in Seq(Seq(STRING)) /\ Len(Tail(roots)) = Len(roots) - 1
        /\ \A m \in 1 .. Len(Tail(roots)) : Tail(roots)[m] = roots[m + 1]
    BY <1>1, HeadTailProperties DEF Walking, PutTypes
  <2> QED
    BY <1>1, <2>1, <2>2, LenProperties
<1>4. (Visible' <=> Visible) /\ (Named' <=> Named)
  BY <1>1, Zenon DEF Visible, Named
<1>5. PutsUpTo(n + 1)'
  <2>1. n + 1 \in Nat /\ Len(given') = n + 1 + Len(roots')
    BY <1>1, <1>2, <1>3 DEF PutsUpTo
  <2>2. \A m \in DOMAIN roots' : roots'[m] = given'[n + 1 + m]
    <3> SUFFICES ASSUME NEW m \in DOMAIN roots' PROVE roots'[m] = given'[n + 1 + m]
      OBVIOUS
    <3>1. m + 1 \in DOMAIN roots /\ roots'[m] = roots[m + 1]
      BY <1>1, <1>3
    <3>2. roots[m + 1] = given[n + (m + 1)]
      BY <1>2, <3>1 DEF PutsUpTo
    <3>3. n + (m + 1) = n + 1 + m
      BY <1>3
    <3> QED
      BY <1>1, <3>1, <3>2, <3>3
  <2>3. ASSUME Visible', NEW m \in 1 .. n + 1, NEW i \in P!FilesOf(given'[m])
        PROVE  InBucket(i)'
    <3>1. CASE m <= n
      BY <1>1, <1>2, <1>4, <2>3, <3>1, SameBucket DEF PutsUpTo
    <3>2. CASE m = n + 1
      <4>1. roots[1] = given[n + 1]
        <5>1. 1 \in DOMAIN roots
          BY <1>1, <1>3
        <5> QED
          BY <1>2, <5>1 DEF PutsUpTo
      <4>2. i \in P!FilesOf(roots[1]) \ walk
        BY <1>1, <2>3, <3>2, <4>1
      <4>3. InBucket(i)
        BY <1>1, <1>4, <2>3, <4>2 DEF Walking
      <4> QED
        BY <1>1, <4>3, SameBucket
    <3> QED
      BY <2>3, <3>1, <3>2
  <2> QED
    BY <2>1, <2>2, <2>3 DEF PutsUpTo
<1>6. InLoop'
  <2>1. \A e \in stored' : IsStored(e)'
    BY <1>1, SameBucket DEF InLoop
  <2>2. n + 1 \in 0 .. Len(given')
    BY <1>1, <1>2, <1>3 DEF PutsUpTo
  <2> QED
    BY <1>1, <1>4, <1>5, <2>1, <2>2 DEF InLoop
<1>7. P!PutsAll'
  BY <1>1 DEF P!PutsAll
<1> QED
  BY <1>1, <1>3, <1>6, <1>7 DEF PutInv, PutTypes

LEMMA PutNext ==
  ASSUME PutInv, [Next]_vars
  PROVE  PutInv'
<1>1. UNCHANGED cmdName
  BY StepMeans
<1>2. CASE ~Puts
  BY <1>1, <1>2 DEF Puts, PutInv
<1>3. CASE Puts /\ UNCHANGED commands
  <2>1. /\ UNCHANGED <<given, roots, walk, stored, stdin>>
        /\ UNCHANGED <<key, pc, status, hidden>>
    BY <1>3, CommandsMeans
  <2>2. (Visible' <=> Visible) /\ P!Given' = P!Given
    BY <2>1, Zenon DEF Visible, P!Given
  <2>3. PutTypes' <=> PutTypes
    BY <2>1 DEF PutTypes
  <2>4. \A n : PutsUpTo(n) => PutsUpTo(n)'
    BY <2>1, <2>2, SameBucket DEF PutsUpTo
  <2>5. InLoop => InLoop'
    BY <2>1, <2>4, SameBucket DEF InLoop
  <2>6. Walking => Walking'
    BY <2>1, <2>2, SameBucket DEF Walking
  <2>7. P!PutsAll => P!PutsAll'
    BY <2>1, <2>2, Zenon DEF P!PutsAll
  <2> QED
    BY <1>3, <2>1, <2>3, <2>5, <2>6, <2>7 DEF PutInv
<1>4. CASE Puts /\ (RunCommand \/ Other)
  <2>1. ~Gets /\ ~Lists /\ ~Calls /\ cmdName # "help"
    BY <1>4 DEF Gets, Lists, Puts, Calls
  <2>2. P!Step
    BY <1>4, <2>1, Zenon DEF RunCommand, Other
  <2> QED
    BY <1>4, <2>2, PutBegin, PutNextRoot, PutPutFile, PutEndRoot DEF P!Step
<1> QED
  BY <1>2, <1>3, <1>4, StepMeans

LEMMA PutInit ==
  ASSUME Init
  PROVE  PutInv
<1> SUFFICES ASSUME Puts PROVE PutInv
  BY DEF PutInv
<1>1. ~Gets /\ ~Lists /\ ~Calls /\ cmdName \notin {"help", "unknown"}
  BY DEF Gets, Lists, Puts, Calls
<1>2. P!Init
  BY <1>1, Zenon DEF Init
<1>3. /\ given \in PutRoots /\ roots = given /\ key \in PutKeys /\ walk = {} /\ stored = {}
      /\ pc = "start" /\ status = "running"
  BY <1>2 DEF P!Init
<1>4. given \in Seq(Seq(STRING)) /\ key \in Seq(STRING)
  BY <1>3, PutAssumption
<1>5. P!PutsAll
  BY <1>3 DEF P!PutsAll
<1> QED
  BY <1>3, <1>4, <1>5 DEF PutInv, PutTypes

(***************************************************************************)
(* Exit status 0 of put: every given file is in the bucket, or another one *)
(* that has its name.                                                      *)
(***************************************************************************)
THEOREM ZeroIsPut == Spec => []ZeroMeansPut
<1>1. PutInv /\ ExitInv => ZeroMeansPut
  BY DEF PutInv, PutTypes, ExitInv, ZeroMeansPut
<1>2. PutInv /\ [Next]_vars => PutInv'
  BY PutNext
<1>3. Init => PutInv
  BY PutInit
<1> QED
  BY <1>1, <1>2, <1>3, ExitAlways, PTL DEF Spec
-----------------------------------------------------------------------------
(***************************************************************************)
(* get and cat: the process does what Get says, so that what is proved of  *)
(* Get holds of it.                                                        *)
(***************************************************************************)
GP == INSTANCE GetProofs WITH Names <- GetNames, Args <- GetArgs

LEMMA GetsInit ==
  ASSUME Init, Gets
  PROVE  GP!Init
<1>1. ~Lists /\ ~Puts /\ ~Calls /\ cmdName \notin {"help", "unknown"}
  BY DEF Gets, Lists, Puts, Calls
<1>2. G!Init
  BY <1>1 DEF Init
<1> QED
  BY <1>2, Zenon DEF G!Init, GP!Init, G!InitCommand, GP!InitCommand, G!Distinct, GP!Distinct,
       G!Ids, GP!Ids, G!Kept, GP!Kept, G!HasPrefix, GP!HasPrefix, G!IsPrefix, GP!IsPrefix,
       G!NoListing, GP!NoListing

(* The operators that the actions share.                                   *)
LEMMA GetsOperators ==
  /\ G!Ids = GP!Ids
  /\ G!NoListing = GP!NoListing
  /\ \A k, t : G!StartsWith(k, t) = GP!StartsWith(k, t)
  /\ \A k, t : G!EndsWith(k, t) = GP!EndsWith(k, t)
  /\ \A k, t : G!TrimLeft(k, t) = GP!TrimLeft(k, t)
  /\ \A k, t : G!TrimRight(k, t) = GP!TrimRight(k, t)
  /\ \A k, p : G!HasPrefix(k, p) = GP!HasPrefix(k, p)
  /\ \A S, n : G!FirstOf(S, n) = GP!FirstOf(S, n)
<1>1. /\ G!Ids = GP!Ids
      /\ G!NoListing = GP!NoListing
  BY DEF G!Ids, GP!Ids, G!NoListing, GP!NoListing
<1>2. \A k, t : G!StartsWith(k, t) = GP!StartsWith(k, t)
  BY Zenon DEF G!StartsWith, GP!StartsWith
<1>3. \A k, t : G!EndsWith(k, t) = GP!EndsWith(k, t)
  BY Zenon DEF G!EndsWith, GP!EndsWith
<1>4. \A k, t : G!TrimLeft(k, t) = GP!TrimLeft(k, t)
  BY Zenon DEF G!TrimLeft, GP!TrimLeft, G!Min, GP!Min
<1>5. \A k, t : G!TrimRight(k, t) = GP!TrimRight(k, t)
  BY Zenon DEF G!TrimRight, GP!TrimRight, G!Max, GP!Max
<1>6. \A k, p : G!HasPrefix(k, p) = GP!HasPrefix(k, p)
  BY Zenon DEF G!HasPrefix, GP!HasPrefix, G!IsPrefix, GP!IsPrefix
<1>7. \A S, n : G!FirstOf(S, n) = GP!FirstOf(S, n)
  BY Zenon DEF G!FirstOf, GP!FirstOf, G!Cardinality, GP!Cardinality, G!IsFiniteSet, GP!IsFiniteSet
<1> QED
  BY <1>1, <1>2, <1>3, <1>4, <1>5, <1>6, <1>7

LEMMA GetsPaths ==
  /\ \A i : G!Name(i) = GP!Name(i)
  /\ \A i : G!Path(i) = GP!Path(i)
  /\ \A i : G!IsDir(G!Path(i)) = GP!IsDir(GP!Path(i))
  /\ \A i : G!FileAbove(G!Path(i)) = GP!FileAbove(GP!Path(i))
  /\ \A i : G!Passes(i) = GP!Passes(i)
<1>1. \A i : G!Name(i) = GP!Name(i)
  BY DEF G!Name, GP!Name
<1>2. \A i : G!Path(i) = GP!Path(i)
  BY <1>1, GetsOperators DEF G!Path, GP!Path
<1>3. \A p, q : G!Inside(p, q) = GP!Inside(p, q)
  BY GetsOperators, Zenon DEF G!Inside, GP!Inside
<1>4. \A i : G!IsDir(G!Path(i)) = GP!IsDir(GP!Path(i))
  BY <1>2, <1>3, Zenon DEF G!IsDir, GP!IsDir
<1>5. G!Kept = GP!Kept
  BY GetsOperators DEF G!Kept, GP!Kept
<1>6. \A i : G!FileAbove(G!Path(i)) = GP!FileAbove(GP!Path(i))
  BY <1>2, <1>3, <1>5, Zenon DEF G!FileAbove, GP!FileAbove
<1>7. \A i : G!Passes(i) = GP!Passes(i)
  BY GetsOperators, Zenon DEF G!Passes, GP!Passes
<1> QED
  BY <1>1, <1>2, <1>4, <1>6, <1>7

LEMMA GetsPages ==
  /\ \A S, prefix, delimiter, marker, size :
       G!ListPage(S, prefix, delimiter, marker, size) =
         GP!ListPage(S, prefix, delimiter, marker, size)
  /\ \A l : G!Undecoded(l) = GP!Undecoded(l)
<1>1. \A l : G!Undecoded(l) = GP!Undecoded(l)
  <2>1. \A S : G!Cardinality(S) = GP!Cardinality(S)
    BY DEF G!Cardinality, GP!Cardinality, G!IsFiniteSet, GP!IsFiniteSet
  <2> QED
    BY <2>1, GetsOperators DEF G!Undecoded, GP!Undecoded
<1>2. ASSUME NEW S, NEW prefix, NEW delimiter, NEW marker, NEW size
      PROVE  G!ListPage(S, prefix, delimiter, marker, size) =
               GP!ListPage(S, prefix, delimiter, marker, size)
  <2> DEFINE behind == {i \in S : i > marker /\ G!HasPrefix(GetNames[i], prefix)}
             inDir == {i \in behind : delimiter /\ G!SlashesBehind(GetNames[i], prefix) # {}}
             dir == [i \in inDir |->
                       SubSeq(GetNames[i], 1, G!Min(G!SlashesBehind(GetNames[i], prefix)))]
             repeated == {i \in inDir : \E j \in inDir : j < i /\ dir[i] = dir[j]}
             page == G!FirstOf(behind \ repeated, size)
             dirs == {dir[i] : i \in page \cap inDir}
             covered == page \cup {i \in G!Ids : \E d \in dirs : G!HasPrefix(GetNames[i], d)}
             behindGP == {i \in S : i > marker /\ GP!HasPrefix(GetNames[i], prefix)}
             inDirGP == {i \in behindGP : delimiter /\ GP!SlashesBehind(GetNames[i], prefix) # {}}
             dirGP == [i \in inDirGP |->
                       SubSeq(GetNames[i], 1, GP!Min(GP!SlashesBehind(GetNames[i], prefix)))]
             repeatedGP == {i \in inDirGP : \E j \in inDirGP : j < i /\ dirGP[i] = dirGP[j]}
             pageGP == GP!FirstOf(behindGP \ repeatedGP, size)
             dirsGP == {dirGP[i] : i \in pageGP \cap inDirGP}
             coveredGP == pageGP \cup {i \in GP!Ids : \E d \in dirsGP : GP!HasPrefix(GetNames[i], d)}
  <2>1. G!ListPage(S, prefix, delimiter, marker, size) =
              [nil |-> FALSE, keys |-> page \ inDir, dirs |-> dirs,
               truncated |-> ~(behind \subseteq covered),
               next |-> IF behind \subseteq covered THEN 0 ELSE G!Max(covered)]
    BY Zenon DEF G!ListPage
  <2>2. GP!ListPage(S, prefix, delimiter, marker, size) =
              [nil |-> FALSE, keys |-> pageGP \ inDirGP, dirs |-> dirsGP,
               truncated |-> ~(behindGP \subseteq coveredGP),
               next |-> IF behindGP \subseteq coveredGP THEN 0 ELSE GP!Max(coveredGP)]
    BY Zenon DEF GP!ListPage
  <2>3. \A k, p : G!SlashesBehind(k, p) = GP!SlashesBehind(k, p)
    BY DEF G!SlashesBehind, GP!SlashesBehind
  <2>4. \A T : G!Min(T) = GP!Min(T) /\ G!Max(T) = GP!Max(T)
    BY Zenon DEF G!Min, GP!Min, G!Max, GP!Max
  <2>5. behind = behindGP
    BY GetsOperators
  <2> HIDE DEF behind, behindGP
  <2>6. inDir = inDirGP
    BY <2>3, <2>5
  <2> HIDE DEF inDir, inDirGP
  <2>7. dir = dirGP
    BY <2>3, <2>4, <2>6
  <2> HIDE DEF dir, dirGP
  <2>8. repeated = repeatedGP
    BY <2>6, <2>7
  <2> HIDE DEF repeated, repeatedGP
  <2>9. page = pageGP
    BY <2>5, <2>8, GetsOperators
  <2> HIDE DEF page, pageGP
  <2>10. dirs = dirsGP
    BY <2>6, <2>7, <2>9
  <2> HIDE DEF dirs, dirsGP
  <2>11. covered = coveredGP
    BY <2>9, <2>10, GetsOperators
  <2> HIDE DEF covered, coveredGP
  <2> QED
    BY <2>1, <2>2, <2>4, <2>5, <2>6, <2>9, <2>10, <2>11
<1> QED
  BY <1>1, <1>2

LEMMA GetsEnds ==
  /\ G!End(TRUE) = GP!End(TRUE)
  /\ G!End(FALSE) = GP!End(FALSE)
  /\ G!EndHiding = GP!EndHiding
  /\ G!Fail = GP!Fail
  /\ G!Trouble = GP!Trouble
<1>1. G!End(TRUE) = GP!End(TRUE) /\ G!End(FALSE) = GP!End(FALSE)
  BY GetsOperators, Zenon DEF G!End, GP!End
<1>2. G!EndHiding = GP!EndHiding
  BY GetsOperators, Zenon DEF G!EndHiding, GP!EndHiding
<1>3. G!Fail = GP!Fail
  BY <1>1, GetsOperators, Zenon DEF G!Fail, GP!Fail, G!Again, GP!Again
<1>4. G!Trouble = GP!Trouble
  BY Zenon DEF G!Trouble, GP!Trouble, G!Bounded, GP!Bounded
<1> QED
  BY <1>1, <1>2, <1>3, <1>4, Zenon

LEMMA GetsStep ==
  /\ G!Step => GP!Step
  /\ G!Other => GP!Other
<1>1. G!Exec => GP!Exec
  BY GetsEnds, Zenon DEF G!Exec, GP!Exec, G!command, GP!command, G!others, GP!others, G!disk, GP!disk
<1>2. G!GetObject => GP!GetObject
  BY GetsEnds, Zenon
     DEF G!GetObject, GP!GetObject, G!command, GP!command, G!others, GP!others, G!Over, GP!Over
<1>3. G!List => GP!List
  <2>1. \A l : G!Show(l) = GP!Show(l)
    BY GetsEnds, Zenon DEF G!Show, GP!Show
  <2> QED
    BY <2>1, GetsEnds, GetsPages, Zenon
       DEF G!List, GP!List, G!command, GP!command, G!others, GP!others, G!disk, GP!disk
<1>4. ASSUME NEW i, G!Copy(i) PROVE GP!Copy(i)
  <2>1. G!WriteFile(i) = GP!WriteFile(i)
    BY GetsPaths, Zenon DEF G!WriteFile, GP!WriteFile, G!Over, GP!Over
  <2>2. G!MkdirFails(i) = GP!MkdirFails(i)
    BY Zenon DEF G!MkdirFails, GP!MkdirFails
  <2> QED
    BY <1>4, <2>1, <2>2, GetsPaths, GetsOperators, Zenon
       DEF G!Copy, GP!Copy, G!command, GP!command, G!others, GP!others, G!disk, GP!disk
<1>5. G!EndPage => GP!EndPage
  BY GetsEnds, Zenon
     DEF G!EndPage, GP!EndPage, G!NextPage, GP!NextPage, G!Return, GP!Return,
         G!command, GP!command, G!others, GP!others, G!disk, GP!disk
<1>6. G!Step => GP!Step
  BY <1>1, <1>2, <1>3, <1>4, <1>5, GetsOperators, Zenon DEF G!Step, GP!Step
<1>7. G!Other => GP!Other
  BY GetsOperators, Zenon
     DEF G!Other, GP!Other, G!Put, GP!Put, G!TakeAway, GP!TakeAway, G!Bounded, GP!Bounded,
         G!Distinct, GP!Distinct,
         G!command, GP!command, G!exec, GP!exec, G!disk, GP!disk
<1> QED
  BY <1>6, <1>7, Zenon

LEMMA GetsNext ==
  ASSUME Gets, [Next]_vars
  PROVE  Gets' /\ [GP!Next]_GP!vars
<1>1. Gets'
  BY StepMeans DEF Gets
<1>2. CASE UNCHANGED commands
  BY <1>1, <1>2, CommandsMeans
     DEF GP!vars, GP!command, GP!exec, GP!others, GP!disk
<1>3. CASE RunCommand \/ Other
  <2>1. ~Lists /\ ~Puts /\ ~Calls /\ cmdName # "help"
    BY DEF Gets, Lists, Puts, Calls
  <2>2. G!Step \/ G!Other
    BY <1>3, <2>1, Zenon DEF RunCommand, Other
  <2> QED
    BY <1>1, <2>2, GetsStep, Zenon DEF GP!Next
<1> QED
  BY <1>1, <1>2, <1>3, StepMeans

THEOREM GetsAsGet == Spec /\ Gets => GP!Spec
<1>1. Init /\ Gets => GP!Init
  BY GetsInit
<1>2. Gets /\ [Next]_vars => Gets' /\ [GP!Next]_GP!vars
  BY GetsNext
<1> QED
  BY <1>1, <1>2, PTL DEF Spec, GP!Spec

(* The assumptions of GetProofs are those of Program.                      *)
LEMMA GetProved ==
  /\ GP!Spec => []GP!TypeOK
  /\ GP!Spec => []GP!GetsAll
  /\ GP!Spec => [][GP!WritesOnlyNamed]_GP!vars
<1>1. GP!ListingAssumption /\ GP!CommandAssumption
  BY GetAssumption
     DEF G!ListingAssumption, GP!ListingAssumption, G!CommandAssumption, GP!CommandAssumption
<1>2. GP!OrderAssumption
  <2>1. G!OrderAssumption
    BY GetAssumption
  <2> QED
    BY <2>1, Zenon
       DEF G!OrderAssumption, GP!OrderAssumption, G!Ids, GP!Ids,
           G!HasPrefix, GP!HasPrefix, G!IsPrefix, GP!IsPrefix
<1> QED
  BY <1>1, <1>2, GP!TypeCorrect, GP!NamedIsGot, GP!OnlyNamedIsWritten

LEMMA GetAsked == \A i : G!Asked(i) = GP!Asked(i)
<1>1. \A n, dir : G!Below(n, dir) = GP!Below(n, dir)
  BY GetsOperators, Zenon DEF G!Below, GP!Below
<1> QED
  BY <1>1, Zenon DEF G!Asked, GP!Asked

(***************************************************************************)
(* Exit status 0 of get and cat: everything that the argument names is in  *)
(* its file or told of, whatever configuration was tried before.           *)
(***************************************************************************)
THEOREM ZeroIsGot == Spec => []ZeroMeansGot
<1>1. ExitInv /\ GP!TypeOK /\ GP!GetsAll => ZeroMeansGot
  <2> SUFFICES ASSUME ExitInv, GP!TypeOK, GP!GetsAll, code = 0, status # "panic"
               PROVE  status = "ok" /\ G!GetsAll
    BY DEF ZeroMeansGot
  <2>1. status = "ok"
    BY DEF ExitInv, GP!TypeOK, GP!CommandTypeOK
  <2>2. G!GetsAll
    BY GetAsked, GetsPaths, GetsOperators, Zenon DEF G!GetsAll, GP!GetsAll
  <2> QED
    BY <2>1, <2>2
<1>2. ~Gets => ZeroMeansGot
  BY DEF ZeroMeansGot
<1>3. ~Gets /\ [Next]_vars => ~Gets'
  BY StepMeans DEF Gets
<1> QED
  BY <1>1, <1>2, <1>3, ExitAlways, GetsAsGet, GetProved, PTL DEF Spec

(***************************************************************************)
(* No step of the process writes a file that the argument of get does not  *)
(* name.                                                                   *)
(***************************************************************************)
THEOREM OnlyNamedIsGot == Spec => GotOnlyNamed
<1>1. [GP!WritesOnlyNamed]_GP!vars => [Gets => G!WritesOnlyNamed]_vars
  <2>1. GP!WritesOnlyNamed => G!WritesOnlyNamed
    BY GetAsked, GetsOperators, Zenon DEF G!WritesOnlyNamed, GP!WritesOnlyNamed
  <2>2. UNCHANGED GP!vars => G!WritesOnlyNamed
    BY DEF GP!vars, GP!disk, G!WritesOnlyNamed
  <2> QED
    BY <2>1, <2>2
<1>2. ~Gets => [Gets => G!WritesOnlyNamed]_vars
  OBVIOUS
<1>3. ~Gets /\ [Next]_vars => ~Gets'
  BY StepMeans DEF Gets
<1> QED
  BY <1>1, <1>2, <1>3, GetsAsGet, GetProved, PTL DEF Spec, GotOnlyNamed

-----------------------------------------------------------------------------
(***************************************************************************)
(* The types of all commands.                                              *)
(***************************************************************************)
HiddenType == hidden \in BOOLEAN
MoreType == more \in BOOLEAN
TwiceType == twice \in BOOLEAN
DeepType == recursive \in BOOLEAN
ListFlags == HiddenType /\ MoreType /\ TwiceType /\ DeepType

LEMMA HiddenSteps ==
  ASSUME HiddenType
  PROVE  /\ UNCHANGED hidden => HiddenType'
         /\ L!End(TRUE) \/ L!End(FALSE) \/ L!Panic \/ L!Going => HiddenType'
         /\ \A lines : L!Returned(lines, FALSE) \/ L!Returned(lines, TRUE) => HiddenType'
<1>1. UNCHANGED hidden => HiddenType'
  BY DEF HiddenType
<1>2. L!End(TRUE) \/ L!End(FALSE) \/ L!Panic \/ L!Going => UNCHANGED hidden
  BY DEF L!End, L!Panic, L!Going
<1>3. ASSUME NEW lines, NEW d \in BOOLEAN, L!Returned(lines, d) PROVE HiddenType'
  <2>1. hidden' = (hidden \/ d)
    BY <1>3, Zenon DEF L!Returned
  <2> QED
    BY <2>1, Zenon DEF HiddenType
<1>4. TRUE \in BOOLEAN /\ FALSE \in BOOLEAN
  BY Zenon
<1> QED
  BY <1>1, <1>2, <1>3, <1>4, Zenon

LEMMA ListFlagsStep ==
  ASSUME ListFlags, L!Step
  PROVE  ListFlags'
<1>1. DeepType'
  BY DEF L!Step, L!NextArgument, L!Exec, L!Exists, L!List, L!command, ListFlags, DeepType
<1>2. CASE L!NextArgument
  <2>1. MoreType'
    <3>1. more' = FALSE \/ UNCHANGED more
      BY <1>2, Zenon DEF L!NextArgument
    <3> QED
      BY <3>1, Zenon DEF ListFlags, MoreType
  <2>2. TwiceType'
    <3>1. twice' = FALSE \/ UNCHANGED L!output
      BY <1>2, Zenon DEF L!NextArgument
    <3>2. UNCHANGED L!output => UNCHANGED twice
      BY DEF L!output
    <3> QED
      BY <3>1, <3>2, Zenon DEF ListFlags, TwiceType
  <2>3. HiddenType'
    <3>1. UNCHANGED <<listing, status, hidden>> \/ L!End(FALSE)
      BY <1>2, Zenon DEF L!NextArgument
    <3> QED
      BY <3>1, HiddenSteps DEF ListFlags
  <2> QED
    BY <1>1, <2>1, <2>2, <2>3 DEF ListFlags
<1>3. CASE L!Exec
  <2>1. L!Going /\ UNCHANGED <<more, twice>>
    BY <1>3 DEF L!Exec, L!output
  <2> QED
    BY <1>1, <2>1, HiddenSteps DEF ListFlags, MoreType, TwiceType
<1>4. CASE L!Exists
  <2>1. UNCHANGED <<more, twice>>
    BY <1>4 DEF L!Exists, L!output
  <2>2. L!End(TRUE) \/ L!Yes \/ L!No
    BY <1>4 DEF L!Exists
  <2>3. L!Going \/ L!End(TRUE) \/ UNCHANGED hidden
    BY <2>2 DEF L!Yes, L!No
  <2>4. HiddenType'
    BY <2>3, HiddenSteps DEF ListFlags
  <2> QED
    BY <1>1, <2>1, <2>4 DEF ListFlags, MoreType, TwiceType
<1>5. CASE L!List
  <2>1. MoreType'
    <3>1. UNCHANGED more
      BY <1>5 DEF L!List
    <3> QED
      BY <3>1 DEF ListFlags, MoreType
  <2>2. ASSUME NEW t, NEW l, L!Show(t, l)
        PROVE  TwiceType' /\ HiddenType'
    <3>1. \/ L!Going /\ UNCHANGED L!output
          \/ (L!Panic \/ L!End(TRUE)) /\ UNCHANGED L!output
          \/ /\ twice' = (twice \/ LinesFor(l) \cap printed # {})
             /\ L!Continue(L!Nested(t, l) \o Tail(todo), printed \cup LinesFor(l))
      BY <2>2, Zenon DEF L!Show, LinesFor
    <3>2. UNCHANGED L!output => TwiceType'
      BY DEF L!output, ListFlags, TwiceType
    <3>3. twice' = (twice \/ LinesFor(l) \cap printed # {}) => TwiceType'
      BY Zenon DEF TwiceType
    <3>4. ASSUME NEW ts, NEW lines, L!Continue(ts, lines) PROVE HiddenType'
      <4>1. L!Returned(lines, FALSE) \/ L!Going
        BY <3>4, Zenon DEF L!Continue
      <4> QED
        BY <4>1, HiddenSteps DEF ListFlags
    <3>5. L!Going \/ L!Panic \/ L!End(TRUE) => HiddenType'
      BY HiddenSteps DEF ListFlags
    <3> QED
      BY <3>1, <3>2, <3>3, <3>4, <3>5, Zenon
  <2>3. ASSUME NEW t, L!Fails(t), UNCHANGED L!output
        PROVE  TwiceType' /\ HiddenType'
    <3>1. L!End(TRUE) \/ L!Returned(printed, TRUE) \/ hidden' = TRUE
      BY <2>3, Zenon DEF L!Fails
    <3>2. hidden' = TRUE => HiddenType'
      BY Zenon DEF HiddenType
    <3>3. HiddenType'
      BY <3>1, <3>2, HiddenSteps, Zenon DEF ListFlags
    <3>4. TwiceType'
      BY <2>3 DEF L!output, ListFlags, TwiceType
    <3> QED
      BY <3>3, <3>4
  <2>4. TwiceType' /\ HiddenType'
    BY <1>5, <2>2, <2>3, Zenon DEF L!List
  <2> QED
    BY <1>1, <2>1, <2>4 DEF ListFlags
<1> QED
  BY <1>2, <1>3, <1>4, <1>5 DEF L!Step

LEMMA ListFlagsNext ==
  ASSUME Lists => ListFlags, [Next]_vars
  PROVE  (Lists => ListFlags)'
<1>1. Lists' <=> Lists
  BY StepMeans DEF Lists
<1>2. CASE Lists /\ UNCHANGED <<recursive, hidden, more, twice>>
  BY <1>1, <1>2 DEF ListFlags, HiddenType, MoreType, TwiceType, DeepType
<1>3. UNCHANGED commands => UNCHANGED <<recursive, hidden, more, twice>>
  BY CommandsMeans
<1>4. CASE Lists /\ (RunCommand \/ Other)
  <2>1. ~Gets /\ ~Puts /\ ~Calls /\ cmdName # "help"
    BY <1>4 DEF Gets, Lists, Puts, Calls
  <2>2. L!Step \/ L!Other
    BY <1>4, <2>1, Zenon DEF RunCommand, Other
  <2>3. L!Other => UNCHANGED <<recursive, hidden, more, twice>>
    BY DEF L!Other, L!command, L!exec, L!output
  <2> QED
    BY <1>1, <1>2, <1>4, <2>2, <2>3, ListFlagsStep
<1> QED
  BY <1>1, <1>2, <1>3, <1>4, StepMeans

LEMMA ListFlagsInit ==
  ASSUME Init
  PROVE  Lists => ListFlags
<1> SUFFICES ASSUME Lists PROVE ListFlags
  OBVIOUS
<1>1. ~Gets /\ ~Puts /\ ~Calls /\ cmdName \notin {"help", "unknown"}
  BY Zenon DEF Gets, Lists, Puts, Calls
<1>2. L!Init
  BY <1>1, Zenon DEF Init
<1>3. recursive \in BOOLEAN /\ hidden = FALSE /\ more \in BOOLEAN /\ twice = FALSE
  BY <1>2, Zenon DEF L!Init, L!InitCommand
<1> QED
  BY <1>3, Zenon DEF ListFlags, HiddenType, MoreType, TwiceType, DeepType

LEMMA ListTyped ==
  ASSUME ListTypes, ListFlags
  PROVE  L!TypeOK
<1>1. recursive \in BOOLEAN /\ hidden \in BOOLEAN /\ more \in BOOLEAN /\ twice \in BOOLEAN
  BY Zenon DEF ListFlags, HiddenType, MoreType, TwiceType, DeepType
<1>2. /\ listing.keys = {} /\ listing.next = 0
      /\ listing.truncated = FALSE /\ listing.nil = TRUE
  <2>1. listing = [nil |-> TRUE, keys |-> {}, dirs |-> {}, truncated |-> FALSE, next |-> 0]
    BY DEF ListTypes, L!NoListing
  <2> QED
    BY <2>1
<1>3. listing.truncated \in BOOLEAN /\ listing.nil \in BOOLEAN
  BY <1>2, Zenon
<1>4. (pc = "done") = (status # "running")
  BY Zenon DEF ListTypes
<1>5. /\ objects \subseteq L!Ids /\ old \subseteq L!Ids
      /\ arg \in Seq(STRING) /\ key \in Seq(STRING) /\ lastKey \in Seq(STRING)
      /\ listing.keys \subseteq L!Ids /\ listing.next \in L!Ids \cup {0}
      /\ status \in {"running", "ok", "error", "panic"}
      /\ troubles \in Nat /\ changes \in Nat /\ troubles + changes <= MaxEvents
      /\ kind \in {"text", "table", "uploads", "exist"}
      /\ pc \in {"exec", "exists", "list", "next", "done"}
      /\ pc = "list" => todo # <<>>
      /\ \A line \in printed : line.id \in L!Ids \cup {0}
  BY <1>2, ListsOperators DEF ListTypes
<1>6. ASSUME NEW n \in DOMAIN todo
      PROVE  /\ todo[n].marker \in L!Ids \cup {0}
             /\ todo[n].depth \in Nat
             /\ n > 1 => todo[n].depth <= todo[n - 1].depth
  <2>1. InsideOut(todo) /\ todo \in Seq(Tasks)
    BY DEF ListTypes, InsideOut
  <2>2. DOMAIN todo = 1 .. Len(todo) /\ Len(todo) \in Nat /\ todo[n] \in Tasks
    BY <2>1, PlacesOf
  <2>3. n > 1 => n - 1 \in DOMAIN todo /\ n - 1 <= n
    BY <2>2
  <2> QED
    BY <2>1, <2>2, <2>3, TasksMeans, ListsOperators DEF InsideOut
<1>7. L!CommandTypeOK
  BY <1>1, <1>3, <1>4, <1>5, Zenon DEF L!CommandTypeOK
<1> QED
  BY <1>1, <1>5, <1>6, <1>7, Zenon DEF L!TypeOK

LEMMA PutTyped ==
  ASSUME PutTypes
  PROVE  P!TypeOK
<1>1. (pc = "done") = (status # "running")
  BY Zenon DEF PutTypes
<1> QED
  BY <1>1, Zenon DEF PutTypes, P!TypeOK

LEMMA GetTyped ==
  ASSUME GP!TypeOK
  PROVE  G!TypeOK
<1>1. G!CommandTypeOK
  BY GetsOperators, Zenon DEF GP!TypeOK, GP!CommandTypeOK, G!CommandTypeOK
<1>2. G!Contents = GP!Contents
  BY DEF G!Contents, GP!Contents
<1> QED
  BY <1>1, <1>2, GetsOperators, Zenon DEF GP!TypeOK, G!TypeOK

(***************************************************************************)
(* The types of a process, and of its command from main to the exit.       *)
(***************************************************************************)
THEOREM TypeCorrect == Spec => []TypeOK
<1>1. Spec => [](Lists => ListFlags)
  <2>1. Init => (Lists => ListFlags)
    BY ListFlagsInit
  <2>2. (Lists => ListFlags) /\ [Next]_vars => (Lists => ListFlags)'
    BY ListFlagsNext
  <2> QED
    BY <2>1, <2>2, PTL DEF Spec
<1>2. Spec => [](CallInv /\ PutInv)
  <2>1. Init => CallInv /\ PutInv
    BY CallInit, PutInit
  <2>2. CallInv /\ PutInv /\ [Next]_vars => (CallInv /\ PutInv)'
    BY CallNext, PutNext
  <2> QED
    BY <2>1, <2>2, PTL DEF Spec
<1>3. Spec => [](Gets => G!TypeOK)
  <2>1. GP!TypeOK => (Gets => G!TypeOK)
    BY GetTyped
  <2>2. ~Gets => (Gets => G!TypeOK)
    OBVIOUS
  <2>3. ~Gets /\ [Next]_vars => ~Gets'
    BY StepMeans DEF Gets
  <2> QED
    BY <2>1, <2>2, <2>3, GetsAsGet, GetProved, PTL DEF Spec
<1>4. /\ ExitInv /\ BrokenType /\ (Lists => ListFlags) /\ ListInv /\ CallInv /\ PutInv
      /\ (Gets => G!TypeOK)
      => TypeOK
  <2> SUFFICES ASSUME ExitInv, BrokenType, Lists => ListFlags, ListInv, CallInv, PutInv,
                      Gets => G!TypeOK
               PROVE  TypeOK
    OBVIOUS
  <2>1. (phase = "exited") = (code # -1)
    BY Zenon DEF ExitInv
  <2>2. /\ phase \in {"open", "read", "env", "run", "exited"}
        /\ cmdName \in Commands /\ code \in -1 .. 2
    BY DEF ExitInv
  <2>3. Lists => L!TypeOK
    BY ListTyped DEF ListInv
  <2>4. Puts => P!TypeOK
    BY PutTyped DEF PutInv
  <2>5. Calls => O!TypeOK
    BY DEF CallInv
  <2> QED
    BY <2>1, <2>2, <2>3, <2>4, <2>5, Zenon DEF TypeOK, BrokenType
<1> QED
  BY <1>1, <1>2, <1>3, <1>4, ExitAlways, ListAlways, PTL
=============================================================================
