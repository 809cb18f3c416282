------------------------------ MODULE Program ------------------------------
(***************************************************************************)
(* The whole of one dagtools process: main.go loads a configuration and    *)
(* prepares the environment, cmd/main.go looks the command up and runs it, *)
(* and the exit status tells how it went.  The commands are those of Get,  *)
(* List, Put and OneCall, and help; sync and rm have modules of their own. *)
(***************************************************************************)
EXTENDS IniFile

CONSTANTS
  GetNames, GetArgs,     \* Names and Args of Get
  ListNames, ListArgs,   \* those of List
  PutNames, PutRoots, PutKeys,
  PageSize, MaxEvents,
  Retry, NetFates,       \* of OneCall
  Commands,              \* bound: the names of commands that are given
  Disks(_)               \* bound: what there is of configuration files when a
                         \* command is given; <<f>> is -f, <<f, g>> the defaults

VARIABLES
  phase,                 \* "open", "read", "env", "run" or "exited"
  cmdName,
  configs,               \* the files that are still to be tried
  pos,                   \* where the reader is in the first of them
  parser,                \* the variables of parseFile, the configuration among them
  first,                 \* history: configs at the start
  broken,                \* history: a read of a file failed
  code,                  \* the exit status, -1 before
  objects, recursive, arg, key, pc, listing, status, old, hidden, troubles, changes,
  cat, left, failed, files, made, said,
  kind, more, lastKey, todo, printed, twice,
  stdin, given, roots, walk, stored,
  call, policy, shown

main == <<phase, cmdName, configs, pos, parser, first, broken, code>>
file == <<configs, pos, parser, broken>>
command == <<objects, recursive, arg, key, pc, listing, status, old, hidden, troubles, changes>>
ofGet == <<cat, left, failed, files, made, said>>
ofList == <<kind, more, lastKey, todo, printed, twice>>
ofPut == <<stdin, given, roots, walk, stored>>
ofCall == <<call, policy, shown>>
commands == <<command, ofGet, ofList, ofPut, ofCall>>
vars == <<main, commands>>

G == INSTANCE Get WITH Names <- GetNames, Args <- GetArgs
L == INSTANCE List WITH Names <- ListNames, Args <- ListArgs
P == INSTANCE Put WITH Names <- PutNames, Roots <- PutRoots, Keys <- PutKeys
O == INSTANCE OneCall WITH command <- cmdName

ASSUME GetAssumption == G!ListingAssumption /\ G!OrderAssumption /\ G!CommandAssumption
ASSUME ListAssumption == L!ListingAssumption /\ L!OrderAssumption /\ L!CommandAssumption
ASSUME CallAssumption == O!RetryAssumption /\ NetFates \subseteq O!Fates

(* A file has a name.                                                      *)
ASSUME PutAssumption ==
  /\ P!ListingAssumption /\ P!OrderAssumption
  /\ \A i \in P!Ids : PutNames[i] # <<>> /\ ~P!EndsWith(PutNames[i], "/")
  /\ PutRoots \subseteq Seq(Seq(STRING)) /\ PutKeys \subseteq Seq(STRING)

Gets == cmdName \in {"get", "cat"}
Lists == cmdName \in {"ls", "uploads ls", "exist"}
Puts == cmdName = "put"
Calls == cmdName \in {"policy put", "policy cat", "policy rm", "space",
                      "traffic", "traffic date", "list buckets"}

(* A file that is not there.                                               *)
Missing == <<Line("missing", "", "", FALSE)>>

ASSUME DisksAssumption ==
  \A name \in Commands : Disks(name) \subseteq Seq(Seq(Lines) \cup {Missing}) \ {<<>>}

GetIdle == /\ cat = FALSE /\ left = {} /\ failed = FALSE
           /\ files = <<>> /\ made = {} /\ said = {}
ListIdle ==
  /\ kind = "text" /\ more = FALSE /\ lastKey = <<>>
  /\ todo = <<>> /\ printed = {} /\ twice = FALSE
PutIdle == stdin = "terminal" /\ given = <<>> /\ roots = <<>> /\ walk = {} /\ stored = {}
CallIdle == call = O!NewCall /\ policy = "none" /\ shown = "none"
ServiceIdle ==
  /\ objects = {} /\ old = {} /\ troubles = 0 /\ changes = 0
  /\ arg = <<>> /\ listing = G!NoListing
HelpIdle == hidden = FALSE /\ pc = "exec" /\ status = "running"

Init ==
  /\ cmdName \in Commands
  /\ configs \in Disks(cmdName)
  /\ first = configs
  /\ phase = "open"
  /\ pos = Top
  /\ parser = Start
  /\ broken = FALSE
  /\ code = -1
  /\ Gets \/ GetIdle
  /\ Lists \/ ListIdle
  /\ Puts \/ PutIdle
  /\ Calls \/ CallIdle
  /\ Gets \/ Lists \/ ServiceIdle
  /\ Gets \/ Lists \/ Puts \/ (recursive = FALSE /\ key = <<>>)
  /\ \/ Gets /\ G!Init /\ cat = (cmdName = "cat")
     \/ /\ Lists /\ L!Init
        /\ CASE cmdName = "ls" -> kind \in {"text", "table"}
             [] cmdName = "uploads ls" -> kind = "uploads"
             [] cmdName = "exist" -> kind = "exist"
     \/ Puts /\ P!Init
     \/ Calls /\ O!Init
     \/ cmdName \in {"help", "unknown"} /\ HelpIdle

(* Mutants: a file with an error is taken, one without is not; the status  *)
(* of the command is lost.                                                 *)
EndsTheSearch(err) == err
AlwaysZero == 0

Exits(c) == phase' = "exited" /\ code' = c

(***************************************************************************)
(* LoadFile tries the files in their order; the first one that can be      *)
(* opened and has no syntax error is taken, and the last error counts.     *)
(***************************************************************************)
Taken(err) == ~err

LoadFileReturns(err) ==
  IF Taken(err) THEN phase' = "env" /\ UNCHANGED <<configs, code>>
  ELSE IF Len(configs) > 1
  THEN configs' = Tail(configs) /\ phase' = "open" /\ UNCHANGED code
  ELSE Exits(1) /\ UNCHANGED configs

OpenFile ==
  /\ phase = "open"
  /\ parser' = Start
  /\ pos' = Top
  /\ \/ /\ Head(configs) # Missing
        /\ phase' = "read"
        /\ UNCHANGED <<configs, code>>
     \/ Head(configs) = Missing /\ LoadFileReturns(TRUE)
  /\ UNCHANGED <<cmdName, first, broken, commands>>

(* One round of the loop in parseFile.  A read that fails ends it as the   *)
(* end of the file does, without an error.                                 *)
ReadLine ==
  /\ phase = "read" /\ pos.line \in DOMAIN Head(configs)
  /\ LET piece == PieceAt(Head(configs), pos)
         next == Read(parser, piece)
     IN /\ parser' = next
        /\ pos' = Behind(pos, piece)
        /\ IF next.error # 0 THEN LoadFileReturns(TRUE) ELSE UNCHANGED <<phase, configs, code>>
  /\ UNCHANGED <<cmdName, first, broken, commands>>

EndOfFile ==
  /\ phase = "read"
  /\ broken' = (broken \/ pos.line \in DOMAIN Head(configs))
  /\ pos' = Top
  /\ LoadFileReturns(FALSE)
  /\ UNCHANGED <<cmdName, parser, first, commands>>

(* Environment.Init, and Run of cmd/main.go up to the command's own Run.   *)
LogTypes == {"", "none", "file", "stdout", "stderr"}

InitEnvironment ==
  /\ phase = "env"
  /\ IF Value(parser.config, "logging", "type", "none") \in LogTypes /\ cmdName # "unknown"
     THEN phase' = "run" /\ UNCHANGED code
     ELSE Exits(1)
  /\ UNCHANGED <<cmdName, file, first, commands>>

(* help needs the name of a command.                                       *)
Help ==
  /\ status' \in {"ok", "error"}
  /\ pc' = "done"
  /\ UNCHANGED <<recursive, key, hidden>>

service == <<objects, old, troubles, changes, arg, listing>>

RunCommand ==
  /\ phase = "run" /\ status = "running"
  /\ \/ Gets /\ G!Step /\ UNCHANGED <<ofList, ofPut, ofCall>>
     \/ Lists /\ L!Step /\ UNCHANGED <<ofGet, ofPut, ofCall>>
     \/ Puts /\ P!Step /\ UNCHANGED <<ofGet, ofList, ofCall, service>>
     \/ Calls /\ O!Step /\ UNCHANGED <<ofGet, ofList, ofPut, service, recursive, key>>
     \/ cmdName = "help" /\ Help /\ UNCHANGED <<ofGet, ofList, ofPut, ofCall, service>>
  /\ UNCHANGED main

(* The status of the command is that of the process, but for a panic:      *)
(* main recovers from it and returns, and with -d it does not.             *)
ExitCode == IF status = "error" THEN 1 ELSE 0

Exit ==
  /\ phase = "run" /\ status # "running"
  /\ Exits(ExitCode) \/ (status = "panic" /\ Exits(2))
  /\ UNCHANGED <<cmdName, file, first, commands>>

Step == OpenFile \/ ReadLine \/ EndOfFile \/ InitEnvironment \/ RunCommand \/ Exit

Other ==
  /\ phase = "run" /\ status = "running"
  /\ \/ Gets /\ G!Other /\ UNCHANGED <<ofList, ofPut, ofCall>>
     \/ Lists /\ L!Other /\ UNCHANGED <<ofGet, ofPut, ofCall>>
  /\ UNCHANGED main

Done == phase = "exited" /\ UNCHANGED vars

Next == Step \/ Other \/ Done

Spec == Init /\ [][Next]_vars
FairSpec == Spec /\ WF_vars(Step)

-----------------------------------------------------------------------------
TypeOK ==
  /\ phase \in {"open", "read", "env", "run", "exited"}
  /\ cmdName \in Commands
  /\ code \in -1 .. 2
  /\ (phase = "exited") = (code # -1)
  /\ broken \in BOOLEAN
  /\ Gets /\ phase = "run" => G!TypeOK
  /\ Lists /\ phase = "run" => L!TypeOK
  /\ Puts /\ phase = "run" => P!TypeOK
  /\ Calls /\ phase = "run" => O!TypeOK

(***************************************************************************)
(* A command runs with what the first file says that is there and has no   *)
(* syntax error, line by line: whatever comments, long lines, repeated     *)
(* sections and options it has, and unless a read failed.                  *)
(***************************************************************************)
RunsAsConfigured ==
  phase \in {"env", "run"} /\ ~broken =>
    \E n \in DOMAIN first :
      /\ parser.config = Meaning(first[n])
      /\ first[n] # Missing /\ IsValid(first[n])
      /\ \A m \in 1 .. n - 1 : first[m] = Missing \/ ~IsValid(first[m])

(***************************************************************************)
(* Exit status 0 of get and cat means that every object that was there all *)
(* along and that the argument names is in its file or told of, see        *)
(* GetsAll of Get; a panic, which ends with 0 as well, is left out.        *)
(***************************************************************************)
ZeroMeansGot == Gets /\ code = 0 /\ status # "panic" => status = "ok" /\ G!GetsAll

(* Exit status 0 of put means that every given file is in the bucket, see  *)
(* PutsAll of Put.                                                         *)
ZeroMeansPut == Puts /\ code = 0 /\ status # "panic" => status = "ok" /\ P!PutsAll

(* Exit status 0 of policy, space, traffic and ls without an argument      *)
(* means that the call did it, see DoesIt of OneCall.                      *)
ZeroMeansDone == Calls /\ code = 0 /\ status # "panic" => status = "ok" /\ O!DoesIt

(* get writes nothing but what its argument names, see Get.                *)
GotOnlyNamed == [][Gets => G!WritesOnlyNamed]_vars

(* ls and uploads ls have a line for everything that was there all along   *)
(* and that the argument names, see List; and exit status 0 means that the *)
(* listing of every argument has returned.                                 *)
Listed == Lists => L!ListsAll
ListedOnce == Lists => L!ListsOnce

(***************************************************************************)
(* The process ends: the walk over pages and directories, the fallbacks    *)
(* and the loop over arguments do.  Not so get of a key that starts with a *)
(* slash, see FailureEnds of Get.                                          *)
(***************************************************************************)
Ends == (cmdName = "get" /\ G!StartsWith(arg, "/")) \/ <>(phase = "exited")
=============================================================================
