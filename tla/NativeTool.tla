------------------------------ MODULE NativeTool ------------------------------
(***************************************************************************)
(* One call of a native tool: its arguments are checked and made into a    *)
(* command line (definition.rs, build_argv), and the process is fed and    *)
(* read over pipes until it exits, fails or times out (native_executor.rs).*)
(*                                                                         *)
(* A definition is a sequence of argument definitions, and an argument is  *)
(* named by its place in it.  Values are kept by kind, sizes in bytes.     *)
(* The process is external: it may read its input, write its two outputs   *)
(* and exit in any order, and every operation on a full or an empty pipe   *)
(* blocks it; a filter reads all its input before it writes.               *)
(***************************************************************************)
EXTENDS Naturals, Sequences, FiniteSets

CONSTANTS
  Definitions, \* sequences of argument definitions
  Values,      \* kinds of JSON values that arguments have
  Absent,      \* no value
  PipeSize,    \* bytes a pipe holds
  MaxInput,    \* bound: bytes of an argument that is piped
  MaxWritten,  \* bound: bytes the process writes on each output
  MaxOutput    \* tools.max_output_bytes

ASSUME SizesAssumption ==
  /\ PipeSize \in Nat \ {0}
  /\ MaxInput \in Nat /\ MaxWritten \in Nat /\ MaxOutput \in Nat
ASSUME ValuesAssumption == Absent \notin Values \cup {"string"}
ASSUME DefinitionsAssumption ==
  Definitions \subseteq
    Seq([ty : STRING, required : BOOLEAN, default : Values \cup {Absent},
         positional : BOOLEAN, is_stdin : BOOLEAN])

VARIABLES
  def,      \* definition.args
  args,     \* the arguments of the call, as given, then as validated
  allowed,  \* whether the binary is in allowed_binaries
  pc,       \* "start", "writing" (stdin), "waiting" (wait_with_output) or how it ended
  argv,     \* the command line, each element with the argument it is for
  toWrite,  \* bytes of stdin_content that are still to be written
  child,    \* "none", what the process is about to do, or "exited"
  filter,   \* whether it reads all its input first
  left,     \* left[o]: bytes it has still to write on output o
  pipe,     \* pipe[o]: bytes in the pipe
  open,     \* the pipes whose end on our side is open
  got,      \* got[o]: bytes of output o that were read
  output    \* length of the strings stdout and stderr of the answer

childVars == <<child, filter, left>>
pipeVars == <<pipe, open, got>>
vars == <<def, args, allowed, pc, argv, toWrite, childVars, pipeVars, output>>

Outputs == {"stdout", "stderr"}
Pipes == Outputs \cup {"stdin"}
Failures == {"invalid", "denied", "failed", "timeout", "dropped"}
Sum(f) == f["stdout"] + f["stderr"]

-----------------------------------------------------------------------------
(* Arguments.                                                              *)

\* Whether a value has the type an argument definition asks for; a type that is
\* not known is not checked.
HasType(v, ty) ==
  CASE ty = "string" -> v = "string"
    [] ty = "integer" -> v = "integer"
    [] ty = "boolean" -> v \in {"true", "false"}
    [] ty = "object" -> v = "object"
    [] OTHER -> TRUE

\* Fault: required is forgotten.
ValidUnlessMistyped(d, a) ==
  \A i \in 1..Len(d) : a[i] # Absent => HasType(a[i], d[i].ty)

\* validate_args succeeds.
Valid(d, a) ==
  \A i \in 1..Len(d) :
    IF a[i] = Absent THEN ~d[i].required ELSE HasType(a[i], d[i].ty)

\* validate_args: what it returns then.
Normalised(d, a) ==
  [i \in 1..Len(d) |-> IF a[i] = Absent THEN d[i].default ELSE a[i]]

\* The argument that is piped.  Only the first with is_stdin is looked for.
StdinArgs(d) == {i \in 1..Len(d) : d[i].is_stdin}
Piped(d, a) ==
  {i \in StdinArgs(d) : (\A j \in StdinArgs(d) : i <= j) /\ a[i] = "string"}

\* The arguments of S in the order of their definition.
InOrder(S) ==
  CHOOSE r \in [1..Cardinality(S) -> S] :
    \A i, j \in 1..Cardinality(S) : i < j => r[i] < r[j]

Positional(d, a) ==
  {i \in 1..Len(d) : d[i].positional /\ ~d[i].is_stdin /\ a[i] \notin {Absent, "null"}}

\* Fault: is_stdin is only heeded for positional arguments.
FlagsAndStdin(d, a) ==
  {i \in 1..Len(d) : ~d[i].positional /\ a[i] \notin {Absent, "null", "false"}}

Flags(d, a) ==
  {i \in 1..Len(d) :
     ~d[i].positional /\ ~d[i].is_stdin /\ a[i] \notin {Absent, "null", "false"}}

\* build_argv, after the fixed arguments.
BuildArgv(d, a) == InOrder(Positional(d, a)) \o InOrder(Flags(d, a))

-----------------------------------------------------------------------------

TypeOK ==
  /\ def \in Definitions
  /\ args \in [1..Len(def) -> Values \cup {Absent}]
  /\ allowed \in BOOLEAN
  /\ pc \in {"start", "writing", "waiting", "ok"} \cup Failures
  /\ argv \in Seq(1..Len(def))
  /\ toWrite \in 0..MaxInput
  /\ child \in {"none", "choose", "read", "exited"} \cup Outputs
  /\ filter \in BOOLEAN
  /\ left \in [Outputs -> 0..MaxWritten]
  /\ pipe \in [Pipes -> 0..PipeSize]
  /\ open = IF pc = "writing" THEN Pipes ELSE IF pc = "waiting" THEN Outputs ELSE {}
  /\ got \in [Outputs -> 0..MaxWritten]
  /\ output \in [Outputs -> Nat]

Init ==
  /\ def \in Definitions
  /\ args \in [1..Len(def) -> Values \cup {Absent}]
  /\ allowed \in BOOLEAN
  /\ pc = "start"
  /\ argv = <<>>
  /\ toWrite = 0
  /\ child = "none" /\ filter = FALSE
  /\ left = [o \in Outputs |-> 0]
  /\ pipe = [p \in Pipes |-> 0]
  /\ open = {}
  /\ got = [o \in Outputs |-> 0]
  /\ output = [o \in Outputs |-> 0]

\* The future returns or is dropped, and with it our ends of the pipes.
Return(how) ==
  /\ pc' = how
  /\ open' = {}

\* execute returns before any process is there.
Refused ==
  /\ pc = "start"
  /\ \/ ~Valid(def, args) /\ Return("invalid")
     \/ Valid(def, args) /\ ~allowed /\ Return("denied")
     \/ Valid(def, args) /\ allowed /\ Return("failed")
  /\ UNCHANGED <<def, args, allowed, argv, toWrite, childVars, pipe, got, output>>

\* Validation, the allow-list, the command line, and spawn.
Spawns ==
  /\ pc = "start"
  /\ Valid(def, args) /\ allowed
  /\ args' = Normalised(def, args)
  /\ argv' = BuildArgv(def, args')
  /\ IF Piped(def, args') # {}
       THEN /\ pc' = "writing"
            /\ toWrite' \in 0..MaxInput
            /\ open' = Pipes
       ELSE /\ pc' = "waiting"
            /\ open' = Outputs
            /\ UNCHANGED toWrite
  /\ child' = "choose"
  /\ filter' \in BOOLEAN
  /\ left' \in [Outputs -> 0..MaxWritten]
  /\ UNCHANGED <<def, allowed, pipe, got, output>>

-----------------------------------------------------------------------------
(* spawn, after the process is there.                                      *)

Unchanged == UNCHANGED <<def, args, allowed, argv>>

\* write_all goes on; nothing reads the outputs meanwhile.
Writes ==
  /\ pc = "writing" /\ toWrite > 0
  /\ child # "exited" /\ pipe["stdin"] < PipeSize
  /\ toWrite' = toWrite - 1
  /\ pipe' = [pipe EXCEPT !["stdin"] = @ + 1]
  /\ Unchanged /\ UNCHANGED <<pc, childVars, open, got, output>>

\* The process is gone: the pipe is broken, and so is the call.
WriteFails ==
  /\ pc = "writing" /\ toWrite > 0
  /\ child = "exited"
  /\ Return("failed")
  /\ Unchanged /\ UNCHANGED <<toWrite, childVars, pipe, got, output>>

\* All is written; the pipe is closed, and wait_with_output begins.
Written ==
  /\ pc = "writing" /\ toWrite = 0
  /\ pc' = "waiting"
  /\ open' = open \ {"stdin"}
  /\ Unchanged /\ UNCHANGED <<toWrite, childVars, pipe, got, output>>

\* Fault: stderr is read after stdout has ended.
CollectsInTurn(o) ==
  /\ pc = "waiting" /\ pipe[o] > 0
  /\ o = "stderr" => child = "exited" /\ pipe["stdout"] = 0
  /\ pipe' = [pipe EXCEPT ![o] = @ - 1]
  /\ got' = [got EXCEPT ![o] = @ + 1]
  /\ Unchanged /\ UNCHANGED <<pc, toWrite, childVars, open, output>>

\* wait_with_output reads both outputs at once, however much it is.
Collects(o) ==
  /\ pc = "waiting" /\ pipe[o] > 0
  /\ pipe' = [pipe EXCEPT ![o] = @ - 1]
  /\ got' = [got EXCEPT ![o] = @ + 1]
  /\ Unchanged /\ UNCHANGED <<pc, toWrite, childVars, open, output>>

\* The length of TRUNCATION_SUFFIX.
Suffix == 12

\* Lengths that lossy decoding may make of n bytes: k pairs and l single bytes that
\* are not UTF-8 become characters of three bytes, and triples stay as long as they are.
Decoded(n) ==
  {m \in n..(3 * n) : \E k, l \in 0..n : 2 * k + l <= n /\ m = n + k + 2 * l}

\* truncate: lengths the string may have.
Truncate(n, limit) ==
  IF n <= limit THEN Decoded(n) ELSE {s + Suffix : s \in Decoded(limit)}

\* saturating_sub
Minus(m, n) == IF n > m THEN 0 ELSE m - n

\* Fault: stderr is truncated as if there were no stdout.
AnswersBothLimits ==
  /\ pc = "waiting"
  /\ child = "exited" /\ \A o \in Outputs : pipe[o] = 0
  /\ Return("ok")
  /\ \E out \in Truncate(got["stdout"], MaxOutput) :
       \E err \in Truncate(got["stderr"], MaxOutput) :
         output' = [stdout |-> out, stderr |-> err]
  /\ Unchanged /\ UNCHANGED <<toWrite, childVars, pipe, got>>

\* Both outputs have ended and the process has exited.
Answers ==
  /\ pc = "waiting"
  /\ child = "exited" /\ \A o \in Outputs : pipe[o] = 0
  /\ Return("ok")
  /\ \E out \in Truncate(got["stdout"], MaxOutput) :
       \E err \in Truncate(got["stderr"], Minus(MaxOutput, out)) :
         output' = [stdout |-> out, stderr |-> err]
  /\ Unchanged /\ UNCHANGED <<toWrite, childVars, pipe, got>>

\* Fault: the future is kept, and with it our ends of the pipes.
TimesOutKept ==
  /\ pc \in {"writing", "waiting"}
  /\ pc' = "timeout"
  /\ Unchanged /\ UNCHANGED <<toWrite, childVars, pipe, open, got, output>>

\* The timeout drops the future; the process is not killed.
TimesOut ==
  /\ pc \in {"writing", "waiting"}
  /\ Return("timeout")
  /\ Unchanged /\ UNCHANGED <<toWrite, childVars, pipe, got, output>>

\* So does the caller, whose turn was dropped.
Dropped ==
  /\ pc \in {"writing", "waiting"}
  /\ Return("dropped")
  /\ Unchanged /\ UNCHANGED <<toWrite, childVars, pipe, got, output>>

-----------------------------------------------------------------------------
(* The process.                                                            *)

InputOver == pipe["stdin"] = 0 /\ "stdin" \notin open

\* It decides what to do next; a filter reads until its input is over.
Chooses ==
  /\ child = "choose"
  /\ \/ ~InputOver /\ child' = "read"
     \/ /\ ~filter \/ InputOver
        /\ \/ \E o \in Outputs : left[o] > 0 /\ child' = o
           \/ Sum(left) = 0 /\ child' = "exited"
  /\ Unchanged /\ UNCHANGED <<pc, toWrite, filter, left, pipeVars, output>>

\* It reads a byte, or learns that there is none any more.
Reads ==
  /\ child = "read"
  /\ pipe["stdin"] > 0 \/ "stdin" \notin open
  /\ pipe' = [pipe EXCEPT !["stdin"] = Minus(@, 1)]
  /\ child' = "choose"
  /\ Unchanged /\ UNCHANGED <<pc, toWrite, filter, left, open, got, output>>

\* It writes a byte to output o; a pipe that nobody can read ends it.
Prints(o) ==
  /\ child = o
  /\ IF o \in open
       THEN /\ pipe[o] < PipeSize
            /\ pipe' = [pipe EXCEPT ![o] = @ + 1]
            /\ left' = [left EXCEPT ![o] = @ - 1]
            /\ child' = "choose"
       ELSE child' = "exited" /\ UNCHANGED <<pipe, left>>
  /\ Unchanged /\ UNCHANGED <<pc, toWrite, filter, open, got, output>>

Call == Writes \/ WriteFails \/ Written \/ (\E o \in Outputs : Collects(o)) \/ Answers
Process == Chooses \/ Reads \/ \E o \in Outputs : Prints(o)

Next == Refused \/ Spawns \/ Call \/ Process \/ TimesOut \/ Dropped

Spec == Init /\ [][Next]_vars

\* The process goes on when it can, and timers fire.
FairSpec == Spec /\ WF_vars(Call) /\ WF_vars(Process) /\ WF_vars(TimesOut)

-----------------------------------------------------------------------------
(* Properties.                                                             *)

Started == child # "none"

\* No process is started for a binary that is not allowed, without an argument
\* that is required, or with one of a wrong type; only defaults are not checked
\* (validate_args, run).
ArgumentsChecked ==
  Started =>
    /\ allowed
    /\ \A i \in 1..Len(def) :
         /\ args[i] = Absent => ~def[i].required /\ def[i].default = Absent
         /\ args[i] # Absent => HasType(args[i], def[i].ty) \/ args[i] = def[i].default

\* How often an argument is on the command line, and on its way to the process.
OnCommandLine(i) == Cardinality({j \in 1..Len(argv) : argv[j] = i})
Deliveries(i) == OnCommandLine(i) + (IF i \in Piped(def, args) THEN 1 ELSE 0)

\* It has a value that is worth a mention: a false flag has none.
Says(i) ==
  /\ args[i] \notin {Absent, "null"}
  /\ args[i] = "false" => def[i].positional \/ def[i].is_stdin

\* An argument that is not for the input is on the command line once if it says
\* something, and otherwise not; one that is for the input is never there, reaches
\* the process at most once, and does if it is text and no other is for the input
\* (build_argv and run read the definition independently).  What is for the input
\* and is not text is lost, and so is what is second: see OnePromiseKept.  (With
\* the types of all variables, the command line among them.)
ArgumentsDelivered ==
  /\ TypeOK
  /\ Started => \A i \in 1..Len(def) :
       IF def[i].is_stdin
         THEN /\ OnCommandLine(i) = 0
              /\ Deliveries(i) <= 1
              /\ StdinArgs(def) = {i} /\ args[i] = "string" => Deliveries(i) = 1
         ELSE Deliveries(i) = IF Says(i) THEN 1 ELSE 0

\* What the agent is told is at most three times the limit and two markers long:
\* stdout and stderr share the limit, which is applied before decoding (spawn,
\* truncate).  The docs promise less: see OnePromiseKept.
OutputBounded ==
  pc = "ok" => Sum(output) <= 3 * MaxOutput + 2 * Suffix

\* The documentation of run promises that "combined stdout+stderr is capped at
\* max_output_bytes; excess is replaced with" the marker, and that the value of an
\* argument with is_stdin "is piped to the process's stdin".  Either promise makes
\* this hold of every call that succeeds, so a call that violates it breaks both:
\* the markers are not counted, and no other argument is for the input.
OnePromiseKept ==
  pc = "ok" =>
    \/ Sum(output) <= MaxOutput + 2 * Suffix
    \/ \A i \in 1..Len(def) : StdinArgs(def) = {i} /\ Says(i) => Deliveries(i) = 1

\* The guards of Call and Process.
CanGoOn ==
  \/ pc = "writing" /\ (toWrite = 0 \/ child = "exited" \/ pipe["stdin"] < PipeSize)
  \/ pc = "waiting" /\ (child = "exited" \/ \E o \in Outputs : pipe[o] > 0)
  \/ child = "choose" /\ (~InputOver \/ Sum(left) = 0 \/ \E o \in Outputs : left[o] > 0)
  \/ child = "read" /\ (pipe["stdin"] > 0 \/ "stdin" \notin open)
  \/ \E o \in Outputs : child = o /\ (o \in open => pipe[o] < PipeSize)

\* Call and process block each other only in one way: input is still written to
\* a process that is no filter and that has filled the pipe of an output before
\* reading it.  Once the input is written they never do (spawn writes all of
\* stdin before wait_with_output reads).
OnlyOutputBlocks ==
  pc \in {"writing", "waiting"} /\ ~CanGoOn =>
    /\ pc = "writing" /\ ~filter
    /\ \E o \in Outputs : child = o /\ pipe[o] = PipeSize

\* The same of the steps themselves.
BlockedOnlyByOutput ==
  pc \in {"writing", "waiting"} => (CanGoOn <=> ENABLED (Call \/ Process)) /\ OnlyOutputBlocks

\* Nobody kills the process of a call that timed out, failed or was dropped, but
\* it is not blocked for good either: our ends of the pipes have gone with the
\* future.
ProcessesEnd == child \notin {"none", "exited"} ~> child = "exited"
=============================================================================
