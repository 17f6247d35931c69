-------------------------------- MODULE Cli --------------------------------
(***************************************************************************)
(* One run of jcs-canon (cmd/jcs-canon/main.go): the arguments, the        *)
(* bounded read of a file or of standard input, the call of the library,   *)
(* and the writes to the two output streams, each of which may fail.  The  *)
(* exit code is decided by the class of the error and by the writes.       *)
(***************************************************************************)
EXTENDS Integers, Sequences, SequencesExt, Jcserr

CONSTANTS ArgLists,       \* the command lines
          Contents,       \* what a file or standard input may hold
          MaxInputSize    \* jcstoken.DefaultMaxInputSize

(* "file" is any argument that does not begin with a dash: where a command *)
(* is expected it is an unknown one, after it the name of the input.       *)
Arg  == {"canonicalize", "verify", "file", "-", "--help", "--version", "--quiet", "--bad"}

(* What the library says of a text, by itself and whatever its size: that  *)
(* it is canonical, valid, or to be refused with this class.  The other    *)
(* classes are of the command line, or of values no parser makes.          *)
Refusal == FailureClass \ {"NotCanonical", "CLIUsage", "InternalIO", "InternalError"}
Kind    == {"canonical", "valid"} \cup Refusal

NoFile == [kind |-> "missing", size |-> 0]

ASSUME MaxAssumption      == MaxInputSize \in Nat \ {0}
ASSUME ArgsAssumption     == ArgLists \subseteq Seq(Arg)
ASSUME ContentsAssumption == Contents \subseteq [kind : Kind, size : Nat]

VARIABLES args, stdin, file,    \* the command line and its inputs
          pc,                   \* "start", "read", "process", "write", "done"
          received,             \* bytes ReadAll has so far
          todo,                 \* the writes left, in order
          code,                 \* the exit code if they succeed
          out, err,             \* what the two streams have received
          broken                \* the environment's failures so far

vars == <<args, stdin, file, pc, received, todo, code, out, err, broken>>

inputs == <<args, stdin, file>>

Stream == {"out", "err"}
Text   == {"help", "version", "canonical", "ok"} \cup FailureClass
Line   == [to : Stream, what : Text]

-----------------------------------------------------------------------------
(* parseFlags, over the arguments after the command *)
Command      == IF args = << >> THEN None ELSE args[1]
Rest         == Tail(args)
IsFlag(a)    == a \in {"--quiet", "--help"}
IsUnknown(a) == a \in {"--bad", "--version"}
Named(rest)  == SelectSeq(rest, LAMBDA a : ~IsFlag(a))
Positional   == Named(Rest)
Given(flag)  == flag \in ToSet(Rest)

(* readInput: no argument or "-" is standard input *)
FromStdin == Positional = << >> \/ Positional[1] = "-"
Source    == IF FromStdin THEN stdin ELSE file

ErrorLine(class) == [to |-> "err", what |-> class]
Lines(n, to, what) == [i \in 1..n |-> [to |-> to, what |-> what]]

GlobalHelp(to) == Lines(5, to, "help")
CommandHelp    == Lines(3, "out", "help")

Emit(lines, exit) ==
  /\ todo' = lines
  /\ code' = exit
  /\ pc' = "write"
  /\ UNCHANGED <<out, err>>
  /\ UNCHANGED inputs

(* writeClassifiedError *)
Fail(class) == Emit(<<ErrorLine(class)>>, ExitCode(class))

-----------------------------------------------------------------------------
Start == pc = "start" /\ UNCHANGED <<received, broken>>

(* run: no command, or an unknown one; the diagnostic, then the usage *)
UsageError ==
  /\ Start
  /\ Command \notin {"canonicalize", "verify", "--help", "--version"}
  /\ Emit(<<ErrorLine("CLIUsage")>> \o GlobalHelp("err"), ExitCode("CLIUsage"))

TopLevel ==
  /\ Start
  /\ \/ Command = "--help" /\ Emit(GlobalHelp("out"), 0)
     \/ Command = "--version" /\ Emit(Lines(1, "out", "version"), 0)

Dispatch == Start /\ Command \in {"canonicalize", "verify"}

BadFlag ==
  /\ Dispatch
  /\ \E a \in ToSet(Rest) : IsUnknown(a)
  /\ Fail("CLIUsage")

SubcommandHelp ==
  /\ Dispatch
  /\ \A a \in ToSet(Rest) : ~IsUnknown(a)
  /\ Given("--help")
  /\ Emit(CommandHelp, 0)

Runs == Dispatch /\ (\A a \in ToSet(Rest) : ~IsUnknown(a)) /\ ~Given("--help")

(* ensureSingleInput *)
TooManyInputs == Len(Positional) > 1

MultipleInputs == Runs /\ TooManyInputs /\ Fail("CLIUsage")

OpenFails ==
  /\ Runs
  /\ ~TooManyInputs /\ Source = NoFile
  /\ Fail("CLIUsage")

Open ==
  /\ Runs
  /\ ~TooManyInputs /\ Source # NoFile
  /\ pc' = "read"
  /\ UNCHANGED <<todo, code, out, err>>
  /\ UNCHANGED inputs

-----------------------------------------------------------------------------
(* readBounded: io.ReadAll of a reader limited to one byte past the limit *)
Reading == pc = "read"

(* Fault: io.ReadAll of the stream itself. *)
AtStreamEnd == received = Source.size

AtEnd   == received = Source.size \/ received = MaxInputSize + 1

ReadByte ==
  /\ Reading
  /\ ~AtEnd
  /\ received' = received + 1
  /\ UNCHANGED <<pc, todo, code, out, err, broken>>
  /\ UNCHANGED inputs

(* A failing read: INTERNAL_IO, which readInput turns into CLI_USAGE when  *)
(* the bytes come from a named file.                                       *)
ReadFails ==
  /\ Reading
  /\ received <= MaxInputSize
  /\ broken' = broken \cup {"read"}
  /\ Fail(IF FromStdin THEN "InternalIO" ELSE "CLIUsage")
  /\ UNCHANGED received

Oversize == received > MaxInputSize

ReadTooLong ==
  /\ Reading
  /\ AtEnd /\ Oversize
  /\ Fail("BoundExceeded")
  /\ UNCHANGED <<received, broken>>

ReadAll ==
  /\ Reading
  /\ AtEnd /\ ~Oversize
  /\ pc' = "process"
  /\ UNCHANGED <<received, todo, code, out, err, broken>>
  /\ UNCHANGED inputs

-----------------------------------------------------------------------------
Processing == pc = "process" /\ UNCHANGED <<received, broken>>

(* jcs.Canonicalize, or Parse and Serialize: the class is the library's *)
Rejected == Processing /\ Source.kind \in Refusal /\ Fail(Source.kind)

Canonicalize ==
  /\ Processing
  /\ Command = "canonicalize" /\ Source.kind \notin Refusal
  /\ Emit(Lines(1, "out", "canonical"), 0)

(* Fault: verify says ok first and compares the bytes then. *)
OkThenCompare ==
  /\ Processing
  /\ Command = "verify" /\ Source.kind \notin Refusal
  /\ LET ok == IF Given("--quiet") THEN << >> ELSE Lines(1, "err", "ok") IN
     IF Source.kind = "canonical" THEN Emit(ok, 0)
     ELSE Emit(Append(ok, ErrorLine("NotCanonical")), ExitCode("NotCanonical"))

(* cmdVerify: bytes.Equal, then "ok" unless --quiet *)
Verify ==
  /\ Processing
  /\ Command = "verify" /\ Source.kind \notin Refusal
  /\ IF Source.kind # "canonical" THEN Fail("NotCanonical")
     ELSE Emit(IF Given("--quiet") THEN << >> ELSE Lines(1, "err", "ok"), 0)

-----------------------------------------------------------------------------
Head1   == todo[1]
Writing == pc = "write" /\ todo # << >> /\ UNCHANGED <<received, pc>> /\ UNCHANGED inputs

WriteLine ==
  /\ Writing
  /\ todo' = Tail(todo)
  /\ out' = IF Head1.to = "out" THEN Append(out, Head1.what) ELSE out
  /\ err' = IF Head1.to = "err" THEN Append(err, Head1.what) ELSE err
  /\ UNCHANGED <<code, broken>>

(* A failing write, of which the stream may have taken a part. *)
Torn(stream, to) == {stream} \cup (IF Head1.to = to THEN {Append(stream, "part")} ELSE {})

(* Fault: an unwritten diagnostic leaves the code of its class. *)
KeepsCode(line) == code

(* writeClassifiedError when its own write fails *)
CodeUnreported(line) == ExitCode("InternalIO")

ReportFails ==
  /\ Writing
  /\ Head1.what \in FailureClass
  /\ broken' = broken \cup {"write"}
  /\ err' \in Torn(err, "err")
  /\ todo' = Tail(todo)
  /\ code' = CodeUnreported(Head1)
  /\ UNCHANGED out

(* Fault: the failure of the last write of a successful run goes unseen. *)
WriteUnchecked ==
  /\ Writing
  /\ Head1.what \notin FailureClass
  /\ broken' = broken \cup {"write"}
  /\ out' \in Torn(out, "out")
  /\ err' \in Torn(err, "err")
  /\ todo' = Tail(todo)
  /\ UNCHANGED code

WriteFails ==
  /\ Writing
  /\ Head1.what \notin FailureClass
  /\ broken' = broken \cup {"write"}
  /\ out' \in Torn(out, "out")
  /\ err' \in Torn(err, "err")
  /\ todo' = <<ErrorLine("InternalIO")>>
  /\ code' = ExitCode("InternalIO")

Exit ==
  /\ pc = "write" /\ todo = << >>
  /\ pc' = "done"
  /\ UNCHANGED <<received, todo, code, out, err, broken>>
  /\ UNCHANGED inputs

-----------------------------------------------------------------------------
Init ==
  /\ args \in ArgLists
  /\ stdin \in Contents
  /\ file \in Contents \cup {NoFile}
  /\ pc = "start"
  /\ received = 0
  /\ todo = << >>
  /\ code = 0
  /\ out = << >> /\ err = << >>
  /\ broken = {}

Next == \/ UsageError \/ TopLevel \/ BadFlag \/ SubcommandHelp \/ MultipleInputs
        \/ OpenFails \/ Open \/ ReadByte \/ ReadFails \/ ReadTooLong \/ ReadAll
        \/ Rejected \/ Canonicalize \/ Verify
        \/ WriteLine \/ ReportFails \/ WriteFails \/ Exit

Spec == Init /\ [][Next]_vars

-----------------------------------------------------------------------------
TypeOK ==
  /\ args \in Seq(Arg)
  /\ stdin \in Contents /\ file \in Contents \cup {NoFile}
  /\ pc \in {"start", "read", "process", "write", "done"}
  /\ received \in 0..(MaxInputSize + 1)
  /\ todo \in Seq(Line)
  /\ code \in {0, 2, 10}
  /\ out \in Seq(Text \cup {"part"}) /\ err \in Seq(Text \cup {"part"})
  /\ broken \subseteq {"read", "write"}

Exited(c) == pc = "done" /\ code = c
Reached   == Command \in {"canonicalize", "verify"} /\ ~Given("--help")

(* Exit 0 is a promise about both streams: canonicalize has delivered the  *)
(* whole canonical text of a valid input within the limit and no word on   *)
(* stderr; verify has seen a canonical input and said ok exactly when it   *)
(* may (ABI.md, Output Stream Contract; CLI-IO-004, CLI-IO-005).           *)
SuccessIsComplete ==
  Exited(0) /\ Reached =>
    /\ received = Source.size /\ Source.kind \notin Refusal /\ broken = {}
    /\ Command = "canonicalize" => out = <<"canonical">> /\ err = << >>
    /\ Command = "verify" => /\ out = << >> /\ Source.kind = "canonical"
                             /\ err = (IF Given("--quiet") THEN << >> ELSE <<"ok">>)

(* Nothing reaches stdout, and "ok" does not reach stderr, of an input that *)
(* was not read to its end or that is refused in the end: a consumer of a   *)
(* pipe never sees bytes of a text that is then rejected.                  *)
NothingOfRejected ==
  Reached /\ (out # << >> \/ "ok" \in ToSet(err)) =>
    /\ received = Source.size /\ received <= MaxInputSize
    /\ Source.kind \notin Refusal
    /\ Command = "verify" => Source.kind = "canonical"
    /\ ~\E i \in 1..Len(err) : err[i] \in FailureClass \ {"InternalIO"}

(* Exit 2 says: the first line on stderr names a class of rejection, and   *)
(* every write went through. After a failed write the exit code is 10,     *)
(* even when the run had another reason to fail (CLI-EXIT-003, -004).  The *)
(* class is BOUND_EXCEEDED of a text that is longer than the limit, from   *)
(* wherever it comes, and of one within it that the library refuses for    *)
(* its depth or its counts, and of no other: not of one of exactly the     *)
(* limit, and not of what else a text that was cut there would be refused  *)
(* for (BOUND-INPUT-001).                                                  *)
DiagnosedExit ==
  /\ Exited(2) => /\ err # << >> /\ err[1] \in FailureClass /\ ExitCode(err[1]) = 2
                  /\ "write" \notin broken
  /\ pc = "done" /\ "write" \in broken => code = 10
  /\ Exited(10) => broken # {}
  /\ pc = "done" /\ Reached /\ broken = {} /\ received > 0 =>
       ("BoundExceeded" \in ToSet(err)
          <=> Source.size > MaxInputSize \/ Source.kind = "BoundExceeded")

(* FAILURE_TAXONOMY.md: INTERNAL_IO is for failures after a valid channel  *)
(* is established, such as "pipe breakage mid-stream".  A read that fails  *)
(* after bytes have been received is reported as INTERNAL_IO.              *)
MidStreamIsIO ==
  Reached /\ pc = "done" /\ broken = {"read"} /\ received > 0 =>
    err = <<"InternalIO">> /\ code = 10
=============================================================================
