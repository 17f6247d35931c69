------------------------------ MODULE CliProofs ------------------------------
(***************************************************************************)
(* Theorems about Cli, for any command lines, inputs and limit.            *)
(*                                                                         *)
(* Until the first write is decided nothing has been written and nothing   *)
(* has failed.  From then on a run of a subcommand is of one of two kinds: *)
(* Fine, its input read to the end, within the limit and accepted, or      *)
(* Refused, with nothing on standard output and one class to report.  The  *)
(* exit code follows the writes: 10 once one of them has failed, 0 only    *)
(* while the lines of a success are delivered one after the other.         *)
(***************************************************************************)
EXTENDS Cli, SequenceTheorems, TLAPS

Ended == pc \in {"write", "done"}

Before == ~Ended => out = << >> /\ err = << >> /\ todo = << >> /\ broken = {} /\ code = 0

Place ==
  /\ Reached => received <= Source.size
  /\ pc = "start" => received = 0
  /\ pc \in {"read", "process"} => Reached
  /\ pc = "process" => received = Source.size /\ received <= MaxInputSize
  /\ pc = "done" => todo = << >>

(* a class whose exit code is 2 comes first on stderr, or is about to      *)
Rejecting(class) == class \in FailureClass /\ ExitCode(class) = 2

Diagnosed ==
  \/ err # << >> /\ Rejecting(err[1])
  \/ err = << >> /\ todo # << >> /\ todo[1].to = "err" /\ Rejecting(todo[1].what)

Codes ==
  Ended => /\ "write" \in broken => code = 10
           /\ code = 10 => broken # {}
           /\ code = 2 => Diagnosed

(* a stream that one line is to go to: it has it, or will have *)
Awaits(stream, line) ==
  \/ todo = <<line>> /\ stream = << >>
  \/ todo = << >> /\ stream = <<line.what>>

Canonical == [to |-> "out", what |-> "canonical"]
Ok        == [to |-> "err", what |-> "ok"]

Complete ==
  /\ broken = {}
  /\ Command = "canonicalize" => err = << >> /\ Awaits(out, Canonical)
  /\ Command = "verify" =>
       /\ out = << >>
       /\ IF Given("--quiet") THEN todo = << >> /\ err = << >> ELSE Awaits(err, Ok)

Fine ==
  /\ Source.kind \notin Refusal /\ received = Source.size /\ received <= MaxInputSize
  /\ Command = "verify" => Source.kind = "canonical"
  /\ \A i \in 1..Len(err) : err[i] \in {"ok", "part", "InternalIO"}
  /\ \A i \in 1..Len(todo) : todo[i] \in {Canonical, Ok, ErrorLine("InternalIO")}
  /\ code = 0 => Complete

Bounded(class) ==
  broken = {} /\ received > 0 =>
    (class = "BoundExceeded" <=> Source.size > MaxInputSize \/ Source.kind = "BoundExceeded")

Refused ==
  /\ code # 0
  /\ out = << >>
  /\ \A i \in 1..Len(err) : err[i] # "ok"
  /\ \/ "write" \in broken /\ todo = << >>
     \/ \E class \in FailureClass : Awaits(err, ErrorLine(class)) /\ Bounded(class)

Verdict == Reached /\ Ended => Fine \/ Refused

IInv == TypeOK /\ Before /\ Place /\ Codes /\ Verdict
-----------------------------------------------------------------------------
LEMMA InputsFixed ==
  ASSUME UNCHANGED inputs
  PROVE  /\ Command' = Command /\ Source' = Source
         /\ Reached' = Reached /\ Given("--quiet")' = Given("--quiet")
<1>1. args' = args /\ stdin' = stdin /\ file' = file
  BY DEF inputs
<1>2. Command' = Command /\ Rest' = Rest
  BY <1>1 DEF Command, Rest
<1>3. Positional' = Positional
  BY <1>2 DEF Positional
<1>4. Source' = Source
  BY <1>1, <1>3 DEF Source, FromStdin
<1> QED
  BY <1>2, <1>4 DEF Reached, Given

LEMMA SourceIs == ASSUME TypeOK PROVE Source.size \in Nat
BY ContentsAssumption DEF TypeOK, Source, NoFile

LEMMA ExitCodes ==
  \A class \in FailureClass : /\ ExitCode(class) \in {2, 10}
                              /\ ExitCode(class) = 10 <=> class \in {"InternalIO", "InternalError"}
BY DEF ExitCode

(* Whatever is emitted first goes to streams that have received nothing.   *)
LEMMA Emitted ==
  ASSUME IInv, ~Ended, NEW lines \in Seq(Line), NEW exit \in {0, 2, 10}, Emit(lines, exit),
         received' \in {received}, broken' \in {{}, {"read"}}
  PROVE  /\ TypeOK' /\ Before' /\ Place'
         /\ UNCHANGED inputs /\ Ended' /\ pc' = "write"
         /\ todo' = lines /\ code' = exit
         /\ out' = << >> /\ err' = << >>
<1>1. /\ todo' = lines /\ code' = exit /\ pc' = "write" /\ UNCHANGED <<out, err>>
      /\ UNCHANGED inputs
  BY DEF Emit
<1>2. out = << >> /\ err = << >> /\ broken = {}
  BY DEF IInv, Before
<1>3. TypeOK'
  BY <1>1, <1>2 DEF IInv, TypeOK, inputs
<1>4. Before' /\ Place'
  BY <1>1, InputsFixed DEF IInv, Before, Place, Ended
<1> QED
  BY <1>1, <1>2, <1>3, <1>4 DEF Ended

(* A refusal: one line for its class, and the exit code of the class.      *)
LEMMA Failing ==
  ASSUME IInv, ~Ended, NEW class \in FailureClass, Fail(class),
         received' = received, broken' \in {{}, {"read"}},
         ExitCode(class) = 10 => broken' # {},
         Reached => Bounded(class)'
  PROVE  IInv'
<1> DEFINE lines == <<ErrorLine(class)>>
<1>1. lines \in Seq(Line) /\ lines[1] = ErrorLine(class) /\ lines # << >>
      /\ ErrorLine(class).to = "err" /\ ErrorLine(class).what = class
  BY DEF Line, ErrorLine, Text, Stream
<1>2. ExitCode(class) \in {2, 10}
  BY ExitCodes
<1>3. Emit(lines, ExitCode(class))
  BY DEF Fail
<1> HIDE DEF lines
<1>4. /\ TypeOK' /\ Before' /\ Place' /\ UNCHANGED inputs
      /\ todo' = lines /\ code' = ExitCode(class) /\ out' = << >> /\ err' = << >>
  BY <1>1, <1>2, <1>3, Emitted
<1>5. Codes'
  BY <1>1, <1>2, <1>4 DEF Codes, Diagnosed, Rejecting
<1>6. Reached => Refused'
  BY <1>1, <1>2, <1>4 DEF Refused, Awaits, lines
<1> QED
  BY <1>4, <1>5, <1>6, InputsFixed DEF IInv, Verdict

(* A run that succeeds, or gives help, awaits the writes only.             *)
LEMMA Succeeding ==
  ASSUME IInv, ~Ended, NEW lines \in Seq(Line), Emit(lines, 0),
         received' = received, broken' = broken, Reached => Fine'
  PROVE  IInv'
<1>1. broken = {}
  BY DEF IInv, Before
<1>2. TypeOK' /\ Before' /\ Place' /\ UNCHANGED inputs /\ code' = 0
  BY <1>1, Emitted
<1>3. Codes'
  BY <1>1, <1>2 DEF Codes
<1> QED
  BY <1>2, <1>3, InputsFixed DEF IInv, Verdict

LEMMA HelpLines ==
  ASSUME NEW to \in Stream, NEW what \in Text, NEW n \in Nat
  PROVE  Lines(n, to, what) \in Seq(Line) /\ Len(Lines(n, to, what)) = n
BY DEF Lines, Line
-----------------------------------------------------------------------------
LEMMA UsageStep == ASSUME IInv, UsageError PROVE IInv'
<1> DEFINE help  == GlobalHelp("err")
           lines == <<ErrorLine("CLIUsage")>> \o help
<1>1. <<ErrorLine("CLIUsage")>> \in Seq(Line) /\ help \in Seq(Line)
  BY HelpLines DEF GlobalHelp, ErrorLine, Line, Text, Stream, FailureClass
<1>2. lines \in Seq(Line) /\ lines # << >> /\ lines[1] = ErrorLine("CLIUsage")
  <2>1. /\ lines \in Seq(Line) /\ Len(lines) = 1 + Len(help)
        /\ lines[1] = ErrorLine("CLIUsage")
    BY <1>1, ConcatProperties
  <2> QED
    BY <1>1, <2>1
<1> HIDE DEF help, lines
<1>3. ~Ended /\ ~Reached /\ received' = received /\ broken' = broken /\ Emit(lines, 2)
  BY DEF UsageError, Start, Ended, Reached, ExitCode, lines, help
<1>4. broken = {}
  BY <1>3 DEF IInv, Before
<1>5. /\ TypeOK' /\ Before' /\ Place' /\ UNCHANGED inputs
      /\ todo' = lines /\ code' = 2 /\ err' = << >>
  BY <1>2, <1>3, <1>4, Emitted
<1>6. Codes'
  BY <1>2, <1>3, <1>4, <1>5 DEF Codes, Diagnosed, Rejecting, ErrorLine, ExitCode, FailureClass
<1> QED
  BY <1>3, <1>5, <1>6, InputsFixed DEF IInv, Verdict

LEMMA HelpStep == ASSUME IInv, TopLevel \/ SubcommandHelp PROVE IInv'
<1>1. ~Ended /\ ~Reached /\ received' = received /\ broken' = broken
  BY DEF TopLevel, SubcommandHelp, Dispatch, Start, Ended, Reached
<1>2. PICK lines \in Seq(Line) : Emit(lines, 0)
  BY HelpLines DEF TopLevel, SubcommandHelp, GlobalHelp, CommandHelp, Text, Stream
<1> QED
  BY <1>1, <1>2, Succeeding

(* Nothing has been read when the arguments are refused. *)
LEMMA ArgumentStep ==
  ASSUME IInv, BadFlag \/ MultipleInputs \/ OpenFails
  PROVE  IInv'
<1>1. /\ ~Ended /\ Fail("CLIUsage") /\ received = 0
      /\ received' = received /\ broken' = broken
  BY DEF BadFlag, MultipleInputs, OpenFails, Runs, Dispatch, Start, Ended, IInv, Place
<1>2. broken = {} /\ Bounded("CLIUsage")' /\ ExitCode("CLIUsage") = 2
  BY <1>1 DEF IInv, Before, Bounded, ExitCode
<1> QED
  BY <1>1, <1>2, Failing DEF FailureClass

LEMMA OpenStep == ASSUME IInv, Open PROVE IInv'
<1>1. /\ pc = "start" /\ pc' = "read" /\ UNCHANGED <<received, todo, code, out, err, broken>>
      /\ UNCHANGED inputs /\ Command \in {"canonicalize", "verify"} /\ ~Given("--help")
  BY DEF Open, Runs, Dispatch, Start
<1>2. Reached /\ received = 0
  BY <1>1 DEF Reached, IInv, Place
<1> QED
  BY <1>1, <1>2, InputsFixed DEF IInv, TypeOK, Before, Place, Codes, Verdict, Ended, inputs

LEMMA ReadStep == ASSUME IInv, ReadByte PROVE IInv'
<1>1. /\ pc = "read" /\ received' = received + 1
      /\ received # Source.size /\ received # MaxInputSize + 1
      /\ UNCHANGED <<pc, todo, code, out, err, broken>> /\ UNCHANGED inputs
  BY DEF ReadByte, Reading, AtEnd
<1>2. received \in 0..(MaxInputSize + 1) /\ received <= Source.size /\ Source.size \in Nat
  BY <1>1, SourceIs DEF IInv, TypeOK, Place
<1>3. received + 1 \in 0..(MaxInputSize + 1) /\ received + 1 <= Source.size
  BY <1>1, <1>2, MaxAssumption
<1> QED
  BY <1>1, <1>3, InputsFixed DEF IInv, TypeOK, Before, Place, Codes, Verdict, Ended, inputs

LEMMA ReadFailsStep == ASSUME IInv, ReadFails PROVE IInv'
<1>1. ~Ended /\ received' = received /\ broken' = {"read"}
  BY DEF ReadFails, Reading, Ended, IInv, Before
<1>2. PICK class \in {"InternalIO", "CLIUsage"} : Fail(class)
  BY DEF ReadFails
<1>3. class \in FailureClass /\ Bounded(class)'
  BY <1>1 DEF FailureClass, Bounded
<1> QED
  BY <1>1, <1>2, <1>3, Failing

(* More than the limit can only have been read of a text that is longer.   *)
LEMMA TooLongStep == ASSUME IInv, ReadTooLong PROVE IInv'
<1>1. /\ pc = "read" /\ received > MaxInputSize /\ Fail("BoundExceeded")
      /\ received' = received /\ broken' = broken
  BY DEF ReadTooLong, Reading, Oversize
<1>2. ~Ended /\ broken = {} /\ UNCHANGED inputs
  BY <1>1 DEF Ended, IInv, Before, Fail, Emit
<1>3. received <= Source.size /\ received \in Nat /\ Source.size \in Nat
  BY <1>1, SourceIs, MaxAssumption DEF IInv, Place, TypeOK
<1>4. Source.size > MaxInputSize
  BY <1>1, <1>3, MaxAssumption
<1>5. Bounded("BoundExceeded")' /\ ExitCode("BoundExceeded") = 2
  BY <1>2, <1>4, InputsFixed DEF Bounded, ExitCode
<1> QED
  BY <1>1, <1>2, <1>5, Failing DEF FailureClass

LEMMA ReadAllStep == ASSUME IInv, ReadAll PROVE IInv'
<1>1. /\ pc = "read" /\ pc' = "process" /\ ~(received > MaxInputSize)
      /\ received = Source.size \/ received = MaxInputSize + 1
      /\ UNCHANGED <<received, todo, code, out, err, broken>> /\ UNCHANGED inputs
  BY DEF ReadAll, Reading, AtEnd, Oversize
<1>2. received = Source.size /\ received <= MaxInputSize
  BY <1>1, MaxAssumption DEF IInv, TypeOK
<1> QED
  BY <1>1, <1>2, InputsFixed DEF IInv, TypeOK, Before, Place, Codes, Verdict, Ended, inputs

-----------------------------------------------------------------------------
(* A text that was read to its end is not longer than the limit, and the   *)
(* library alone says whether it exceeds another one.                      *)
LEMMA ProcessFails ==
  ASSUME IInv, Processing, NEW class \in Refusal \cup {"NotCanonical"}, Fail(class),
         class = "BoundExceeded" <=> Source.kind = "BoundExceeded"
  PROVE  IInv'
<1>1. /\ ~Ended /\ received' = received /\ broken' = broken
      /\ received = Source.size /\ received <= MaxInputSize
  BY DEF Processing, Ended, IInv, Place
<1>2. broken = {} /\ UNCHANGED inputs /\ Source.size \in Nat
  BY <1>1, SourceIs DEF IInv, Before, Fail, Emit
<1>3. ~(Source.size > MaxInputSize)
  BY <1>1, <1>2, MaxAssumption
<1>4. Bounded(class)' /\ class \in FailureClass /\ ExitCode(class) = 2
  BY <1>2, <1>3, InputsFixed DEF Bounded, ExitCode, Refusal, FailureClass
<1> QED
  BY <1>1, <1>2, <1>4, Failing

LEMMA RejectedStep == ASSUME IInv, Rejected PROVE IInv'
BY ProcessFails DEF Rejected

LEMMA CanonicalizeStep == ASSUME IInv, Canonicalize PROVE IInv'
<1> DEFINE lines == Lines(1, "out", "canonical")
<1>1. lines \in Seq(Line) /\ lines = <<Canonical>>
  BY DEF Lines, Line, Canonical, Text, Stream
<1> HIDE DEF lines
<1>2. /\ pc = "process" /\ Command = "canonicalize" /\ Source.kind \notin Refusal
      /\ Emit(lines, 0) /\ received' = received /\ broken' = broken
  BY DEF Canonicalize, Processing, lines
<1>3. ~Ended /\ received = Source.size /\ received <= MaxInputSize /\ broken = {}
  BY <1>2 DEF Ended, IInv, Place, Before
<1>4. /\ UNCHANGED inputs /\ todo' = lines /\ code' = 0 /\ out' = << >> /\ err' = << >>
  BY <1>1, <1>2, <1>3, Emitted
<1>5. Complete'
  BY <1>1, <1>2, <1>3, <1>4, InputsFixed DEF Complete, Awaits
<1>6. Fine'
  BY <1>1, <1>2, <1>3, <1>4, <1>5, InputsFixed DEF Fine
<1> QED
  BY <1>1, <1>2, <1>3, <1>6, Succeeding

LEMMA VerifyStep == ASSUME IInv, Verify PROVE IInv'
<1>1. CASE Source.kind # "canonical"
  <2>1. Processing /\ Source.kind \notin Refusal /\ Fail("NotCanonical")
    BY <1>1 DEF Verify
  <2>2. Source.kind # "BoundExceeded"
    BY <2>1 DEF Refusal, FailureClass
  <2> QED
    BY <2>1, <2>2, ProcessFails
<1>2. CASE Source.kind = "canonical"
  <2> DEFINE lines == IF Given("--quiet") THEN << >> ELSE Lines(1, "err", "ok")
  <2>1. lines \in Seq(Line) /\ lines = IF Given("--quiet") THEN << >> ELSE <<Ok>>
    <3>1. Lines(1, "err", "ok") = <<Ok>> /\ <<Ok>> \in Seq(Line)
      BY DEF Lines, Line, Ok, Text, Stream
    <3>2. << >> \in Seq(Line)
      BY EmptySeq
    <3> QED
      BY <3>1, <3>2
  <2>2. /\ pc = "process" /\ Command = "verify" /\ Source.kind \notin Refusal
        /\ Emit(lines, 0) /\ received' = received /\ broken' = broken
    BY <1>2 DEF Verify, Processing
  <2> HIDE DEF lines
  <2>3. ~Ended /\ received = Source.size /\ received <= MaxInputSize /\ broken = {}
    BY <2>2 DEF Ended, IInv, Place, Before
  <2>4. /\ UNCHANGED inputs /\ todo' = lines /\ code' = 0 /\ out' = << >> /\ err' = << >>
    BY <2>1, <2>2, <2>3, Emitted
  <2>5. Complete'
    BY <2>1, <2>2, <2>3, <2>4, InputsFixed DEF Complete, Awaits
  <2>6. Fine'
    BY <1>2, <2>1, <2>2, <2>3, <2>4, <2>5, InputsFixed DEF Fine
  <2> QED
    BY <2>1, <2>2, <2>3, <2>6, Succeeding
<1> QED
  BY <1>1, <1>2
-----------------------------------------------------------------------------
(* The line at the head of the queue, and the queue without it.            *)
LEMMA HeadIs ==
  ASSUME IInv, todo # << >>
  PROVE  /\ Head1 \in Line
         /\ Tail(todo) \in Seq(Line) /\ Len(Tail(todo)) = Len(todo) - 1
         /\ \A i \in 1..Len(Tail(todo)) : Tail(todo)[i] = todo[i + 1]
         /\ \A line : todo = <<line>> => Head1 = line /\ Tail(todo) = << >>
<1>1. todo \in Seq(Line) /\ Len(todo) \in Nat \ {0}
  BY EmptySeq DEF IInv, TypeOK
<1>2. /\ Head1 \in Line
      /\ Tail(todo) \in Seq(Line) /\ Len(Tail(todo)) = Len(todo) - 1
      /\ \A i \in 1..Len(Tail(todo)) : Tail(todo)[i] = todo[i + 1]
  BY <1>1, HeadTailProperties DEF Head1
<1>3. ASSUME NEW line, todo = <<line>> PROVE Head1 = line /\ Tail(todo) = << >>
  <2>1. Head1 = line /\ Len(todo) = 1
    BY <1>3 DEF Head1
  <2>2. Len(Tail(todo)) = 0
    BY <1>2, <2>1
  <2> QED
    BY <1>2, <2>1, <2>2, EmptySeq
<1> QED
  BY <1>2, <1>3

LEMMA WriteLineStep == ASSUME IInv, WriteLine PROVE IInv'
<1>1. /\ pc = "write" /\ todo # << >> /\ todo' = Tail(todo)
      /\ UNCHANGED <<received, pc, code, broken>> /\ UNCHANGED inputs
      /\ out' = IF Head1.to = "out" THEN Append(out, Head1.what) ELSE out
      /\ err' = IF Head1.to = "err" THEN Append(err, Head1.what) ELSE err
  BY DEF WriteLine, Writing
<1>2. TypeOK /\ Head1 \in Line /\ Head1.what \in Text /\ Tail(todo) \in Seq(Line)
  BY <1>1, HeadIs DEF IInv, Line
<1>3. TypeOK' /\ Before' /\ Place'
  BY <1>1, <1>2, InputsFixed DEF IInv, TypeOK, Before, Place, Ended, inputs
<1>4. Codes'
  <2>1. Diagnosed => Diagnosed'
    <3>1. CASE err # << >>
      <4>1. err' # << >> /\ err'[1] = err[1]
        <5>1. /\ err \in Seq(Text \cup {"part"}) /\ Head1.what \in Text \cup {"part"}
              /\ Len(err) \in Nat \ {0}
          BY <1>2, <3>1, EmptySeq DEF TypeOK
        <5>2. /\ Append(err, Head1.what) # << >>
              /\ Append(err, Head1.what)[1] = err[1]
          BY <5>1, AppendProperties
        <5> QED
          BY <1>1, <3>1, <5>2
      <4> QED
        BY <3>1, <4>1 DEF Diagnosed
    <3>2. CASE err = << >>
      BY <1>1, <3>2 DEF Diagnosed, Head1
    <3> QED
      BY <3>1, <3>2
  <2> QED
    BY <1>1, <2>1 DEF IInv, Codes, Ended
<1>5. ASSUME Reached, Fine PROVE Fine'
  <2>1. \A i \in 1..Len(todo') : todo'[i] \in {Canonical, Ok, ErrorLine("InternalIO")}
    BY <1>1, <1>5, HeadIs DEF Fine, IInv, TypeOK
  <2>2. Head1 \in {Canonical, Ok, ErrorLine("InternalIO")}
    BY <1>1, <1>2, <1>5, EmptySeq DEF Fine, Head1, IInv, TypeOK
  <2>3. \A i \in 1..Len(err') : err'[i] \in {"ok", "part", "InternalIO"}
    BY <1>1, <1>2, <1>5, <2>2 DEF Fine, TypeOK, Canonical, Ok, ErrorLine
  <2>4. ASSUME Complete PROVE Complete'
    <3>1. ASSUME Command = "canonicalize"
          PROVE  err' = << >> /\ Awaits(out, Canonical)'
      <4>1. todo = <<Canonical>> /\ out = << >> /\ err = << >>
        BY <1>1, <2>4, <3>1 DEF Complete, Awaits
      <4>2. Head1 = Canonical /\ Tail(todo) = << >>
        BY <1>1, <4>1, HeadIs
      <4>3. todo' = << >> /\ out' = <<Canonical.what>> /\ err' = << >>
        BY <1>1, <4>1, <4>2 DEF Canonical
      <4> QED
        BY <4>3 DEF Awaits, Canonical
    <3>2. ASSUME Command = "verify"
          PROVE  /\ out' = << >> /\ ~Given("--quiet")
                 /\ Awaits(err, Ok)'
      <4>1. todo = <<Ok>> /\ out = << >> /\ err = << >> /\ ~Given("--quiet")
        BY <1>1, <2>4, <3>2 DEF Complete, Awaits
      <4>2. Head1 = Ok /\ Tail(todo) = << >>
        BY <1>1, <4>1, HeadIs
      <4>3. todo' = << >> /\ err' = <<Ok.what>> /\ out' = << >>
        BY <1>1, <4>1, <4>2 DEF Ok
      <4> QED
        BY <4>1, <4>3 DEF Awaits, Ok
    <3> QED
      BY <1>1, <2>4, <3>1, <3>2, InputsFixed DEF Complete
  <2> QED
    BY <1>1, <1>5, <2>1, <2>3, <2>4, InputsFixed DEF Fine
<1>6. ASSUME Reached, Refused PROVE Refused'
  <2>1. PICK class \in FailureClass : Awaits(err, ErrorLine(class)) /\ Bounded(class)
    BY <1>1, <1>6 DEF Refused
  <2>2. todo = <<ErrorLine(class)>> /\ err = << >>
    BY <1>1, <2>1 DEF Awaits
  <2>3. /\ Head1.to = "err" /\ Head1.what = class /\ Tail(todo) = << >>
        /\ class # "ok"
    BY <1>1, <2>2, HeadIs DEF ErrorLine, FailureClass
  <2>4. out' = out /\ err' = <<class>> /\ todo' = << >>
    BY <1>1, <2>2, <2>3
  <2>5. Awaits(err, ErrorLine(class))' /\ Bounded(class)'
    BY <1>1, <2>1, <2>4, InputsFixed DEF Awaits, ErrorLine, Bounded
  <2> QED
    BY <1>1, <1>6, <2>3, <2>4, <2>5 DEF Refused
<1> QED
  BY <1>1, <1>3, <1>4, <1>5, <1>6, InputsFixed DEF IInv, Verdict, Ended

(* What a failing write may leave behind on a stream is a part of a line.  *)
LEMMA TornIs ==
  ASSUME TypeOK, NEW stream \in Seq(Text \cup {"part"}), NEW to, NEW torn \in Torn(stream, to)
  PROVE  /\ torn \in Seq(Text \cup {"part"})
         /\ Head1.to # to => torn = stream
         /\ \A i \in 1..Len(torn) : torn[i] = "part" \/ \E k \in 1..Len(stream) : torn[i] = stream[k]
<1>1. torn = stream \/ (torn = Append(stream, "part") /\ Head1.to = to)
  BY DEF Torn
<1> QED
  BY <1>1, AppendProperties

LEMMA ReportFailsStep == ASSUME IInv, ReportFails PROVE IInv'
<1>1. /\ pc = "write" /\ todo # << >> /\ todo' = Tail(todo) /\ Head1.what \in FailureClass
      /\ UNCHANGED <<received, pc, out>> /\ UNCHANGED inputs
      /\ broken' = broken \cup {"write"} /\ code' = 10 /\ err' \in Torn(err, "err")
  BY DEF ReportFails, Writing, CodeUnreported, ExitCode
<1>2. TypeOK /\ Head1 \in Line /\ Tail(todo) \in Seq(Line)
  BY <1>1, HeadIs DEF IInv
<1>3. /\ err' \in Seq(Text \cup {"part"})
      /\ \A i \in 1..Len(err') : err'[i] = "part" \/ \E k \in 1..Len(err) : err'[i] = err[k]
  <2>1. err \in Seq(Text \cup {"part"})
    BY <1>2 DEF TypeOK
  <2> QED
    BY <1>1, <1>2, <2>1, TornIs
<1>4. TypeOK' /\ Before' /\ Place' /\ Codes'
  BY <1>1, <1>2, <1>3, InputsFixed DEF IInv, TypeOK, Before, Place, Codes, Ended, inputs
<1>5. ASSUME Reached, Fine PROVE Fine'
  <2>1. \A i \in 1..Len(todo') : todo'[i] \in {Canonical, Ok, ErrorLine("InternalIO")}
    BY <1>1, <1>5, HeadIs DEF Fine, IInv, TypeOK
  <2> QED
    BY <1>1, <1>3, <1>5, <2>1, InputsFixed DEF Fine
<1>6. ASSUME Reached, Refused PROVE Refused'
  <2>1. PICK class \in FailureClass : Awaits(err, ErrorLine(class))
    BY <1>1, <1>6 DEF Refused
  <2>2. todo' = << >>
    BY <1>1, <2>1, HeadIs DEF Awaits
  <2> QED
    BY <1>1, <1>3, <1>6, <2>2 DEF Refused
<1> QED
  BY <1>1, <1>4, <1>5, <1>6, InputsFixed DEF IInv, Verdict, Ended

LEMMA WriteFailsStep == ASSUME IInv, WriteFails PROVE IInv'
<1>1. /\ pc = "write" /\ todo # << >> /\ todo' = <<ErrorLine("InternalIO")>>
      /\ Head1.what \notin FailureClass
      /\ UNCHANGED <<received, pc>> /\ UNCHANGED inputs
      /\ broken' = broken \cup {"write"} /\ code' = 10
      /\ out' \in Torn(out, "out") /\ err' \in Torn(err, "err")
  BY DEF WriteFails, Writing, ExitCode
<1>2. TypeOK /\ Head1 \in Line /\ ErrorLine("InternalIO") \in Line
  BY <1>1, HeadIs DEF IInv, ErrorLine, Line, Stream, Text, FailureClass
<1>3. /\ err' \in Seq(Text \cup {"part"}) /\ out' \in Seq(Text \cup {"part"})
      /\ \A i \in 1..Len(err') : err'[i] = "part" \/ \E k \in 1..Len(err) : err'[i] = err[k]
  <2>1. err \in Seq(Text \cup {"part"}) /\ out \in Seq(Text \cup {"part"})
    BY <1>2 DEF TypeOK
  <2> QED
    BY <1>1, <1>2, <2>1, TornIs
<1>4. todo' \in Seq(Line) /\ Len(todo') = 1 /\ todo'[1] = ErrorLine("InternalIO")
  BY <1>1, <1>2
<1>5. TypeOK' /\ Before' /\ Place' /\ Codes'
  BY <1>1, <1>2, <1>3, <1>4, InputsFixed DEF IInv, TypeOK, Before, Place, Codes, Ended, inputs
<1>6. ASSUME Reached, Fine PROVE Fine'
  BY <1>1, <1>3, <1>4, <1>6, InputsFixed DEF Fine
<1>7. ASSUME Reached PROVE ~Refused
  <2> SUFFICES ASSUME Refused PROVE FALSE
    OBVIOUS
  <2>1. PICK class \in FailureClass : Awaits(err, ErrorLine(class))
    BY <1>1 DEF Refused
  <2> QED
    BY <1>1, <2>1, HeadIs DEF Awaits, ErrorLine
<1> QED
  BY <1>1, <1>5, <1>6, <1>7, InputsFixed DEF IInv, Verdict, Ended

LEMMA ExitStep == ASSUME IInv, Exit PROVE IInv'
<1>1. /\ pc = "write" /\ todo = << >> /\ pc' = "done"
      /\ UNCHANGED <<received, todo, code, out, err, broken>> /\ UNCHANGED inputs
  BY DEF Exit
<1>2. TypeOK' /\ Before' /\ Place' /\ Codes'
  BY <1>1, InputsFixed DEF IInv, TypeOK, Before, Place, Codes, Diagnosed, Ended, inputs
<1>3. Reached => Fine' \/ Refused'
  BY <1>1, InputsFixed
     DEF IInv, Verdict, Ended, Fine, Complete, Refused, Awaits, Bounded
<1> QED
  BY <1>2, <1>3, <1>1, InputsFixed DEF IInv, Verdict

LEMMA StutterStep == ASSUME IInv, UNCHANGED vars PROVE IInv'
<1>1. UNCHANGED <<pc, received, todo, code, out, err, broken>> /\ UNCHANGED inputs
  BY DEF vars, inputs
<1>2. TypeOK' /\ Before' /\ Place' /\ Codes'
  BY <1>1, InputsFixed DEF IInv, TypeOK, Before, Place, Codes, Diagnosed, Ended, inputs
<1>3. Reached /\ Ended => Fine' \/ Refused'
  BY <1>1, InputsFixed
     DEF IInv, Verdict, Fine, Complete, Refused, Awaits, Bounded
<1> QED
  BY <1>1, <1>2, <1>3, InputsFixed DEF IInv, Verdict, Ended

-----------------------------------------------------------------------------
LEMMA InitOK == Init => IInv
<1> SUFFICES ASSUME Init PROVE IInv
  OBVIOUS
<1>1. TypeOK
  BY ArgsAssumption, MaxAssumption DEF Init, TypeOK
<1>2. Source.size \in Nat
  BY <1>1, SourceIs
<1> QED
  BY <1>1, <1>2 DEF Init, IInv, Before, Place, Codes, Verdict, Ended

LEMMA StepOK == IInv /\ [Next]_vars => IInv'
BY UsageStep, HelpStep, ArgumentStep, OpenStep, ReadStep, ReadFailsStep, TooLongStep,
   ReadAllStep, RejectedStep, CanonicalizeStep, VerifyStep,
   WriteLineStep, ReportFailsStep, WriteFailsStep, ExitStep, StutterStep
   DEF Next

LEMMA Invariance == Spec => []IInv
BY InitOK, StepOK, PTL DEF Spec

(* The variables have their types, whatever the command line: the streams  *)
(* carry the texts of the contract or a torn part of one, and the exit     *)
(* code is 0, 2 or 10.                                                     *)
THEOREM TypeCorrect == Spec => []TypeOK
<1>1. IInv => TypeOK
  BY DEF IInv
<1> QED
  BY <1>1, Invariance, PTL

(* A run that exits 0 has delivered all that its subcommand promises, and  *)
(* no write or read of it has failed.                                      *)
THEOREM ZeroIsComplete == Spec => []SuccessIsComplete
<1>1. IInv => SuccessIsComplete
  <2> SUFFICES ASSUME IInv, Exited(0), Reached
               PROVE  /\ received = Source.size /\ Source.kind \notin Refusal /\ broken = {}
                      /\ Command = "canonicalize" => out = <<"canonical">> /\ err = << >>
                      /\ Command = "verify" =>
                           /\ out = << >> /\ Source.kind = "canonical"
                           /\ err = (IF Given("--quiet") THEN << >> ELSE <<"ok">>)
    BY DEF SuccessIsComplete
  <2>1. Fine /\ todo = << >> /\ code = 0
    BY DEF IInv, Place, Verdict, Refused, Ended, Exited
  <2> QED
    BY <2>1 DEF Fine, Complete, Awaits, Canonical, Ok
<1> QED
  BY <1>1, Invariance, PTL

(* A consumer of the streams sees nothing of a text that is not read to    *)
(* its end or is refused in the end.                                       *)
THEOREM RefusedStaysSilent == Spec => []NothingOfRejected
<1>1. IInv => NothingOfRejected
  <2> SUFFICES ASSUME IInv, Reached, out # << >> \/ "ok" \in ToSet(err)
               PROVE  /\ received = Source.size /\ received <= MaxInputSize
                      /\ Source.kind \notin Refusal
                      /\ Command = "verify" => Source.kind = "canonical"
                      /\ ~\E i \in 1..Len(err) : err[i] \in FailureClass \ {"InternalIO"}
    BY DEF NothingOfRejected
  <2>1. "ok" \in ToSet(err) => \E i \in 1..Len(err) : err[i] = "ok"
    BY DEF ToSet, IInv, TypeOK
  <2>2. Ended
    BY <2>1 DEF IInv, Before
  <2>3. Fine
    BY <2>1, <2>2 DEF IInv, Verdict, Refused
  <2> QED
    BY <2>3 DEF Fine, FailureClass
<1> QED
  BY <1>1, Invariance, PTL

(* The exit code says what went wrong: 2 a rejection that was reported     *)
(* first, 10 a failure of the streams; and the class names a limit exactly *)
(* when the text is longer or the library finds it over one of its own.    *)
THEOREM ExitIsDiagnosed == Spec => []DiagnosedExit
<1>1. IInv => DiagnosedExit
  <2> SUFFICES ASSUME IInv PROVE DiagnosedExit
    OBVIOUS
  <2>1. Exited(2) => /\ err # << >> /\ err[1] \in FailureClass /\ ExitCode(err[1]) = 2
                     /\ "write" \notin broken
    BY DEF IInv, Place, Codes, Diagnosed, Rejecting, Ended, Exited
  <2>2. /\ pc = "done" /\ "write" \in broken => code = 10
        /\ Exited(10) => broken # {}
    BY DEF IInv, Codes, Ended, Exited
  <2>3. ASSUME pc = "done", Reached, broken = {}, received > 0
        PROVE  "BoundExceeded" \in ToSet(err)
                 <=> Source.size > MaxInputSize \/ Source.kind = "BoundExceeded"
    <3>1. err \in Seq(Text \cup {"part"}) /\ Source.size \in Nat /\ todo = << >>
      BY <2>3, SourceIs DEF IInv, TypeOK, Place
    <3>2. ToSet(err) = {err[i] : i \in 1..Len(err)}
      BY <3>1 DEF ToSet
    <3>3. CASE Fine
      <4>1. ~(Source.size > MaxInputSize) /\ Source.kind # "BoundExceeded"
        BY <3>1, <3>3, MaxAssumption DEF Fine, Refusal, FailureClass
      <4>2. \A i \in 1..Len(err) : err[i] # "BoundExceeded"
        BY <3>3 DEF Fine
      <4> QED
        BY <3>2, <4>1, <4>2
    <3>4. CASE Refused
      <4>1. PICK class \in FailureClass : Awaits(err, ErrorLine(class)) /\ Bounded(class)
        BY <2>3, <3>4 DEF Refused
      <4>2. /\ err = <<class>>
            /\ class = "BoundExceeded"
                 <=> Source.size > MaxInputSize \/ Source.kind = "BoundExceeded"
        BY <2>3, <3>1, <4>1 DEF Awaits, Bounded, ErrorLine
      <4> QED
        BY <3>2, <4>2
    <3> QED
      BY <2>3, <3>3, <3>4 DEF IInv, Verdict, Ended
  <2> QED
    BY <2>1, <2>2, <2>3 DEF DiagnosedExit
<1> QED
  BY <1>1, Invariance, PTL
=============================================================================
