# A verification project for json-canon

json-canon turns a JSON text into the canonical form of RFC 8785 (`jcs-canon
canonicalize`), tells whether a text is canonical (`jcs-canon verify`), and
comes with a harness that replays a release on a matrix of machines without a
network and refuses the release when two of them disagree.  This directory
holds TLA+ models of it, the configurations with which TLC checks them, and
proofs that TLAPS checks.  Every definition is translated from the Go source;
`PROJECT.json` gives the lines of each one (`map`), the runs, the mutants that
show that each property can fail, the hazards the properties are aimed at, and
the theorems.

## The system

| part | source | state | operations |
|---|---|---|---|
| parser | `jcstoken/token.go` | position, nesting depth, number of values, one frame per open container with the keys it has seen | `Parse`, `ParseWithOptions`: recursive descent, five limits, duplicate keys, first error wins |
| string scanner | the same, 428-652 | position, decoded bytes | `parseString`: a fast path that compares bytes, a general path with escapes and surrogate pairs |
| number scanner | the same, 654-852 | position, stage of the grammar | `parseNumber`: sign, integer, fraction, exponent; length, overflow, underflow, negative zero |
| serializer | `jcs/serialize.go` | output buffer, number of values | `Canonicalize`, `Serialize`: validates the tree, sorts keys by UTF-16 units, writes |
| number formatter | `jcsfloat/jcsfloat.go` | pooled big integers | `FormatDouble`: shortest digits (Burger and Dybvig), ECMA-262 layout |
| error classes | `jcserr/errors.go` | none | class to exit code |
| command line | `cmd/jcs-canon/main.go` | bytes read, what both streams have received, exit code | arguments, bounded read, two commands, every write checked |
| matrix and profile | `offline/replay/config.go` | none | validation; required nodes and replays |
| evidence | `offline/replay/evidence.go` | a file | write, load, `ValidateEvidenceBundle` |
| matrix run | `offline/replay/run.go` | node and replay index, collected evidence | `RunMatrix`: prepare, replay, cleanup, load, for each owed replay |
| adapters | `offline/runtime` | environments on the nodes | three commands run under one context |
| bundle | `offline/replay/bundle.go` | an archive | create, read the manifest, verify |
| worker | `cmd/jcs-offline-worker` | place in the vectors, four digests, evidence file | unpacks and verifies the bundle on a node, runs every vector, writes its evidence |
| controller | `cmd/jcs-offline-replay/main.go` | bundle and evidence files | prepare, run, verify-evidence, report |
| harness | `.../offline_harness.go` | an output directory: tool, bundle, evidence, audit, checksums, index | suite of ten stages, preflight, audit, comparison of architectures |
| gate | `cmd/jcs-gate` | none | a list of commands, stops at the first failure |

How they interact.  The command line reads its input once, bounded, and calls
the parser; the parser calls the two scanners for every lexeme and checks the
nesting, the counts and the keys around them; the serializer takes the tree and
calls the formatter for numbers.  Each of them returns an error of one class,
which alone decides the exit code, unless a write fails as well.  In the
harness the controller loads a matrix and a profile, the matrix run executes
the three commands of every owed replay through an adapter, the command starts
the worker on the node, and the worker leaves a file of evidence which the
matrix run reads back.  Nothing but files and exit codes passes between them.
The suite of the harness calls the commands of the controller one after the
other in one process; what one stage has for the next is in the files of the
output directory, which every stage opens again, while matrix, profile and
source tree stay where they are and may change.

What is hard in it.  In the library nothing runs concurrently; the difficulty
is in order and in boundaries: which of several defects is reported, limits
that are checked after the fact, a fast path that must not skip what the slow
path checks.  In the command line it is the failure of any single read or
write.  In the harness it is partial failure: commands that fail half way, a
deadline at any point, an environment left standing, evidence that is missing,
stale, or carries another replay's name; files that are read twice and change in
between; a directory that an earlier suite left half done or another one is
writing to; a worker whose case hangs, whose vector file cannot be read to its
end, whose digested texts run into each other.

What makes each part correct, in short: the parser accepts exactly the
grammar within the limits and reports the first error; the scanners agree with
a definition of the whole token; the serializer refuses what breaks a rule and
writes every value in one form only; the formatter finds the shortest digits
that read back; the command line says exit 0 only of complete
output and exit 2 only with a diagnosis; the matrix run returns an error or
complete evidence; the worker writes evidence only of a run in which everything
was verified and answered as wanted, and equal digests mean equal answers; the
suite accepts evidence only of the archive it has a digest of and the policy it
was held to, and passes only beside files that fit together.

## Modules

    Jcserr ──┬── Parser (JsonText) ── ParserProofs, MCParser
             ├── StringScan ── StringScanProofs, MCStringScan (StringText)
             ├── NumberScan (NumberText) ──┬── NumberProofs, MCNumberScan
             ├── FloatDigits ──────────────┘   MCFloatDigits (NumberText)
             ├── Serializer ── SerializerProofs, MCSerializer (JsonText, StringText)
             └── Cli ── CliProofs, MCCli
    Unicode: used by StringScan and Serializer
    ReplayConfig ── Evidence ──┬── RunMatrix ── RunMatrixProofs (Audit), MCRunMatrix
                               ├── Audit
                               └── ReplayPromise (abstract; RunMatrix implements it)
    Bundle ── Worker ── WorkerProofs, MCWorker
    Suite ── SuiteProofs, MCSuite

**Parser** is `ParseWithOptions` on a sequence of lexemes.  The recursive
descent is an explicit stack of frames; `pc` names the point of the loop of
the innermost container (`open`, `key`, `colon`, `value`, `append`, `next`), so
one action is one stretch of code between two such points, with its error
exits as actions beside it (`KeyError`, `DuplicateKeyError`, `CountOverLimit`
...).  A lexeme carries what the scanners would return for it: its kind, the
decoded text of a string, an error if it is malformed, its size in bytes.
Whitespace is a lexeme, an invalid UTF-8 byte is one, and `junk` is any byte
that begins no value.  A place in the text is the number of a lexeme and an
offset in it.

**StringScan** and **NumberScan** model one call of `parseString` and
`parseNumber` on what follows in the text.  A unit of a string is a character,
with the four digits after `\u` as one unit; code points are numbers, so the
surrogate arithmetic and the noncharacter test are those of the code.  A number
keeps its characters; what `strconv.ParseFloat` says of it is abstracted to its
decimal order of magnitude against the bounds `MaxOrder` and `MinOrder`.

**Serializer** is `SerializeWithOptions` on a tree that a caller may have built
by hand: the sequence of its nodes in preorder, which is the order in which both
recursions of the code visit them.  The validation walks it with the running
count and the maps of the keys of the objects that are open; the emission keeps
what is still to be written (`todo`), where an object contributes its members in
an order that the code's comparison allows.  Text is code points, with one value
for bytes that are no UTF-8; a written string is units of StringScan.  Neither
the formatting of a number (its digits are its text, and both zeros are written
`0`) nor the letter that follows a backslash is spelled out here.

**FloatDigits** is `FormatDouble` on a binary format whose precision, exponents
and digits are constants.  Each stage is an action: set the scaled state, scale
by the estimated power, the two fixups, one digit, the last digit, carries, the
layout.  The estimate, which the code makes with rounded logarithms, is any that
a relative error of 1/`Slack` can give.  Calls follow each other on one state, as
they do on a state from the pool.  What the digits are held to stands at the end of
the module: whether a decimal is read as a float (`Reads`) compares whole numbers,
the decimal and the middles between the float and its neighbours over one
denominator, and knows nothing of the scaled state.

**Unicode** has the code points both sides share: surrogates, noncharacters,
UTF-8 lengths, UTF-16 units.

**Cli** is one process of `jcs-canon`.  `ReadByte`/`ReadAll` are `io.ReadAll`
over the limited reader; the library is a verdict on the source (`canonical`,
`valid`, or refused with one of its classes, `BoundExceeded` among them, which a
text of legal size that nests too deep or has too many values gets); output is a list of writes still to be done (`todo`),
any of which may fail after taking a part of the line.

**ReplayConfig**, **Evidence**, **RunMatrix** are the replay harness from the
validated matrix to the validated evidence.  The three commands of an adapter
succeed, fail without effect, or fail having had their effect; `Expire` ends
the context, after which no command succeeds; `standing` is the set of replays
whose environment has been set up and not torn down; a replay command writes any
of a set of reports, or nothing.  **ReplayPromise** is what a caller may rely on,
with no nodes, commands or files in it.  **Audit** has what the harness derives
from evidence: the sets of digests the audit counts, over all replays and not
only the required ones, and the comparison of two architectures, which sees the
aggregates only.

**Bundle** has the archive as its members and its manifest, how it is created,
what the controller looks at before it starts a replay (that digests are there)
and what the worker compares (that they are right).  The manifest lists the
vector files in order and once, as the creation writes it.

**Worker** is one process of `jcs-offline-worker` for each replay of a bundle
that the controller has admitted.  Its action is one line of a vector file, one
end of a file, one stage of `run`; any of them may fail (`Fail`) or be killed
(`Kill`).  The tool is an oracle: a case gets any of the answers of the
configuration, one of them the exit code that Go reports of a process killed at
20 s.  A digest is the text it is taken of, made of symbols, so that two texts
which differ have different digests and two that run together have not: the
end of an entry is a symbol that the output of the tool may hold too; the
separator of its parts is assumed not to be in it (see Proofs).

**Suite** is `run-suite` with the commands it calls, for any number of
invocations in one output directory.  A file is the set of what can be read
from it.  Its actions are the reads and writes of files that others may come
between: the bundle's binary is read (`ReadBinary`), then matrix and profile
(`ReadInputs`), then the archive is begun (`CreateBundle`) and ended (`Pack`);
the evidence is begun and ended; a policy is loaded and later hashed; the manifest
is read before the bundle is hashed.  An invocation that has truncated a file keeps
its descriptor and writes the same file to the end, whatever another has made of
it since: `Pack` may leave its own whole archive, or damage (`Damaged`) one that
another has begun, or has finished, hashed and replayed; `EndEvidence` does the
same to evidence, and so does an invocation that is stopped while it writes
(`StopInPack`, `StopInEvidence`).  The manifest of a damaged archive may be anyone's.
`Replay` is one replay of RunMatrix, whose worker passes only a whole archive
(`PassedMeansPassed`).  The commit that the evidence names is the one at HEAD or
one that `JCS_OFFLINE_SOURCE_GIT_COMMIT` gives (`Given`), and the tool is built of
the tree as it is: `EditSource` changes the tree, `Commit` moves HEAD to it, and
`EditPolicy` changes the policy, which is what people do meanwhile.  `quiet` and
`stable` are history variables for the properties.  Abstractions: matrix and profile are
one file, because they are always read one after the other; the worker and the
vectors in the bundle are left out; replays are at least one, because RunMatrix
has their number; audit, checksums and index are each written at once, the rest
of an archive in one step (that of its last bytes).

**JsonText**, **StringText** and **NumberText** are the references: what a JSON
text, string and number are, stated on whole texts, with no position or stack.
What is read is compared with them, and what is written has to be among
them.  They are written with functions and quantifiers over positions, so that
theorems can speak of them: what Parser, StringScan and NumberScan promise about
whole texts and tokens stands in these modules themselves (`AcceptsExactly`,
`MatchesReference`, `MatchesGrammar`).  The grammar of JsonText is a set of
pieces (a symbol and the two places it spans) that grows in rounds, as many as
the text has lexemes: a piece is made of shorter ones, so then all are found.

## Runs

| run | what it asks | bounds |
|---|---|---|
| `parser` | accepts exactly the texts of JsonText that respect the limits; the first error, with its class and place; limits, keys and counts on the way; progress and termination | every one-lexeme edit of eight documents that sit on the limits, every text of up to three lexemes; limits 2 (values 4, input 25), one given by an option, one option negative |
| `parser_bound_class` | expected violation, see Findings | the same |
| `strings` | the two paths decode exactly the strings of the reference within the limit; what a rejection names | texts of up to 3 units, one-unit edits of five strings with escapes and pairs; limit 5 bytes |
| `numbers` | the longest prefix in the grammar, the exact class, the first bad character, how far past the limit the scan goes | texts of up to 5 characters, one-character edits of four longer tokens; limit 4 |
| `serializer` | which trees are refused; the output is a JSON text with the tree's value, every string, number and literal at its path; keys in UTF-16 order | every tree of up to three nodes, every object of up to three members over ten keys, chains of containers around the limit, one-node edits of two documents; limits 2 (elements, depth), 3 (members), 4 (bytes), 5 (values) |
| `serializer_depth` | expected violation, see Findings | the same |
| `floats` | read back, shortest, nearest, ties to even, whatever the estimate; the layout is the one spelling of the digits; the digit buffer | all floats of a format with 5 bits of significand and 17 exponents, some negative, NaN, infinities, zeros; estimates off by 1/16; other decimals from one place below the last digit to three above it; the point from -12 to 25 |
| `cli` | exit code, stdout, stderr and input agree under any failing read or write | one argument, or a subcommand with two; sizes 2 to 4 around the limit 2, each canonical, valid, refused for its grammar or for a bound of the library |
| `cli_read` | expected violation, see Findings | the same |
| `matrix` | refines ReplayPromise; cold replays; failures are final; a lie about a name is caught; the run returns | a container and a virtual machine, up to two replays each, six profiles, seven matrices of which three are invalid, every single-field lie and every exchange of names |
| `worker` | evidence only of a verified bundle, understood vectors and wanted answers; equal digests are equal answers | two replays of thirteen bundles: two as created, three with an unreadable or empty vector file, eight damaged; nine answers |
| `suite` | accepted evidence is of one whole archive that all replays had; of the policy it was held to; an undisturbed pass leaves a coherent directory | two invocations, interleaved or not, each failing anywhere; two edits (tree, HEAD or policy) of two trees and two policies; one commit that the environment may give; about 3.6 million states |

The bounds are where the cases are.  The parser's limits of 2 are reached, hit
and passed by the documents, at the outer and the inner container; three
lexemes contain every pair of neighbours, and the edits every error in every
control point.  Five bytes put the end of a string before, at and after the
limit on both paths, and in the middle of a two-byte character.  Two nodes and two
replays are the least with an exchange of names within a node and between
nodes.  The keys of the serializer have prefixes of each other, ASCII next to
other keys, and one from each side of the surrogates, where UTF-8 and UTF-16 order
differ.  The small format of `floats` has what makes binary64 hard: subnormals,
the unequal gaps at powers of two and the equal ones at the least normal
exponent, values at and around powers of ten, positive and negative binary
and decimal exponents.  It is not binary64: the lines between the layouts
are the code's, but the precision is not, and `MaxDigits` is 3 where the code
counts on 17; the proofs are for every format.  No digit is ever ten, so the
carries of `normalizeDigitBuffer` have nothing to do, in `floats` nor in any
format.  In `worker` the answers hold the
newline that ends an entry (not the separator 1F, which is assumed away), two
classes at once and none, and the damages are one of each digest the worker
compares.  In `suite` two invocations are the least with a directory
left behind and with one written by both, and two edits the least that change a
policy and change it back, or leave HEAD behind the tree; two versions of the tree
let any one of the environment's commit, HEAD and the tree differ from the others.  All runs are of finite programs; the terminal state is a stop, so deadlock
is not checked, except in `floats`, where a call follows a call.

Every property has a mutant of a mapped definition that a plausible bug would
be, and that the property catches under the run's own bounds.

Fairness.  `Parser` is one sequential computation that takes its next step
(`WF_vars(Next)`).  `RunMatrix` assumes the same and with it that every
command ends together with whatever holds its output: the code waits for the
output pipe even of a command it has killed, so the deadline alone does not
justify it, and the hazard list says so.  The other models have no liveness
property: a worker or a suite may be killed at any time.

## Proofs

TLAPS proves the following for every value of the constants: all texts, limits,
options, matrices, profiles and reports.

* **ParserProofs**: `TypeCorrect`; `LimitsRespected` (the nesting counter is the
  number of open containers, no container holds more than its limit);
  `KeysAreDistinct`; `ValuesBounded` (open containers are counted values);
  `AlwaysProgresses` (every step consumes text or lowers a rank, the argument
  for termination).  The invariant needs `KeyPhases`: at which control points
  the object on top holds a key without its value.
  `AcceptedIsExact`: a value is returned for exactly the texts of JsonText that
  respect the limits and have distinct keys.  The invariant (`Exact`) ties the
  stack to the whole text by two statements.  `Fits`: what is left of the text is
  what the frames on the stack still need, each up to a place where its container
  closes; this holds before a step of the parser just if it does after, so the text
  is a value just if it fits at the end.  `Recorded`: the frames stand
  for the containers that are open there, and hold the items and keys of
  each so far; the containers closed before kept their limits and their keys
  distinct; as many values were counted as the text has up to there.  So every
  error has a reason in the whole text: nothing fits, or a limit that the rest
  of the text cannot undo is passed, or a key is there twice.
  `FirstErrorIsFirst`: a rejection is at the first error and has its class.  The
  invariant says the two things (`Tracks`) not of the text alone but of every text
  that begins with what has been read (`Steers`): what the parser has done does
  not depend on what it has not seen, except that where a value or a key is due it
  has seen that no empty container closes there.  So they hold of the text that
  breaks off before the error and is completed with what is due there and the
  brackets of the frames on the stack (`Completion`): it fits, so it is a JSON
  text, and what was recorded of it is what the text read so far says of its
  limits and keys (`FlawlessSoFar`), the limit or the key that is broken there
  included.  They hold as well of any text that goes on behind a grammar error:
  it does not fit, so there is none that is a JSON text.
* **StringScanProofs**: `DecodesAsWritten` (the scanner accepts exactly the
  strings StringText reads to their quote within the limit, and returns what
  they decode to: the two paths are one decoder); `CulpritIsFirst` (a rejection
  names the first character that cannot be read, with its class); `DecodedIsClean`
  (no surrogate and no noncharacter in any
  decoded prefix, because a pair is combined of checked halves and the fast path
  reads ASCII); `ByteLimitHolds` (accepted means within the limit, although the
  general path starts from a prefix of any length and closes without a check:
  whatever ended the fast path is checked before a closing quote can follow).
  The invariant of the first two is that the decoded buffer is what StringText
  decodes of the units read so far, and that each of them could be read.
* **NumberProofs**, of NumberScan: `LongestNumber` (the scanner takes the longest prefix
  that can still become a number and returns the class that its digits, its length
  and its value call for, a grammar error at the first character that no number
  has there); `WindowHolds` (at most four characters past the limit
  are read) and `FinalCheckRedundant` (from a limit of 2 on the check after the
  loops refuses nothing).  The invariant of the first says where each stage
  stands in the token (`Shape`), that every prefix read so far is viable, and that
  every digit read but the zero of the integer was counted by a loop
  (`Progress`).  For the end of the scan, one lemma for each way it can end shows that
  no number begins with one character more: a number is cut in integer,
  fraction and exponent in one way only, and that is the scanner's.  The
  invariant of the others bounds the position stage by stage: one
  more for each of the sign, the zero, the mark and the exponent's sign.
* **NumberProofs**, of FloatDigits: `DigitsRoundTrip`, `DigitsShortest`,
  `DigitsNearest` and `FormatTypeCorrect` (no float has more digits than
  `MaxDigits`, and none is ten), for every binary format whose significands are
  below 10^(`MaxDigits` - 1), as 2^53 is below 10^16, and every estimate.  The
  invariant gives the four big integers their meaning (`Exact`): with the digits
  so far the float is exactly (digits + r/s) times the power of ten of their
  place, and mPlus/s and mMinus/s are half its gaps there.  The scaling, the
  fixups and each digit keep it, because they multiply both sides of an
  equation (`StandsUp`, `StandsDown`).  What the tests of the code compare is
  then what reading compares (`ReadsIs`): a round that goes on is one where no
  multiple of its place is read as the float (`NothingReads`), so fewer digits do
  not do; the last round chooses the nearer of two neighbouring multiples, of which
  one is read (`BestIsDown`, `BestIsUp`).  A decimal further down with fewer digits
  lies below the first digit's power of ten, which would be read too if it were
  (`BetweenReads`).  A digit costs the gap a factor of ten, so a round that
  goes on has fewer than `MaxDigits` digits (`FewDigits`).  The estimate may be one
  too low, which the first fixup mends, or too high by any amount, which the second
  does.  `Nearest` is stated for one place of the last digit, as ECMA-262 has it for
  a given n and k: it does not say that n is determined.
* **SerializerProofs**: `TypeCorrect`; `RefusalIsExact` (a tree is refused exactly
  if a node of it breaks a limit or a rule).  The invariant says that all nodes
  before the walk's place are clean and counted, and that the maps of keys are
  those of the objects that are open there, each holding the keys of the members
  already seen: the maps open and close with the recursion, and forgetting
  one too late or too early would refuse or accept another object's key.
  `OneCanonicalOrder`: the members of an object are written in strictly ascending
  order of RFC 8785, and sorting them has one outcome, although `sort.Slice` is not
  stable and `compareSortKeys` compares some pairs as bytes and some as UTF-16
  units.  `BelowIsLess` is the fact behind it: for code points without surrogates
  both comparisons are the order of code points with the supplementary planes below
  E000, which is a strict order (`Comparable`), and the keys of an accepted object
  are distinct.  `WrittenIsReadBack`: each string written is one of the tree's, and
  StringText reads its escapes back to the same code points (`ReadBack`, by
  induction from the last character to the first).
* **CliProofs**: `ZeroIsComplete`, `RefusedStaysSilent`, `ExitIsDiagnosed`: the
  contract of exit code, standard output and standard error, for any arguments and
  any failing read or write; BOUND_EXCEEDED is named just if the text is longer than
  the reader's limit or the library refuses it for a bound of its own.  The invariant says, for every point of the program, what each
  stream holds already and which writes are still due.
* **RunMatrixProofs**: `PromiseKept` (refinement of ReplayPromise),
  `ReplaysAreCold`, `FailuresAreFinal`, `MislabellingIsCaught`;
  `CrossArchIsSameness` (two accepted evidences whose aggregates are equal
  agree in every required replay); and `AuditOfAccepted` (the audit of any accepted
  evidence says PASS just if the replays of nodes that are not required, which
  the validation does not compare, agree with the aggregates too).  The
  invariant says that the collected replays are exactly the owed ones behind
  the loop's position.  At the end they are the owed ones, and the rest is
  counting: the validation finds every owed identity among as many replays as
  are owed, so the naming is a bijection (`Counting`): nothing is missing or
  doubled, and a single wrong name is impossible.
* **WorkerProofs**: `PassedIsTrue`.  The invariant says that the answered cases
  are those before the worker's place, in the order of files and lines, that no
  line before it was unreadable, and that their number is the count.
  `AgreementMeansSame` (equal digests are equal answers): an entry can be taken
  apart from its end, part by part, because no part holds the separator
  (`RecordInjective`).  The invariant adds a trail, what the digests were at each place
  the worker has come to.  Two workers that end alike are followed back along
  their trails, file by file and line by line: after every line they agree, so
  before it they agreed too, and gave it the same answer.
* **SuiteProofs**: `AcceptedIsCertified`, `PolicyIsHeld`, `PassingIsCoherent`.
  The first rests on a fact about archives: every invocation begins one and
  completes it at most once, and a late writer marks what it damages, so a content
  that the file has left never comes back (`GoneForGood`).  If the digest taken after the evidence was read equals
  the one taken before the replays, the file was the same all the while, so
  every replay had it, and had it whole.  `Sealed` (no archive is known before
  it is made) is what makes that inductive.  The last is a story of one
  undisturbed invocation, told stage by stage (`Story`).  It claims that tool, bundle,
  evidence, audit and checksums belong together and that the tool is of the tree; of the
  commit only that it is the one given.

The assumptions are the `ASSUME`s of the modules: what type the constants have,
and one thing more, `SeparatorAssumption` of `Worker`.  No answer of the tool holds the
byte 1F that separates the parts of an entry, which the code neither escapes nor
looks for.  Canonical text writes it as an escape.  Messages repeat no
input, but they do repeat an unknown command or option: the claim rests on the
vector files, of which one has arguments at all, without that byte
(`conformance/vectors`).  TLC evaluates the assumptions in the runs.

The inductions (over a text, its pieces, a token's digits, a tree, the files of a
bundle) are
made by hand from one fact of the library, that a non-empty set of naturals has a
least element; recursive functions are shown to exist the same way
(`Recursion`, `Iteration`).

Only model-checked: `ReadsBack` of the serializer (the strings are proved, the
tree around them is not); `KeysAscend`, which is about the whole output (proved
is the order in which each object hands over its members); `LayoutDenotes`, which
reads the text of a number back in characters and demands of it the one spelling
that ECMA-262 has for the value (`OnlySpelling`: no zero too many, the exponent's sign
written, the layout of its range); and liveness, which is out of the
prover's reach.  `ReadsBack` and `LayoutDenotes` are stated with readers of the
MC modules over the definition of the grammar; a proof would have to relate the
layout, or the stack of open containers, to those readers for every tree and
every digit sequence.

## Findings

* `parser_bound_class`: the value counter is raised and compared before the
  parser looks whether a value is there.  A text with exactly the allowed
  number of values that breaks off after a comma, such as `[[1,1],` under a limit
  of 4, is reported as BOUND_EXCEEDED, which the taxonomy reserves for texts over a
  bound; the invariant asks only about texts that keep every limit to their last lexeme.
* `cli_read`: a read that fails after bytes have arrived is INTERNAL_IO (exit 10)
  on standard input and CLI_USAGE (exit 2) on a named file.  The taxonomy
  classifies such failures by cause, the same for both.
* `serializer_depth`: the validator of a tree calls the root depth 0, and so
  accepts one more container than the parser does with the same options, if the
  innermost one is empty: `[[[]]]` with `MaxDepth` 2.  With a scalar in it, the
  case the tests have, both refuse it.

## Plan

1. Parser and its proofs: done.
2. Scanners and their proofs: done.
3. Command line: done.
4. Replay matrix, evidence, the promise and its proof: done.
5. Serializer: done; proved are what is refused, the order of the members and the
   strings that are written, model-checked the text as a whole.
6. Number formatter and the proofs about its digits: done; the layout is model-checked.
7. Bundle and worker, and the worker's proofs: done.
8. Controller and suite with the audit, and their proofs: done.
9. Proofs: whole-text agreement of the parser and of both scanners, Cli, Serializer, the worker's digests,
   the keys' order, the strings written, the digits of numbers: done.
10. Canonical text given back to the parser under the same limits: it may have grown.

## Not modelled

The wording of messages, the layout of help texts, JSON decoding of the
harness's own files, environment variables of commands, and the archive format
are left out: no property is about them.  Preflight is one step of
the suite, not the list of its checks; `cross-arch` runs two suites in
directories of their own and is modelled by its comparison only; whether both
ran on one commit nobody compares, nor whether the commit that a suite names, from
HEAD or from the environment, has the tree that it built.  What digests cover is what the code digests:
standard error of `canonicalize` and the output of other modes are in no digest,
and the worker's check of the environment sets the variables to the values that
the replay scripts have set already, so that it compares like with like.  The
required gate (`jcs-gate`) is a fixed list of commands that stops at the first
failure; a property of it would restate its loop.  The
shell scripts call the controller and virtual machine tools and have no state of their own.
The conformance tests, vectors and archived runs are data and evidence of the
repository, read for what they say of the program.
