---------------------------- MODULE TestProgram ----------------------------
(***************************************************************************)
(* `dmc test` on one file, from its source to the verdict: the compiler    *)
(* reads it (Declarations), folds its expressions (Expressions) and emits  *)
(* a C program whose main runs the functions marked #[test] or #[bench]    *)
(* (Parser::emit); tools/dmc_host.py, command_test, compiles that program, *)
(* runs it and counts.  The function bodies are "return <expression>;", or *)
(* a call of proc_exit(0), and "<expression>;" where nothing is returned.  *)
(* The file can be lexed and its modules load (ModuleLoader has what       *)
(* happens otherwise); cc and the libraries it links are installed.        *)
(***************************************************************************)
EXTENDS Declarations, Expressions

CONSTANTS
  IntRange,   \* a C int wraps modulo this
  ExitRange   \* and an exit status modulo this

(* What the body of a function is made of, and that it can be read. *)
BodyTokens == [text : STRING, dec : Nat, c : Nat]

CallsExit == <<Tok("exit")>>

ReadsWell(body) ==
  /\ body \in Seq(BodyTokens)
  /\ body = CallsExit \/ expression(body).error = "none"

(* A file ends with its only "<eof>"; what stands behind "struct", "enum"  *)
(* or "fn", and only there, says how it reads.                             *)
Behind(s, i) == i > 1 /\ s[i - 1].text \in {"struct", "enum", "fn"}

ASSUME SourcesAssumption ==
  /\ Sources \subseteq
       Seq([text : STRING, name : STRING, sig : Signatures, body : Seq(BodyTokens)]) \ {<<>>}
  /\ \A s \in Sources : \A i \in DOMAIN s :
       /\ s[i].text = Eof <=> i = Len(s)
       /\ s[i].text \in Rests <=> Behind(s, i)
       /\ i > 1 /\ s[i - 1].text = "fn" /\ s[i].text = "ok" => ReadsWell(s[i].body)
  /\ Imported \subseteq Seq([name : STRING, attributes : SUBSET STRING, sig : Signatures,
                             body : {b \in Seq(BodyTokens) : ReadsWell(b)}])

ASSUME NumbersAssumption ==
  /\ MaxLong \in Nat
  /\ X \in Int
  /\ IntRange \in Nat \ {0} /\ ExitRange \in Nat \ {0}

VARIABLES
  bench,     \* run with --bench
  stage,     \* "compile", "build", "run" or "done"
  ran,       \* names of the functions called so far, in order
  verdict    \* "none", or what command_test prints for the file

varsTest == <<parser, bench, stage, ran, verdict>>

InitTest ==
  /\ InitParser
  /\ bench \in BOOLEAN
  /\ stage   = "compile"
  /\ ran     = <<>>
  /\ verdict = "none"

(* attributes(source) counts in the text, before anything is parsed. *)
Counted(attribute) ==
  Cardinality({i \in DOMAIN tokens :
     Text(i) = "#[" /\ Text(i + 1) = attribute /\ Text(i + 2) = "]"})

Verdict(v) == verdict' = v /\ stage' = "done"

-----------------------------------------------------------------------------
(* command_test and the compiler. *)

Skipped ==
  /\ stage = "compile"
  /\ Counted("test") = 0
  /\ ~bench
  /\ Verdict("skipped")
  /\ UNCHANGED <<parser, bench, ran>>

Compile ==
  /\ stage = "compile"
  /\ Counted("test") > 0 \/ bench
  /\ NextParser
  /\ UNCHANGED <<bench, stage, ran, verdict>>

BugExitCodeIgnored ==
  /\ stage = "compile"
  /\ phase = "parsed"
  /\ stage' = "build"
  /\ UNCHANGED <<parser, bench, ran, verdict>>

(* The compiler's exit code is 1 when it has anything to report. *)
Compiled ==
  /\ stage = "compile"
  /\ phase \in {"parsed", "aborted"}
  /\ IF phase = "aborted" \/ diagnosed
     THEN Verdict("FAIL")
     ELSE stage' = "build" /\ UNCHANGED verdict
  /\ UNCHANGED <<parser, bench, ran>>

-----------------------------------------------------------------------------
(* emit: the functions but main, by their attributes; a function that is   *)
(* both is a test.                                                         *)
Chosen(ks) == InOrder([k \in ks |-> functions[k]], Len(functions))

IsMain(f)  == f.name = "main"
IsTest(f)  == ~IsMain(f) /\ "test" \in f.attributes
IsBench(f) == ~IsMain(f) /\ "bench" \in f.attributes /\ ~IsTest(f)

Harnessed(fs) == \E k \in DOMAIN fs : IsTest(fs[k]) \/ IsBench(fs[k])
FirstMain(fs) == {k \in DOMAIN fs : IsMain(fs[k]) /\ \A j \in 1 .. k - 1 : ~IsMain(fs[j])}

HasHarness == Harnessed(functions)
TestFns    == Chosen({k \in DOMAIN functions : IsTest(functions[k])})
BenchFns   == Chosen({k \in DOMAIN functions : IsBench(functions[k])})

(* Why C refuses the program emitted for functions fs: it refuses one of   *)
(* them by itself; the harness calls f() == 0, or f() for a benchmark,     *)
(* where f cannot be called like that; two functions have one name; two    *)
(* benchmarks declare _t in the same block; or, without a harness, C       *)
(* refuses main, the first there is, or there is none.                     *)
Refused(fs) ==
  \/ \E k \in DOMAIN fs : ~IsMain(fs[k]) /\ fs[k].sig = "refused"
  \/ \E k \in DOMAIN fs : IsTest(fs[k]) /\ fs[k].sig # "int"
  \/ \E k \in DOMAIN fs : IsBench(fs[k]) /\ fs[k].sig = "params"
  \/ \E j, k \in DOMAIN fs : j # k /\ fs[j].name = fs[k].name /\ ~IsMain(fs[k])
  \/ \E j, k \in DOMAIN fs : j # k /\ IsBench(fs[j]) /\ IsBench(fs[k])
  \/ ~Harnessed(fs) /\ \A k \in FirstMain(fs) : fs[k].sig = "refused"

(* The structs and enums, which precede the functions. *)
RefusedType ==
  \E i \in DOMAIN tokens : Text(i) \in {"struct", "enum"} /\ tokens[i + 1].sig = "refused"

(* An enum that swallowed a declaration is no C. *)
Builds == ~garbled /\ ~RefusedType /\ ~Refused(functions)

Build ==
  /\ stage = "build"
  /\ IF Builds THEN stage' = "run" /\ UNCHANGED verdict ELSE Verdict("FAIL")
  /\ UNCHANGED <<parser, bench, ran>>

-----------------------------------------------------------------------------
(* The emitted program. *)

ToInt(n) ==
  LET r == n % IntRange IN IF 2 * r >= IntRange THEN r - IntRange ELSE r

(* What C makes of the text emitted for an expression. *)
Emitted(body) == expression(body).text.worth

(* A division by zero: the process dies, unless C drops the statement.     *)
Traps(f) == Emitted(f.body) = {}

(* What a call returns.  The result of main is looked at even if it gives  *)
(* none: then it is any.                                                   *)
Returned(f) == IF f.sig = "void" THEN {0, 1} ELSE {ToInt(n) : n \in Emitted(f.body)}

Called == IF ~HasHarness THEN Chosen(FirstMain(functions))
          ELSE IF bench THEN BenchFns ELSE TestFns

(* _dmc_assert(f() == 0); the result of main is the exit status. *)
WrongResult(r) == IF HasHarness THEN ~bench /\ r # 0 ELSE r % ExitRange # 0

Current == Called[Len(ran) + 1]
Running == stage = "run" /\ Len(ran) < Len(Called)

Calls == ran' = Append(ran, Current.name)

(* A benchmark's result is not looked at. *)
CallReturns ==
  /\ Running
  /\ HasHarness
  /\ Current.body # CallsExit
  /\ Returned(Current) # {}
  /\ bench \/ Returned(Current) = {0}
  /\ Calls
  /\ UNCHANGED <<parser, bench, stage, verdict>>

(* A trap, a failed assertion, or an exit status of main but zero. *)
CallFails ==
  /\ Running
  /\ Current.body # CallsExit
  /\ Traps(Current) \/ \E r \in Returned(Current) : WrongResult(r)
  /\ Calls
  /\ Verdict("FAIL")
  /\ UNCHANGED <<parser, bench>>

(* proc_exit(0) ends the program there and then, and so does main. *)
ExitsEarly ==
  /\ Running
  /\ \/ Current.body = CallsExit
     \/ ~HasHarness /\ \E r \in Returned(Current) : ~WrongResult(r)
  /\ Calls
  /\ Verdict("PASS")
  /\ UNCHANGED <<parser, bench>>

Finish ==
  /\ stage = "run"
  /\ Len(ran) = Len(Called)
  /\ Verdict("PASS")
  /\ UNCHANGED <<parser, bench, ran>>

NextTest ==
  \/ Skipped \/ Compile \/ Compiled \/ Build
  \/ CallReturns \/ CallFails \/ ExitsEarly \/ Finish

(* The driver and the compiler go on as long as there is something to do.  *)
(* Nothing is said of the program they start: it may run for ever, and no  *)
(* timeout is set.                                                         *)
SpecTest ==
  /\ InitTest
  /\ [][NextTest]_varsTest
  /\ WF_varsTest(Skipped \/ Compile \/ Compiled \/ Build)

-----------------------------------------------------------------------------
(* The tests of the source, read off its tokens. *)
Tests == {i \in Functions : "test" \in AttributesBefore(i)}

(* What test i is said to do by its source: succeed or not. *)
Succeeds(i) ==
  /\ Text(i + 1) = "ok"
  /\ tokens[i + 1].sig = "int"
  /\ tokens[i + 1].body # CallsExit
  /\ Meaning(tokens[i + 1].body) = {0}

(* Programs that get a wrong verdict: a test that is called main is never  *)
(* run; one that exits ends the run with success; a C compiler reads 010   *)
(* as 8; and a result is cut to a C int.                                   *)
Fits(n) == ToInt(n) = n

PlainBody(body) ==
  /\ body # CallsExit
  /\ PlainLiterals(body)
  /\ \A n \in Meaning(body) : Fits(n)

PlainProgram ==
  /\ \A i \in Functions : Text(i + 1) = "ok" => PlainBody(tokens[i + 1].body)
  /\ \A i \in Tests : tokens[i + 1].name # "main"
  /\ \A k \in DOMAIN imported : PlainBody(imported[k].body)

TypeOKTest ==
  /\ index \in DOMAIN tokens
  /\ phase \in {"imports", "declarations", "parsed", "aborted"}
  /\ stage \in {"compile", "build", "run", "done"}
  /\ verdict \in {"none", "skipped", "PASS", "FAIL"}
  /\ functions \in Seq([name : STRING, attributes : SUBSET STRING, sig : Signatures,
                         body : Seq(BodyTokens)])
  /\ Len(ran) <= Len(functions)

(* A file that passes has run every test it declares, and every one of     *)
(* them is worth zero by what its source says: no test is lost on the way  *)
(* from the declaration loop over the folded expressions to the report.    *)
PassIsEarned ==
  (verdict = "PASS" /\ ~bench /\ PlainProgram) =>
    \A i \in Tests : Succeeds(i) /\ \E n \in DOMAIN ran : ran[n] = tokens[i + 1].name

(* What the file and its modules declare, read off the source. *)
Declared == imported \o Written

(* Function f, called last, is to blame: it divides by zero, or a test or  *)
(* main is not worth zero, by what its source says.                        *)
ToBlame(f) ==
  \/ Meaning(f.body) = {}
  \/ ~(bench /\ Harnessed(Declared)) /\ (f.sig = "void" \/ Meaning(f.body) # {0})

(* A file that fails gave cause: an error the compiler reports; something  *)
(* in the declarations of its source that C refuses, which Refused lists;  *)
(* or the function that was called last is one to blame.  Neither the      *)
(* compiler's own handling of the declarations nor a function that keeps   *)
(* its promise makes command_test print FAIL.                              *)
FailHasACause ==
  (verdict = "FAIL" /\ PlainProgram) =>
    \/ diagnosed \/ garbled \/ phase = "aborted"
    \/ RefusedType \/ Refused(Declared)
    \/ \E k \in DOMAIN Declared :
         ran # <<>> /\ Declared[k].name = ran[Len(ran)] /\ ToBlame(Declared[k])

(* The folding of literals and the parentheses of the emitted text change  *)
(* no value: what a function returns in C is what its expression means.    *)
EmittedIsWorthTheSource ==
  \A k \in DOMAIN functions :
    LET body == functions[k].body IN
    (body # CallsExit /\ PlainLiterals(body)) =>
      Emitted(body) = Meaning(body)

(* Whatever errors are in it, every file gets as far as its verdict or its *)
(* program's start, provided that no import comes after a declaration:     *)
(* there skip_to_decl stops for good.                                      *)
EveryFileIsDecided == LateImport \/ <>(stage \in {"run", "done"})
=============================================================================
