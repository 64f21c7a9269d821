---------------------------- MODULE CommandsProofs ----------------------------
(***************************************************************************)
(* Proofs about the commands that write into a project, for any number of  *)
(* processes and any texts.  The invariant is stated of one command and    *)
(* what is on the disk, so that a step of one process is checked against   *)
(* the commands of the others without regard to what they are.             *)
(***************************************************************************)
EXTENDS Commands, TLAPS

(* What a text is made of, and that it stands for a file that is there.    *)
IsText(t)  == t = [i \in DOMAIN t |-> Line(t[i].lead, t[i].rest)]
Present(t) == IsText(t) /\ \A i \in DOMAIN t : t[i].rest # "missing"
Real(t)    == Present(t) /\ \A i \in DOMAIN t : t[i].rest # "torn"

ProjectFiles == ToSet(Project)
Todos == {Project, <<"main", "test", "ignore">>, <<"test", "ignore">>, <<"ignore">>}
BuildSteps == {"read", "open", "write", "cc", "link", "remove", "give up"}

Com(op, s, step, todo, text, linked, alone) ==
  [op |-> op, source |-> s, step |-> step, todo |-> todo,
   text |-> text, linked |-> linked, alone |-> alone]

IsCommand(c) ==
  /\ c = Com(c.op, c.source, c.step, c.todo, c.text, c.linked, c.alone)
  /\ c.source \in Sources
  /\ c.linked \in BOOLEAN /\ c.alone \in BOOLEAN
  /\ Present(c.text)

(* The steps of each command, and what it still has to write at each.      *)
Shape(c) ==
  /\ IsCommand(c)
  /\ \/ c.op = "none" /\ c.step \in {"idle", "away"} /\ c.todo = <<>> /\ ~c.alone
     \/ c.op = "new" /\ c.step \in {"open", "write"} /\ c.todo \in Todos
     \/ c.op = "new" /\ c.step = "mkdir" /\ c.todo = Project
     \/ c.op = "init" /\ c.step \in {"open", "write"} /\ c.todo = <<"toml">>
     \/ c.op = "fmt" /\ c.step \in {"read", "open", "write"} /\ c.todo = <<c.source>>
     \/ c.op = "check" /\ c.step = "read" /\ c.todo = <<c.source>>
     \/ Builds(c) /\ c.step \in BuildSteps /\ c.todo = <<Generated(c)>>
  /\ c.linked => c.step = "write"
  /\ c.step = "write" /\ ~Builds(c) => c.linked

(* What fmt has read is the program it is to keep; new writes a source     *)
(* before its user does.                                                   *)
KeepsPrograms(c, sv, hm) ==
  /\ c.op = "fmt" /\ c.step \in {"open", "write"} /\ c.source \notin hm
       => Real(c.text) /\ Rests(c.text) = Rests(sv[c.source])
  /\ c.op = "new" => \A s \in (Sources \cap ToSet(c.todo)) \ hm : sv[s] = Missing

(* How far a command that nobody disturbed has got.                        *)
Progress(c, dk, hm) ==
  /\ Builds(c) /\ c.step \in {"open", "write", "link"} => c.text = dk[c.source]
  /\ Builds(c) /\ c.step = "write" => c.linked
  /\ Builds(c) /\ c.step = "cc" =>
       dk[Generated(c)] \in {Missing, Blank, Torn, dk[c.source]}
  /\ Builds(c) /\ c.step = "remove" => dk[Bin[c.source]] = dk[c.source]
  /\ c.op = "new" =>
       \A f \in ProjectFiles \ (hm \cup ToSet(c.todo)) : dk[f] = Template(f)

Fine(c, mk, dk, sv, hm) ==
  /\ Shape(c)
  /\ c.linked => dk[Target(c)] # Missing
  /\ c.op = "fmt" => dk[c.source] # Missing
  /\ c.op = "none" \/ c.step = "mkdir" \/ mk
  /\ KeepsPrograms(c, sv, hm)
  /\ c.alone => Progress(c, dk, hm)

(* Two commands that write one file of the project have spoilt it, and an  *)
(* undisturbed one shares no file.                                         *)
Apart(c, d, hm) ==
  /\ Writes(c) \cap Writes(d) \cap ProjectFiles \subseteq hm
  /\ c.alone => ~Disturb(c, d)

Kept(f, mk, dk, sv) ==
  /\ mk => Real(dk[f])
  /\ f \in Sources => Rests(dk[f]) = Rests(sv[f])

FilesAreKept ==
  \A f \in ProjectFiles \ harmed :
    (\A p \in Procs : f \notin Unfinished(cmd[p])) => Kept(f, made, disk, saved)

NothingMade ==
  ~made => /\ \A f \in ProjectFiles : disk[f] = Missing
           /\ \A s \in Sources : saved[s] = Missing

LeftoverIsOpened ==
  \A g \in Generateds : disk[g] # Missing =>
    g \in left \/ \E p \in Procs : g \in Writes(cmd[p]) /\ cmd[p].step \notin {"read", "open"}

Types ==
  /\ made \in BOOLEAN
  /\ cmd = [p \in Procs |-> cmd[p]]
  /\ disk = [f \in Files |-> disk[f]]
  /\ \A f \in Files : disk[f] = Missing \/ Present(disk[f])
  /\ saved = [s \in Sources |-> saved[s]]
  /\ \A s \in Sources : saved[s] = Missing \/ Real(saved[s])
  /\ begun \in 0 .. MaxBegun
  /\ harmed \subseteq ProjectFiles
  /\ left \subseteq Generateds

IInv ==
  /\ Types
  /\ \A p \in Procs : Fine(cmd[p], made, disk, saved, harmed)
  /\ \A p, q \in Procs : p # q => Apart(cmd[p], cmd[q], harmed)
  /\ FilesAreKept
  /\ NothingMade
  /\ LeftoverIsOpened

-----------------------------------------------------------------------------
(* The names of the files. *)

LEMMA FileNames ==
  /\ ProjectFiles = {"toml", "main", "test", "ignore"}
  /\ Generateds = {Native, Dist["main"], Dist["test"]}
  /\ Files = ProjectFiles \cup Generateds \cup {Bin["main"], Bin["test"]}
  /\ ProjectFiles \cap Generateds = {}
  /\ \A s \in Sources : /\ s \in ProjectFiles
                        /\ Dist[s] \in Generateds
                        /\ Bin[s] \in Files
                        /\ Bin[s] \notin Generateds
                        /\ Bin[s] \notin ProjectFiles
  /\ Sources \subseteq Files /\ ProjectFiles \subseteq Files /\ Generateds \subseteq Files
  /\ \A f \in Files : f \notin {"missing", "torn"}
<1>1. ToSet(Project) = {"toml", "main", "test", "ignore"}
  BY DEF ToSet, Project
<1>2. Generateds = {Native, Dist["main"], Dist["test"]}
  BY DEF Generateds, Sources
<1>3. {Bin[s] : s \in Sources} = {Bin["main"], Bin["test"]}
  BY DEF Sources
<1>4. /\ Dist["main"] = "dist/main.generated.c" /\ Dist["test"] = "dist/test.generated.c"
      /\ Bin["main"] = "bin/main" /\ Bin["test"] = "bin/test"
  BY DEF Dist, Bin
<1> QED  BY <1>1, <1>2, <1>3, <1>4 DEF ProjectFiles, Files, Native, Sources

(* The list of files that new goes through. *)
LEMMA TodoParts ==
  ASSUME NEW t \in Todos
  PROVE  /\ t # <<>> /\ Head(t) \in ToSet(t) /\ ToSet(t) \subseteq ProjectFiles
         /\ Len(t) = 1 => ToSet(t) = {Head(t)}
         /\ Len(t) # 1 => /\ Tail(t) \in Todos
                          /\ ToSet(t) = ToSet(Tail(t)) \cup {Head(t)}
                          /\ Head(t) \notin ToSet(Tail(t))
<1>1. CASE t = <<"toml", "main", "test", "ignore">>
  BY <1>1 DEF Todos, ToSet, Project, ProjectFiles
<1>2. CASE t = <<"main", "test", "ignore">>
  BY <1>2 DEF Todos, ToSet, Project, ProjectFiles
<1>3. CASE t = <<"test", "ignore">>
  BY <1>3 DEF Todos, ToSet, Project, ProjectFiles
<1>4. CASE t = <<"ignore">>
  BY <1>4 DEF Todos, ToSet, Project, ProjectFiles
<1> QED  BY <1>1, <1>2, <1>3, <1>4 DEF Todos, Project

LEMMA OneTodo ==
  ASSUME NEW f
  PROVE  <<f>> # <<>> /\ Head(<<f>>) = f /\ ToSet(<<f>>) = {f} /\ Len(<<f>>) = 1
  BY DEF ToSet

-----------------------------------------------------------------------------
(* Texts. *)

LEMMA LinesHaveRests ==
  ASSUME NEW t, IsText(t), NEW i \in DOMAIN t, NEW n
  PROVE  [t[i] EXCEPT !.lead = n] = Line(n, t[i].rest)
<1>1. t[i] = [lead |-> t[i].lead, rest |-> t[i].rest]
  BY DEF IsText, Line
<1> DEFINE r == t[i].rest
           l == t[i].lead
<1>2. t[i] = [lead |-> l, rest |-> r]
  BY <1>1
<1> HIDE DEF r, l
<1>3. [[lead |-> l, rest |-> r] EXCEPT !.lead = n] = [lead |-> n, rest |-> r]
  OBVIOUS
<1>4. [t[i] EXCEPT !.lead = n] = [lead |-> n, rest |-> r]
  BY <1>2, <1>3
<1> QED  BY <1>4 DEF r, Line

(* What fmt makes of a text depends on the rests of its lines alone, and   *)
(* keeps them.                                                             *)
LEMMA FormatKeepsRests ==
  ASSUME NEW t, IsText(t)
  PROVE  /\ IsText(format_dmc_code(t))
         /\ DOMAIN format_dmc_code(t) = DOMAIN t
         /\ Rests(format_dmc_code(t)) = Rests(t)
         /\ format_dmc_code(t) = [i \in DOMAIN t |-> Line(LeadOf(t, i), t[i].rest)]
<1>1. format_dmc_code(t) = [i \in DOMAIN t |-> Line(LeadOf(t, i), t[i].rest)]
  BY LinesHaveRests DEF format_dmc_code
<1> QED  BY <1>1 DEF IsText, Rests, Line

LEMMA FormatIsOfRests ==
  ASSUME NEW t, NEW u, IsText(t), IsText(u), Rests(t) = Rests(u)
  PROVE  format_dmc_code(t) = format_dmc_code(u)
<1>1. DOMAIN t = DOMAIN u /\ \A i \in DOMAIN t : t[i].rest = u[i].rest
  BY DEF Rests
<1>2. \A i : LeadOf(t, i) = LeadOf(u, i)
  BY DEF LeadOf
<1> QED  BY <1>1, <1>2, FormatKeepsRests

LEMMA FormattedKeepsRests ==
  ASSUME NEW t, IsText(t)
  PROVE  /\ IsText(Formatted(t)) /\ Rests(Formatted(t)) = Rests(t)
         /\ Formatted(Formatted(t)) = Formatted(t)
<1>1. IsText(format_dmc_code(t)) /\ Rests(format_dmc_code(t)) = Rests(t)
  BY FormatKeepsRests
<1>2. format_dmc_code(format_dmc_code(t)) = format_dmc_code(t)
  BY <1>1, FormatIsOfRests
<1> QED  BY <1>1, <1>2 DEF Formatted

(* A text is there, or not spoilt, by its rests. *)
LEMMA RestsTell ==
  ASSUME NEW t, NEW u, IsText(u), Rests(t) = Rests(u)
  PROVE  (Present(t) => Present(u)) /\ (Real(t) => Real(u))
<1>1. DOMAIN t = DOMAIN u /\ \A i \in DOMAIN t : t[i].rest = u[i].rest
  BY DEF Rests
<1> QED  BY <1>1 DEF Present, Real

LEMMA SomeTexts ==
  /\ Present(Torn) /\ Present(Blank) /\ Blank # Missing /\ Torn # Missing
  /\ \A f \in Files : Real(Template(f))
  /\ \A t \in Texts : Real(t)
  /\ \A t : Present(t) => t # Missing
  /\ \A t : Real(t) => t # Missing /\ t # Torn /\ Present(t)
<1>1. \A t : Present(t) => t # Missing
  BY DEF Present, Missing, Line
<1>2. \A t : Real(t) => t # Missing /\ t # Torn /\ Present(t)
  BY <1>1 DEF Real, Torn, Line
<1>3. Present(Torn)
  BY DEF Present, IsText, Torn, Line
<1>4. Present(Blank)
  BY DEF Present, IsText, Blank
<1>5. ASSUME NEW f \in Files
      PROVE  Real(Template(f))
  <2>1. f \notin {"missing", "torn"}
    BY FileNames
  <2> DEFINE t == Template(f)
  <2>2. /\ DOMAIN t = 1 .. 3
        /\ t[1] = Line(0, "f {") /\ t[2] = Line(4, f) /\ t[3] = Line(0, "}")
    BY DEF Template
  <2>3. t = [i \in 1 .. 3 |-> t[i]]
    BY DEF Template
  <2>4. \A i \in 1 .. 3 : i = 1 \/ i = 2 \/ i = 3
    OBVIOUS
  <2> HIDE DEF t
  <2>5. \A i \in 1 .. 3 : t[i] = Line(t[i].lead, t[i].rest) /\ t[i].rest \notin {"missing", "torn"}
    <3> DEFINE Good(l) == l = Line(l.lead, l.rest) /\ l.rest \notin {"missing", "torn"}
    <3>1. ASSUME NEW n, NEW r, r \notin {"missing", "torn"}
          PROVE  Good(Line(n, r))
      <4>1. Line(n, r) = Line(Line(n, r).lead, Line(n, r).rest) /\ Line(n, r).rest = r
        BY DEF Line
      <4> QED  BY <3>1, <4>1
    <3>2. "f {" \notin {"missing", "torn"} /\ "}" \notin {"missing", "torn"}
      OBVIOUS
    <3>3. Good(Line(0, "f {")) /\ Good(Line(4, f)) /\ Good(Line(0, "}"))
      <4> HIDE DEF Good
      <4> QED  BY <2>1, <3>1, <3>2
    <3> HIDE DEF Good
    <3>4. \A i \in 1 .. 3 : Good(t[i])
      BY <2>2, <2>4, <3>3
    <3> QED  BY <3>4 DEF Good
  <2>6. Real(t)
    BY <2>2, <2>3, <2>5 DEF Real, Present, IsText
  <2> QED  BY <2>6 DEF t
<1>6. ASSUME NEW t \in Texts
      PROVE  Real(t)
  <2>1. \A i \in DOMAIN t : t[i] \in [lead : Nat, rest : STRING \ {"missing", "torn"}]
    <3> DEFINE Lines == [lead : Nat, rest : STRING \ {"missing", "torn"}]
    <3>1. t \in Seq(Lines)
      BY DEF Texts
    <3> HIDE DEF Lines
    <3>2. \A i \in DOMAIN t : t[i] \in Lines
      BY <3>1
    <3> QED  BY <3>2 DEF Lines
  <2>2. \A i \in DOMAIN t : /\ t[i] = [lead |-> t[i].lead, rest |-> t[i].rest]
                            /\ t[i].rest \notin {"missing", "torn"}
    BY <2>1
  <2>3. t = [i \in DOMAIN t |-> t[i]]
    BY DEF Texts
  <2> QED  BY <2>2, <2>3 DEF Real, Present, IsText, Line
<1> QED  BY <1>1, <1>2, <1>3, <1>4, <1>5, <1>6

(* The lexer finds the same program where no string goes over a line.      *)
LEMMA ProgramIsOfRests ==
  ASSUME NEW t, NEW u, Rests(t) = Rests(u)
  PROVE  /\ SpansLines(t) <=> SpansLines(u)
         /\ SpansLines(u) \/ Program(t) = Program(u)
<1>1. DOMAIN t = DOMAIN u
  BY DEF Rests
<1>2. SpansLines(t) <=> SpansLines(u)
  BY <1>1 DEF SpansLines
<1>3. ASSUME ~SpansLines(u)
      PROVE  Program(t) = Program(u)
  <2>1. \A i \in DOMAIN t : ~InString(Rests(t), i)
    BY <1>1, <1>3 DEF SpansLines
  <2>2. \A i \in DOMAIN t : Seen(t, i) = Seen(u, i)
    BY <2>1 DEF Seen
  <2> DEFINE S == {j \in DOMAIN t : InString(Rests(t), j) \/ ~Empty(Rests(t)[j])}
  <2>3. S = {j \in DOMAIN u : InString(Rests(u), j) \/ ~Empty(Rests(u)[j])}
    BY <1>1
  <2>4. S \subseteq DOMAIN t
    OBVIOUS
  <2>5. Program(t) = [i \in S |-> Seen(t, i)] /\ Program(u) = [i \in S |-> Seen(u, i)]
    BY <2>3 DEF Program
  <2> HIDE DEF S
  <2> QED  BY <2>2, <2>4, <2>5
<1> QED  BY <1>2, <1>3

-----------------------------------------------------------------------------
(* Commands as records. *)

LEMMA ComFields ==
  ASSUME NEW o, NEW s, NEW st, NEW td, NEW tx, NEW l, NEW a
  PROVE  LET c == Com(o, s, st, td, tx, l, a)
         IN  /\ c.op = o /\ c.source = s /\ c.step = st /\ c.todo = td
             /\ c.text = tx /\ c.linked = l /\ c.alone = a
             /\ c = Com(c.op, c.source, c.step, c.todo, c.text, c.linked, c.alone)
  BY DEF Com

(* Several fields are changed one after the other. *)
LEMMA Chains ==
  ASSUME NEW c, NEW d, NEW e, NEW x, NEW y, NEW z
  PROVE  /\ d = [c EXCEPT !.text = x] /\ e = [d EXCEPT !.step = y]
              => [c EXCEPT !.text = x, !.step = y] = e
         /\ d = [c EXCEPT !.step = x] /\ e = [d EXCEPT !.text = y]
              => [c EXCEPT !.step = x, !.text = y] = e
         /\ d = [c EXCEPT !.step = x] /\ e = [d EXCEPT !.linked = y]
              => [c EXCEPT !.step = x, !.linked = y] = e
         /\ d = [c EXCEPT !.step = x, !.todo = y] /\ e = [d EXCEPT !.linked = z]
              => [c EXCEPT !.step = x, !.todo = y, !.linked = z] = e
         /\ d = [c EXCEPT !.step = x, !.text = y] /\ e = [d EXCEPT !.linked = z]
              => [c EXCEPT !.step = x, !.text = y, !.linked = z] = e
         /\ d = [c EXCEPT !.step = x] /\ e = [d EXCEPT !.todo = y]
              => [c EXCEPT !.step = x, !.todo = y] = e
  OBVIOUS

LEMMA IdleIsCom ==
  /\ Idle = Com("none", "main", "idle", <<>>, Blank, FALSE, FALSE)
  /\ Away = Com("none", "main", "away", <<>>, Blank, FALSE, FALSE)
  /\ \A o, s, st, td : Command(o, s, st, td) = Com(o, s, st, td, Blank, FALSE, TRUE)
<1>1. \A o, s, st, td : Command(o, s, st, td) = Com(o, s, st, td, Blank, FALSE, TRUE)
  BY DEF Command, Com
<1>2. Idle = Com("none", "main", "idle", <<>>, Blank, FALSE, FALSE)
  <2>1. Idle = [Com("none", "main", "idle", <<>>, Blank, FALSE, TRUE) EXCEPT !.alone = FALSE]
    BY <1>1 DEF Idle
  <2> QED  BY <2>1 DEF Com
<1>3. Away = Com("none", "main", "away", <<>>, Blank, FALSE, FALSE)
  <2>1. Away = [Com("none", "main", "idle", <<>>, Blank, FALSE, FALSE) EXCEPT !.step = "away"]
    BY <1>2 DEF Away
  <2> QED  BY <2>1 DEF Com
<1> QED  BY <1>1, <1>2, <1>3

(* The files of a command depend on what it is to do alone. *)
LEMMA SameFiles ==
  ASSUME NEW c, NEW d, c.op = d.op, c.source = d.source
  PROVE  /\ Writes(c) = Writes(d) /\ Uses(c) = Uses(d) /\ Generated(c) = Generated(d)
         /\ Builds(c) <=> Builds(d)
  BY DEF Writes, Uses, Generated, Builds

LEMMA IdleFiles ==
  ASSUME NEW c, c.op = "none"
  PROVE  Writes(c) = {} /\ Uses(c) = {}
  BY DEF Writes, Uses, Builds

(* Where the files of a command are. *)
LEMMA FilesOf ==
  ASSUME NEW c, Shape(c)
  PROVE  /\ Writes(c) \subseteq Uses(c) /\ Uses(c) \subseteq Files
         /\ Builds(c) => /\ Generated(c) \in Generateds
                         /\ Writes(c) = {Generated(c), Bin[c.source]}
                         /\ Writes(c) \cap ProjectFiles = {}
                         /\ c.source \in Uses(c)
         /\ c.op = "fmt" => Writes(c) = {c.source}
         /\ c.op = "new" => Writes(c) = ProjectFiles
         /\ c.op = "init" => Writes(c) = {"toml"}
         /\ c.op \in {"none", "check"} => Writes(c) = {}
<1>1. c.source \in Sources /\ (Builds(c) \/ c.op \in {"none", "new", "init", "fmt", "check"})
  BY DEF Shape, IsCommand
<1>2. Builds(c) => Generated(c) \in Generateds
  BY <1>1, FileNames DEF Generated
<1>3. Writes(c) \subseteq Files
  BY <1>1, <1>2, FileNames DEF Writes, ProjectFiles, Builds
<1> QED  BY <1>1, <1>2, <1>3, FileNames DEF Writes, Uses, ProjectFiles, Builds

(* The file that is open is one the command writes. *)
LEMMA TargetIsWritten ==
  ASSUME NEW c, Shape(c), c.step \in {"open", "write"}
  PROVE  /\ c.todo # <<>> /\ Target(c) \in Writes(c) /\ Target(c) \in Files
         /\ Builds(c) => Target(c) = Generated(c)
         /\ ~Builds(c) => Target(c) \in ProjectFiles
         /\ c.op = "fmt" => Target(c) = c.source /\ LastOutput(c)
         /\ c.op = "new" => c.todo \in Todos
         /\ c.op = "init" => Target(c) = "toml" /\ LastOutput(c)
         /\ Builds(c) \/ c.op \in {"fmt", "new", "init"}
<1>1. c.op \in {"new", "init", "fmt"} \/ Builds(c)
  BY DEF Shape
<1>2. CASE c.op = "new"
  <2>1. c.todo \in Todos
    BY <1>2 DEF Shape, Builds
  <2> QED  BY <1>2, <2>1, TodoParts, FilesOf, FileNames DEF Target, Builds
<1>3. CASE c.op = "init"
  <2>1. c.todo = <<"toml">>
    BY <1>3 DEF Shape, Builds
  <2> QED  BY <1>3, <2>1, OneTodo, FilesOf, FileNames DEF Target, LastOutput, Builds
<1>4. CASE c.op = "fmt"
  <2>1. c.todo = <<c.source>> /\ c.source \in Sources
    BY <1>4 DEF Shape, Builds, IsCommand
  <2>2. Target(c) = c.source /\ c.todo # <<>> /\ LastOutput(c)
    BY <2>1, OneTodo DEF Target, LastOutput
  <2>3. ~Builds(c) /\ Writes(c) = {c.source} /\ c.source \in Files /\ c.source \in ProjectFiles
    BY <1>4, <2>1, FilesOf, FileNames DEF Builds
  <2> QED  BY <1>4, <2>2, <2>3
<1>5. CASE Builds(c)
  <2>1. c.todo = <<Generated(c)>>
    BY <1>5 DEF Shape, Builds
  <2>2. c.op \notin {"fmt", "new", "init"}
    BY <1>5 DEF Builds
  <2>3. Target(c) = Generated(c) /\ c.todo # <<>>
    BY <2>1, OneTodo DEF Target
  <2> QED  BY <1>5, <2>2, <2>3, FilesOf, FileNames
<1> QED  BY <1>1, <1>2, <1>3, <1>4, <1>5

(* The files of the project that a kill would spoil. *)
LEMMA UnfinishedFiles ==
  ASSUME NEW c, Shape(c)
  PROVE  /\ Unfinished(c) \cap ProjectFiles \subseteq Writes(c)
         /\ c.op = "new" => Unfinished(c) = ToSet(c.todo)
         /\ c.op = "init" => Unfinished(c) = {"toml"}
         /\ c.op = "fmt" => Unfinished(c) = IF c.step = "write" THEN {c.source} ELSE {}
         /\ Builds(c) => Unfinished(c) \cap ProjectFiles = {}
         /\ c.op \in {"none", "check"} => Unfinished(c) = {}
<1>1. c.op \in {"none", "check", "new", "init", "fmt"} \/ Builds(c)
  BY DEF Shape
<1>2. CASE c.op \in {"none", "check"}
  BY <1>2 DEF Shape, Unfinished, Builds
<1>3. CASE c.op = "new"
  BY <1>3, FilesOf DEF Unfinished, Builds
<1>4. CASE c.op = "init"
  <2>1. c.todo = <<"toml">>
    BY <1>4 DEF Shape, Builds
  <2> QED  BY <1>4, <2>1, OneTodo, FilesOf DEF Unfinished, Builds
<1>5. CASE c.op = "fmt"
  BY <1>5, FilesOf, TargetIsWritten DEF Unfinished, Builds
<1>6. CASE Builds(c)
  BY <1>6, FilesOf, FileNames, TargetIsWritten DEF Unfinished, Builds
<1> QED  BY <1>1, <1>2, <1>3, <1>4, <1>5, <1>6

-----------------------------------------------------------------------------
(* The others, while one process makes a step. *)

(* A command that is not at work goes on as it is; a build may find that   *)
(* its file has no name any more, and any that it is not alone.            *)
Follows(c, d) ==
  /\ IsCommand(d)
  /\ d.op = c.op /\ d.source = c.source /\ d.step = c.step
  /\ d.todo = c.todo /\ d.text = c.text
  /\ d.linked => c.linked
  /\ ~Builds(c) => d.linked = c.linked
  /\ d.alone => c.alone /\ d.linked = c.linked

LEMMA FollowsKeepsFiles ==
  ASSUME NEW c, NEW d, Follows(c, d)
  PROVE  /\ Writes(d) = Writes(c) /\ Uses(d) = Uses(c) /\ Generated(d) = Generated(c)
         /\ Target(d) = Target(c) /\ Unfinished(d) = Unfinished(c)
         /\ Builds(d) <=> Builds(c)
  BY SameFiles DEF Follows, Target, Unfinished

LEMMA FollowsKeepsShape ==
  ASSUME NEW c, NEW d, Shape(c), Follows(c, d)
  PROVE  Shape(d)
<1>1. Generated(d) = Generated(c) /\ (Builds(d) <=> Builds(c))
  BY FollowsKeepsFiles
<1>2. IsCommand(d) /\ d.op = c.op /\ d.step = c.step /\ d.todo = c.todo /\ d.source = c.source
  BY DEF Follows
<1>3. (d.linked => c.linked) /\ (d.alone => c.alone) /\ (~Builds(c) => d.linked = c.linked)
  BY DEF Follows
<1>4. (d.linked => d.step = "write") /\ (d.step = "write" /\ ~Builds(d) => d.linked)
  BY <1>1, <1>2, <1>3 DEF Shape
<1> QED  BY <1>1, <1>2, <1>3, <1>4 DEF Shape

LEMMA OthersStayFine ==
  ASSUME NEW c, NEW d, Follows(c, d),
         NEW mk \in BOOLEAN, NEW mk2 \in BOOLEAN, NEW dk, NEW dk2,
         NEW sv, NEW sv2, NEW hm, NEW hm2,
         Fine(c, mk, dk, sv, hm),
         mk => mk2,
         d.alone => \A f \in Uses(c) : dk2[f] = dk[f],
         \A s \in Sources : dk[s] # Missing => dk2[s] # Missing,
         d.linked => dk2[Target(c)] # Missing,
         Writes(c) \cap hm \subseteq hm2,
         \A s \in (Writes(c) \cap Sources) \ hm2 : sv2[s] = sv[s]
  PROVE  Fine(d, mk2, dk2, sv2, hm2)
<1>1. Shape(c) /\ Shape(d) /\ c.source \in Sources
  BY FollowsKeepsShape DEF Fine, Shape, IsCommand
<1>2. /\ Writes(d) = Writes(c) /\ Uses(d) = Uses(c) /\ Generated(d) = Generated(c)
      /\ Target(d) = Target(c) /\ (Builds(d) <=> Builds(c))
  BY FollowsKeepsFiles
<1>3. d.op = c.op /\ d.step = c.step /\ d.todo = c.todo /\ d.source = c.source /\ d.text = c.text
  BY DEF Follows
<1>4. d.linked => dk2[Target(d)] # Missing
  BY <1>2
<1>5. d.op = "fmt" => dk2[d.source] # Missing
  BY <1>1, <1>3 DEF Fine
<1>6. d.op = "none" \/ d.step = "mkdir" \/ mk2
  BY <1>3 DEF Fine
<1>7. KeepsPrograms(d, sv2, hm2)
  <2>1. CASE d.op = "fmt"
    <3>1. c.source \in Writes(c) /\ c.source \in Sources
      BY <1>1, <1>3, <2>1, FilesOf
    <3>2. KeepsPrograms(c, sv, hm)
      BY DEF Fine
    <3>3. c.source \notin hm2 => c.source \notin hm /\ sv2[c.source] = sv[c.source]
      BY <3>1
    <3>4. d.op # "new"
      BY <2>1
    <3> QED  BY ONLY <1>3, <3>2, <3>3, <3>4 DEF KeepsPrograms
  <2>2. CASE d.op = "new"
    <3>1. Writes(c) = ProjectFiles /\ Sources \subseteq ProjectFiles
      <4>1. Writes(c) = ProjectFiles
        BY ONLY <1>1, <1>3, <2>2, FilesOf
      <4>2. Sources \subseteq ProjectFiles
        BY ONLY FileNames
      <4> QED  BY ONLY <4>1, <4>2
    <3>2. KeepsPrograms(c, sv, hm) /\ c.op = "new" /\ d.op # "fmt"
      BY <1>3, <2>2 DEF Fine
    <3>3. \A s \in (Sources \cap ToSet(c.todo)) \ hm : sv[s] = Missing
      BY ONLY <3>2 DEF KeepsPrograms
    <3>4. \A s \in Sources \ hm2 : s \notin hm /\ sv2[s] = sv[s]
      BY ONLY <3>1, Writes(c) \cap hm \subseteq hm2,
              \A s \in (Writes(c) \cap Sources) \ hm2 : sv2[s] = sv[s]
    <3>5. \A s \in (Sources \cap ToSet(d.todo)) \ hm2 : sv2[s] = Missing
      BY ONLY <1>3, <3>3, <3>4
    <3> QED  BY ONLY <3>2, <3>5 DEF KeepsPrograms
  <2> QED  BY <2>1, <2>2 DEF KeepsPrograms
<1>8. d.alone => Progress(d, dk2, hm2)
  <2> SUFFICES ASSUME d.alone
               PROVE  Progress(d, dk2, hm2)
    OBVIOUS
  <2>1. Progress(c, dk, hm) /\ d.linked = c.linked /\ \A f \in Uses(c) : dk2[f] = dk[f]
    BY DEF Follows, Fine
  <2>2. CASE Builds(c)
    <3>1. c.source \in Uses(c) /\ Generated(c) \in Uses(c) /\ Bin[c.source] \in Uses(c)
      BY <1>1, <2>2, FilesOf
    <3>2. d.op # "new"
      BY <1>3, <2>2 DEF Builds
    <3> QED  BY <1>2, <1>3, <2>1, <2>2, <3>1, <3>2 DEF Progress
  <2>3. CASE c.op = "new"
    <3>1. ProjectFiles \subseteq Uses(c) /\ ProjectFiles \cap hm \subseteq hm2
      BY <1>1, <2>3, FilesOf
    <3>2. ~Builds(d)
      BY <1>2, <2>3 DEF Builds
    <3> QED  BY <1>3, <2>1, <2>3, <3>1, <3>2 DEF Progress
  <2> QED  BY <1>2, <1>3, <2>2, <2>3 DEF Progress
<1> QED  BY <1>1, <1>4, <1>5, <1>6, <1>7, <1>8 DEF Fine

-----------------------------------------------------------------------------
(* A process works on its own files; what it has still to show is about    *)
(* them.                                                                   *)

Others(p) == Procs \ {p}

Works(p) ==
  /\ \A q \in Others(p) : Follows(cmd[q], cmd'[q])
  /\ made' \in BOOLEAN /\ (made => made')
  /\ made' = made \/ ProjectFiles \subseteq Writes(cmd[p])
  /\ made' \/ UNCHANGED <<disk, saved>>
  /\ harmed \subseteq harmed'
  /\ \A f \in Files \ Writes(cmd[p]) : disk'[f] = disk[f]
  /\ \A s \in Sources \ Writes(cmd[p]) : saved'[s] = saved[s]
  /\ \A s \in Sources : disk[s] # Missing => disk'[s] # Missing
  /\ \A q \in Others(p) : cmd'[q].linked => disk'[Target(cmd[q])] # Missing
  /\ \A g \in Generateds \ Writes(cmd[p]) : g \in left => g \in left'

(* What p itself has become. *)
Becomes(p, d) ==
  /\ cmd'[p] = d
  /\ Fine(d, made', disk', saved', harmed')
  /\ Writes(d) \subseteq Writes(cmd[p]) /\ Uses(d) \subseteq Uses(cmd[p])
  /\ d.alone => cmd[p].alone

PastOpen(c, g) == g \in Writes(c) /\ c.step \notin {"read", "open"}

OwnFiles(p) ==
  /\ \A f \in (ProjectFiles \cap Writes(cmd[p])) \ harmed' :
       f \notin Unfinished(cmd'[p]) => Kept(f, made', disk', saved')
  /\ \A g \in Generateds \cap Writes(cmd[p]) :
       disk'[g] # Missing =>
         \/ g \in left'
         \/ PastOpen(cmd'[p], g)
         \/ disk[g] # Missing /\ g \notin left /\ ~PastOpen(cmd[p], g)

LEMMA WorkKeepsFine ==
  ASSUME IInv, NEW p \in Procs, NEW d, Works(p), Becomes(p, d)
  PROVE  \A q \in Procs : Fine(cmd'[q], made', disk', saved', harmed')
<1> SUFFICES ASSUME NEW q \in Others(p)
             PROVE  Fine(cmd'[q], made', disk', saved', harmed')
  BY DEF Becomes, Others
<1>1. /\ Fine(cmd[q], made, disk, saved, harmed) /\ Follows(cmd[q], cmd'[q])
      /\ Apart(cmd[p], cmd[q], harmed) /\ Apart(cmd[q], cmd[p], harmed)
      /\ made \in BOOLEAN /\ made' \in BOOLEAN
  BY DEF Works, Others, IInv, Types
<1>2. Shape(cmd[q])
  BY <1>1 DEF Fine
<1>3. cmd'[q].alone => \A f \in Uses(cmd[q]) : disk'[f] = disk[f]
  <2>1. Uses(cmd[q]) \subseteq Files
    BY <1>2, FilesOf
  <2>2. cmd'[q].alone => Uses(cmd[q]) \cap Writes(cmd[p]) = {}
    BY <1>1 DEF Apart, Disturb, Follows
  <2> QED  BY <2>1, <2>2 DEF Works
<1>4. Writes(cmd[q]) \cap harmed \subseteq harmed'
  BY DEF Works
<1>5. \A s \in (Writes(cmd[q]) \cap Sources) \ harmed' : saved'[s] = saved[s]
  <2>1. \A s \in Writes(cmd[q]) \cap Sources : s \in Writes(cmd[p]) => s \in harmed
    BY <1>1, FileNames DEF Apart
  <2> QED  BY <2>1 DEF Works
<1>6. /\ \A s \in Sources : disk[s] # Missing => disk'[s] # Missing
      /\ cmd'[q].linked => disk'[Target(cmd[q])] # Missing
      /\ made => made'
  BY DEF Works
<1> QED  BY <1>1, <1>3, <1>4, <1>5, <1>6, OthersStayFine

LEMMA WorkKeepsApart ==
  ASSUME IInv, NEW p \in Procs, NEW d, Works(p), Becomes(p, d)
  PROVE  \A q, r \in Procs : q # r => Apart(cmd'[q], cmd'[r], harmed')
<1> SUFFICES ASSUME NEW q \in Procs, NEW r \in Procs, q # r
             PROVE  Apart(cmd'[q], cmd'[r], harmed')
  OBVIOUS
<1>1. \A x \in Procs : /\ Writes(cmd'[x]) \subseteq Writes(cmd[x])
                       /\ Uses(cmd'[x]) \subseteq Uses(cmd[x])
                       /\ cmd'[x].alone => cmd[x].alone
  <2>1. ASSUME NEW x \in Others(p)
        PROVE  /\ Writes(cmd'[x]) \subseteq Writes(cmd[x])
               /\ Uses(cmd'[x]) \subseteq Uses(cmd[x])
               /\ cmd'[x].alone => cmd[x].alone
    <3>1. Follows(cmd[x], cmd'[x])
      BY DEF Works
    <3> QED  BY <3>1, FollowsKeepsFiles DEF Follows
  <2> QED  BY <2>1 DEF Becomes, Others
<1>2. Apart(cmd[q], cmd[r], harmed) /\ harmed \subseteq harmed'
  BY DEF IInv, Works
<1> QED  BY <1>1, <1>2 DEF Apart, Disturb

(* A file of its own that a process has settled is as it should be.        *)
LEMMA OwnWasKept ==
  ASSUME IInv, NEW p \in Procs, NEW f \in (ProjectFiles \cap Writes(cmd[p])) \ harmed,
         f \notin Unfinished(cmd[p])
  PROVE  Kept(f, made, disk, saved)
<1>1. ASSUME NEW q \in Procs, q # p
      PROVE  f \notin Unfinished(cmd[q])
  <2>1. f \notin Writes(cmd[q])
    BY <1>1 DEF IInv, Apart
  <2>2. Shape(cmd[q])
    BY DEF IInv, Fine
  <2> QED  BY <2>1, <2>2, UnfinishedFiles
<1> QED  BY <1>1 DEF IInv, FilesAreKept

LEMMA WorkKeepsFiles ==
  ASSUME IInv, NEW p \in Procs, NEW d, Works(p), Becomes(p, d), OwnFiles(p)
  PROVE  FilesAreKept'
<1> SUFFICES ASSUME NEW f \in ProjectFiles \ harmed',
                    \A q \in Procs : f \notin Unfinished(cmd'[q])
             PROVE  Kept(f, made', disk', saved')
  BY DEF FilesAreKept
<1>1. CASE f \in Writes(cmd[p])
  BY <1>1 DEF OwnFiles
<1>2. CASE f \notin Writes(cmd[p])
  <2>1. /\ disk'[f] = disk[f] /\ (f \in Sources => saved'[f] = saved[f]) /\ made' = made
        /\ f \notin harmed
    BY <1>2, FileNames DEF Works
  <2>2. ASSUME NEW q \in Procs
        PROVE  f \notin Unfinished(cmd[q])
    <3>1. CASE q = p
      <4>1. Shape(cmd[p])
        BY DEF IInv, Fine
      <4> QED  BY <1>2, <3>1, <4>1, UnfinishedFiles
    <3>2. CASE q # p
      <4>1. Follows(cmd[q], cmd'[q])
        BY <3>2 DEF Works, Others
      <4> QED  BY <4>1, FollowsKeepsFiles
    <3> QED  BY <3>1, <3>2
  <2>3. Kept(f, made, disk, saved)
    BY <2>1, <2>2 DEF IInv, FilesAreKept
  <2> QED  BY <2>1, <2>3 DEF Kept
<1> QED  BY <1>1, <1>2

LEMMA WorkKeepsLeftover ==
  ASSUME IInv, NEW p \in Procs, NEW d, Works(p), Becomes(p, d), OwnFiles(p)
  PROVE  LeftoverIsOpened'
<1> SUFFICES ASSUME NEW g \in Generateds, disk'[g] # Missing
             PROVE  g \in left' \/ \E q \in Procs : PastOpen(cmd'[q], g)
  BY DEF LeftoverIsOpened, PastOpen
<1>1. ASSUME NEW q \in Procs, q # p, PastOpen(cmd[q], g)
      PROVE  PastOpen(cmd'[q], g)
  <2>1. Follows(cmd[q], cmd'[q])
    BY <1>1 DEF Works, Others
  <2> QED  BY <1>1, <2>1, FollowsKeepsFiles DEF PastOpen, Follows
<1>2. disk[g] # Missing => g \in left \/ \E q \in Procs : PastOpen(cmd[q], g)
  BY DEF IInv, LeftoverIsOpened, PastOpen
<1>3. CASE g \in Writes(cmd[p])
  BY <1>1, <1>2, <1>3 DEF OwnFiles
<1>4. CASE g \notin Writes(cmd[p])
  <2>1. disk'[g] = disk[g] /\ (g \in left => g \in left') /\ ~PastOpen(cmd[p], g)
    BY <1>4, FileNames DEF Works, PastOpen
  <2> QED  BY <1>1, <1>2, <2>1
<1> QED  BY <1>3, <1>4

(* A step of one process keeps the invariant, if it does its own work.     *)
LEMMA WorkKeepsInvariant ==
  ASSUME IInv, NEW p \in Procs, NEW d, Works(p), Becomes(p, d), OwnFiles(p), Types'
  PROVE  IInv'
<1>1. NothingMade'
  <2> SUFFICES ASSUME ~made'
               PROVE  ~made /\ UNCHANGED <<disk, saved>>
    BY DEF IInv, NothingMade
  <2> QED  BY DEF Works, IInv, Types
<1>2. FilesAreKept' /\ LeftoverIsOpened'
  BY WorkKeepsFiles, WorkKeepsLeftover
<1>3. \A q \in Procs : Fine(cmd[q], made, disk, saved, harmed)'
  BY WorkKeepsFine
<1>4. \A q, r \in Procs : q # r => Apart(cmd[q], cmd[r], harmed)'
  BY WorkKeepsApart
<1> QED  BY <1>1, <1>2, <1>3, <1>4 DEF IInv

-----------------------------------------------------------------------------
(* The steps of the process itself. *)

(* d is c, but for the fields that a step changes. *)
Turns(c, d, step, todo, text, linked) ==
  /\ d.op = c.op /\ d.source = c.source /\ d.alone = c.alone
  /\ d.step = step /\ d.todo = todo /\ d.text = text /\ d.linked = linked
  /\ Present(text) /\ linked \in BOOLEAN => IsCommand(d)

LEMMA ComTurns ==
  ASSUME NEW c, IsCommand(c), NEW step, NEW todo, NEW text, NEW linked, NEW d,
         d = Com(c.op, c.source, step, todo, text, linked, c.alone)
  PROVE  Turns(c, d, step, todo, text, linked)
  BY ComFields DEF IsCommand, Turns

LEMMA TurnsStep ==
  ASSUME NEW c, IsCommand(c), NEW st
  PROVE  Turns(c, [c EXCEPT !.step = st],
               st, c.todo, c.text, c.linked)
<1>1. Com(c.op, c.source, st, c.todo, c.text, c.linked, c.alone)
        = [c EXCEPT !.step = st]
  BY DEF IsCommand, Com
<1> QED  BY <1>1, ComTurns

LEMMA TurnsTextStep ==
  ASSUME NEW c, IsCommand(c), NEW tx, NEW st
  PROVE  Turns(c, [c EXCEPT !.text = tx, !.step = st],
               st, c.todo, tx, c.linked)
<1>1. Com(c.op, c.source, c.step, c.todo, tx, c.linked, c.alone)
        = [c EXCEPT !.text = tx]
  BY DEF IsCommand, Com
<1>2. \A d : d = Com(c.op, c.source, c.step, c.todo, tx, c.linked, c.alone) =>
             Com(c.op, c.source, st, c.todo, tx, c.linked, c.alone) = [d EXCEPT !.step = st]
  BY DEF Com
<1>3. Com(c.op, c.source, st, c.todo, tx, c.linked, c.alone)
        = [c EXCEPT !.text = tx, !.step = st]
  BY <1>1, <1>2, Chains, Zenon
<1> QED  BY <1>3, ComTurns

LEMMA TurnsStepText ==
  ASSUME NEW c, IsCommand(c), NEW st, NEW tx
  PROVE  Turns(c, [c EXCEPT !.step = st, !.text = tx],
               st, c.todo, tx, c.linked)
<1>1. Com(c.op, c.source, st, c.todo, c.text, c.linked, c.alone)
        = [c EXCEPT !.step = st]
  BY DEF IsCommand, Com
<1>2. \A d : d = Com(c.op, c.source, st, c.todo, c.text, c.linked, c.alone) =>
             Com(c.op, c.source, st, c.todo, tx, c.linked, c.alone) = [d EXCEPT !.text = tx]
  BY DEF Com
<1>3. Com(c.op, c.source, st, c.todo, tx, c.linked, c.alone)
        = [c EXCEPT !.step = st, !.text = tx]
  BY <1>1, <1>2, Chains, Zenon
<1> QED  BY <1>3, ComTurns

LEMMA TurnsStepLinked ==
  ASSUME NEW c, IsCommand(c), NEW st, NEW l
  PROVE  Turns(c, [c EXCEPT !.step = st, !.linked = l],
               st, c.todo, c.text, l)
<1>1. Com(c.op, c.source, st, c.todo, c.text, c.linked, c.alone)
        = [c EXCEPT !.step = st]
  BY DEF IsCommand, Com
<1>2. \A d : d = Com(c.op, c.source, st, c.todo, c.text, c.linked, c.alone) =>
             Com(c.op, c.source, st, c.todo, c.text, l, c.alone) = [d EXCEPT !.linked = l]
  BY DEF Com
<1>3. Com(c.op, c.source, st, c.todo, c.text, l, c.alone)
        = [c EXCEPT !.step = st, !.linked = l]
  BY <1>1, <1>2, Chains, Zenon
<1> QED  BY <1>3, ComTurns

LEMMA TurnsStepTodo ==
  ASSUME NEW c, IsCommand(c), NEW st, NEW td, NEW l
  PROVE  Turns(c, [c EXCEPT !.step = st, !.todo = td, !.linked = l],
               st, td, c.text, l)
<1>1. Com(c.op, c.source, st, c.todo, c.text, c.linked, c.alone)
        = [c EXCEPT !.step = st]
  BY DEF IsCommand, Com
<1>2. \A d : d = Com(c.op, c.source, st, c.todo, c.text, c.linked, c.alone) =>
             Com(c.op, c.source, st, td, c.text, c.linked, c.alone) = [d EXCEPT !.todo = td]
  BY DEF Com
<1>3. Com(c.op, c.source, st, td, c.text, c.linked, c.alone)
        = [c EXCEPT !.step = st, !.todo = td]
  BY <1>1, <1>2, Chains, Zenon
<1>4. \A d : d = Com(c.op, c.source, st, td, c.text, c.linked, c.alone) =>
             Com(c.op, c.source, st, td, c.text, l, c.alone) = [d EXCEPT !.linked = l]
  BY DEF Com
<1>5. Com(c.op, c.source, st, td, c.text, l, c.alone)
        = [c EXCEPT !.step = st, !.todo = td, !.linked = l]
  BY <1>3, <1>4, Chains, Zenon
<1> QED  BY <1>5, ComTurns

LEMMA TurnsStepTextLinked ==
  ASSUME NEW c, IsCommand(c), NEW st, NEW tx, NEW l
  PROVE  Turns(c, [c EXCEPT !.step = st, !.text = tx, !.linked = l],
               st, c.todo, tx, l)
<1>1. Com(c.op, c.source, st, c.todo, c.text, c.linked, c.alone)
        = [c EXCEPT !.step = st]
  BY DEF IsCommand, Com
<1>2. \A d : d = Com(c.op, c.source, st, c.todo, c.text, c.linked, c.alone) =>
             Com(c.op, c.source, st, c.todo, tx, c.linked, c.alone) = [d EXCEPT !.text = tx]
  BY DEF Com
<1>3. Com(c.op, c.source, st, c.todo, tx, c.linked, c.alone)
        = [c EXCEPT !.step = st, !.text = tx]
  BY <1>1, <1>2, Chains, Zenon
<1>4. \A d : d = Com(c.op, c.source, st, c.todo, tx, c.linked, c.alone) =>
             Com(c.op, c.source, st, c.todo, tx, l, c.alone) = [d EXCEPT !.linked = l]
  BY DEF Com
<1>5. Com(c.op, c.source, st, c.todo, tx, l, c.alone)
        = [c EXCEPT !.step = st, !.text = tx, !.linked = l]
  BY <1>3, <1>4, Chains, Zenon
<1> QED  BY <1>5, ComTurns

LEMMA TurnsLinked ==
  ASSUME NEW c, IsCommand(c), NEW l
  PROVE  Turns(c, [c EXCEPT !.linked = l],
               c.step, c.todo, c.text, l)
<1>1. Com(c.op, c.source, c.step, c.todo, c.text, l, c.alone)
        = [c EXCEPT !.linked = l]
  BY DEF IsCommand, Com
<1> QED  BY <1>1, ComTurns

LEMMA FollowsItself ==
  ASSUME NEW c, IsCommand(c)
  PROVE  Follows(c, c)
  BY DEF Follows

(* Only p has moved, and no file has gone. *)
LEMMA OnlyMoves ==
  ASSUME IInv, NEW p \in Procs, NEW d, cmd' = [cmd EXCEPT ![p] = d],
         \A f \in Files : disk[f] # Missing => disk'[f] # Missing
  PROVE  /\ cmd'[p] = d /\ cmd' = [q \in Procs |-> cmd'[q]]
         /\ \A q \in Others(p) : Follows(cmd[q], cmd'[q])
         /\ \A q \in Others(p) : cmd'[q].linked => disk'[Target(cmd[q])] # Missing
         /\ \A s \in Sources : disk[s] # Missing => disk'[s] # Missing
<1>1. cmd'[p] = d /\ cmd' = [q \in Procs |-> cmd'[q]] /\ \A q \in Others(p) : cmd'[q] = cmd[q]
  BY DEF IInv, Types, Others
<1>2. ASSUME NEW q \in Others(p)
      PROVE  /\ Follows(cmd[q], cmd'[q])
             /\ cmd'[q].linked => disk'[Target(cmd[q])] # Missing
  <2>1. Fine(cmd[q], made, disk, saved, harmed)
    BY DEF IInv, Others
  <2>2. IsCommand(cmd[q])
    BY <2>1 DEF Fine, Shape
  <2>3. cmd[q].linked => Target(cmd[q]) \in Files
    BY <2>1, TargetIsWritten DEF Fine, Shape
  <2> QED  BY <1>1, <2>1, <2>2, <2>3, FollowsItself DEF Fine
<1> QED  BY <1>1, <1>2, FileNames

(* A command that is at its end. *)
LEMMA IdleIsFine ==
  ASSUME NEW mk, NEW dk, NEW sv, NEW hm
  PROVE  /\ Fine(Idle, mk, dk, sv, hm) /\ Fine(Away, mk, dk, sv, hm)
         /\ Writes(Idle) = {} /\ Uses(Idle) = {} /\ ~Idle.alone /\ Idle.op = "none"
         /\ Unfinished(Idle) = {} /\ \A g : ~PastOpen(Idle, g)
         /\ Writes(Away) = {} /\ Uses(Away) = {} /\ ~Away.alone
<1>1. ASSUME NEW c, NEW step \in {"idle", "away"},
             c = Com("none", "main", step, <<>>, Blank, FALSE, FALSE)
      PROVE  /\ Fine(c, mk, dk, sv, hm) /\ c.op = "none" /\ ~c.alone
             /\ Writes(c) = {} /\ Uses(c) = {} /\ Unfinished(c) = {}
             /\ \A g : ~PastOpen(c, g)
  <2>1. /\ c.op = "none" /\ c.source = "main" /\ c.step = step /\ c.todo = <<>> /\ c.text = Blank
        /\ c.linked = FALSE /\ c.alone = FALSE
        /\ c = Com(c.op, c.source, c.step, c.todo, c.text, c.linked, c.alone)
    BY <1>1 DEF Com
  <2>2. Shape(c)
    BY <2>1, SomeTexts DEF Shape, IsCommand, Sources
  <2>3. Writes(c) = {} /\ Uses(c) = {}
    BY <2>1, IdleFiles
  <2> QED
    BY <2>1, <2>2, <2>3 DEF Fine, KeepsPrograms, PastOpen, Unfinished
<1> QED  BY <1>1, IdleIsCom

-----------------------------------------------------------------------------
(* The steps that change one process and what it writes. *)

OldFiles == UNCHANGED <<made, disk, ghosts>>

(* It goes on with its work or ends it. *)
GoesOn(c, d) ==
  d = Idle \/ (d.op = c.op /\ d.source = c.source /\ (d.alone => c.alone))

LEMMA GoesOnFiles ==
  ASSUME NEW c, NEW d, GoesOn(c, d)
  PROVE  /\ Writes(d) \subseteq Writes(c) /\ Uses(d) \subseteq Uses(c)
         /\ d.alone => c.alone
  BY SameFiles, IdleIsFine DEF GoesOn

(* The rest of the state, when p makes a step. *)
Frame(p) ==
  /\ made' \in BOOLEAN /\ (made => made')
  /\ made' = made \/ ProjectFiles \subseteq Writes(cmd[p])
  /\ made' \/ UNCHANGED <<disk, saved>>
  /\ disk' = [f \in Files |-> disk'[f]]
  /\ \A f \in Files : disk'[f] = Missing \/ Present(disk'[f])
  /\ \A f \in Files \ Writes(cmd[p]) : disk'[f] = disk[f]
  /\ saved' = [s \in Sources |-> saved'[s]]
  /\ \A s \in Sources : saved'[s] = Missing \/ Real(saved'[s])
  /\ \A s \in Sources \ Writes(cmd[p]) : saved'[s] = saved[s]
  /\ begun' \in 0 .. MaxBegun
  /\ harmed \subseteq harmed' /\ harmed' \subseteq ProjectFiles
  /\ left' \subseteq Generateds
  /\ \A g \in Generateds \ Writes(cmd[p]) : g \in left => g \in left'

NothingGoes == \A f \in Files : disk[f] # Missing => disk'[f] # Missing

LEMMA StepKeepsInvariant ==
  ASSUME IInv, NEW p \in Procs, NEW d, cmd' = [cmd EXCEPT ![p] = d],
         Fine(d, made', disk', saved', harmed'), GoesOn(cmd[p], d),
         Frame(p), NothingGoes, OwnFiles(p)
  PROVE  IInv'
<1>1. /\ cmd'[p] = d /\ cmd' = [q \in Procs |-> cmd'[q]]
      /\ \A q \in Others(p) : Follows(cmd[q], cmd'[q])
      /\ \A q \in Others(p) : cmd'[q].linked => disk'[Target(cmd[q])] # Missing
      /\ \A s \in Sources : disk[s] # Missing => disk'[s] # Missing
  BY OnlyMoves DEF NothingGoes
<1>2. Becomes(p, d)
  BY <1>1, GoesOnFiles DEF Becomes
<1>3. Works(p)
  BY <1>1 DEF Works, Frame
<1>4. Types'
  BY <1>1 DEF Types, Frame
<1> QED  BY <1>2, <1>3, <1>4, WorkKeepsInvariant

(* A step that leaves the files alone. *)
LEMMA QuietStep ==
  ASSUME IInv, NEW p \in Procs, NEW d, cmd' = [cmd EXCEPT ![p] = d], OldFiles,
         Fine(d, made, disk, saved, harmed), GoesOn(cmd[p], d),
         \A f \in ProjectFiles : f \in Unfinished(cmd[p]) => f \in Unfinished(d),
         \A g \in Generateds : PastOpen(cmd[p], g) => PastOpen(d, g)
  PROVE  IInv'
<1>1. Frame(p) /\ NothingGoes
  BY DEF OldFiles, ghosts, IInv, Types, Frame, NothingGoes
<1>2. Fine(d, made', disk', saved', harmed')
  BY DEF OldFiles, ghosts
<1>3. OwnFiles(p)
  <2>1. cmd'[p] = d
    BY DEF IInv, Types
  <2>2. \A f \in (ProjectFiles \cap Writes(cmd[p])) \ harmed :
          f \notin Unfinished(d) => Kept(f, made, disk, saved)
    BY OwnWasKept
  <2>3. \A g \in Generateds \cap Writes(cmd[p]) :
          disk[g] # Missing => \/ g \in left
                               \/ PastOpen(d, g)
                               \/ disk[g] # Missing /\ g \notin left /\ ~PastOpen(cmd[p], g)
    OBVIOUS
  <2> QED  BY <2>1, <2>2, <2>3 DEF OwnFiles, OldFiles, ghosts
<1> QED  BY <1>1, <1>2, <1>3, StepKeepsInvariant

(* Nothing but what was said. *)
LEMMA RefusesStep ==
  ASSUME IInv, OldFiles, UNCHANGED cmd
  PROVE  IInv'
  BY DEF IInv, OldFiles, ghosts, Types, FilesAreKept, NothingMade, LeftoverIsOpened

(* What is known of a process before its step. *)
LEMMA ItIsFine ==
  ASSUME IInv, NEW p \in Procs
  PROVE  /\ Fine(cmd[p], made, disk, saved, harmed) /\ Shape(cmd[p]) /\ IsCommand(cmd[p])
         /\ cmd[p].source \in Sources /\ cmd[p].source \in Files
  BY FileNames DEF IInv, Fine, Shape, IsCommand

LEMMA GoesIsExcept ==
  ASSUME IInv, NEW p \in Procs, NEW step, Goes(p, step)
  PROVE  cmd' = [cmd EXCEPT ![p] = [cmd[p] EXCEPT !.step = step]]
  BY DEF Goes, IInv, Types

LEMMA CreateDirectoriesStep ==
  ASSUME IInv, NEW p \in Procs, CreateDirectories(p)
  PROVE  IInv'
<1> DEFINE c == cmd[p]
           d == [cmd[p] EXCEPT !.step = "open"]
<1>1. Fine(c, made, disk, saved, harmed) /\ Shape(c) /\ IsCommand(c)
  BY ItIsFine
<1>2. c.op = "new" /\ c.todo = Project /\ ~c.linked /\ c.step = "mkdir"
  BY <1>1 DEF Shape, CreateDirectories, At, BuildSteps
<1>3. Turns(c, d, "open", c.todo, c.text, c.linked)
  BY <1>1, TurnsStep
<1>4. IsCommand(d)
  BY <1>1, <1>3 DEF IsCommand, Turns
<1>5. cmd' = [cmd EXCEPT ![p] = d] /\ made' = TRUE /\ UNCHANGED <<disk, ghosts>>
  BY GoesIsExcept DEF CreateDirectories
<1>6. /\ d.op = "new" /\ d.source = c.source /\ d.alone = c.alone /\ d.step = "open"
      /\ d.todo = Project /\ ~d.linked
  BY <1>2, <1>3 DEF Turns
<1> HIDE DEF d
<1>7. Shape(d)
  BY <1>4, <1>6 DEF Shape, Todos, Builds
<1>8. Fine(d, TRUE, disk, saved, harmed)
  BY <1>1, <1>2, <1>6, <1>7 DEF Fine, KeepsPrograms, Progress, Builds
<1>9. /\ Writes(c) = ProjectFiles /\ Unfinished(d) = ProjectFiles
      /\ ProjectFiles \cap Generateds = {}
  BY <1>1, <1>2, <1>6, <1>7, FilesOf, UnfinishedFiles, FileNames DEF ProjectFiles
<1>10. OwnFiles(p)
  <2>1. cmd'[p] = d
    BY <1>5 DEF IInv, Types
  <2> QED  BY <1>9, <2>1 DEF OwnFiles
<1>11. Frame(p) /\ NothingGoes
  BY <1>5, <1>9 DEF ghosts, IInv, Types, Frame, NothingGoes
<1>12. GoesOn(c, d)
  BY <1>2, <1>6 DEF GoesOn
<1>13. Fine(d, made', disk', saved', harmed')
  BY <1>5, <1>8 DEF ghosts
<1> QED  BY <1>5, <1>10, <1>11, <1>12, <1>13, StepKeepsInvariant

LEMMA EndsIsExcept ==
  ASSUME IInv, NEW p \in Procs, NEW message, Ends(p, message)
  PROVE  cmd' = [cmd EXCEPT ![p] = Idle] /\ cmd'[p] = Idle
  BY DEF Ends, IInv, Types

(* A command that ends where it has nothing open. *)
LEMMA EndsStep ==
  ASSUME IInv, NEW p \in Procs, NEW message, Ends(p, message), OldFiles,
         \A f \in ProjectFiles : f \notin Unfinished(cmd[p]),
         \A g \in Generateds : ~PastOpen(cmd[p], g)
  PROVE  IInv'
<1>1. cmd' = [cmd EXCEPT ![p] = Idle]
  BY EndsIsExcept
<1>2. Fine(Idle, made, disk, saved, harmed) /\ GoesOn(cmd[p], Idle)
  BY IdleIsFine DEF GoesOn
<1> QED  BY <1>1, <1>2, QuietStep

LEMMA ReadSourceStep ==
  ASSUME IInv, NEW p \in Procs, ReadSource(p)
  PROVE  IInv'
<1> DEFINE c == cmd[p]
           text == disk[c.source]
           d == [cmd[p] EXCEPT !.text = text, !.step = "open"]
<1>1. Fine(c, made, disk, saved, harmed) /\ Shape(c) /\ IsCommand(c) /\ c.source \in Files
  BY ItIsFine
<1>2. c.step = "read" /\ OldFiles /\ (c.op \in {"fmt", "check"} \/ Builds(c)) /\ ~c.linked
  BY <1>1 DEF Shape, ReadSource, At, OldFiles
<1>3. /\ \A f \in ProjectFiles : f \notin Unfinished(c)
      /\ \A g \in Generateds : ~PastOpen(c, g)
  BY <1>1, <1>2, UnfinishedFiles DEF PastOpen
<1>4. ASSUME NEW message, Ends(p, message)
      PROVE  IInv'
  BY <1>2, <1>3, <1>4, EndsStep
<1>5. ASSUME ~Unreadable(c, text), c.op # "check", cmd' = [cmd EXCEPT ![p] = d]
      PROVE  IInv'
  <2>1. text # Missing /\ made
    BY <1>1, <1>2, <1>5 DEF Fine, Unreadable, Builds
  <2>2. Present(text)
    BY <1>1, <2>1 DEF IInv, Types
  <2>3. Turns(c, d, "open", c.todo, text, c.linked)
    BY <1>1, TurnsTextStep
  <2>4. /\ d.op = c.op /\ d.source = c.source /\ d.alone = c.alone /\ d.step = "open"
        /\ d.todo = c.todo /\ d.text = text /\ ~d.linked /\ IsCommand(d)
    BY <1>1, <1>2, <2>2, <2>3 DEF Turns, IsCommand
  <2> HIDE DEF d
  <2>5. (Builds(d) <=> Builds(c)) /\ Generated(d) = Generated(c)
    BY <2>4, SameFiles
  <2>6. Shape(d)
    <3>1. CASE c.op = "fmt"
      BY <1>1, <1>2, <2>4, <3>1 DEF Shape, Builds
    <3>2. CASE Builds(c)
      <4>1. c.todo = <<Generated(c)>>
        BY <1>1, <1>2, <3>2 DEF Shape, Builds
      <4> QED  BY <2>4, <2>5, <3>2, <4>1 DEF Shape, BuildSteps
    <3> QED  BY <1>2, <1>5, <3>1, <3>2
  <2>7. KeepsPrograms(d, saved, harmed)
    <3>1. CASE c.op = "fmt"
      <4>1. c.source \in ProjectFiles /\ Writes(c) = {c.source} /\ c.source \in Sources
        BY <1>1, <3>1, FilesOf, FileNames DEF IsCommand
      <4>2. c.source \notin harmed => Kept(c.source, made, disk, saved)
        BY <1>3, <4>1, OwnWasKept
      <4> QED  BY <2>1, <2>4, <3>1, <4>1, <4>2 DEF KeepsPrograms, Kept
    <3>2. CASE Builds(c)
      BY <2>4, <3>2 DEF KeepsPrograms, Builds
    <3> QED  BY <1>2, <1>5, <3>1, <3>2
  <2>8. Progress(d, disk, harmed)
    BY <1>2, <1>5, <2>4 DEF Progress, Builds
  <2>9. Fine(d, made, disk, saved, harmed)
    BY <1>1, <2>1, <2>4, <2>6, <2>7, <2>8 DEF Fine
  <2>10. GoesOn(c, d)
    BY <2>4 DEF GoesOn
  <2> QED  BY <1>2, <1>3, <1>5, <2>9, <2>10, QuietStep
<1> QED  BY <1>4, <1>5 DEF ReadSource

-----------------------------------------------------------------------------
(* Writing. *)

(* One file of its own is replaced by a text. *)
LEMMA PutsFrame ==
  ASSUME IInv, NEW p \in Procs, NEW f \in Files \cap Writes(cmd[p]), NEW text, Present(text),
         Puts(f, text), UNCHANGED <<begun, made>>, made,
         saved' = [s \in Sources |-> saved'[s]],
         \A s \in Sources : saved'[s] = Missing \/ Real(saved'[s]),
         \A s \in Sources \ Writes(cmd[p]) : saved'[s] = saved[s],
         harmed \subseteq harmed', harmed' \subseteq ProjectFiles,
         left \subseteq left', left' \subseteq Generateds
  PROVE  Frame(p) /\ NothingGoes /\ disk'[f] = text /\ \A g \in Files : g # f => disk'[g] = disk[g]
<1>1. /\ disk' = [g \in Files |-> disk'[g]] /\ disk'[f] = text
      /\ \A g \in Files : g # f => disk'[g] = disk[g]
  BY DEF Puts, IInv, Types
<1>2. text # Missing
  BY SomeTexts
<1> QED  BY <1>1, <1>2 DEF IInv, Types, Frame, NothingGoes

LEMMA OpenOutputStep ==
  ASSUME IInv, NEW p \in Procs, OpenOutput(p)
  PROVE  IInv'
<1> DEFINE c == cmd[p]
           f == Target(c)
           d == [cmd[p] EXCEPT !.step = "write", !.linked = TRUE]
<1>1. /\ Fine(c, made, disk, saved, harmed) /\ Shape(c) /\ IsCommand(c)
      /\ c.source \in Sources /\ c.source \in Files
  BY ItIsFine
<1>2. c.step = "open" /\ Puts(f, Blank) /\ cmd' = [cmd EXCEPT ![p] = d] /\ UNCHANGED <<made, ghosts>>
  BY DEF OpenOutput, At
<1>3. /\ f \in Writes(c) /\ f \in Files
      /\ Builds(c) => f = Generated(c)
      /\ ~Builds(c) => f \in ProjectFiles
      /\ c.op = "new" => c.todo \in Todos
      /\ Builds(c) \/ c.op \in {"fmt", "new", "init"}
  BY <1>1, <1>2, TargetIsWritten
<1>4. made /\ c.op # "none"
  BY <1>1, <1>2, <1>3 DEF Fine, Builds
<1>5. /\ Frame(p) /\ NothingGoes /\ disk'[f] = Blank
      /\ \A g \in Files : g # f => disk'[g] = disk[g]
  <2>1. /\ UNCHANGED <<begun, made>> /\ saved' = saved /\ harmed' = harmed /\ left' = left
    BY <1>2 DEF ghosts
  <2>2. /\ saved' = [s \in Sources |-> saved'[s]]
        /\ \A s \in Sources : saved'[s] = Missing \/ Real(saved'[s])
        /\ harmed' \subseteq ProjectFiles /\ left' \subseteq Generateds
    BY <2>1 DEF IInv, Types
  <2>3. Present(Blank) /\ Puts(f, Blank) /\ f \in Files \cap Writes(c)
    BY <1>2, <1>3, SomeTexts
  <2> HIDE DEF f
  <2> QED  BY <1>4, <2>1, <2>2, <2>3, PutsFrame
<1>6. Turns(c, d, "write", c.todo, c.text, TRUE)
  BY <1>1, TurnsStepLinked
<1>7. /\ d.op = c.op /\ d.source = c.source /\ d.alone = c.alone /\ d.step = "write"
      /\ d.todo = c.todo /\ d.text = c.text /\ d.linked /\ IsCommand(d)
  BY <1>1, <1>6 DEF Turns, IsCommand
<1> HIDE DEF d
<1>8. /\ Builds(d) <=> Builds(c)
      /\ Generated(d) = Generated(c) /\ Target(d) = f /\ Writes(d) = Writes(c)
  BY <1>7, SameFiles DEF Target
<1>9. Shape(d)
  BY <1>1, <1>2, <1>3, <1>7, <1>8 DEF Shape, BuildSteps
<1>10. Fine(d, made', disk', saved', harmed')
  <2>1. made' = made /\ saved' = saved /\ harmed' = harmed
    BY <1>2 DEF ghosts
  <2>2. d.linked => disk'[Target(d)] # Missing
    BY <1>5, <1>8, SomeTexts
  <2>3. d.op = "fmt" => disk'[d.source] # Missing
    BY <1>1, <1>5, <1>7 DEF Fine, NothingGoes
  <2>4. KeepsPrograms(d, saved, harmed)
    BY <1>1, <1>2, <1>7 DEF Fine, KeepsPrograms
  <2>5. ASSUME c.alone
        PROVE  Progress(d, disk', harmed)
    <3>1. Progress(c, disk, harmed)
      BY <1>1, <2>5 DEF Fine
    <3>2. CASE Builds(c)
      <4>1. disk'[c.source] = disk[c.source]
        <5>1. f \in Generateds /\ c.source \notin Generateds
          BY <1>1, <1>3, <3>2, FilesOf, FileNames
        <5> QED  BY <1>1, <1>5, <5>1
      <4> QED  BY <1>2, <1>7, <1>8, <3>1, <3>2, <4>1 DEF Progress, Builds
    <3>3. CASE c.op = "new"
      <4>1. f \in ToSet(c.todo)
        BY <1>3, <3>3, TodoParts DEF Target
      <4>2. \A g \in ProjectFiles \ (harmed \cup ToSet(c.todo)) : disk'[g] = disk[g]
        BY <1>5, <4>1, FileNames
      <4> QED  BY <1>7, <3>1, <3>3, <4>2 DEF Progress, Builds
    <3>4. CASE c.op \in {"fmt", "init"}
      BY <1>7, <3>4 DEF Progress, Builds
    <3> QED  BY <1>3, <3>2, <3>3, <3>4
  <2> QED  BY <1>4, <1>7, <1>9, <2>1, <2>2, <2>3, <2>4, <2>5 DEF Fine
<1>11. /\ f \in ProjectFiles => f \in Unfinished(d)
       /\ Unfinished(c) \cap ProjectFiles \subseteq Unfinished(d)
  BY <1>1, <1>3, <1>7, <1>9, UnfinishedFiles, FilesOf, FileNames, TodoParts DEF Target
<1>12. OwnFiles(p)
  <2>1. cmd'[p] = d
    BY <1>2 DEF IInv, Types
  <2>2. ASSUME NEW g \in (ProjectFiles \cap Writes(c)) \ harmed, g \notin Unfinished(d)
        PROVE  Kept(g, made', disk', saved')
    <3>1. Kept(g, made, disk, saved)
      BY <1>11, <2>2, OwnWasKept
    <3>2. disk'[g] = disk[g]
      BY <1>5, <1>11, <2>2, FileNames
    <3> QED  BY <1>2, <3>1, <3>2 DEF Kept, ghosts
  <2>3. \A g \in Generateds \cap Writes(c) : PastOpen(d, g)
    BY <1>7, <1>8 DEF PastOpen
  <2> QED  BY <1>2, <2>1, <2>2, <2>3 DEF OwnFiles, ghosts
<1>13. GoesOn(c, d)
  BY <1>7 DEF GoesOn
<1> QED  BY <1>2, <1>5, <1>10, <1>12, <1>13, StepKeepsInvariant

(* What is written is a text, and spoilt only where that is noted.         *)
LEMMA WrittenText ==
  ASSUME IInv, NEW p \in Procs, cmd[p].step = "write"
  PROVE  /\ Present(Output(cmd[p]))
         /\ \A text \in Results(disk[Target(cmd[p])], Output(cmd[p])) :
              Present(text) /\ (text = Torn \/ text = Output(cmd[p]))
<1> DEFINE c == cmd[p]
<1>1. Shape(c) /\ IsCommand(c)
  BY ItIsFine
<1>2. Target(c) \in Files /\ (Builds(c) \/ c.op \in {"fmt", "new", "init"})
  BY <1>1, TargetIsWritten
<1>3. Present(Output(c))
  <2>1. CASE Builds(c)
    BY <1>1, <2>1 DEF Output, IsCommand, Builds
  <2>2. CASE c.op = "fmt"
    <3>1. IsText(c.text) /\ Present(c.text) /\ Output(c) = Formatted(c.text)
      BY <1>1, <2>2 DEF IsCommand, Present, Output, Builds
    <3>2. IsText(Output(c)) /\ Rests(c.text) = Rests(Output(c))
      BY <3>1, FormattedKeepsRests
    <3> QED  BY <3>1, <3>2, RestsTell
  <2>3. CASE c.op \in {"new", "init"}
    <3>1. Output(c) = Template(Target(c))
      BY <2>3 DEF Output, Builds
    <3> QED  BY <1>2, <3>1, SomeTexts
  <2> QED  BY <1>2, <2>1, <2>2, <2>3
<1> QED  BY <1>3, SomeTexts DEF Results

(* A file that is written whole is what its writer promised.               *)
LEMMA WrittenIsKept ==
  ASSUME IInv, NEW p \in Procs, cmd[p].step = "write", ~Builds(cmd[p]),
         Target(cmd[p]) \notin harmed
  PROVE  /\ Real(Output(cmd[p]))
         /\ Target(cmd[p]) \in Sources =>
              /\ saved[Target(cmd[p])] = Missing => Output(cmd[p]) = Template(Target(cmd[p]))
              /\ saved[Target(cmd[p])] # Missing =>
                   Rests(Output(cmd[p])) = Rests(saved[Target(cmd[p])])
<1> DEFINE c == cmd[p]
           f == Target(c)
<1>1. Fine(c, made, disk, saved, harmed) /\ Shape(c) /\ IsCommand(c) /\ c.source \in Sources
  BY ItIsFine
<1>2. /\ f \in Files /\ c.op \in {"fmt", "new", "init"}
      /\ c.op = "fmt" => f = c.source
      /\ c.op = "new" => c.todo \in Todos
      /\ c.op = "init" => f = "toml"
  BY <1>1, TargetIsWritten
<1>3. CASE c.op = "fmt"
  <2>1. Real(c.text) /\ Rests(c.text) = Rests(saved[c.source])
    BY <1>1, <1>2, <1>3 DEF Fine, KeepsPrograms
  <2>2. Output(c) = Formatted(c.text) /\ IsText(c.text)
    BY <1>3, <2>1 DEF Output, Builds, Real, Present
  <2>3. Rests(Output(c)) = Rests(c.text) /\ IsText(Output(c))
    BY <2>2, FormattedKeepsRests
  <2>4. Real(Output(c))
    BY <2>1, <2>3, RestsTell
  <2>5. saved[c.source] # Missing
    <3>1. IsText(Missing) /\ ~Real(Missing)
      BY SomeTexts DEF IsText, Missing, Line
    <3> QED  BY <2>1, <3>1, RestsTell
  <2> QED  BY <1>2, <1>3, <2>1, <2>3, <2>4, <2>5
<1>4. CASE c.op = "init"
  <2>1. Output(c) = Template(f) /\ f \notin Sources
    BY <1>2, <1>4 DEF Output, Builds, Sources
  <2> QED  BY <1>2, <2>1, SomeTexts
<1>5. CASE c.op = "new"
  <2>1. Output(c) = Template(f) /\ f \in ToSet(c.todo)
    BY <1>2, <1>5, TodoParts DEF Output, Builds, Target
  <2>2. f \in Sources => saved[f] = Missing
    BY <1>1, <1>5, <2>1 DEF Fine, KeepsPrograms
  <2> QED  BY <1>2, <2>1, <2>2, SomeTexts
<1> QED  BY <1>2, <1>3, <1>4, <1>5

(* The step of new, init and fmt: what is on the disk after it.            *)
LEMMA WriteFileFiles ==
  ASSUME IInv, NEW p \in Procs, WriteFile(p)
  PROVE  /\ Frame(p) /\ NothingGoes /\ UNCHANGED <<made, left>> /\ made
         /\ Target(cmd[p]) \in ProjectFiles /\ ~Builds(cmd[p])
         /\ \A f \in Files : f # Target(cmd[p]) => disk'[f] = disk[f]
         /\ \A s \in Sources : s # Target(cmd[p]) => saved'[s] = saved[s]
         /\ Target(cmd[p]) \notin harmed' => disk'[Target(cmd[p])] = Output(cmd[p])
         /\ Target(cmd[p]) \notin harmed' => Kept(Target(cmd[p]), made', disk', saved')
<1> DEFINE c == cmd[p]
           f == Target(c)
<1>1. /\ Fine(c, made, disk, saved, harmed) /\ Shape(c) /\ IsCommand(c)
  BY ItIsFine
<1>2. c.step = "write" /\ ~Builds(c) /\ Written(p) /\ UNCHANGED <<made, begun, left>>
  BY DEF WriteFile, At
<1>3. f \in Writes(c) /\ f \in Files /\ f \in ProjectFiles /\ c.linked /\ c.op # "none"
  BY <1>1, <1>2, TargetIsWritten DEF Shape
<1>4. made
  BY <1>1, <1>2, <1>3 DEF Fine
<1>5. PICK text \in Results(disk[f], Output(c)) :
        /\ Puts(f, text)
        /\ harmed' = IF text = Torn THEN harmed \cup ({f} \cap ToSet(Project)) ELSE harmed
  BY <1>2, <1>3 DEF Written
<1>6. Present(text) /\ (text = Torn \/ text = Output(c))
  BY <1>2, WrittenText
<1>7. /\ harmed \subseteq harmed' /\ harmed' \subseteq ProjectFiles
      /\ f \notin harmed' => f \notin harmed /\ text = Output(c)
  BY <1>3, <1>5, <1>6 DEF IInv, Types, ProjectFiles
<1>8. saved' = [s \in Sources |->
        IF s = f /\ saved[s] = Missing THEN Template(s) ELSE saved[s]]
  BY DEF WriteFile
<1>9. /\ saved' = [s \in Sources |-> saved'[s]]
      /\ \A s \in Sources : saved'[s] = Missing \/ Real(saved'[s])
      /\ \A s \in Sources : s # f => saved'[s] = saved[s]
  BY <1>8, SomeTexts, FileNames DEF IInv, Types
<1>10. left \subseteq left' /\ left' \subseteq Generateds
  BY <1>2 DEF IInv, Types
<1>11. /\ Frame(p) /\ NothingGoes /\ disk'[f] = text
       /\ \A g \in Files : g # f => disk'[g] = disk[g]
  <2>1. f \in Files \cap Writes(c) /\ \A s \in Sources \ Writes(c) : saved'[s] = saved[s]
    BY <1>3, <1>9
  <2> HIDE DEF f
  <2> QED  BY <1>2, <1>4, <1>5, <1>6, <1>7, <1>9, <1>10, <2>1, PutsFrame
<1>12. f \notin harmed' => Kept(f, made', disk', saved')
  <2> SUFFICES ASSUME f \notin harmed'
               PROVE  Kept(f, made', disk', saved')
    OBVIOUS
  <2>1. disk'[f] = Output(c) /\ f \notin harmed
    BY <1>7, <1>11
  <2>2. Real(Output(c))
    BY <1>2, <2>1, WrittenIsKept
  <2>3. f \in Sources => Rests(Output(c)) = Rests(saved'[f])
    BY <1>2, <1>8, <2>1, WrittenIsKept
  <2> QED  BY <2>1, <2>2, <2>3 DEF Kept
<1> QED  BY <1>2, <1>3, <1>4, <1>7, <1>9, <1>11, <1>12

LEMMA WriteFileStep ==
  ASSUME IInv, NEW p \in Procs, WriteFile(p)
  PROVE  IInv'
<1> DEFINE c == cmd[p]
           f == Target(c)
           d == [cmd[p] EXCEPT !.step = "open", !.todo = Tail(cmd[p].todo), !.linked = FALSE]
<1>1. Fine(c, made, disk, saved, harmed) /\ Shape(c) /\ IsCommand(c)
  BY ItIsFine
<1>2. /\ Frame(p) /\ NothingGoes /\ UNCHANGED <<made, left>> /\ made
      /\ f \in ProjectFiles /\ ~Builds(c)
      /\ \A g \in Files : g # f => disk'[g] = disk[g]
      /\ \A s \in Sources : s # f => saved'[s] = saved[s]
      /\ f \notin harmed' => disk'[f] = Output(c)
      /\ f \notin harmed' => Kept(f, made', disk', saved')
  BY WriteFileFiles
<1>3. /\ c.step = "write" /\ c.op \in {"fmt", "new", "init"}
      /\ c.op \in {"fmt", "init"} => LastOutput(c)
      /\ c.op = "new" => c.todo \in Todos
  BY <1>1, <1>2, TargetIsWritten DEF WriteFile, At
<1>4. ASSUME NEW g \in (ProjectFiles \cap Writes(c)) \ harmed', g = f \/ g \notin Unfinished(c)
      PROVE  Kept(g, made', disk', saved')
  <2>1. CASE g = f
    BY <1>2, <1>4, <2>1
  <2>2. CASE g # f
    <3>1. g \notin harmed
      BY <1>2 DEF Frame
    <3>2. Kept(g, made, disk, saved)
      BY <1>4, <2>2, <3>1, OwnWasKept
    <3> QED  BY <1>2, <2>2, <3>2, FileNames DEF Kept
  <2> QED  BY <2>1, <2>2
<1>5. \A g \in Generateds : g \notin Writes(c)
  <2>1. Writes(c) = ProjectFiles \/ Writes(c) = {"toml"} \/ Writes(c) = {c.source}
    BY <1>1, <1>3, FilesOf
  <2>2. Writes(c) \subseteq ProjectFiles
    BY <1>1, <2>1, FileNames DEF IsCommand
  <2> QED  BY <2>2, FileNames
<1>6. ASSUME LastOutput(c), cmd' = [cmd EXCEPT ![p] = Idle], cmd'[p] = Idle
      PROVE  IInv'
  <2>1. \A g \in (ProjectFiles \cap Writes(c)) : g = f \/ g \notin Unfinished(c)
    <3>1. CASE c.op = "new"
      BY <1>1, <1>3, <1>6, <3>1, UnfinishedFiles, TodoParts DEF LastOutput, Target
    <3>2. CASE c.op = "init"
      BY <1>1, <1>3, <3>2, TargetIsWritten, UnfinishedFiles
    <3>3. CASE c.op = "fmt"
      BY <1>1, <1>3, <3>3, TargetIsWritten, UnfinishedFiles
    <3> QED  BY <1>3, <3>1, <3>2, <3>3
  <2>2. OwnFiles(p)
    BY <1>4, <1>5, <2>1 DEF OwnFiles
  <2>3. Fine(Idle, made', disk', saved', harmed') /\ GoesOn(c, Idle)
    BY IdleIsFine DEF GoesOn
  <2> QED  BY <1>2, <1>6, <2>2, <2>3, StepKeepsInvariant
<1>7. ASSUME ~LastOutput(c), cmd' = [cmd EXCEPT ![p] = d]
      PROVE  IInv'
  <2>1. c.op = "new" /\ c.todo \in Todos
    BY <1>3, <1>7
  <2>2. /\ Tail(c.todo) \in Todos /\ ToSet(c.todo) = ToSet(Tail(c.todo)) \cup {f}
        /\ f \notin ToSet(Tail(c.todo))
    BY <1>7, <2>1, TodoParts DEF LastOutput, Target
  <2>3. Turns(c, d, "open", Tail(c.todo), c.text, FALSE)
    BY <1>1, TurnsStepTodo
  <2>4. /\ d.op = "new" /\ d.source = c.source /\ d.alone = c.alone /\ d.step = "open"
        /\ d.todo = Tail(c.todo) /\ d.text = c.text /\ ~d.linked /\ IsCommand(d)
    BY <1>1, <2>1, <2>3 DEF Turns, IsCommand
  <2> HIDE DEF d
  <2>5. Shape(d)
    BY <2>2, <2>4 DEF Shape, Builds
  <2>6. KeepsPrograms(d, saved', harmed')
    <3>1. \A s \in (Sources \cap ToSet(Tail(c.todo))) \ harmed : saved[s] = Missing
      BY <1>1, <2>1, <2>2 DEF Fine, KeepsPrograms
    <3>2. harmed \subseteq harmed'
      BY <1>2 DEF Frame
    <3> QED  BY <1>2, <2>2, <2>4, <3>1, <3>2 DEF KeepsPrograms
  <2>7. ASSUME c.alone
        PROVE  Progress(d, disk', harmed')
    <3>1. \A g \in ProjectFiles \ (harmed \cup ToSet(c.todo)) : disk[g] = Template(g)
      BY <1>1, <2>1, <2>7 DEF Fine, Progress
    <3>2. Output(c) = Template(f) /\ harmed \subseteq harmed'
      BY <1>2, <2>1 DEF Output, Builds, Frame
    <3>3. \A g \in ProjectFiles \ (harmed' \cup ToSet(Tail(c.todo))) : disk'[g] = Template(g)
      BY <1>2, <2>2, <3>1, <3>2, FileNames
    <3> QED  BY <2>4, <3>3 DEF Progress, Builds
  <2>8. Fine(d, made', disk', saved', harmed')
    BY <1>2, <2>4, <2>5, <2>6, <2>7 DEF Fine
  <2>9. OwnFiles(p)
    <3>1. cmd'[p] = d
      BY <1>7 DEF IInv, Types
    <3>2. Unfinished(d) = ToSet(Tail(c.todo)) /\ Unfinished(c) = ToSet(c.todo)
      BY <1>1, <2>1, <2>4, <2>5, UnfinishedFiles
    <3> QED  BY <1>4, <1>5, <2>2, <3>1, <3>2 DEF OwnFiles
  <2>10. GoesOn(c, d)
    BY <2>1, <2>4 DEF GoesOn
  <2> QED  BY <1>2, <1>7, <2>8, <2>9, <2>10, StepKeepsInvariant
<1>8. CASE LastOutput(c)
  <2>1. \E message : Ends(p, message)
    BY <1>8 DEF WriteFile
  <2> QED  BY <1>6, <1>8, <2>1, EndsIsExcept
<1>9. CASE ~LastOutput(c)
  <2>1. cmd' = [cmd EXCEPT ![p] = [@ EXCEPT !.step = "open", !.todo = Tail(cmd[p].todo),
                                           !.linked = FALSE]]
    BY <1>9 DEF WriteFile
  <2>2. cmd' = [cmd EXCEPT ![p] = d]
    BY <2>1 DEF IInv, Types
  <2> QED  BY <1>7, <1>9, <2>2
<1> QED  BY <1>8, <1>9

(* A build that is past its output goes on.                                *)
LEMMA BuildGoesOn ==
  ASSUME NEW c, NEW d, Shape(c), Builds(c),
         NEW step \in {"cc", "link", "remove", "give up"},
         NEW text, Present(text), Turns(c, d, step, c.todo, text, FALSE)
  PROVE  /\ d.source = c.source /\ d.step = step /\ d.text = text /\ d.alone = c.alone
         /\ Builds(d) /\ Generated(d) = Generated(c) /\ Writes(d) = Writes(c)
         /\ GoesOn(c, d) /\ \A g \in Writes(c) : PastOpen(d, g)
         /\ \A mk, dk, sv, hm :
              mk /\ (c.alone => Progress(d, dk, hm)) => Fine(d, mk, dk, sv, hm)
<1>1. /\ d.op = c.op /\ d.source = c.source /\ d.step = step /\ d.text = text
      /\ d.todo = c.todo /\ d.alone = c.alone /\ d.linked = FALSE /\ IsCommand(d)
  BY DEF Turns
<1>2. Builds(d) /\ Generated(d) = Generated(c) /\ Writes(d) = Writes(c)
  BY <1>1, SameFiles
<1>3. c.todo = <<Generated(c)>> /\ d.op \notin {"fmt", "new", "init", "none"}
  BY <1>1 DEF Shape, Builds
<1>4. Shape(d)
  BY <1>1, <1>2, <1>3 DEF Shape, BuildSteps
<1>5. GoesOn(c, d) /\ \A g \in Writes(c) : PastOpen(d, g)
  BY <1>1, <1>2 DEF GoesOn, PastOpen
<1>6. \A mk, dk, sv, hm : mk /\ (c.alone => Progress(d, dk, hm)) => Fine(d, mk, dk, sv, hm)
  BY <1>1, <1>3, <1>4 DEF Fine, KeepsPrograms
<1> QED  BY <1>1, <1>2, <1>5, <1>6

(* What is known of a build that is at work.                               *)
LEMMA BuildFiles ==
  ASSUME IInv, NEW p \in Procs, Builds(cmd[p])
  PROVE  /\ made
         /\ Generated(cmd[p]) \in Generateds /\ Generated(cmd[p]) \in Files
         /\ Writes(cmd[p]) = {Generated(cmd[p]), Bin[cmd[p].source]}
         /\ Writes(cmd[p]) \cap ProjectFiles = {}
         /\ Writes(cmd[p]) \cap Generateds = {Generated(cmd[p])}
         /\ Bin[cmd[p].source] \in Files
         /\ cmd[p].source # Generated(cmd[p]) /\ cmd[p].source # Bin[cmd[p].source]
         /\ \A f \in ProjectFiles : f \notin Unfinished(cmd[p])
         /\ cmd[p].todo = <<Generated(cmd[p])>> /\ Target(cmd[p]) = Generated(cmd[p])
<1> DEFINE c == cmd[p]
<1>1. Fine(c, made, disk, saved, harmed) /\ Shape(c) /\ c.source \in Sources
  BY ItIsFine
<1>2. c.op \notin {"none", "new"} /\ c.step # "mkdir" /\ c.todo = <<Generated(c)>>
  BY <1>1 DEF Shape, Builds, BuildSteps
<1>3. made /\ Target(c) = Generated(c)
  BY <1>1, <1>2, OneTodo DEF Fine, Target
<1>4. /\ Generated(c) \in Generateds /\ Writes(c) = {Generated(c), Bin[c.source]}
      /\ Writes(c) \cap ProjectFiles = {} /\ \A f \in ProjectFiles : f \notin Unfinished(c)
  BY <1>1, FilesOf, UnfinishedFiles
<1>5. /\ Bin[c.source] \in Files /\ Bin[c.source] \notin Generateds
      /\ c.source \in ProjectFiles /\ Generateds \subseteq Files
  BY <1>1, FileNames
<1> QED  BY <1>2, <1>3, <1>4, <1>5

LEMMA WriteGeneratedFiles ==
  ASSUME IInv, NEW p \in Procs, WriteGenerated(p)
  PROVE  /\ Frame(p) /\ NothingGoes /\ UNCHANGED <<made, saved, harmed>>
         /\ \A f \in Files : f # Generated(cmd[p]) => disk'[f] = disk[f]
         /\ cmd[p].linked => disk'[Generated(cmd[p])] \in {cmd[p].text, Torn}
<1> DEFINE c == cmd[p]
           g == Generated(c)
<1>1. c.step = "write" /\ Builds(c) /\ Written(p) /\ UNCHANGED <<made, begun, saved>>
  BY DEF WriteGenerated, At
<1>2. /\ made /\ g \in Generateds /\ g \in Files /\ g \in Writes(c)
      /\ g \notin ProjectFiles /\ Target(c) = g
  BY <1>1, BuildFiles
<1>3. PICK text \in Results(disk[g], Output(c)) :
        /\ IF c.linked THEN Puts(g, text) ELSE UNCHANGED disk
        /\ harmed' = IF text = Torn THEN harmed \cup ({g} \cap ToSet(Project)) ELSE harmed
  BY <1>1, <1>2 DEF Written
<1>4. Present(text) /\ text \in {c.text, Torn}
  <2>1. Present(text) /\ (text = Torn \/ text = Output(c))
    BY <1>1, <1>2, WrittenText
  <2>2. Output(c) = c.text
    BY <1>1 DEF Output, Builds
  <2> QED  BY <2>1, <2>2
<1>5. harmed' = harmed
  BY <1>2, <1>3 DEF ProjectFiles
<1>6. /\ left \subseteq left' /\ left' \subseteq Generateds
  BY <1>2 DEF WriteGenerated, IInv, Types
<1>7. /\ saved' = [s \in Sources |-> saved'[s]]
      /\ \A s \in Sources : saved'[s] = Missing \/ Real(saved'[s])
      /\ harmed' \subseteq ProjectFiles /\ harmed \subseteq harmed'
      /\ saved' = saved
  BY <1>1, <1>5 DEF IInv, Types
<1>8. CASE c.linked
  <2>1. Puts(g, text) /\ g \in Files \cap Writes(c)
    BY <1>2, <1>3, <1>8
  <2>2. \A s \in Sources \ Writes(c) : saved'[s] = saved[s]
    BY <1>7
  <2>3. /\ Frame(p) /\ NothingGoes /\ disk'[g] = text
        /\ \A f \in Files : f # g => disk'[f] = disk[f]
    <3> HIDE DEF g
    <3> QED  BY <1>1, <1>2, <1>4, <1>6, <1>7, <2>1, <2>2, PutsFrame
  <2> QED  BY <1>1, <1>4, <1>5, <2>3
<1>9. CASE ~c.linked
  <2>1. disk' = disk
    BY <1>3, <1>9
  <2>2. Frame(p) /\ NothingGoes
    BY <1>1, <1>2, <1>6, <1>7, <2>1 DEF IInv, Types, Frame, NothingGoes
  <2> QED  BY <1>1, <1>5, <1>9, <2>1, <2>2
<1> QED  BY <1>8, <1>9

LEMMA WriteGeneratedStep ==
  ASSUME IInv, NEW p \in Procs, WriteGenerated(p)
  PROVE  IInv'
<1> DEFINE c == cmd[p]
           g == Generated(c)
           d == [cmd[p] EXCEPT !.step = "cc", !.text = Blank, !.linked = FALSE]
<1>1. /\ Fine(c, made, disk, saved, harmed) /\ Shape(c) /\ IsCommand(c)
      /\ c.source \in Sources /\ c.source \in Files
  BY ItIsFine
<1>2. c.step = "write" /\ Builds(c)
  BY DEF WriteGenerated, At
<1>3. /\ Frame(p) /\ NothingGoes /\ UNCHANGED <<made, saved, harmed>>
      /\ \A f \in Files : f # g => disk'[f] = disk[f]
      /\ c.linked => disk'[g] \in {c.text, Torn}
  BY WriteGeneratedFiles
<1>4. /\ made /\ c.source # g /\ Writes(c) \cap ProjectFiles = {}
      /\ Writes(c) \cap Generateds = {g}
  BY <1>2, BuildFiles
<1>5. CASE Erroneous(c.text)
  <2>1. Ends(p, "failed") /\ left' = left \cup {g}
    BY <1>5 DEF WriteGenerated
  <2>2. cmd' = [cmd EXCEPT ![p] = Idle]
    BY <2>1, EndsIsExcept
  <2>3. OwnFiles(p)
    BY <1>4, <2>1 DEF OwnFiles
  <2>4. Fine(Idle, made', disk', saved', harmed') /\ GoesOn(c, Idle)
    BY IdleIsFine DEF GoesOn
  <2> QED  BY <1>3, <2>2, <2>3, <2>4, StepKeepsInvariant
<1>6. CASE ~Erroneous(c.text)
  <2>1. cmd' = [cmd EXCEPT ![p] = [@ EXCEPT !.step = "cc", !.text = Blank, !.linked = FALSE]]
    BY <1>6 DEF WriteGenerated
  <2>2. cmd' = [cmd EXCEPT ![p] = d] /\ cmd'[p] = d
    BY <2>1 DEF IInv, Types
  <2>3. Turns(c, d, "cc", c.todo, Blank, FALSE)
    BY <1>1, TurnsStepTextLinked
  <2> HIDE DEF d
  <2>4. Present(Blank)
    BY SomeTexts
  <2>5. /\ d.source = c.source /\ d.step = "cc" /\ d.alone = c.alone
        /\ Builds(d) /\ Generated(d) = g
        /\ GoesOn(c, d) /\ \A x \in Writes(c) : PastOpen(d, x)
        /\ made /\ (c.alone => Progress(d, disk', harmed)) => Fine(d, made, disk', saved, harmed)
    BY <1>1, <1>2, <2>3, <2>4, BuildGoesOn
  <2>6. ASSUME c.alone
        PROVE  Progress(d, disk', harmed)
    <3>1. Progress(c, disk, harmed)
      BY <1>1, <2>6 DEF Fine
    <3>2. c.linked /\ c.text = disk[c.source]
      BY <1>2, <3>1 DEF Progress
    <3>3. disk'[g] \in {Torn, disk'[c.source]}
      BY <1>1, <1>3, <1>4, <3>2
    <3> QED  BY <2>5, <3>3 DEF Progress, Builds
  <2>7. Fine(d, made', disk', saved', harmed')
    BY <1>3, <1>4, <2>5, <2>6
  <2>8. OwnFiles(p)
    BY <1>4, <2>2, <2>5 DEF OwnFiles
  <2> QED  BY <1>3, <2>2, <2>5, <2>7, <2>8, StepKeepsInvariant
<1> QED  BY <1>5, <1>6

LEMMA ReadGeneratedStep ==
  ASSUME IInv, NEW p \in Procs, ReadGenerated(p)
  PROVE  IInv'
<1> DEFINE c == cmd[p]
           text == disk[Generated(c)]
<1>1. Fine(c, made, disk, saved, harmed) /\ Shape(c) /\ IsCommand(c)
  BY ItIsFine
<1>2. c.step = "cc" /\ OldFiles
  BY DEF ReadGenerated, At, OldFiles
<1>3. Builds(c) /\ ~c.linked
  BY <1>1, <1>2 DEF Shape
<1>4. /\ made /\ Generated(c) \in Files /\ Writes(c) \cap ProjectFiles = {}
      /\ \A f \in ProjectFiles : f \notin Unfinished(c)
  BY <1>3, BuildFiles
<1>5. ASSUME NEW d, cmd' = [cmd EXCEPT ![p] = d], Fine(d, made, disk, saved, harmed),
             GoesOn(c, d), \A g \in Writes(c) : PastOpen(d, g)
      PROVE  IInv'
  BY <1>2, <1>4, <1>5, QuietStep DEF PastOpen
<1>6. CASE text \in {Missing, Blank, Torn}
  <2> DEFINE d == [cmd[p] EXCEPT !.step = "give up"]
  <2>1. cmd' = [cmd EXCEPT ![p] = d]
    BY <1>6, GoesIsExcept DEF ReadGenerated
  <2>2. Turns(c, d, "give up", c.todo, c.text, c.linked) /\ Present(c.text)
    BY <1>1, TurnsStep DEF IsCommand
  <2>3. Turns(c, d, "give up", c.todo, c.text, FALSE)
    BY <1>1, <1>3, <2>2 DEF IsCommand
  <2>9. /\ Shape(c) /\ Builds(c) /\ Present(c.text)
        /\ "give up" \in {"cc", "link", "remove", "give up"}
    BY <1>1, <1>3, <2>2
  <2> HIDE DEF d
  <2>4. /\ d.step = "give up" /\ d.alone = c.alone /\ Builds(d)
        /\ GoesOn(c, d) /\ \A g \in Writes(c) : PastOpen(d, g)
        /\ made /\ (c.alone => Progress(d, disk, harmed)) => Fine(d, made, disk, saved, harmed)
    <3> HIDE DEF c
    <3> QED  BY ONLY <2>9, <2>3, BuildGoesOn
  <2>5. Progress(d, disk, harmed)
    BY <2>4 DEF Progress, Builds
  <2> QED  BY <1>4, <1>5, <2>1, <2>4, <2>5
<1>7. CASE text \notin {Missing, Blank, Torn}
  <2> DEFINE d == [cmd[p] EXCEPT !.step = "link", !.text = text]
  <2>1. cmd' = [cmd EXCEPT ![p] = [@ EXCEPT !.step = "link", !.text = text]]
    BY <1>7 DEF ReadGenerated
  <2>2. cmd' = [cmd EXCEPT ![p] = d]
    BY <2>1 DEF IInv, Types
  <2>3. Present(text)
    BY <1>4, <1>7 DEF IInv, Types
  <2>4. Turns(c, d, "link", c.todo, text, c.linked)
    BY <1>1, TurnsStepText
  <2>5. Turns(c, d, "link", c.todo, text, FALSE)
    BY <1>1, <1>3, <2>4 DEF IsCommand
  <2>9. /\ Shape(c) /\ Builds(c) /\ Present(text)
        /\ "link" \in {"cc", "link", "remove", "give up"}
    BY <1>1, <1>3, <2>3
  <2> HIDE DEF d
  <2>6. /\ d.step = "link" /\ d.text = text /\ d.alone = c.alone /\ Builds(d)
        /\ d.source = c.source
        /\ GoesOn(c, d) /\ \A g \in Writes(c) : PastOpen(d, g)
        /\ made /\ (c.alone => Progress(d, disk, harmed)) => Fine(d, made, disk, saved, harmed)
    <3> HIDE DEF c, text
    <3> QED  BY ONLY <2>9, <2>5, BuildGoesOn
  <2>7. ASSUME c.alone
        PROVE  Progress(d, disk, harmed)
    <3>1. text = disk[c.source]
      BY <1>1, <1>2, <1>3, <1>7, <2>7 DEF Fine, Progress
    <3> QED  BY <2>6, <3>1 DEF Progress, Builds
  <2> QED  BY <1>4, <1>5, <2>2, <2>6, <2>7
<1> QED  BY <1>6, <1>7

LEMMA WriteBinaryStep ==
  ASSUME IInv, NEW p \in Procs, WriteBinary(p)
  PROVE  IInv'
<1> DEFINE c == cmd[p]
           b == Bin[c.source]
           d == [cmd[p] EXCEPT !.step = "remove"]
<1>1. /\ Fine(c, made, disk, saved, harmed) /\ Shape(c) /\ IsCommand(c)
      /\ c.source \in Sources /\ c.source \in Files
  BY ItIsFine
<1>2. c.step = "link" /\ Puts(b, c.text) /\ Goes(p, "remove") /\ UNCHANGED <<made, ghosts>>
  BY DEF WriteBinary, At
<1>3. Builds(c) /\ ~c.linked /\ Present(c.text)
  BY <1>1, <1>2 DEF Shape, IsCommand
<1>4. /\ made /\ b \in Files /\ b \in Writes(c) /\ c.source # b
      /\ Writes(c) \cap ProjectFiles = {}
  BY <1>3, BuildFiles
<1>5. /\ Frame(p) /\ NothingGoes /\ disk'[b] = c.text
      /\ \A f \in Files : f # b => disk'[f] = disk[f]
  <2>1. UNCHANGED <<begun, made>> /\ saved' = saved /\ harmed' = harmed /\ left' = left
    BY <1>2 DEF ghosts
  <2>2. /\ saved' = [s \in Sources |-> saved'[s]]
        /\ \A s \in Sources : saved'[s] = Missing \/ Real(saved'[s])
        /\ harmed' \subseteq ProjectFiles /\ left' \subseteq Generateds
    BY <2>1 DEF IInv, Types
  <2>3. b \in Files \cap Writes(c)
    BY <1>4
  <2> HIDE DEF b
  <2> QED  BY <1>2, <1>3, <1>4, <2>1, <2>2, <2>3, PutsFrame
<1>6. cmd' = [cmd EXCEPT ![p] = d] /\ cmd'[p] = d
  BY <1>2, GoesIsExcept DEF IInv, Types
<1>7. Turns(c, d, "remove", c.todo, c.text, c.linked)
  BY <1>1, TurnsStep
<1>8. Turns(c, d, "remove", c.todo, c.text, FALSE)
  BY <1>1, <1>3, <1>7 DEF IsCommand
<1> HIDE DEF d
<1>9. /\ d.source = c.source /\ d.step = "remove" /\ d.alone = c.alone /\ Builds(d)
      /\ GoesOn(c, d) /\ \A g \in Writes(c) : PastOpen(d, g)
      /\ made /\ (c.alone => Progress(d, disk', harmed)) => Fine(d, made, disk', saved, harmed)
  <2>1. /\ Shape(c) /\ Builds(c) /\ Present(c.text)
        /\ "remove" \in {"cc", "link", "remove", "give up"}
    BY <1>1, <1>3
  <2> HIDE DEF c
  <2> QED
    BY ONLY <2>1, <1>8, BuildGoesOn
<1>10. ASSUME c.alone
       PROVE  Progress(d, disk', harmed)
  <2>1. disk'[b] = disk'[c.source]
    <3>1. c.text = disk[c.source]
      BY <1>1, <1>2, <1>3, <1>10 DEF Fine, Progress
    <3> QED  BY <1>1, <1>4, <1>5, <3>1
  <2> QED  BY <1>9, <2>1 DEF Progress, Builds
<1>11. Fine(d, made', disk', saved', harmed')
  BY <1>2, <1>4, <1>9, <1>10 DEF ghosts
<1>12. OwnFiles(p)
  BY <1>4, <1>6, <1>9 DEF OwnFiles
<1> QED  BY <1>5, <1>6, <1>9, <1>11, <1>12, StepKeepsInvariant

LEMMA RemoveGeneratedStep ==
  ASSUME IInv, NEW p \in Procs, RemoveGenerated(p)
  PROVE  IInv'
<1> DEFINE c == cmd[p]
           g == Generated(c)
<1>1. /\ Fine(c, made, disk, saved, harmed) /\ Shape(c)
  BY ItIsFine
<1>2. /\ c.step \in {"remove", "give up"} /\ Puts(g, Missing) /\ left' = left \ {g}
      /\ UNCHANGED <<made, begun, saved, harmed>>
      /\ cmd' = [q \in Procs |-> IF q = p THEN Idle
                                 ELSE [cmd[q] EXCEPT !.linked = @ /\ Target(cmd[q]) # g]]
  BY DEF RemoveGenerated, At
<1>3. Builds(c)
  BY <1>1, <1>2 DEF Shape
<1>4. /\ made /\ g \in Generateds /\ g \in Files /\ g \in Writes(c)
      /\ Writes(c) \cap ProjectFiles = {} /\ Writes(c) \cap Generateds = {g}
  BY <1>3, BuildFiles
<1>5. /\ disk' = [f \in Files |-> disk'[f]] /\ disk'[g] = Missing
      /\ \A f \in Files : f # g => disk'[f] = disk[f]
  BY <1>2, <1>4 DEF Puts, IInv, Types
<1>6. ASSUME NEW q \in Others(p)
      PROVE  /\ Follows(cmd[q], cmd'[q])
             /\ cmd'[q].linked => disk'[Target(cmd[q])] # Missing
  <2> DEFINE e == cmd[q]
             l == e.linked /\ Target(e) # g
  <2>1. Fine(e, made, disk, saved, harmed) /\ Shape(e) /\ IsCommand(e) /\ Apart(e, c, harmed)
    BY ItIsFine DEF Others, IInv
  <2>2. cmd'[q] = [e EXCEPT !.linked = l]
    BY <1>2 DEF Others
  <2>3. Turns(e, [e EXCEPT !.linked = l], e.step, e.todo, e.text, l)
    BY <2>1, TurnsLinked
  <2>4. l \in BOOLEAN /\ Present(e.text) /\ e.linked \in BOOLEAN
    BY <2>1 DEF IsCommand
  <2>5. /\ cmd'[q].op = e.op /\ cmd'[q].source = e.source /\ cmd'[q].alone = e.alone
        /\ cmd'[q].step = e.step /\ cmd'[q].todo = e.todo /\ cmd'[q].text = e.text
        /\ cmd'[q].linked = l /\ IsCommand(cmd'[q])
    BY <2>2, <2>3, <2>4 DEF Turns
  <2>6. e.linked => e.step = "write"
    BY <2>1 DEF Shape
  <2>7. e.linked /\ ~Builds(e) => Target(e) # g
    BY <1>4, <2>1, <2>6, TargetIsWritten, FileNames
  <2>8. e.linked /\ e.alone => Target(e) # g
    <3>1. e.linked => Target(e) \in Writes(e)
      BY <2>1, <2>6, TargetIsWritten
    <3>2. Writes(c) \subseteq Uses(c)
      BY <1>1, FilesOf
    <3>3. e.alone => Writes(e) \cap Uses(c) = {}
      BY <2>1 DEF Apart, Disturb
    <3> QED  BY <1>4, <3>1, <3>2, <3>3
  <2>9. Follows(e, cmd'[q])
    BY <2>4, <2>5, <2>7, <2>8 DEF Follows
  <2>10. l => disk'[Target(e)] # Missing
    <3>1. l => Target(e) \in Files /\ Target(e) # g /\ disk[Target(e)] # Missing
      BY <2>1, <2>6, TargetIsWritten DEF Fine
    <3> QED  BY <1>5, <3>1
  <2> QED  BY <2>5, <2>9, <2>10
<1>7. Works(p)
  <2>1. \A s \in Sources : disk[s] # Missing => disk'[s] # Missing
    BY <1>4, <1>5, FileNames
  <2>2. \A f \in Files \ Writes(c) : disk'[f] = disk[f]
    BY <1>4, <1>5
  <2>3. \A x \in Generateds \ Writes(c) : x \in left => x \in left'
    BY <1>2, <1>4
  <2> QED  BY <1>2, <1>4, <1>6, <2>1, <2>2, <2>3 DEF Works
<1>8. cmd'[p] = Idle /\ cmd' = [q \in Procs |-> cmd'[q]]
  BY <1>2
<1>9. Becomes(p, Idle)
  BY <1>8, IdleIsFine DEF Becomes
<1>10. OwnFiles(p)
  BY <1>4, <1>5 DEF OwnFiles
<1>11. Types'
  <2>1. \A f \in Files : disk'[f] = Missing \/ Present(disk'[f])
    BY <1>5 DEF IInv, Types
  <2> QED  BY <1>2, <1>5, <1>8, <2>1 DEF IInv, Types
<1> QED  BY <1>7, <1>9, <1>10, <1>11, WorkKeepsInvariant

LEMMA KillStep ==
  ASSUME IInv, NEW p \in Procs, Kill(p)
  PROVE  IInv'
<1> DEFINE c == cmd[p]
<1>1. Shape(c)
  BY ItIsFine
<1>2. /\ Ends(p, "died") /\ UNCHANGED <<made, disk, begun, saved>>
      /\ harmed' = harmed \cup (Unfinished(c) \cap ProjectFiles)
      /\ left' = left \cup (IF Builds(c) THEN {Generated(c)} ELSE {})
  BY DEF Kill, ProjectFiles
<1>3. cmd' = [cmd EXCEPT ![p] = Idle] /\ cmd'[p] = Idle
  BY <1>2, EndsIsExcept
<1>4. /\ Builds(c) => Generated(c) \in Generateds /\ Writes(c) \cap Generateds = {Generated(c)}
      /\ ~Builds(c) => Writes(c) \cap Generateds = {}
  <2>1. CASE Builds(c)
    BY <2>1, BuildFiles
  <2>2. CASE ~Builds(c)
    <3>1. Writes(c) \in {{}, ProjectFiles, {"toml"}, {c.source}} /\ c.source \in Sources
      BY <1>1, <2>2, FilesOf DEF Shape, IsCommand
    <3>2. Writes(c) \subseteq ProjectFiles
      BY <3>1, FileNames
    <3> QED  BY <2>2, <3>2, FileNames
  <2> QED  BY <2>1, <2>2
<1>5. Frame(p) /\ NothingGoes
  BY <1>2, <1>4 DEF IInv, Types, Frame, NothingGoes
<1>6. OwnFiles(p)
  <2>1. \A f \in (ProjectFiles \cap Writes(c)) \ harmed' : Kept(f, made', disk', saved')
    BY <1>2, OwnWasKept
  <2>2. \A g \in Generateds \cap Writes(c) : g \in left'
    BY <1>2, <1>4
  <2> QED  BY <2>1, <2>2 DEF OwnFiles
<1>7. Fine(Idle, made', disk', saved', harmed') /\ GoesOn(c, Idle)
  BY IdleIsFine DEF GoesOn
<1> QED  BY <1>3, <1>5, <1>6, <1>7, StepKeepsInvariant

-----------------------------------------------------------------------------
(* A command begins, or the user saves a source: the others learn only     *)
(* that they are not alone.                                                *)

(* d is c, but for whether it is alone. *)
OnlyAlone(c, d, a) ==
  /\ d.op = c.op /\ d.source = c.source /\ d.step = c.step /\ d.todo = c.todo
  /\ d.text = c.text /\ d.linked = c.linked /\ d.alone = a
  /\ IsCommand(d)

LEMMA TurnsAlone ==
  ASSUME NEW c, IsCommand(c), NEW a \in BOOLEAN
  PROVE  OnlyAlone(c, [c EXCEPT !.alone = a], a)
<1> SUFFICES ASSUME NEW d, d = [c EXCEPT !.alone = a]
             PROVE  OnlyAlone(c, d, a)
  OBVIOUS
<1>1. d = Com(c.op, c.source, c.step, c.todo, c.text, c.linked, a)
  BY DEF IsCommand, Com
<1>2. /\ d.op = c.op /\ d.source = c.source /\ d.step = c.step /\ d.todo = c.todo
      /\ d.text = c.text /\ d.linked = c.linked /\ d.alone = a
  BY <1>1, ComFields
<1>3. d = Com(d.op, d.source, d.step, d.todo, d.text, d.linked, d.alone)
  BY <1>1, <1>2
<1>4. /\ c.source \in Sources /\ c.linked \in BOOLEAN /\ Present(c.text)
  BY DEF IsCommand
<1>5. /\ d.source \in Sources /\ d.linked \in BOOLEAN /\ d.alone \in BOOLEAN
      /\ Present(d.text)
  BY <1>2, <1>4
<1>6. IsCommand(d)
  BY <1>3, <1>5 DEF IsCommand
<1> QED  BY <1>2, <1>6 DEF OnlyAlone

LEMMA AloneFollows ==
  ASSUME NEW c, IsCommand(c), NEW X, NEW d, d = [c EXCEPT !.alone = @ /\ X]
  PROVE  Follows(c, d) /\ (d.alone => c.alone /\ X)
<1>1. PICK a \in BOOLEAN : a = (c.alone /\ X)
  OBVIOUS
<1>2. d = [c EXCEPT !.alone = a]
  BY <1>1
<1>3. OnlyAlone(c, [c EXCEPT !.alone = a], a)
  BY TurnsAlone
<1> QED  BY <1>1, <1>2, <1>3 DEF OnlyAlone, Follows

(* A command that finds things as it needs them. *)
MayBegin(c, mk, dk, sv) ==
  IsCommand(c) /\ \A hm : \A a \in BOOLEAN : Fine([c EXCEPT !.alone = a], mk, dk, sv, hm)

(* A command begins where none was. *)
LEMMA BeginsStep ==
  ASSUME IInv, NEW p \in Procs, At(p, "idle"), NEW c, Begins(p, c),
         MayBegin(c, made, disk, saved)
  PROVE  IInv'
<1> DEFINE A == \A r \in Procs : ~Disturb(c, cmd[r])
           d == [c EXCEPT !.alone = A]
           W == {f \in Writes(c) \cap ProjectFiles : \E q \in Procs : f \in Writes(cmd[q])}
<1>1. /\ cmd' = [q \in Procs |-> IF q = p THEN d
                                 ELSE [cmd[q] EXCEPT !.alone = @ /\ ~Disturb(c, cmd[q])]]
      /\ begun < MaxBegun /\ begun' = begun + 1
      /\ UNCHANGED <<made, disk, saved, left>>
  BY DEF Begins, Counts
<1>2. harmed' = harmed \cup W
  BY DEF Begins, ProjectFiles
<1>3. cmd'[p] = d /\ cmd' = [q \in Procs |-> cmd'[q]]
  BY <1>1
<1>4. A \in BOOLEAN /\ IsCommand(c)
  BY DEF MayBegin
<1>5. /\ d.alone = A /\ Writes(d) = Writes(c) /\ Uses(d) = Uses(c)
  <2>1. d.alone = A /\ d.op = c.op /\ d.source = c.source
    <3> HIDE DEF A
    <3> QED  BY <1>4, TurnsAlone DEF OnlyAlone
  <2> HIDE DEF d
  <2> QED  BY <2>1, SameFiles
<1>6. harmed \subseteq harmed'
  BY <1>2
<1>7. Fine(d, made', disk', saved', harmed')
  <2> HIDE DEF A
  <2> QED  BY <1>1, <1>4 DEF MayBegin
<1> HIDE DEF d
<1>8. cmd[p].op = "none" /\ Writes(cmd[p]) = {} /\ Unfinished(cmd[p]) = {}
  <2>1. Shape(cmd[p]) /\ cmd[p].step = "idle"
    BY ItIsFine DEF At
  <2>2. cmd[p].op = "none"
    BY <2>1 DEF Shape, BuildSteps
  <2> QED  BY <2>1, <2>2, FilesOf, UnfinishedFiles
<1>9. ASSUME NEW q \in Others(p)
      PROVE  /\ q \in Procs /\ Follows(cmd[q], cmd'[q])
             /\ cmd'[q].alone => cmd[q].alone /\ ~Disturb(c, cmd[q])
             /\ Writes(cmd'[q]) = Writes(cmd[q]) /\ Uses(cmd'[q]) = Uses(cmd[q])
             /\ Unfinished(cmd'[q]) = Unfinished(cmd[q])
  <2>1. IsCommand(cmd[q]) /\ q \in Procs /\ q # p
    BY ItIsFine DEF Others
  <2> DEFINE X == ~Disturb(c, cmd[q])
  <2>2. cmd'[q] = [cmd[q] EXCEPT !.alone = @ /\ X]
    BY <1>1, <2>1
  <2> HIDE DEF X
  <2>3. Follows(cmd[q], cmd'[q]) /\ (cmd'[q].alone => cmd[q].alone /\ X)
    BY <2>1, <2>2, AloneFollows
  <2> QED  BY <2>1, <2>3, FollowsKeepsFiles DEF X
<1>10. Types'
  <2>1. begun' \in 0 .. MaxBegun
    BY <1>1, CommandsAssumption DEF IInv, Types
  <2>2. harmed' \subseteq ProjectFiles
    BY <1>2 DEF IInv, Types
  <2> QED  BY <1>1, <1>3, <2>1, <2>2 DEF IInv, Types
<1>11. ASSUME NEW q \in Procs
       PROVE  Writes(cmd[q]) \cap Writes(c) \cap ProjectFiles \subseteq harmed'
  <2>1. Writes(cmd[q]) \cap Writes(c) \cap ProjectFiles \subseteq W
    OBVIOUS
  <2> HIDE DEF W
  <2> QED  BY <1>2, <2>1
<1>12. ASSUME NEW q \in Procs
      PROVE  Fine(cmd'[q], made', disk', saved', harmed')
  <2>1. CASE q = p
    BY <1>3, <1>7, <2>1
  <2>2. CASE q # p
    <3> DEFINE e == cmd[q]
    <3>1. Follows(e, cmd'[q]) /\ Fine(e, made, disk, saved, harmed) /\ made \in BOOLEAN
      BY <1>9, <2>2, ItIsFine DEF Others, IInv, Types
    <3>2. /\ cmd'[q].linked => disk[Target(e)] # Missing
          /\ Writes(e) \cap harmed \subseteq harmed'
      BY <1>6, <3>1 DEF Follows, Fine
    <3>3. Fine(cmd'[q], made, disk, saved, harmed')
      BY <3>1, <3>2, OthersStayFine
    <3> QED  BY <1>1, <3>3
  <2> QED  BY <2>1, <2>2
<1>13. ASSUME NEW q \in Procs, NEW r \in Procs, q # r
       PROVE  Apart(cmd'[q], cmd'[r], harmed')
  <2>1. Apart(cmd[q], cmd[r], harmed) /\ harmed \subseteq harmed'
    BY <1>13, <1>6 DEF IInv
  <2>2. CASE q # p /\ r # p
    BY <1>9, <2>1, <2>2 DEF Others, Apart, Disturb
  <2>3. CASE q = p
    <3>1. Writes(cmd[r]) \cap Writes(c) \cap ProjectFiles \subseteq harmed'
      BY <1>11
    <3> QED  BY <1>3, <1>5, <1>9, <1>13, <2>3, <3>1 DEF Others, Apart, Disturb
  <2>4. CASE r = p
    <3>1. Writes(cmd[q]) \cap Writes(c) \cap ProjectFiles \subseteq harmed'
      BY <1>11
    <3> QED  BY <1>3, <1>5, <1>9, <1>13, <2>4, <3>1 DEF Others, Apart, Disturb
  <2> QED  BY <2>2, <2>3, <2>4
<1>14. FilesAreKept'
  <2> SUFFICES ASSUME NEW f \in ProjectFiles \ harmed',
                      \A q \in Procs : f \notin Unfinished(cmd'[q])
               PROVE  Kept(f, made, disk, saved)
    BY <1>1 DEF FilesAreKept
  <2>1. \A q \in Procs : f \notin Unfinished(cmd[q])
    BY <1>8, <1>9 DEF Others
  <2> QED  BY <1>6, <2>1 DEF IInv, FilesAreKept
<1>15. NothingMade'
  BY <1>1 DEF IInv, NothingMade
<1>16. LeftoverIsOpened'
  <2> SUFFICES ASSUME NEW g \in Generateds, disk[g] # Missing, g \notin left
               PROVE  \E q \in Procs : PastOpen(cmd'[q], g)
    BY <1>1 DEF LeftoverIsOpened, PastOpen
  <2>1. PICK q \in Procs : PastOpen(cmd[q], g)
    BY DEF IInv, LeftoverIsOpened, PastOpen
  <2>2. q \in Others(p)
    BY <1>8, <2>1 DEF PastOpen, Others
  <2> QED  BY <1>9, <2>1, <2>2 DEF PastOpen, Follows
<1> QED  BY <1>10, <1>12, <1>13, <1>14, <1>15, <1>16 DEF IInv

(* The commands that begin are fine. *)
CanBegin(op, s, step, todo) ==
  \/ op = "new" /\ step = "mkdir" /\ todo = Project
  \/ op = "init" /\ step = "open" /\ todo = <<"toml">>
  \/ op \in {"fmt", "check"} /\ step = "read" /\ todo = <<s>>
  \/ op = "build" /\ step = "read" /\ todo = <<Native>>
  \/ op = "host_build" /\ step = "read" /\ todo = <<Dist[s]>>

LEMMA BeginnersAreFine ==
  ASSUME NEW op, NEW s \in Sources, NEW step, NEW todo, CanBegin(op, s, step, todo),
         NEW mk, NEW dk, NEW sv,
         mk \/ op = "new",
         op = "new" => \A x \in Sources : sv[x] = Missing,
         op = "fmt" => dk[s] # Missing
  PROVE  MayBegin(Command(op, s, step, todo), mk, dk, sv)
<1> SUFFICES ASSUME NEW c, c = Command(op, s, step, todo)
             PROVE  MayBegin(c, mk, dk, sv)
  OBVIOUS
<1>1. c = Com(op, s, step, todo, Blank, FALSE, TRUE)
  BY IdleIsCom
<1>2. /\ c.op = op /\ c.source = s /\ c.step = step /\ c.todo = todo /\ c.text = Blank
      /\ c.linked = FALSE /\ c.alone = TRUE /\ IsCommand(c)
  <2>1. /\ c.op = op /\ c.source = s /\ c.step = step /\ c.todo = todo /\ c.text = Blank
        /\ c.linked = FALSE /\ c.alone = TRUE
        /\ c = Com(c.op, c.source, c.step, c.todo, c.text, c.linked, c.alone)
    BY <1>1 DEF Com
  <2> QED  BY <2>1, SomeTexts DEF IsCommand
<1>3. ASSUME NEW hm, NEW a \in BOOLEAN
      PROVE  Fine([c EXCEPT !.alone = a], mk, dk, sv, hm)
  <2> DEFINE d == [c EXCEPT !.alone = a]
  <2>1. /\ d.op = op /\ d.source = s /\ d.step = step /\ d.todo = todo /\ d.text = Blank
        /\ d.linked = FALSE /\ d.alone = a /\ IsCommand(d)
    BY <1>2, TurnsAlone DEF OnlyAlone
  <2> HIDE DEF d
  <2>2. Builds(d) => d.todo = <<Generated(d)>> /\ d.step = "read"
    BY <2>1 DEF Builds, Generated, CanBegin
  <2>3. Shape(d)
    BY <2>1, <2>2 DEF Shape, BuildSteps, Builds, CanBegin
  <2>4. KeepsPrograms(d, sv, hm)
    BY <2>1 DEF KeepsPrograms, CanBegin
  <2>5. Progress(d, dk, hm)
    BY <2>1, <2>2 DEF Progress, Builds, ProjectFiles, CanBegin
  <2>6. d.op = "none" \/ d.step = "mkdir" \/ mk
    BY <2>1 DEF CanBegin
  <2>7. Fine(d, mk, dk, sv, hm)
    BY <2>1, <2>3, <2>4, <2>5, <2>6 DEF Fine
  <2> QED  BY <2>7 DEF d
<1> QED  BY <1>2, <1>3 DEF MayBegin

LEMMA SourceIsMade ==
  ASSUME IInv, NEW s \in Sources, disk[s] # Missing
  PROVE  made
  BY FileNames DEF IInv, Types, NothingMade

LEMMA NewProjectStep ==
  ASSUME IInv, NEW p \in Procs, new_project(p)
  PROVE  IInv'
<1>1. CASE made
  BY <1>1, RefusesStep DEF new_project, Refuses, OldFiles
<1>2. CASE ~made
  <2> DEFINE c == Command("new", "main", "mkdir", Project)
  <2>1. "main" \in Sources /\ \A x \in Sources : saved[x] = Missing
    BY <1>2, FileNames DEF IInv, NothingMade, Sources
  <2>2. At(p, "idle") /\ Begins(p, c)
    BY <1>2 DEF new_project
  <2>4. CanBegin("new", "main", "mkdir", Project) /\ c = Command("new", "main", "mkdir", Project)
    BY DEF CanBegin
  <2> HIDE DEF c
  <2>3. MayBegin(c, made, disk, saved)
    BY <2>1, <2>4, BeginnersAreFine
  <2> QED  BY <2>2, <2>3, BeginsStep
<1> QED  BY <1>1, <1>2

LEMMA InitProjectStep ==
  ASSUME IInv, NEW p \in Procs, init_project(p)
  PROVE  IInv'
<1>1. CASE disk["toml"] # Missing
  BY <1>1, RefusesStep DEF init_project, Refuses, OldFiles
<1>2. CASE disk["toml"] = Missing
  <2> DEFINE c == Command("init", "main", "open", <<"toml">>)
  <2>1. "main" \in Sources /\ made
    BY DEF Sources, init_project
  <2>2. At(p, "idle") /\ Begins(p, c)
    BY <1>2 DEF init_project
  <2>4. CanBegin("init", "main", "open", <<"toml">>) /\ c = Command("init", "main", "open", <<"toml">>)
    BY DEF CanBegin
  <2> HIDE DEF c
  <2>3. MayBegin(c, made, disk, saved)
    BY <2>1, <2>4, BeginnersAreFine
  <2> QED  BY <2>2, <2>3, BeginsStep
<1> QED  BY <1>1, <1>2

LEMMA CmdFmtStep ==
  ASSUME IInv, NEW p \in Procs, NEW op \in {"fmt", "check"}, NEW s \in Sources, cmd_fmt(p, op, s)
  PROVE  IInv'
<1>1. CASE disk[s] = Missing
  BY <1>1, RefusesStep DEF cmd_fmt, Refuses, OldFiles
<1>2. CASE disk[s] # Missing
  <2> DEFINE c == Command(op, s, "read", <<s>>)
  <2>1. made
    BY <1>2, SourceIsMade
  <2>2. At(p, "idle") /\ Begins(p, c)
    BY <1>2 DEF cmd_fmt
  <2>4. CanBegin(op, s, "read", <<s>>) /\ c = Command(op, s, "read", <<s>>)
    BY DEF CanBegin
  <2> HIDE DEF c
  <2>3. MayBegin(c, made, disk, saved)
    BY <1>2, <2>1, <2>4, BeginnersAreFine
  <2> QED  BY <2>2, <2>3, BeginsStep
<1> QED  BY <1>1, <1>2

LEMMA CmdBuildStep ==
  ASSUME IInv, NEW p \in Procs, NEW s \in Sources, cmd_build(p, s)
  PROVE  IInv'
<1>1. CASE disk[s] = Missing
  BY <1>1, RefusesStep DEF cmd_build, Refuses, OldFiles
<1>2. CASE disk[s] # Missing
  <2> DEFINE c == Command("build", s, "read", <<Native>>)
  <2>1. made
    BY <1>2, SourceIsMade
  <2>2. At(p, "idle") /\ Begins(p, c)
    BY <1>2 DEF cmd_build
  <2>4. CanBegin("build", s, "read", <<Native>>) /\ c = Command("build", s, "read", <<Native>>)
    BY DEF CanBegin
  <2> HIDE DEF c
  <2>3. MayBegin(c, made, disk, saved)
    BY <2>1, <2>4, BeginnersAreFine
  <2> QED  BY <2>2, <2>3, BeginsStep
<1> QED  BY <1>1, <1>2

LEMMA CommandBuildStep ==
  ASSUME IInv, NEW p \in Procs, NEW s \in Sources, command_build(p, s)
  PROVE  IInv'
<1> DEFINE c == Command("host_build", s, "read", <<Dist[s]>>)
<1>1. At(p, "idle") /\ Begins(p, c) /\ made
  BY DEF command_build
<1>4. CanBegin("host_build", s, "read", <<Dist[s]>>) /\ c = Command("host_build", s, "read", <<Dist[s]>>)
  BY DEF CanBegin
<1> HIDE DEF c
<1>2. MayBegin(c, made, disk, saved)
  BY <1>1, <1>4, BeginnersAreFine
<1> QED  BY <1>1, <1>2, BeginsStep

LEMMA SaveStep ==
  ASSUME IInv, NEW s \in Sources, NEW text \in Edits, Save(s, text)
  PROVE  IInv'
<1>1. /\ made /\ Puts(s, text) /\ saved' = [saved EXCEPT ![s] = text]
      /\ begun < MaxBegun /\ begun' = begun + 1
      /\ UNCHANGED <<made, left>>
  BY DEF Save, Counts
<1>2. cmd' = [q \in Procs |-> [cmd[q] EXCEPT !.alone = @ /\ s \notin Uses(cmd[q])]]
  BY DEF Save
<1>3. /\ harmed' \subseteq harmed \cup {s} /\ harmed \ {s} \subseteq harmed'
      /\ \A q \in Procs : s \in Writes(cmd[q]) => s \in harmed'
  BY DEF Save
<1>4. Real(text) /\ Present(text) /\ text # Missing
  BY SomeTexts, CommandsAssumption
<1>5. s \in Files /\ s \in ProjectFiles /\ s \notin Generateds
  BY FileNames
<1>6. /\ disk' = [f \in Files |-> disk'[f]] /\ disk'[s] = text
      /\ \A f \in Files : f # s => disk'[f] = disk[f]
  BY <1>1, <1>5 DEF Puts, IInv, Types
<1>7. /\ saved' = [x \in Sources |-> saved'[x]] /\ saved'[s] = text
      /\ \A x \in Sources : x # s => saved'[x] = saved[x]
  BY <1>1 DEF IInv, Types
<1>8. ASSUME NEW q \in Procs
      PROVE  /\ Follows(cmd[q], cmd'[q])
             /\ cmd'[q].alone => s \notin Uses(cmd[q])
             /\ Writes(cmd'[q]) = Writes(cmd[q]) /\ Uses(cmd'[q]) = Uses(cmd[q])
             /\ Unfinished(cmd'[q]) = Unfinished(cmd[q])
  <2>1. IsCommand(cmd[q])
    BY ItIsFine
  <2> DEFINE X == s \notin Uses(cmd[q])
  <2>2. cmd'[q] = [cmd[q] EXCEPT !.alone = @ /\ X]
    BY <1>2
  <2> HIDE DEF X
  <2>3. Follows(cmd[q], cmd'[q]) /\ (cmd'[q].alone => X)
    BY <2>1, <2>2, AloneFollows
  <2> QED  BY <2>3, FollowsKeepsFiles DEF X
<1>9. ASSUME NEW q \in Procs
      PROVE  Fine(cmd'[q], made', disk', saved', harmed')
  <2> DEFINE e == cmd[q]
  <2>1. /\ Fine(e, made, disk, saved, harmed) /\ Shape(e) /\ made \in BOOLEAN
        /\ Follows(e, cmd'[q])
    BY <1>8, ItIsFine DEF IInv, Types
  <2>2. Uses(e) \subseteq Files
    BY <2>1, FilesOf
  <2>3. cmd'[q].alone => \A f \in Uses(e) : disk'[f] = disk[f]
    BY <1>6, <1>8, <2>2
  <2>4. \A x \in Sources : disk[x] # Missing => disk'[x] # Missing
    BY <1>4, <1>6, FileNames
  <2>5. cmd'[q].linked => disk'[Target(e)] # Missing
    <3>1. cmd'[q].linked => disk[Target(e)] # Missing /\ Target(e) \in Files
      BY <2>1, TargetIsWritten DEF Follows, Fine, Shape
    <3> QED  BY <1>4, <1>6, <3>1
  <2>6. Writes(e) \cap harmed \subseteq harmed'
    BY <1>3
  <2>7. \A x \in (Writes(e) \cap Sources) \ harmed' : saved'[x] = saved[x]
    BY <1>3, <1>7
  <2>8. Fine(cmd'[q], made, disk', saved', harmed')
    BY <2>1, <2>3, <2>4, <2>5, <2>6, <2>7, OthersStayFine
  <2> QED  BY <1>1, <2>8
<1>10. ASSUME NEW q \in Procs, NEW r \in Procs, q # r
       PROVE  Apart(cmd'[q], cmd'[r], harmed')
  <2>1. Apart(cmd[q], cmd[r], harmed) /\ (cmd'[q].alone => cmd[q].alone)
    BY <1>8, <1>10 DEF IInv, Follows
  <2> QED  BY <1>3, <1>8, <2>1 DEF Apart, Disturb
<1>11. FilesAreKept'
  <2> SUFFICES ASSUME NEW f \in ProjectFiles \ harmed',
                      \A q \in Procs : f \notin Unfinished(cmd'[q])
               PROVE  Kept(f, made, disk', saved')
    BY <1>1 DEF FilesAreKept
  <2>1. CASE f = s
    BY <1>4, <1>6, <1>7, <2>1 DEF Kept
  <2>2. CASE f # s
    <3>1. Kept(f, made, disk, saved)
      BY <1>3, <1>8, <2>2 DEF IInv, FilesAreKept
    <3> QED  BY <1>6, <1>7, <2>2, <3>1, FileNames DEF Kept
  <2> QED  BY <2>1, <2>2
<1>12. NothingMade'
  BY <1>1 DEF NothingMade
<1>13. LeftoverIsOpened'
  <2> SUFFICES ASSUME NEW g \in Generateds, disk'[g] # Missing, g \notin left
               PROVE  \E q \in Procs : PastOpen(cmd'[q], g)
    BY <1>1 DEF LeftoverIsOpened, PastOpen
  <2>1. disk[g] # Missing
    BY <1>5, <1>6, FileNames
  <2>2. PICK q \in Procs : PastOpen(cmd[q], g)
    BY <2>1 DEF IInv, LeftoverIsOpened, PastOpen
  <2> QED  BY <1>8, <2>2 DEF PastOpen, Follows
<1>14. Types'
  <2>1. begun' \in 0 .. MaxBegun
    BY <1>1, CommandsAssumption DEF IInv, Types
  <2>2. harmed' \subseteq ProjectFiles
    BY <1>3, <1>5 DEF IInv, Types
  <2>3. \A f \in Files : disk'[f] = Missing \/ Present(disk'[f])
    BY <1>4, <1>6 DEF IInv, Types
  <2>4. \A x \in Sources : saved'[x] = Missing \/ Real(saved'[x])
    BY <1>4, <1>7 DEF IInv, Types
  <2>5. cmd' = [q \in Procs |-> cmd'[q]]
    BY <1>2
  <2> QED  BY <1>1, <1>6, <1>7, <2>1, <2>2, <2>3, <2>4, <2>5 DEF IInv, Types
<1> QED  BY <1>9, <1>10, <1>11, <1>12, <1>13, <1>14 DEF IInv

-----------------------------------------------------------------------------
(* The invariant. *)

LEMMA InitEstablishes ==
  ASSUME Init
  PROVE  IInv
<1>1. PICK t \in (IF made THEN Starts ELSE {Missing}) : saved = [s \in Sources |-> t]
  BY DEF Init
<1>2. /\ made \in BOOLEAN /\ begun \in 0 .. MaxBegun /\ harmed = {} /\ left = {}
      /\ cmd \in [Procs -> {Idle, Away}]
      /\ disk = [f \in Files |->
           IF ~made \/ f \notin ProjectFiles THEN Missing
           ELSE IF f \in Sources THEN saved[f] ELSE Template(f)]
  BY DEF Init, ProjectFiles
<1>3. made => Real(t)
  BY <1>1, SomeTexts, CommandsAssumption
<1>4. \A s \in Sources : saved[s] = IF made THEN t ELSE Missing
  BY <1>1
<1>5. ASSUME NEW p \in Procs
      PROVE  Fine(cmd[p], made, disk, saved, harmed) /\ Writes(cmd[p]) = {} /\ ~cmd[p].alone
  <2>1. cmd[p] = Idle \/ cmd[p] = Away
    BY <1>2
  <2> QED  BY <2>1, IdleIsFine
<1>6. \A p, q \in Procs : p # q => Apart(cmd[p], cmd[q], harmed)
  BY <1>5 DEF Apart
<1>7. \A f \in Files : disk[f] = Missing \/ (made /\ Real(disk[f]))
  <2>1. ASSUME NEW f \in Files, made, f \in ProjectFiles
        PROVE  Real(disk[f])
    <3>1. CASE f \in Sources
      BY <1>2, <1>3, <1>4, <2>1, <3>1
    <3>2. CASE f \notin Sources
      <4>1. disk[f] = Template(f)
        BY <1>2, <2>1, <3>2
      <4> QED  BY <4>1, SomeTexts
    <3> QED  BY <3>1, <3>2
  <2> QED  BY <1>2, <2>1
<1>8. \A f \in ProjectFiles : (made => disk[f] # Missing) /\ (~made => disk[f] = Missing)
  <2>1. \A f \in ProjectFiles : f \in Files
    BY FileNames
  <2>2. \A f \in Files : Real(Template(f)) /\ Template(f) # Missing
    BY SomeTexts
  <2>3. made => t # Missing
    BY <1>3, SomeTexts
  <2> QED  BY <1>2, <1>4, <2>1, <2>2, <2>3
<1>9. \A s \in Sources : disk[s] = saved[s]
  BY <1>2, <1>4, FileNames
<1>10. FilesAreKept
  BY <1>7, <1>8, <1>9, FileNames DEF FilesAreKept, Kept
<1>11. NothingMade
  BY <1>4, <1>8 DEF NothingMade
<1>12. LeftoverIsOpened
  BY <1>2, FileNames DEF LeftoverIsOpened
<1>13. Types
  <2>1. \A f \in Files : disk[f] = Missing \/ Present(disk[f])
    BY <1>7, SomeTexts
  <2>2. \A s \in Sources : saved[s] = Missing \/ Real(saved[s])
    BY <1>3, <1>4
  <2>3. saved = [s \in Sources |-> saved[s]] /\ disk = [f \in Files |-> disk[f]]
    BY <1>1, <1>2
  <2>4. cmd = [p \in Procs |-> cmd[p]]
    BY <1>2
  <2> QED  BY <1>2, <2>1, <2>2, <2>3, <2>4 DEF Types
<1> QED  BY <1>5, <1>6, <1>10, <1>11, <1>12, <1>13 DEF IInv

LEMMA StepPreserves ==
  ASSUME IInv, [Next]_vars
  PROVE  IInv'
<1>1. CASE UNCHANGED vars
  <2>1. OldFiles /\ UNCHANGED cmd
    BY <1>1 DEF vars, OldFiles, ghosts
  <2> QED  BY <2>1, RefusesStep
<1>2. ASSUME NEW p \in Procs,
             new_project(p) \/ init_project(p) \/ CreateDirectories(p) \/ ReadSource(p)
      PROVE  IInv'
  BY <1>2, NewProjectStep, InitProjectStep, CreateDirectoriesStep, ReadSourceStep
<1>3. ASSUME NEW p \in Procs, NEW s \in Sources,
             \/ cmd_build(p, s) \/ command_build(p, s)
             \/ \E op \in {"fmt", "check"} : cmd_fmt(p, op, s)
      PROVE  IInv'
  BY <1>3, CmdBuildStep, CommandBuildStep, CmdFmtStep
<1>4. ASSUME NEW p \in Procs,
             OpenOutput(p) \/ WriteFile(p) \/ WriteGenerated(p)
      PROVE  IInv'
  BY <1>4, OpenOutputStep, WriteFileStep, WriteGeneratedStep
<1>5. ASSUME NEW p \in Procs,
             ReadGenerated(p) \/ WriteBinary(p) \/ RemoveGenerated(p) \/ Kill(p)
      PROVE  IInv'
  BY <1>5, ReadGeneratedStep, WriteBinaryStep, RemoveGeneratedStep, KillStep
<1>6. ASSUME NEW s \in Sources, NEW text \in Edits, Save(s, text)
      PROVE  IInv'
  BY <1>6, SaveStep
<1> QED  BY <1>1, <1>2, <1>3, <1>4, <1>5, <1>6 DEF Next

(* Whatever the commands and the user do, in whatever order, each command  *)
(* keeps to its own files and knows as much of them as it has done.        *)
THEOREM Invariance == Spec => []IInv
  BY InitEstablishes, StepPreserves, PTL DEF Spec

-----------------------------------------------------------------------------
(* What the invariant says of the project.                                 *)

(* A file that nobody is to write is as it was put there. *)
LEMMA NobodyWrites ==
  ASSUME IInv, NEW f \in ProjectFiles \ harmed, ~BeingWritten(f)
  PROVE  Kept(f, made, disk, saved)
<1>1. ASSUME NEW p \in Procs
      PROVE  f \notin Unfinished(cmd[p])
  <2>1. Shape(cmd[p]) /\ f \notin Writes(cmd[p])
    BY ItIsFine DEF BeingWritten
  <2> QED  BY <2>1, UnfinishedFiles
<1> QED  BY <1>1 DEF IInv, FilesAreKept

LEMMA CommandsAreTyped ==
  ASSUME IInv, NEW p \in Procs
  PROVE  /\ cmd[p].op \in Ops /\ cmd[p].step \in Steps /\ cmd[p].source \in Sources
         /\ ToSet(cmd[p].todo) \subseteq Files
         /\ cmd[p].step \in {"open", "write"} => cmd[p].todo # <<>>
         /\ cmd[p].linked => disk[Target(cmd[p])] # Missing
<1> DEFINE c == cmd[p]
<1>1. Fine(c, made, disk, saved, harmed) /\ Shape(c) /\ c.source \in Sources
  BY ItIsFine
<1>2. c.op \in Ops /\ c.step \in Steps
  BY <1>1 DEF Shape, Builds, BuildSteps, Ops, Steps
<1>3. ToSet(c.todo) \subseteq Files
  <2>1. CASE c.op = "none"
    <3>1. c.todo = <<>>
      BY <1>1, <2>1 DEF Shape, Builds
    <3> QED  BY <3>1 DEF ToSet
  <2>2. CASE c.op = "new"
    <3>1. c.todo \in Todos
      BY <1>1, <2>2 DEF Shape, Builds, Todos
    <3> QED  BY <3>1, TodoParts, FileNames
  <2>3. CASE c.op \notin {"none", "new"}
    <3>1. \/ c.todo = <<"toml">> \/ c.todo = <<c.source>>
          \/ Builds(c) /\ c.todo = <<Generated(c)>>
      BY <1>1, <2>3 DEF Shape
    <3>2. "toml" \in Files /\ c.source \in Files /\ (Builds(c) => Generated(c) \in Files)
      BY <1>1, FilesOf, FileNames
    <3>3. PICK f \in Files : c.todo = <<f>>
      BY <3>1, <3>2
    <3> QED  BY <3>3, OneTodo
  <2> QED  BY <2>1, <2>2, <2>3
<1>4. c.step \in {"open", "write"} => c.todo # <<>>
  BY <1>1, TargetIsWritten
<1> QED  BY <1>1, <1>2, <1>3, <1>4 DEF Fine

(* The state of the commands: what each is at, which files it has still to *)
(* write, and that a file it has open under its name is on the disk, which *)
(* is what the removal of a generated file under the pen of another build  *)
(* puts at risk.                                                           *)
THEOREM StateIsTyped == Spec => []TypeOK
<1>1. IInv => TypeOK
  <2> SUFFICES ASSUME IInv
               PROVE  TypeOK
    OBVIOUS
  <2>1. DOMAIN disk = Files /\ DOMAIN saved = Sources
    BY DEF IInv, Types
  <2>2. harmed \subseteq ToSet(Project)
    BY DEF IInv, Types, ProjectFiles
  <2> QED  BY <2>1, <2>2, CommandsAreTyped DEF IInv, Types, TypeOK
<1> QED  BY <1>1, Invariance, PTL

(* fmt, new, init, builds and the editor at work on one directory: a       *)
(* source remains the program its user has put there.                      *)
THEOREM SourcesStay == Spec => []SourcesSurvive
<1>1. IInv => SourcesSurvive
  <2> SUFFICES ASSUME IInv, NEW s \in Sources \ harmed, ~BeingWritten(s)
               PROVE  SpansLines(saved[s]) \/ Program(disk[s]) = Program(saved[s])
    BY DEF SourcesSurvive
  <2>1. Rests(disk[s]) = Rests(saved[s])
    BY NobodyWrites, FileNames DEF Kept
  <2> QED  BY <2>1, ProgramIsOfRests
<1> QED  BY <1>1, Invariance, PTL

(* No order of commands leaves a project without one of its files.         *)
THEOREM ProjectStaysWhole == Spec => []ProjectIsWhole
<1>1. IInv => ProjectIsWhole
  <2> SUFFICES ASSUME IInv, made, NEW f \in ProjectFiles \ harmed, ~BeingWritten(f)
               PROVE  disk[f] \notin {Missing, Torn}
    BY DEF ProjectIsWhole, ProjectFiles
  <2>1. Real(disk[f])
    BY NobodyWrites DEF Kept
  <2> QED  BY <2>1, SomeTexts
<1> QED  BY <1>1, Invariance, PTL

(* A build removes its generated file on every way out but the failed      *)
(* compilation and the kill.                                               *)
THEOREM NothingIsLeftOver == Spec => []LeftoverHasACause
<1>1. IInv => LeftoverHasACause
  BY DEF IInv, LeftoverIsOpened, LeftoverHasACause, BeingWritten
<1> QED  BY <1>1, Invariance, PTL

-----------------------------------------------------------------------------
(* What a command that nobody disturbed has done when it ends.             *)

(* The steps with which a command claims to have done its work.            *)
LEMMA WhoEnds ==
  ASSUME IInv, [Next]_vars, NEW p \in Procs, cmd[p].op # "none", cmd'[p].op = "none",
         said' \in {"built", "formatted", "created"}
  PROVE  (WriteFile(p) /\ LastOutput(cmd[p])) \/ RemoveGenerated(p)
<1>1. CASE UNCHANGED vars
  BY <1>1 DEF vars
<1>2. ASSUME NEW q \in Procs,
             \/ new_project(q) \/ init_project(q) \/ CreateDirectories(q) \/ ReadSource(q)
             \/ OpenOutput(q) \/ ReadGenerated(q) \/ WriteBinary(q) \/ Kill(q)
      PROVE  FALSE
  BY <1>2 DEF new_project, init_project, CreateDirectories, ReadSource, OpenOutput,
              ReadGenerated, WriteBinary, Kill, Begins, Refuses, Ends, Silent, Says
<1>3. ASSUME NEW q \in Procs, NEW s \in Sources,
             \/ cmd_build(q, s) \/ command_build(q, s)
             \/ \E op \in {"fmt", "check"} : cmd_fmt(q, op, s)
      PROVE  FALSE
  BY <1>3 DEF cmd_build, command_build, cmd_fmt, Begins, Refuses, Silent, Says
<1>4. ASSUME NEW q \in Procs, WriteGenerated(q)
      PROVE  FALSE
  BY <1>4 DEF WriteGenerated, Ends, Silent, Says
<1>5. ASSUME NEW s \in Sources, NEW text \in Edits, Save(s, text)
      PROVE  FALSE
  BY <1>5 DEF Save, Silent, Says
<1>6. ASSUME NEW q \in Procs, WriteFile(q)
      PROVE  q = p /\ LastOutput(cmd[p])
  <2>1. LastOutput(cmd[q]) /\ \E message : Ends(q, message)
    BY <1>6 DEF WriteFile, Silent, Says
  <2>2. q # p => cmd'[p] = cmd[p]
    BY <2>1 DEF Ends, IInv, Types
  <2> QED  BY <2>1, <2>2
<1>7. ASSUME NEW q \in Procs, RemoveGenerated(q)
      PROVE  q = p
  <2> SUFFICES ASSUME q # p
               PROVE  cmd'[p].op = cmd[p].op
    OBVIOUS
  <2> DEFINE l == cmd[p].linked /\ Target(cmd[p]) # Generated(cmd[q])
  <2>1. cmd'[p] = [cmd[p] EXCEPT !.linked = l]
    BY <1>7 DEF RemoveGenerated
  <2>2. IsCommand(cmd[p])
    BY ItIsFine
  <2> HIDE DEF l
  <2> QED  BY <2>1, <2>2, TurnsLinked DEF Turns
<1> QED  BY <1>1, <1>2, <1>3, <1>4, <1>5, <1>6, <1>7 DEF Next

LEMMA BuildTakesEffect ==
  ASSUME IInv, NEW p \in Procs, cmd[p].alone, RemoveGenerated(p)
  PROVE  DoesWhatItSays(p)
<1> DEFINE c == cmd[p]
           g == Generated(c)
<1>1. Fine(c, made, disk, saved, harmed) /\ Shape(c) /\ c.source \in Sources
  BY ItIsFine
<1>2. /\ c.step \in {"remove", "give up"} /\ Puts(g, Missing)
      /\ said' = IF c.step = "remove" THEN "built" ELSE "failed"
  BY DEF RemoveGenerated, Removed, Says, At
<1>3. Builds(c)
  BY <1>1, <1>2 DEF Shape
<1>4. g \in Files /\ g \in Generateds /\ Bin[c.source] \in Files /\ Bin[c.source] # g
  <2>1. g \in Files /\ g \in Generateds /\ Bin[c.source] \in Files
    BY <1>3, BuildFiles
  <2>2. Bin[c.source] \notin Generateds
    BY <1>1, FileNames
  <2> QED  BY ONLY <2>1, <2>2
<1>5. disk'[g] = Missing /\ disk'[Bin[c.source]] = disk[Bin[c.source]]
  BY <1>2, <1>4 DEF Puts, IInv, Types
<1>6. c.step = "remove" => disk[Bin[c.source]] = disk[c.source]
  BY <1>1, <1>3 DEF Fine, Progress
<1> QED  BY <1>2, <1>5, <1>6 DEF DoesWhatItSays

LEMMA WriterTakesEffect ==
  ASSUME IInv, NEW p \in Procs, cmd[p].alone, WriteFile(p), LastOutput(cmd[p]),
         Writes(cmd[p]) \cap harmed' = {}
  PROVE  DoesWhatItSays(p)
<1> DEFINE c == cmd[p]
           f == Target(c)
<1>1. Fine(c, made, disk, saved, harmed) /\ Shape(c) /\ IsCommand(c) /\ Progress(c, disk, harmed)
  BY ItIsFine DEF Fine
<1>2. c.step = "write" /\ ~Builds(c) /\ said' = IF c.op = "fmt" THEN "formatted" ELSE "created"
  BY DEF WriteFile, At, Ends, Says
<1>3. /\ f \in Writes(c) /\ c.op \in {"fmt", "new", "init"}
      /\ c.op = "fmt" => f = c.source
      /\ c.op = "new" => c.todo \in Todos
      /\ c.op = "init" => f = "toml"
  BY <1>1, <1>2, TargetIsWritten
<1>4. /\ disk'[f] = Output(c) /\ harmed \subseteq harmed'
      /\ \A x \in Files : x # f => disk'[x] = disk[x]
  BY <1>3, WriteFileFiles DEF Frame
<1>5. CASE c.op = "fmt"
  <2>1. IsText(c.text) /\ disk'[c.source] = Formatted(c.text)
    BY <1>1, <1>3, <1>4, <1>5 DEF IsCommand, Present, Output, Builds
  <2>2. /\ Formatted(c.text) = Formatted(Formatted(c.text))
        /\ Rests(Formatted(c.text)) = Rests(c.text)
    BY <2>1, FormattedKeepsRests
  <2>3. SpansLines(c.text) \/ Program(Formatted(c.text)) = Program(c.text)
    BY <2>2, ProgramIsOfRests
  <2>4. said' = "formatted"
    BY <1>2, <1>5
  <2> QED  BY <2>1, <2>2, <2>3, <2>4 DEF DoesWhatItSays
<1>6. CASE c.op \in {"new", "init"}
  <2>1. said' = "created" /\ disk'[f] = Template(f)
    BY <1>2, <1>4, <1>6 DEF Output, Builds
  <2>2. ASSUME NEW x \in Writes(c), x # f
        PROVE  disk'[x] = Template(x)
    <3>1. c.op = "new" /\ x \in ProjectFiles /\ x \in Files
      BY <1>1, <1>3, <1>6, <2>2, FilesOf, FileNames
    <3>2. x \notin ToSet(c.todo)
      BY <1>3, <2>2, <3>1, TodoParts DEF Target, LastOutput
    <3>3. x \notin harmed
      BY <1>4, <2>2
    <3>4. disk[x] = Template(x)
      BY <1>1, <3>1, <3>2, <3>3 DEF Progress
    <3> QED  BY <1>4, <2>2, <3>1, <3>4
  <2> QED  BY <2>1, <2>2 DEF DoesWhatItSays
<1> QED  BY <1>3, <1>5, <1>6

(* A command that nobody disturbed and that says it has built, formatted   *)
(* or created has done so: the compiler's and the formatter's file calls,  *)
(* none of which is looked at, add up to what the message says.            *)
THEOREM SoleCommandsTakeEffect == Spec => SoleCommandTakesEffect
<1>1. ASSUME IInv, [Next]_vars
      PROVE  \A p \in Procs :
               (cmd[p].alone /\ cmd[p]'.op = "none" /\ Writes(cmd[p]) \cap harmed' = {})
                 => DoesWhatItSays(p)
  <2> SUFFICES ASSUME NEW p \in Procs, cmd[p].alone, cmd'[p].op = "none",
                      Writes(cmd[p]) \cap harmed' = {}
               PROVE  DoesWhatItSays(p)
    OBVIOUS
  <2>1. cmd[p].op # "none"
    <3>1. Shape(cmd[p])
      BY <1>1, ItIsFine
    <3> QED  BY <3>1 DEF Shape, Builds
  <2>2. CASE said' \notin {"built", "formatted", "created"}
    BY <2>2 DEF DoesWhatItSays
  <2>3. CASE said' \in {"built", "formatted", "created"}
    <3>1. (WriteFile(p) /\ LastOutput(cmd[p])) \/ RemoveGenerated(p)
      BY <1>1, <2>1, <2>3, WhoEnds
    <3> QED  BY <1>1, <3>1, BuildTakesEffect, WriterTakesEffect
  <2> QED  BY <2>2, <2>3
<1> QED  BY <1>1, Invariance, PTL DEF Spec, SoleCommandTakesEffect
=============================================================================
