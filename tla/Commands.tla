------------------------------ MODULE Commands ------------------------------
(***************************************************************************)
(* The commands that write into a project: dmc new, init, fmt and build    *)
(* (compiler/dmc.cpp) and the build command of tools/dmc_host.py.  They    *)
(* are processes in one directory, without locks, and so is the user's     *)
(* editor; one action is one file system call of one process.  A file is   *)
(* truncated when it is opened and written when it is closed, and no       *)
(* command looks at how that went.                                         *)
(*                                                                         *)
(* A generated C file and a binary are given by the source they are made   *)
(* from.  A kill reaches the processes a command has started as well.  The *)
(* editor writes a file at once; nothing but build deletes one.            *)
(***************************************************************************)
EXTENDS Formatter

CONSTANTS
  Procs,     \* dmc processes
  Starts,    \* what is in the source files of a project at first
  Edits,     \* what the user may save in one
  MaxBegun,  \* bound: commands and saves
  Faults     \* what can go wrong besides, a subset of AllFaults

AllFaults ==
  {"kill",     \* a command ends at any point
   "full"}     \* a write loses bytes

(* Missing and Torn stand for no file and for a spoilt one: they are no    *)
(* text that anybody writes.                                               *)
Missing == <<Line(0, "missing")>>
Torn    == <<Line(0, "torn")>>
Blank   == <<>>
Texts   == Seq([lead : Nat, rest : STRING \ {"missing", "torn"}])

ASSUME CommandsAssumption ==
  /\ Faults \subseteq AllFaults
  /\ MaxBegun \in Nat
  /\ Starts \subseteq Texts
  /\ Edits \subseteq Texts

VARIABLES
  made,    \* does the directory of the project exist
  disk,    \* file -> what is in it, or Missing
  cmd,     \* process -> the command it is at
  said,    \* what the last step said, "nothing" when no command ended
  begun,   \* bound: commands begun and files saved so far
  saved,   \* source -> what its user last put there, by new or by hand
  harmed,  \* files of the project that a kill, a lost write or two
           \* writers may have spoiled
  left     \* generated files that a failed or killed build has left behind

vars   == <<made, disk, cmd, said, begun, saved, harmed, left>>
ghosts == <<begun, saved, harmed, left>>

Sources == {"main", "test"}
Project == <<"toml", "main", "test", "ignore">>
Native  == "build.generated.c"
Dist    == [main |-> "dist/main.generated.c", test |-> "dist/test.generated.c"]
Bin     == [main |-> "bin/main", test |-> "bin/test"]
Generateds == {Native} \cup {Dist[s] : s \in Sources}
Files   == ToSet(Project) \cup Generateds \cup {Bin[s] : s \in Sources}

(* What new writes into a file. *)
Template(f) == <<Line(0, "f {"), Line(4, f), Line(0, "}")>>

Command(op, s, step, todo) ==
  [op |-> op, source |-> s, step |-> step,
   todo   |-> todo,     \* files still to be written
   text   |-> Blank,    \* what it has read
   linked |-> FALSE,    \* the file it has open is the one in the directory
   alone  |-> TRUE]     \* nobody else has been at its files

Idle == [Command("none", "main", "idle", <<>>) EXCEPT !.alone = FALSE]

(* A process that takes no part. *)
Away == [Idle EXCEPT !.step = "away"]

At(p, step) == cmd[p].step = step
Builds(c)   == c.op \in {"build", "host_build"}

(* The file a command writes next; a build goes on to its binary.          *)
Target(c)    == Head(c.todo)
Generated(c) == IF c.op = "build" THEN Native ELSE Dist[c.source]

(* The files a command writes, and all that it uses. *)
Writes(c) ==
  CASE Builds(c)    -> {Generated(c), Bin[c.source]}
    [] c.op = "fmt"   -> {c.source}
    [] c.op = "new"   -> ToSet(Project)
    [] c.op = "init"  -> {"toml"}
    [] OTHER          -> {}
Uses(c) ==
  Writes(c) \cup (IF Builds(c) \/ c.op \in {"fmt", "check"} THEN {c.source} ELSE {})

Disturb(c, d) ==
  Writes(c) \cap Uses(d) # {} \/ Uses(c) \cap Writes(d) # {}

Init ==
  /\ made \in BOOLEAN
  /\ \E t \in IF made THEN Starts ELSE {Missing} : saved = [s \in Sources |-> t]
  /\ disk = [f \in Files |->
       IF ~made \/ f \notin ToSet(Project) THEN Missing
       ELSE IF f \in Sources THEN saved[f] ELSE Template(f)]
  /\ cmd \in [Procs -> {Idle, Away}]
  /\ said   = "nothing"
  /\ begun \in 0 .. MaxBegun
  /\ harmed = {}
  /\ left   = {}

-----------------------------------------------------------------------------
(* What the steps share. *)

Says(message) == said' = message
Silent        == Says("nothing")

Refuses == Says("refused") /\ UNCHANGED <<made, disk, cmd, ghosts>>

Counts == begun < MaxBegun /\ begun' = begun + 1

Begins(p, c) ==
  /\ cmd' = [q \in Procs |->
       IF q = p THEN [c EXCEPT !.alone = \A r \in Procs : ~Disturb(c, cmd[r])]
       ELSE [cmd[q] EXCEPT !.alone = @ /\ ~Disturb(c, cmd[q])]]
  /\ harmed' = harmed \cup
       {f \in Writes(c) \cap ToSet(Project) : \E q \in Procs : f \in Writes(cmd[q])}
  /\ Counts
  /\ Silent
  /\ UNCHANGED <<made, disk, saved, left>>

Goes(p, step) == cmd' = [cmd EXCEPT ![p].step = step]

Ends(p, message) ==
  /\ cmd'  = [cmd EXCEPT ![p] = Idle]
  /\ Says(message)

Puts(f, text) == disk' = [disk EXCEPT ![f] = text]

-----------------------------------------------------------------------------
(* How the commands begin. *)

new_project(p) ==
  /\ At(p, "idle")
  /\ IF made THEN Refuses ELSE Begins(p, Command("new", "main", "mkdir", Project))

init_project(p) ==
  /\ At(p, "idle")
  /\ made
  /\ IF disk["toml"] # Missing THEN Refuses
     ELSE Begins(p, Command("init", "main", "open", <<"toml">>))

(* fmt, with op "check" for fmt --check *)
cmd_fmt(p, op, s) ==
  /\ At(p, "idle")
  /\ IF disk[s] = Missing THEN Refuses
     ELSE Begins(p, Command(op, s, "read", <<s>>))

cmd_build(p, s) ==
  /\ At(p, "idle")
  /\ IF disk[s] = Missing THEN Refuses
     ELSE Begins(p, Command("build", s, "read", <<Native>>))

(* dmc_host.py leaves it to the compiler to miss the source. *)
command_build(p, s) ==
  /\ At(p, "idle")
  /\ made
  /\ Begins(p, Command("host_build", s, "read", <<Dist[s]>>))

CreateDirectories(p) ==
  /\ At(p, "mkdir")
  /\ made' = TRUE
  /\ Goes(p, "open")
  /\ Silent
  /\ UNCHANGED <<disk, ghosts>>

-----------------------------------------------------------------------------
(* Reading: fmt, and the compiler when a build has started it. *)

Erroneous(text) == \E i \in DOMAIN text : text[i].rest \in {"oops", "torn"}

(* The compiler gives up before it opens its output. *)
Unreadable(c, text) == Builds(c) /\ (text = Missing \/ Unterminated(text))

BugLosesLastLine(text) == format_dmc_code(SubSeq(text, 1, Len(text) - 1))

(* fmt formats twice, and --check compares. *)
Formatted(text) == format_dmc_code(format_dmc_code(text))

ReadSource(p) ==
  /\ At(p, "read")
  /\ LET text == disk[cmd[p].source] IN
     \/ Unreadable(cmd[p], text) /\ Ends(p, "failed")
     \/ /\ cmd[p].op = "check"
        /\ Ends(p, IF text = Formatted(text) THEN "is formatted" ELSE "differs")
     \/ /\ ~Unreadable(cmd[p], text)
        /\ cmd[p].op # "check"
        /\ cmd' = [cmd EXCEPT ![p] = [@ EXCEPT !.text = text, !.step = "open"]]
        /\ Silent
  /\ UNCHANGED <<made, disk, ghosts>>

-----------------------------------------------------------------------------
(* Writing. *)

Output(c) ==
  CASE Builds(c)    -> c.text
    [] c.op = "fmt" -> Formatted(c.text)
    [] OTHER        -> Template(Target(c))

OpenOutput(p) ==
  /\ At(p, "open")
  /\ Puts(Target(cmd[p]), Blank)
  /\ cmd' = [cmd EXCEPT ![p] = [@ EXCEPT !.step = "write", !.linked = TRUE]]
  /\ Silent
  /\ UNCHANGED <<made, ghosts>>

(* Two who have a file open write over one another: a longer text keeps    *)
(* its tail.                                                               *)
Results(old, text) ==
  {text} \cup IF old \in {Blank, text} /\ "full" \notin Faults THEN {} ELSE {Torn}

Written(p) ==
  LET f == Target(cmd[p]) IN
  \E text \in Results(disk[f], Output(cmd[p])) :
    /\ IF cmd[p].linked THEN Puts(f, text) ELSE UNCHANGED disk
    /\ harmed' = IF text = Torn THEN harmed \cup ({f} \cap ToSet(Project)) ELSE harmed

BugStopsEarly(c) == Len(c.todo) < 3

LastOutput(c) == Len(c.todo) = 1

(* new and init go on to the next file, or say what they did. *)
WriteFile(p) ==
  /\ At(p, "write")
  /\ ~Builds(cmd[p])
  /\ Written(p)
  /\ saved' = [s \in Sources |->
       IF s = Target(cmd[p]) /\ saved[s] = Missing THEN Template(s) ELSE saved[s]]
  /\ IF LastOutput(cmd[p])
     THEN Ends(p, IF cmd[p].op = "fmt" THEN "formatted" ELSE "created")
     ELSE /\ cmd' = [cmd EXCEPT ![p] =
               [@ EXCEPT !.step = "open", !.todo = Tail(cmd[p].todo), !.linked = FALSE]]
          /\ Silent
  /\ UNCHANGED <<made, begun, left>>

(* The compiler writes what it has, and says afterwards that it failed.    *)
WriteGenerated(p) ==
  /\ At(p, "write")
  /\ Builds(cmd[p])
  /\ Written(p)
  /\ IF Erroneous(cmd[p].text)
     THEN Ends(p, "failed") /\ left' = left \cup {Generated(cmd[p])}
     ELSE /\ cmd' = [cmd EXCEPT ![p] =
               [@ EXCEPT !.step = "cc", !.text = Blank, !.linked = FALSE]]
          /\ Silent
          /\ UNCHANGED left
  /\ UNCHANGED <<made, begun, saved>>

-----------------------------------------------------------------------------
(* The C compiler reads the file of that name, whoever has written it, and *)
(* build removes it.                                                       *)

ReadGenerated(p) ==
  /\ At(p, "cc")
  /\ LET text == disk[Generated(cmd[p])] IN
     IF text \in {Missing, Blank, Torn} THEN Goes(p, "give up")
     ELSE cmd' = [cmd EXCEPT ![p] = [@ EXCEPT !.step = "link", !.text = text]]
  /\ Silent
  /\ UNCHANGED <<made, disk, ghosts>>

WriteBinary(p) ==
  /\ At(p, "link")
  /\ Puts(Bin[cmd[p].source], cmd[p].text)
  /\ Goes(p, "remove")
  /\ Silent
  /\ UNCHANGED <<made, ghosts>>

Removed(p) == IF At(p, "remove") THEN "built" ELSE "failed"

BugUnlinksNobody(p) ==
  /\ At(p, "remove") \/ At(p, "give up")
  /\ Puts(Generated(cmd[p]), Missing)
  /\ Ends(p, Removed(p))
  /\ left' = left \ {Generated(cmd[p])}
  /\ UNCHANGED <<made, begun, saved, harmed>>

BugKeptOnFailure(p) ==
  /\ At(p, "remove") \/ At(p, "give up")
  /\ IF At(p, "remove") THEN Puts(Generated(cmd[p]), Missing) ELSE UNCHANGED disk
  /\ Ends(p, Removed(p))
  /\ UNCHANGED <<made, ghosts>>

(* Whoever has the file open goes on writing to a file that has no name.   *)
RemoveGenerated(p) ==
  /\ At(p, "remove") \/ At(p, "give up")
  /\ LET g == Generated(cmd[p]) IN
     /\ Puts(g, Missing)
     /\ left' = left \ {g}
     /\ cmd' = [q \in Procs |->
          IF q = p THEN Idle
          ELSE [cmd[q] EXCEPT !.linked = @ /\ Target(cmd[q]) # g]]
  /\ Says(Removed(p))
  /\ UNCHANGED <<made, begun, saved, harmed>>

-----------------------------------------------------------------------------
(* The user saves a source from the editor. *)
Save(s, text) ==
  /\ made
  /\ Puts(s, text)
  /\ saved' = [saved EXCEPT ![s] = text]
  /\ cmd' = [q \in Procs |-> [cmd[q] EXCEPT !.alone = @ /\ s \notin Uses(cmd[q])]]
  /\ harmed' = IF \E q \in Procs : s \in Writes(cmd[q]) THEN harmed \cup {s}
                                                        ELSE harmed \ {s}
  /\ Counts
  /\ Silent
  /\ UNCHANGED <<made, left>>

(* A process is killed wherever it is: what it has open is lost, and so is *)
(* what new has not got to.                                                *)
Unfinished(c) ==
  IF c.op \in {"new", "init"} THEN ToSet(c.todo)
  ELSE IF c.step = "write" THEN {Target(c)} ELSE {}

Kill(p) ==
  /\ "kill" \in Faults
  /\ cmd[p].op # "none"
  /\ Ends(p, "died")
  /\ harmed' = harmed \cup (Unfinished(cmd[p]) \cap ToSet(Project))
  /\ left' = left \cup (IF Builds(cmd[p]) THEN {Generated(cmd[p])} ELSE {})
  /\ UNCHANGED <<made, disk, begun, saved>>

Next ==
  \/ \E p \in Procs :
       \/ new_project(p) \/ init_project(p)
       \/ \E s \in Sources : \/ cmd_build(p, s) \/ command_build(p, s)
                             \/ \E op \in {"fmt", "check"} : cmd_fmt(p, op, s)
       \/ CreateDirectories(p) \/ ReadSource(p)
       \/ OpenOutput(p) \/ WriteFile(p) \/ WriteGenerated(p)
       \/ ReadGenerated(p) \/ WriteBinary(p) \/ RemoveGenerated(p)
       \/ Kill(p)
  \/ \E s \in Sources, text \in Edits : Save(s, text)

Spec == Init /\ [][Next]_vars

-----------------------------------------------------------------------------
Ops   == {"none", "new", "init", "fmt", "check", "build", "host_build"}
Steps == {"idle", "away", "mkdir", "read", "open", "write", "cc", "link",
          "remove", "give up"}

(* A file that a command has open under its name is there.                 *)
TypeOK ==
  /\ made \in BOOLEAN
  /\ \A p \in Procs :
       /\ cmd[p].op \in Ops /\ cmd[p].step \in Steps /\ cmd[p].source \in Sources
       /\ ToSet(cmd[p].todo) \subseteq Files
       /\ cmd[p].step \in {"open", "write"} => cmd[p].todo # <<>>
       /\ cmd[p].linked => disk[Target(cmd[p])] # Missing
  /\ DOMAIN disk = Files
  /\ DOMAIN saved = Sources
  /\ begun \in 0 .. MaxBegun
  /\ harmed \subseteq ToSet(Project)
  /\ left \subseteq Generateds

BeingWritten(f) == \E p \in Procs : f \in Writes(cmd[p])

(* Whatever commands are run on it, in whatever order, a source stays the  *)
(* program its user has put there; unless a command was killed or short of *)
(* space while it wrote it, or two wrote it at a time; or a string in it   *)
(* goes on over the end of a line, which fmt indents.                      *)
SourcesSurvive ==
  \A s \in Sources \ harmed :
    BeingWritten(s) \/ SpansLines(saved[s])
      \/ Program(disk[s]) = Program(saved[s])

(* A project that is there has all its files, unless new was interrupted   *)
(* or run twice at a time.                                                 *)
ProjectIsWhole ==
  made => \A f \in ToSet(Project) \ harmed :
    BeingWritten(f) \/ disk[f] \notin {Missing, Torn}

(* No generated file is left over but by a compilation that failed or a    *)
(* build that was killed.                                                  *)
LeftoverHasACause ==
  \A g \in Generateds :
    disk[g] # Missing => g \in left \/ BeingWritten(g)

(* A command whose files nobody else was at does what it says: build has   *)
(* made the binary of its own source, whatever an earlier build has left   *)
(* behind; fmt has kept the program and left nothing for --check to find.  *)
(* Commands on other files do not disturb it.                              *)
DoesWhatItSays(p) ==
  LET c == cmd[p] IN
  /\ said' = "built" =>
       disk'[Bin[c.source]] = disk[c.source] /\ disk'[Generated(c)] = Missing
  /\ said' = "formatted" =>
       /\ disk'[c.source] = Formatted(disk'[c.source])
       /\ SpansLines(c.text) \/ Program(disk'[c.source]) = Program(c.text)
  /\ said' = "created" => \A f \in Writes(c) : disk'[f] = Template(f)

SoleCommandTakesEffect ==
  [][\A p \in Procs :
       (cmd[p].alone /\ cmd[p]'.op = "none" /\ Writes(cmd[p]) \cap harmed' = {})
         => DoesWhatItSays(p)]_vars
=============================================================================
