---------------------------- MODULE PackageStore ----------------------------
(***************************************************************************)
(* compiler/dmc.cpp, cmd_pkg and what it calls: the packages of a user are *)
(* directories under $HOME/.dmc/packages, each with a dmc.toml.  Nothing   *)
(* locks them, and a command is a series of file system calls.  One action *)
(* is one such call of one dmc process, so that another process, or the    *)
(* end of this one, may come in between.                                   *)
(*                                                                         *)
(* search, list and publish only print, and resolve_dependencies only      *)
(* reads the project's own dmc.toml; they are left out.  A version is a    *)
(* number, in the order its text has in the registry.                      *)
(***************************************************************************)
EXTENDS Integers, Sequences, SequencesExt

CONSTANTS
  Procs,     \* dmc processes
  Names,     \* package names a user may type
  Registry,  \* search_registry: name -> versions on offer, newest first
  Asked,     \* versions a user may ask for, 0 for none
  Faults     \* what can go wrong besides, a subset of AllFaults

AllFaults ==
  {"kill",     \* a process ends at any point
   "write"}    \* dmc.toml cannot be opened for writing

ASSUME RegistryAssumption ==
  /\ Registry \in [Names -> Seq(Nat \ {0})]
  /\ Asked \subseteq Nat
  /\ Faults \subseteq AllFaults

VARIABLES
  store,   \* name -> version in its dmc.toml, or one of the states below
  cmd,     \* process -> the command it is at
  said,    \* process -> how its last command ended
  lost     \* half-done packages at which a process has died

vars == <<store, cmd, said, lost>>

(* No directory; a directory without dmc.toml; a dmc.toml with nothing in it. *)
Absent == -2
Bare   == -1
Blank  == 0
Half   == {Bare, Blank}
Listed(n) == store[n] \notin {Absent, Bare}

Steps == {"list", "mkdir", "open", "write", "unlink", "rmdir"}

Idle == [op |-> "none", name |-> "", version |-> 0, step |-> "idle",
         linked |-> FALSE, alone |-> FALSE]

Command(op, n, v, step) ==
  [op |-> op, name |-> n, version |-> v, step |-> step,
   linked |-> FALSE,   \* the dmc.toml it has open is the one in the directory
   alone  |-> TRUE]    \* no other process has been at this package meanwhile

At(p, step) == cmd[p].step = step
Works(p, n) == ~At(p, "idle") /\ cmd[p].name = n

Init ==
  /\ store = [n \in Names |-> Absent]
  /\ cmd   = [p \in Procs |-> Idle]
  /\ said  = [p \in Procs |-> "nothing"]
  /\ lost  = {}

-----------------------------------------------------------------------------
(* What the steps share. *)

Begins(p, c) ==
  /\ At(p, "idle")
  /\ cmd' = [q \in Procs |->
       IF q = p THEN [c EXCEPT !.alone = \A r \in Procs : ~Works(r, c.name)]
       ELSE IF Works(q, c.name) THEN [cmd[q] EXCEPT !.alone = FALSE]
       ELSE cmd[q]]
  /\ UNCHANGED <<store, said, lost>>

Goes(p, step) == cmd' = [cmd EXCEPT ![p].step = step]

Ends(p, message) ==
  /\ cmd'  = [cmd EXCEPT ![p] = Idle]
  /\ said' = [said EXCEPT ![p] = message]

(* A command that is refused at once touches no file. *)
Refuses(p) ==
  /\ At(p, "idle")
  /\ said' = [said EXCEPT ![p] = "refused"]
  /\ UNCHANGED <<store, cmd, lost>>

Puts(n, state) ==
  /\ store' = [store EXCEPT ![n] = state]
  /\ lost'  = lost \ (IF state \in Half THEN {} ELSE {n})

-----------------------------------------------------------------------------
(* install_package *)

Offers(n, v)  == v \in ToSet(Registry[n])
Wanted(n, v)  == IF v = 0 THEN Registry[n][1] ELSE v
BugOffersAnything(n, v) == Registry[n] # <<>>
Installs(n, v) == Registry[n] # <<>> /\ Offers(n, Wanted(n, v))

install_package(p, n, v) ==
  \/ ~Installs(n, v) /\ Refuses(p)
  \/ Installs(n, v) /\ Begins(p, Command("install", n, Wanted(n, v), "mkdir"))

(* write_package_meta: create_directories, then an ofstream, which empties *)
(* the file it opens and writes on close.  Its result is not looked at.    *)
BugNoDirectory(p) ==
  /\ At(p, "mkdir")
  /\ Goes(p, "open")
  /\ UNCHANGED <<store, said, lost>>

create_directories(p) ==
  /\ At(p, "mkdir")
  /\ Goes(p, "open")
  /\ LET n == cmd[p].name
     IN  IF store[n] = Absent THEN Puts(n, Bare) ELSE UNCHANGED <<store, lost>>
  /\ UNCHANGED said

OpenFails(p) ==
  /\ At(p, "open")
  /\ store[cmd[p].name] = Absent \/ "write" \in Faults
  /\ Ends(p, "installed")
  /\ UNCHANGED <<store, lost>>

OpenManifest(p) ==
  /\ At(p, "open")
  /\ store[cmd[p].name] # Absent
  /\ cmd' = [cmd EXCEPT ![p].step = "write", ![p].linked = TRUE]
  /\ Puts(cmd[p].name, Blank)
  /\ UNCHANGED said

WriteManifest(p) ==
  /\ At(p, "write")
  /\ IF cmd[p].linked THEN Puts(cmd[p].name, cmd[p].version)
                      ELSE UNCHANGED <<store, lost>>
  /\ Ends(p, "installed")

-----------------------------------------------------------------------------
(* update_package: installed_packages reads the version with its quotes,   *)
(* and a quote sorts before any digit.                                     *)

Text(v, quoted) == [quoted |-> quoted, rank |-> v]
Before(s, t) == IF s.quoted # t.quoted THEN s.quoted ELSE s.rank < t.rank

Outdated(n) ==
  \/ ~Listed(n) \/ store[n] = Blank
  \/ Before(Text(store[n], TRUE), Text(Registry[n][1], FALSE))

update_package(p, n) ==
  \/ Registry[n] = <<>> /\ Refuses(p)
  \/ Registry[n] # <<>> /\ Begins(p, Command("update", n, Registry[n][1], "list"))

CompareVersions(p) ==
  /\ At(p, "list")
  /\ cmd[p].op = "update"
  /\ IF Outdated(cmd[p].name) THEN Goes(p, "mkdir") /\ UNCHANGED said
                              ELSE Ends(p, "up to date")
  /\ UNCHANGED <<store, lost>>

-----------------------------------------------------------------------------
(* uninstall_package: remove_all empties the directory, then removes it.   *)

uninstall_package(p, n) == Begins(p, Command("uninstall", n, 0, "list"))

FindPackage(p) ==
  /\ At(p, "list")
  /\ cmd[p].op = "uninstall"
  /\ IF Listed(cmd[p].name) THEN Goes(p, "unlink") /\ UNCHANGED said
                            ELSE Ends(p, "refused")
  /\ UNCHANGED <<store, lost>>

BugManifestOnly(p) ==
  /\ At(p, "unlink")
  /\ Puts(cmd[p].name, Bare)
  /\ Ends(p, "uninstalled")

(* Another process has removed it all since FindPackage. *)
NothingToRemove(p) ==
  /\ At(p, "unlink")
  /\ store[cmd[p].name] = Absent
  /\ Ends(p, "uninstalled")
  /\ UNCHANGED <<store, lost>>

(* Whoever has the file open goes on writing to a file that has no name. *)
RemoveManifest(p) ==
  /\ At(p, "unlink")
  /\ store[cmd[p].name] # Absent
  /\ LET n == cmd[p].name IN
     /\ IF Listed(n) THEN Puts(n, Bare) ELSE UNCHANGED <<store, lost>>
     /\ cmd' = [q \in Procs |->
          IF q = p THEN [cmd[q] EXCEPT !.step = "rmdir"]
          ELSE IF cmd[q].name = n THEN [cmd[q] EXCEPT !.linked = FALSE]
          ELSE cmd[q]]
  /\ UNCHANGED said

RemoveDirectory(p) ==
  /\ At(p, "rmdir")
  /\ ~Listed(cmd[p].name)
  /\ Puts(cmd[p].name, Absent)
  /\ Ends(p, "uninstalled")

(* Somebody has written a dmc.toml again: remove_all throws, and nothing   *)
(* catches what a pkg command throws.                                      *)
DirectoryNotEmpty(p) ==
  /\ At(p, "rmdir")
  /\ Listed(cmd[p].name)
  /\ Ends(p, "died")
  /\ UNCHANGED <<store, lost>>

-----------------------------------------------------------------------------
(* A process is killed wherever it is. *)
Kill(p) ==
  /\ "kill" \in Faults
  /\ ~At(p, "idle")
  /\ Ends(p, "died")
  /\ lost' = lost \cup ({cmd[p].name} \cap {n \in Names : store[n] \in Half})
  /\ UNCHANGED store

Next ==
  \E p \in Procs :
    \/ \E n \in Names :
         \/ \E v \in Asked : install_package(p, n, v)
         \/ update_package(p, n)
         \/ uninstall_package(p, n)
    \/ create_directories(p) \/ OpenFails(p) \/ OpenManifest(p)
    \/ WriteManifest(p)
    \/ CompareVersions(p)
    \/ FindPackage(p) \/ NothingToRemove(p) \/ RemoveManifest(p)
    \/ RemoveDirectory(p)
    \/ DirectoryNotEmpty(p)
    \/ Kill(p)

Spec == Init /\ [][Next]_vars

-----------------------------------------------------------------------------
Commands ==
  [op : {"none", "install", "update", "uninstall"}, name : Names \cup {""},
   version : Nat, step : Steps \cup {"idle"}, linked : BOOLEAN, alone : BOOLEAN]

Messages ==
  {"nothing", "refused", "installed", "up to date", "uninstalled", "died"}

(* A dmc.toml only ever names a version the registry has of that package.  *)
TypeOK ==
  /\ store \in [Names -> Int]
  /\ cmd \in [Procs -> Commands]
  /\ \A n \in Names : store[n] \in {Absent, Bare, Blank} \cup ToSet(Registry[n])
  /\ \A p \in Procs :
       /\ cmd[p].step \in Steps => cmd[p].name \in Names
       /\ cmd[p].step \in {"mkdir", "open", "write"} =>
            Offers(cmd[p].name, cmd[p].version)
       /\ At(p, "list") /\ cmd[p].op = "update" =>
            Offers(cmd[p].name, cmd[p].version)
  /\ said \in [Procs -> Messages]
  /\ lost \subseteq Names

(* A package that is neither there nor gone is one that a process is still *)
(* at, or one at which a process has died: commands that overlap, however  *)
(* they interleave, leave nothing half-done behind, and installing the     *)
(* package again repairs what a dead process left.                         *)
HalfDoneHasACause ==
  \A n \in Names : store[n] \in Half =>
    n \in lost \/ \E p \in Procs : Works(p, n)

(* A command that had the package to itself from start to end has done     *)
(* what it says: the version it names is installed, or the package is gone.*)
SoleCommandTakesEffect ==
  [][\A p \in Procs :
       (~At(p, "idle") /\ cmd[p].alone /\ At(p, "idle")') =>
         /\ said'[p] = "installed" => store'[cmd[p].name] = cmd[p].version
         /\ said'[p] = "uninstalled" => store'[cmd[p].name] = Absent]_vars
=============================================================================
