------------------------- MODULE PackageStoreProofs -------------------------
(***************************************************************************)
(* Proofs about PackageStore for any number of processes and any registry. *)
(***************************************************************************)
EXTENDS PackageStore, TLAPS

(* HalfDoneHasACause is not inductive: that some process is at a package   *)
(* does not say that it will clear it away.  An empty dmc.toml needs the   *)
(* process that has this very file open, an empty directory one that is    *)
(* about to write into it or to remove it.                                 *)
Writer(p, n)  == At(p, "write") /\ cmd[p].name = n /\ cmd[p].linked
Clearer(p, n) == cmd[p].step \in {"open", "rmdir"} /\ cmd[p].name = n

Cause(n) ==
  /\ store[n] = Blank => n \in lost \/ \E p \in Procs : Writer(p, n)
  /\ store[n] = Bare  => n \in lost \/ \E p \in Procs : Clearer(p, n)

IInv == TypeOK /\ \A n \in Names : Cause(n)

-----------------------------------------------------------------------------
LEMMA VersionsArePositive ==
  ASSUME NEW n \in Names, NEW v \in ToSet(Registry[n])
  PROVE  v \in Nat \ {0}
BY RegistryAssumption DEF ToSet

(* What a process is at when it takes one of the steps of a command. *)
LEMMA AtWork ==
  ASSUME TypeOK, NEW p \in Procs, cmd[p].step \in Steps
  PROVE  cmd[p] \in Commands /\ cmd[p].name \in Names
BY DEF TypeOK

LEMMA WantedIsOffered ==
  ASSUME NEW n \in Names, NEW v \in Asked, Installs(n, v)
  PROVE  Offers(n, Wanted(n, v)) /\ Wanted(n, v) \in Nat
<1>1. Wanted(n, v) \in ToSet(Registry[n])
  BY DEF Installs, Offers
<1> QED
  BY <1>1, VersionsArePositive DEF Offers

LEMMA NewestIsOffered ==
  ASSUME NEW n \in Names, Registry[n] # <<>>
  PROVE  Offers(n, Registry[n][1]) /\ Registry[n][1] \in Nat
<1>1. 1 \in DOMAIN Registry[n]
  BY RegistryAssumption
<1> QED
  BY <1>1, VersionsArePositive DEF Offers, ToSet

LEMMA InitType == Init => TypeOK
<1> SUFFICES ASSUME Init
             PROVE  TypeOK
  OBVIOUS
<1>1. Idle \in Commands /\ Idle.step = "idle"
  BY DEF Idle, Commands
<1>2. cmd \in [Procs -> Commands] /\ \A p \in Procs : cmd[p].step = "idle"
  BY <1>1 DEF Init
<1>3. store \in [Names -> Int] /\ \A n \in Names : store[n] = Absent
  BY DEF Init, Absent
<1>4. said \in [Procs -> Messages] /\ lost \subseteq Names
  BY DEF Init, Messages
<1> QED
  BY <1>2, <1>3, <1>4 DEF TypeOK, At, Steps

(* What a step has to keep of a command. *)
Typed(c) ==
  /\ c \in Commands
  /\ c.step \in Steps => c.name \in Names
  /\ c.step \in {"mkdir", "open", "write"} => Offers(c.name, c.version)
  /\ c.step = "list" /\ c.op = "update" => Offers(c.name, c.version)

LEMMA BeginsTyped ==
  ASSUME TypeOK, NEW p \in Procs, NEW c, Typed(c), Begins(p, c)
  PROVE  TypeOK'
<1>1. ASSUME NEW q \in Procs
      PROVE  Typed(cmd'[q])
  <2>1. Typed(cmd[q])
    BY DEF TypeOK, Typed, At
  <2>2. \/ \E b \in BOOLEAN : cmd'[q] = [c EXCEPT !.alone = b]
        \/ cmd'[q] = [cmd[q] EXCEPT !.alone = FALSE]
        \/ cmd'[q] = cmd[q]
    BY DEF Begins
  <2>3. ASSUME NEW d, Typed(d), NEW b \in BOOLEAN
        PROVE  Typed([d EXCEPT !.alone = b])
    BY <2>3 DEF Typed, Commands
  <2> QED
    BY <2>1, <2>2, <2>3
<1>2. cmd' \in [Procs -> Commands]
  BY <1>1 DEF Begins, Typed
<1> QED
  BY <1>1, <1>2 DEF Begins, TypeOK, Typed, At

(* A process moves on or ends its command; the store keeps its types. *)
StoreOK ==
  /\ store' \in [Names -> Int]
  /\ \A n \in Names : store'[n] \in {Absent, Bare, Blank} \cup ToSet(Registry[n])
  /\ lost' \subseteq Names

LEMMA PutsType ==
  ASSUME TypeOK, NEW n \in Names, NEW v, Puts(n, v),
         v \in {Absent, Bare, Blank} \cup ToSet(Registry[n])
  PROVE  StoreOK
BY VersionsArePositive DEF Puts, TypeOK, StoreOK, Absent, Bare, Blank

LEMMA SameStoreType ==
  ASSUME TypeOK, UNCHANGED <<store, lost>>
  PROVE  StoreOK
BY DEF TypeOK, StoreOK

LEMMA MovesTyped ==
  ASSUME TypeOK, StoreOK, said' \in [Procs -> Messages],
         NEW p \in Procs, NEW d, Typed(d), cmd' = [cmd EXCEPT ![p] = d]
  PROVE  TypeOK'
<1>1. ASSUME NEW q \in Procs
      PROVE  Typed(cmd'[q])
  BY DEF TypeOK, Typed, At
<1>2. cmd' \in [Procs -> Commands]
  BY DEF TypeOK, Typed
<1> QED
  BY <1>1, <1>2 DEF StoreOK, TypeOK, Typed, At

LEMMA IdleTyped == Typed(Idle)
BY DEF Typed, Idle, Commands, Steps

LEMMA WorkTyped ==
  ASSUME TypeOK, NEW p \in Procs
  PROVE  Typed(cmd[p])
BY DEF TypeOK, Typed, At

LEMMA EndsTyped ==
  ASSUME TypeOK, StoreOK, NEW p \in Procs, NEW m \in Messages, Ends(p, m)
  PROVE  TypeOK'
<1>1. said' \in [Procs -> Messages]
  BY DEF Ends, TypeOK
<1> QED
  BY <1>1, IdleTyped, MovesTyped DEF Ends

LEMMA GoesTyped ==
  ASSUME TypeOK, StoreOK, UNCHANGED said, NEW p \in Procs, NEW step \in Steps,
         Goes(p, step), cmd[p].step \in Steps,
         step \in {"mkdir", "open", "write"} =>
           Offers(cmd[p].name, cmd[p].version),
         step # "list"
  PROVE  TypeOK'
<1> DEFINE d == [cmd[p] EXCEPT !.step = step]
<1>1. Typed(d)
  BY WorkTyped DEF Typed, Commands, Steps
<1>2. cmd' = [cmd EXCEPT ![p] = d]
  BY DEF Goes, TypeOK
<1> QED
  BY <1>1, <1>2, MovesTyped DEF TypeOK

(* One step per action; a write puts a version the registry offers. *)
LEMMA StepType == TypeOK /\ [Next]_vars => TypeOK'
<1> SUFFICES ASSUME TypeOK, [Next]_vars
             PROVE  TypeOK'
  OBVIOUS
<1>1. CASE UNCHANGED vars
  BY <1>1 DEF vars, TypeOK, At
<1>2. ASSUME NEW p \in Procs, Refuses(p)
      PROVE  TypeOK'
  BY <1>2 DEF Refuses, TypeOK, At, Messages
<1>3. ASSUME NEW p \in Procs, NEW n \in Names, NEW v \in Asked,
             install_package(p, n, v)
      PROVE  TypeOK'
  <2>1. CASE Refuses(p)
    BY <2>1, <1>2
  <2>2. CASE Installs(n, v) /\ Begins(p, Command("install", n, Wanted(n, v), "mkdir"))
    <3>1. Typed(Command("install", n, Wanted(n, v), "mkdir"))
      BY <2>2, WantedIsOffered DEF Typed, Command, Commands, Steps
    <3> QED
      BY <2>2, <3>1, BeginsTyped
  <2> QED
    BY <1>3, <2>1, <2>2 DEF install_package
<1>4. ASSUME NEW p \in Procs, NEW n \in Names, update_package(p, n)
      PROVE  TypeOK'
  <2>1. CASE Refuses(p)
    BY <2>1, <1>2
  <2>2. CASE Registry[n] # <<>> /\ Begins(p, Command("update", n, Registry[n][1], "list"))
    <3>1. Typed(Command("update", n, Registry[n][1], "list"))
      BY <2>2, NewestIsOffered DEF Typed, Command, Commands, Steps
    <3> QED
      BY <2>2, <3>1, BeginsTyped
  <2> QED
    BY <1>4, <2>1, <2>2 DEF update_package
<1>5. ASSUME NEW p \in Procs, NEW n \in Names, uninstall_package(p, n)
      PROVE  TypeOK'
  <2>1. Typed(Command("uninstall", n, 0, "list"))
    BY DEF Typed, Command, Commands, Steps
  <2> QED
    BY <1>5, <2>1, BeginsTyped DEF uninstall_package
<1>6. ASSUME NEW p \in Procs, create_directories(p)
      PROVE  TypeOK'
  <2>1. cmd[p].name \in Names /\ Offers(cmd[p].name, cmd[p].version)
    BY <1>6, AtWork DEF create_directories, At, TypeOK, Steps
  <2>2. StoreOK
    BY <1>6, <2>1, PutsType, SameStoreType DEF create_directories
  <2> QED
    BY <1>6, <2>1, <2>2, GoesTyped DEF create_directories, At, Steps
<1>7. ASSUME NEW p \in Procs, OpenFails(p) \/ NothingToRemove(p) \/ DirectoryNotEmpty(p)
      PROVE  TypeOK'
  BY <1>7, SameStoreType, EndsTyped
     DEF OpenFails, NothingToRemove, DirectoryNotEmpty, Messages
<1>8. ASSUME NEW p \in Procs, OpenManifest(p)
      PROVE  TypeOK'
  <2> DEFINE d == [cmd[p] EXCEPT !.step = "write", !.linked = TRUE]
  <2>1. cmd[p].name \in Names /\ Offers(cmd[p].name, cmd[p].version)
    BY <1>8, AtWork DEF OpenManifest, At, TypeOK, Steps
  <2>2. StoreOK
    BY <1>8, <2>1, PutsType DEF OpenManifest
  <2>3. Typed(d)
    BY <2>1, WorkTyped DEF Typed, Commands, Steps
  <2>4. cmd' = [cmd EXCEPT ![p] = d] /\ UNCHANGED said
    BY <1>8 DEF OpenManifest, TypeOK
  <2> QED
    BY <2>2, <2>3, <2>4, MovesTyped DEF TypeOK
<1>9. ASSUME NEW p \in Procs, WriteManifest(p)
      PROVE  TypeOK'
  <2>1. cmd[p].name \in Names /\ Offers(cmd[p].name, cmd[p].version)
    BY <1>9, AtWork DEF WriteManifest, At, TypeOK, Steps
  <2>2. StoreOK
    BY <1>9, <2>1, PutsType, SameStoreType DEF WriteManifest, Offers
  <2> QED
    BY <1>9, <2>2, EndsTyped DEF WriteManifest, Messages
<1>10. ASSUME NEW p \in Procs, CompareVersions(p)
       PROVE  TypeOK'
  <2>1. cmd[p].name \in Names /\ Offers(cmd[p].name, cmd[p].version)
    BY <1>10, AtWork DEF CompareVersions, At, TypeOK, Steps
  <2>2. StoreOK
    BY <1>10, SameStoreType DEF CompareVersions
  <2>3. CASE Goes(p, "mkdir") /\ UNCHANGED said
    BY <1>10, <2>1, <2>2, <2>3, GoesTyped DEF CompareVersions, At, Steps
  <2>4. CASE Ends(p, "up to date")
    BY <2>2, <2>4, EndsTyped DEF Messages
  <2> QED
    BY <1>10, <2>3, <2>4 DEF CompareVersions
<1>11. ASSUME NEW p \in Procs, FindPackage(p)
       PROVE  TypeOK'
  <2>1. StoreOK
    BY <1>11, SameStoreType DEF FindPackage
  <2>2. CASE Goes(p, "unlink") /\ UNCHANGED said
    BY <1>11, <2>1, <2>2, GoesTyped DEF FindPackage, At, Steps
  <2>3. CASE Ends(p, "refused")
    BY <2>1, <2>3, EndsTyped DEF Messages
  <2> QED
    BY <1>11, <2>2, <2>3 DEF FindPackage
<1>12. ASSUME NEW p \in Procs, RemoveManifest(p)
       PROVE  TypeOK'
  <2>1. cmd[p].name \in Names
    BY <1>12, AtWork DEF RemoveManifest, At, Steps
  <2>2. StoreOK
    BY <1>12, <2>1, PutsType, SameStoreType DEF RemoveManifest
  <2>3. ASSUME NEW q \in Procs
        PROVE  Typed(cmd'[q])
    <3>1. Typed(cmd[q])
      BY WorkTyped
    <3>2. \/ cmd'[q] = [cmd[q] EXCEPT !.step = "rmdir"] /\ cmd[q].step = "unlink"
          \/ cmd'[q] = [cmd[q] EXCEPT !.linked = FALSE]
          \/ cmd'[q] = cmd[q]
      BY <1>12 DEF RemoveManifest, At
    <3> QED
      BY <3>1, <3>2 DEF Typed, Commands, Steps
  <2>4. cmd' \in [Procs -> Commands] /\ UNCHANGED said
    BY <1>12, <2>3 DEF RemoveManifest, Typed
  <2> QED
    BY <2>2, <2>3, <2>4 DEF StoreOK, TypeOK, Typed, At
<1>13. ASSUME NEW p \in Procs, RemoveDirectory(p)
       PROVE  TypeOK'
  <2>1. cmd[p].name \in Names
    BY <1>13, AtWork DEF RemoveDirectory, At, Steps
  <2> QED
    BY <1>13, <2>1, PutsType, EndsTyped DEF RemoveDirectory, Messages
<1>14. ASSUME NEW p \in Procs, Kill(p)
       PROVE  TypeOK'
  <2>1. StoreOK
    BY <1>14 DEF Kill, StoreOK, TypeOK
  <2> QED
    BY <1>14, <2>1, EndsTyped DEF Kill, Messages
<1> QED
  BY <1>1, <1>3, <1>4, <1>5, <1>6, <1>7, <1>8, <1>9, <1>10, <1>11, <1>12, <1>13, <1>14
     DEF Next

-----------------------------------------------------------------------------
(* The cause of n outlives a step of p that leaves n as it is, provided p  *)
(* was not the cause itself.                                               *)
LEMMA CauseStays ==
  ASSUME NEW n \in Names, Cause(n), NEW p \in Procs,
         store'[n] = store[n], n \in lost => n \in lost',
         \A q \in Procs \ {p} : cmd[q].name = n =>
           /\ cmd'[q].name = n
           /\ cmd'[q].step = cmd[q].step
           /\ cmd'[q].linked = cmd[q].linked,
         store[n] = Blank => ~Writer(p, n),
         store[n] = Bare  => ~Clearer(p, n)
  PROVE  Cause(n)'
<1>1. ASSUME NEW q \in Procs, Writer(q, n), store[n] = Blank
      PROVE  Writer(q, n)'
  BY <1>1 DEF Writer, At
<1>2. ASSUME NEW q \in Procs, Clearer(q, n), store[n] = Bare
      PROVE  Clearer(q, n)'
  BY <1>2 DEF Clearer
<1> QED
  BY <1>1, <1>2 DEF Cause

(* A step that changes nothing of the others, and nothing of n. *)
LEMMA CauseStaysHere ==
  ASSUME TypeOK, NEW n \in Names, Cause(n), NEW p \in Procs, NEW d,
         cmd' = [cmd EXCEPT ![p] = d],
         store'[n] = store[n], n \in lost => n \in lost',
         store[n] = Blank => ~Writer(p, n),
         store[n] = Bare  => ~Clearer(p, n)
  PROVE  Cause(n)'
<1>1. \A q \in Procs \ {p} : cmd'[q] = cmd[q]
  BY DEF TypeOK
<1> QED
  BY <1>1, CauseStays

LEMMA PutsElsewhere ==
  ASSUME TypeOK, NEW n \in Names, NEW m, NEW v, Puts(m, v), m # n
  PROVE  store'[n] = store[n] /\ (n \in lost => n \in lost')
BY DEF Puts, TypeOK

LEMMA PutsHere ==
  ASSUME TypeOK, NEW n \in Names, NEW v, Puts(n, v)
  PROVE  store'[n] = v
BY DEF Puts, TypeOK

LEMMA StatesDiffer ==
  /\ Absent # Bare /\ Absent # Blank /\ Bare # Blank
  /\ \A v \in Nat \ {0} : v # Bare /\ v # Blank
BY DEF Absent, Bare, Blank

LEMMA BeginsKeepsCause ==
  ASSUME NEW n \in Names, Cause(n), NEW p \in Procs, NEW c, TypeOK,
         Begins(p, c)
  PROVE  Cause(n)'
<1>1. store'[n] = store[n] /\ lost' = lost /\ ~Writer(p, n) /\ ~Clearer(p, n)
  BY DEF Begins, At, Writer, Clearer
<1>2. ASSUME NEW q \in Procs \ {p}
      PROVE  /\ cmd'[q].name = cmd[q].name
             /\ cmd'[q].step = cmd[q].step
             /\ cmd'[q].linked = cmd[q].linked
  <2>1. cmd'[q] \in {cmd[q], [cmd[q] EXCEPT !.alone = FALSE]}
    BY DEF Begins
  <2>2. cmd[q] \in Commands
    BY DEF TypeOK
  <2> QED
    BY <2>1, <2>2 DEF Commands
<1> QED
  BY <1>1, <1>2, CauseStays

LEMMA CauseStep ==
  ASSUME TypeOK, "write" \notin Faults, [Next]_vars,
         NEW n \in Names, Cause(n)
  PROVE  Cause(n)'
<1>1. CASE UNCHANGED vars
  BY <1>1 DEF vars, Cause, Writer, Clearer, At
<1>2. ASSUME NEW p \in Procs, NEW m \in Names,
             \/ \E v \in Asked : install_package(p, m, v)
             \/ update_package(p, m)
             \/ uninstall_package(p, m)
      PROVE  Cause(n)'
  <2>1. CASE Refuses(p)
    BY <2>1 DEF Refuses, Cause, Writer, Clearer, At
  <2> QED
    BY <1>2, <2>1, BeginsKeepsCause
       DEF install_package, update_package, uninstall_package
<1>3. ASSUME NEW p \in Procs, create_directories(p)
      PROVE  Cause(n)'
  <2> DEFINE d == [cmd[p] EXCEPT !.step = "open"]
  <2>1. cmd' = [cmd EXCEPT ![p] = d] /\ d.step = "open" /\ d.name = cmd[p].name
    BY <1>3 DEF create_directories, Goes, TypeOK, Commands
  <2>2. CASE cmd[p].name = n /\ store[n] = Absent
    <3>1. store'[n] = Bare
      BY <1>3, <2>2, PutsHere DEF create_directories
    <3>2. Clearer(p, n)'
      BY <2>1, <2>2 DEF Clearer, TypeOK
    <3> QED
      BY <3>1, <3>2, StatesDiffer DEF Cause
  <2>3. CASE ~(cmd[p].name = n /\ store[n] = Absent)
    <3>1. store'[n] = store[n] /\ (n \in lost => n \in lost')
      BY <1>3, <2>3, PutsElsewhere DEF create_directories
    <3>2. ~Writer(p, n) /\ ~Clearer(p, n)
      BY <1>3 DEF create_directories, Writer, Clearer, At
    <3> HIDE DEF d
    <3> QED
      BY <2>1, <3>1, <3>2, CauseStaysHere
  <2> QED
    BY <2>2, <2>3
<1>4. ASSUME NEW p \in Procs, OpenFails(p)
      PROVE  Cause(n)'
  <2>1. store[n] = Bare => ~Clearer(p, n)
    BY <1>4, StatesDiffer DEF OpenFails, Clearer
  <2>2. ~Writer(p, n)
    BY <1>4 DEF OpenFails, Writer, At
  <2> QED
    BY <1>4, <2>1, <2>2, CauseStaysHere DEF OpenFails, Ends
<1>5. ASSUME NEW p \in Procs, OpenManifest(p)
      PROVE  Cause(n)'
  <2> DEFINE d == [cmd[p] EXCEPT !.step = "write", !.linked = TRUE]
  <2>1. cmd' = [cmd EXCEPT ![p] = d]
    BY <1>5 DEF OpenManifest, TypeOK
  <2>2. CASE cmd[p].name = n
    <3>1. store'[n] = Blank
      BY <1>5, <2>2, PutsHere DEF OpenManifest
    <3>2. d.step = "write" /\ d.name = n /\ d.linked
      BY <2>2 DEF TypeOK, Commands
    <3>3. Writer(p, n)'
      BY <2>1, <3>2 DEF Writer, At, TypeOK
    <3> QED
      BY <3>1, <3>3, StatesDiffer DEF Cause
  <2>3. CASE cmd[p].name # n
    <3>1. store'[n] = store[n] /\ (n \in lost => n \in lost')
      BY <1>5, <2>3, PutsElsewhere DEF OpenManifest
    <3>2. ~Writer(p, n) /\ ~Clearer(p, n)
      BY <2>3 DEF Writer, Clearer
    <3> HIDE DEF d
    <3> QED
      BY <2>1, <3>1, <3>2, CauseStaysHere
  <2> QED
    BY <2>2, <2>3
<1>6. ASSUME NEW p \in Procs, WriteManifest(p)
      PROVE  Cause(n)'
  <2>1. CASE cmd[p].name = n /\ cmd[p].linked
    <3>1. store'[n] = cmd[p].version
      BY <1>6, <2>1, PutsHere DEF WriteManifest
    <3>2. cmd[p].version \in Nat \ {0}
      BY <1>6, <2>1, VersionsArePositive DEF WriteManifest, At, TypeOK, Offers
    <3> QED
      BY <3>1, <3>2, StatesDiffer DEF Cause
  <2>2. CASE ~(cmd[p].name = n /\ cmd[p].linked)
    <3>1. store'[n] = store[n] /\ (n \in lost => n \in lost')
      BY <1>6, <2>2, PutsElsewhere DEF WriteManifest
    <3>2. ~Writer(p, n) /\ ~Clearer(p, n)
      BY <1>6, <2>2 DEF WriteManifest, Writer, Clearer, At
    <3> QED
      BY <1>6, <3>1, <3>2, CauseStaysHere DEF WriteManifest, Ends
  <2> QED
    BY <2>1, <2>2
<1>7. ASSUME NEW p \in Procs, CompareVersions(p) \/ FindPackage(p) \/ NothingToRemove(p)
      PROVE  Cause(n)'
  <2>1. ~Writer(p, n) /\ ~Clearer(p, n) /\ store' = store /\ lost' = lost
    BY <1>7 DEF CompareVersions, FindPackage, NothingToRemove, Writer, Clearer, At
  <2>2. \E d : cmd' = [cmd EXCEPT ![p] = d]
    BY <1>7 DEF CompareVersions, FindPackage, NothingToRemove, Goes, Ends, TypeOK
  <2> QED
    BY <2>1, <2>2, CauseStaysHere
<1>8. ASSUME NEW p \in Procs, RemoveManifest(p)
      PROVE  Cause(n)'
  <2>1. ~Writer(p, n) /\ ~Clearer(p, n) /\ cmd[p] \in Commands
    BY <1>8 DEF RemoveManifest, Writer, Clearer, At, TypeOK
  <2>2. CASE cmd[p].name = n
    <3>1. Clearer(p, n)'
      BY <1>8, <2>1, <2>2 DEF RemoveManifest, Clearer, Commands
    <3>2. store'[n] # Blank
      <4>1. CASE Listed(n)
        BY <1>8, <2>2, <4>1, PutsHere, StatesDiffer DEF RemoveManifest
      <4>2. CASE ~Listed(n)
        BY <1>8, <2>2, <4>2, StatesDiffer DEF RemoveManifest, Listed
      <4> QED
        BY <4>1, <4>2
    <3> QED
      BY <3>1, <3>2 DEF Cause
  <2>3. CASE cmd[p].name # n
    <3>1. store'[n] = store[n] /\ (n \in lost => n \in lost')
      BY <1>8, <2>3, PutsElsewhere DEF RemoveManifest
    <3>2. \A q \in Procs \ {p} : cmd[q].name = n => cmd'[q] = cmd[q]
      BY <1>8, <2>3 DEF RemoveManifest
    <3> QED
      BY <2>1, <3>1, <3>2, CauseStays
  <2> QED
    BY <2>2, <2>3
<1>9. ASSUME NEW p \in Procs, RemoveDirectory(p)
      PROVE  Cause(n)'
  <2>1. CASE cmd[p].name = n
    BY <1>9, <2>1, PutsHere, StatesDiffer DEF RemoveDirectory, Cause
  <2>2. CASE cmd[p].name # n
    <3>1. ~Writer(p, n) /\ ~Clearer(p, n)
      BY <2>2 DEF Writer, Clearer
    <3>2. store'[n] = store[n] /\ (n \in lost => n \in lost')
      BY <1>9, <2>2, PutsElsewhere DEF RemoveDirectory
    <3> QED
      BY <1>9, <3>1, <3>2, CauseStaysHere DEF RemoveDirectory, Ends
  <2> QED
    BY <2>1, <2>2
<1>10. ASSUME NEW p \in Procs, DirectoryNotEmpty(p)
       PROVE  Cause(n)'
  <2>1. ~Writer(p, n)
    BY <1>10 DEF DirectoryNotEmpty, Writer, At
  <2>2. store[n] = Bare => ~Clearer(p, n)
    BY <1>10 DEF DirectoryNotEmpty, Clearer, Listed
  <2> QED
    BY <1>10, <2>1, <2>2, CauseStaysHere DEF DirectoryNotEmpty, Ends
<1>11. ASSUME NEW p \in Procs, Kill(p)
       PROVE  Cause(n)'
  <2>1. CASE n \in lost'
    BY <2>1 DEF Cause
  <2>2. CASE n \notin lost'
    <3>1. store[n] \in Half => cmd[p].name # n
      BY <1>11, <2>2 DEF Kill
    <3>2. store' = store /\ (n \in lost => n \in lost')
      BY <1>11 DEF Kill
    <3>3. /\ store[n] = Blank => ~Writer(p, n)
          /\ store[n] = Bare  => ~Clearer(p, n)
      BY <3>1 DEF Half, Writer, Clearer
    <3> QED
      BY <1>11, <3>2, <3>3, CauseStaysHere DEF Kill, Ends
  <2> QED
    BY <2>1, <2>2
<1> QED
  BY <1>1, <1>2, <1>3, <1>4, <1>5, <1>6, <1>7, <1>8, <1>9, <1>10, <1>11 DEF Next

-----------------------------------------------------------------------------
(* Whatever the processes do, and whatever fails, a dmc.toml names a       *)
(* version of its package that the registry has, or nothing yet.           *)
THEOREM StoreIsTyped == Spec => []TypeOK
BY InitType, StepType, PTL DEF Spec

LEMMA Inductive == "write" \notin Faults => (Spec => []IInv)
<1> SUFFICES ASSUME "write" \notin Faults
             PROVE  Spec => []IInv
  OBVIOUS
<1>1. Init => IInv
  <2>1. Init => \A n \in Names : Cause(n)
    BY StatesDiffer DEF Init, Cause
  <2> QED
    BY <2>1, InitType DEF IInv
<1>2. IInv /\ [Next]_vars => IInv'
  BY StepType, CauseStep DEF IInv
<1> QED
  BY <1>1, <1>2, PTL DEF Spec

(* Installs, updates and uninstalls of any number of processes, killed     *)
(* anywhere, leave no half-done package that is not being worked on,       *)
(* unless a process died at it.                                            *)
THEOREM NothingHalfDone ==
  "write" \notin Faults => (Spec => []HalfDoneHasACause)
<1>1. IInv => HalfDoneHasACause
  BY DEF IInv, Cause, HalfDoneHasACause, Half, Works, Writer, Clearer, At
<1> QED
  BY <1>1, Inductive, PTL

-----------------------------------------------------------------------------
(* A command that has a package to itself finds it as it left it.          *)

Alone(p) == ~At(p, "idle") /\ cmd[p].alone

Sole(p) ==
  Alone(p) =>
    /\ \A q \in Procs \ {p} : ~Works(q, cmd[p].name)
    /\ At(p, "open") => store[cmd[p].name] # Absent
    /\ At(p, "write") => cmd[p].linked

SInv == TypeOK /\ \A p \in Procs : Sole(p)

(* What a step of q does not do: disturb the package or the command of a   *)
(* process that is alone at another one.                                   *)
Moves(q) ==
  /\ ~At(q, "idle")
  /\ \A n \in Names \ {cmd[q].name} : store'[n] = store[n]
  /\ \A r \in Procs \ {q} :
       /\ cmd'[r].name = cmd[r].name /\ cmd'[r].step = cmd[r].step
       /\ cmd'[r].alone = cmd[r].alone
       /\ cmd'[r].linked = cmd[r].linked \/ cmd[r].name = cmd[q].name
  /\ \/ cmd'[q].step = "idle"
     \/ /\ cmd'[q].name = cmd[q].name /\ cmd'[q].alone = cmd[q].alone
        /\ cmd'[q].step = "open" => store'[cmd[q].name] # Absent
        /\ cmd'[q].step = "write" => cmd'[q].linked

LEMMA MovesKeepsSole ==
  ASSUME SInv, NEW q \in Procs, Moves(q), NEW p \in Procs
  PROVE  Sole(p)'
<1> SUFFICES ASSUME Alone(p)'
             PROVE  /\ \A r \in Procs \ {p} : ~Works(r, cmd[p].name)'
                    /\ At(p, "open")' => store'[cmd'[p].name] # Absent
                    /\ At(p, "write")' => cmd'[p].linked
  BY DEF Sole, Works, At
<1>1. ~At(q, "idle") /\ Sole(p) /\ cmd'[p].step # "idle" /\ cmd'[p].alone
  BY DEF Moves, SInv, Alone, At
<1>2. Alone(p) /\ cmd'[p].name = cmd[p].name
  BY <1>1 DEF Moves, Alone, At
<1>3. \A r \in Procs \ {p} : ~Works(r, cmd[p].name)
  BY <1>1, <1>2 DEF Sole
<1>4. ASSUME NEW r \in Procs \ {p} PROVE ~Works(r, cmd[p].name)'
  <2>1. cmd'[r].step = "idle" \/ cmd'[r].name = cmd[r].name
    BY DEF Moves
  <2>2. cmd'[r].step = "idle" \/ cmd[r].step # "idle"
    BY <1>1 DEF Moves, At
  <2>3. cmd[r].step = "idle" \/ cmd[r].name # cmd[p].name
    BY <1>3 DEF Works, At
  <2> QED
    BY <1>2, <2>1, <2>2, <2>3 DEF Works, At
<1>5. CASE p = q
  BY <1>1, <1>2, <1>4, <1>5 DEF Moves, At
<1>6. CASE p # q
  <2>1. cmd[q].name # cmd[p].name
    BY <1>1, <1>3, <1>6 DEF Works
  <2>2. cmd[p].name \in Names
    <3>1. cmd[p].step # "idle" /\ cmd[p] \in Commands
      BY <1>2 DEF Alone, At, SInv, TypeOK
    <3>2. cmd[p].step \in Steps
      BY <3>1 DEF Commands
    <3> QED
      BY <3>2 DEF SInv, TypeOK
  <2>3. store'[cmd[p].name] = store[cmd[p].name]
    BY <2>1, <2>2 DEF Moves
  <2>4. cmd'[p].step = cmd[p].step /\ cmd'[p].linked = cmd[p].linked
    BY <1>6, <2>1 DEF Moves
  <2> QED
    BY <1>1, <1>2, <1>4, <2>3, <2>4 DEF Sole, At
<1> QED
  BY <1>5, <1>6

LEMMA BeginsKeepsSole ==
  ASSUME SInv, NEW q \in Procs, NEW c \in Commands, c.step \notin {"open", "write", "idle"},
         Begins(q, c), NEW p \in Procs
  PROVE  Sole(p)'
<1> SUFFICES ASSUME Alone(p)'
             PROVE  /\ \A r \in Procs \ {p} : ~Works(r, cmd[p].name)'
                    /\ At(p, "open")' => store'[cmd'[p].name] # Absent
                    /\ At(p, "write")' => cmd'[p].linked
  BY DEF Sole, Works, At
<1> DEFINE b == \A r \in Procs : ~Works(r, c.name)
<1>1. /\ At(q, "idle") /\ store' = store
      /\ cmd'[q] = [c EXCEPT !.alone = b]
      /\ \A r \in Procs \ {q} : cmd'[r] = IF Works(r, c.name)
                                          THEN [cmd[r] EXCEPT !.alone = FALSE]
                                          ELSE cmd[r]
  BY DEF Begins
<1>2. \A r \in Procs : cmd[r] \in Commands
  BY DEF SInv, TypeOK
<1>3. cmd'[q].name = c.name /\ cmd'[q].step = c.step /\ (cmd'[q].alone <=> b)
  <2> HIDE DEF b
  <2> QED
    BY <1>1 DEF Commands
<1>4. \A r \in Procs \ {q} :
        /\ cmd'[r].name = cmd[r].name /\ cmd'[r].step = cmd[r].step
        /\ cmd'[r].linked = cmd[r].linked
        /\ cmd'[r].alone => cmd[r].alone /\ ~Works(r, c.name)
  <2> SUFFICES ASSUME NEW r \in Procs \ {q}
               PROVE  /\ cmd'[r].name = cmd[r].name /\ cmd'[r].step = cmd[r].step
                      /\ cmd'[r].linked = cmd[r].linked
                      /\ cmd'[r].alone => cmd[r].alone /\ ~Works(r, c.name)
    OBVIOUS
  <2>1. CASE Works(r, c.name)
    <3>1. cmd'[r] = [cmd[r] EXCEPT !.alone = FALSE]
      BY <1>1, <2>1
    <3> QED
      BY <1>2, <3>1 DEF Commands
  <2>2. CASE ~Works(r, c.name)
    BY <1>1, <2>2
  <2> QED
    BY <2>1, <2>2
<1>5. CASE p = q
  <2>1. b
    BY <1>3, <1>5 DEF Alone
  <2>2. \A r \in Procs \ {p} : ~Works(r, cmd[p].name)'
    BY <1>3, <1>4, <1>5, <2>1 DEF Works, At
  <2> QED
    BY <1>3, <1>5, <2>2 DEF At
<1>6. CASE p # q
  <2>1. /\ cmd'[p].name = cmd[p].name /\ cmd'[p].step = cmd[p].step
        /\ cmd'[p].linked = cmd[p].linked /\ cmd[p].alone /\ ~Works(p, c.name)
    BY <1>4, <1>6 DEF Alone
  <2>2. Alone(p) /\ c.name # cmd[p].name
    BY <2>1 DEF Alone, At, Works
  <2>3. \A r \in Procs \ {p} : ~Works(r, cmd[p].name)
    BY <2>2 DEF SInv, Sole
  <2>4. ASSUME NEW r \in Procs \ {p} PROVE ~Works(r, cmd[p].name)'
    <3>1. CASE r = q
      BY <1>3, <2>1, <2>2, <3>1 DEF Works
    <3>2. CASE r # q
      BY <1>4, <2>1, <2>3, <3>2 DEF Works, At
    <3> QED
      BY <3>1, <3>2
  <2> QED
    BY <1>1, <2>1, <2>2, <2>4 DEF SInv, Sole, At
<1> QED
  BY <1>5, <1>6

(* How a command that was alone ends. *)
Effective(p) ==
  (~At(p, "idle") /\ cmd[p].alone /\ At(p, "idle")') =>
    /\ said'[p] = "installed" => store'[cmd[p].name] = cmd[p].version
    /\ said'[p] = "uninstalled" => store'[cmd[p].name] = Absent

(* A step that ends no command but q's is effective when q's is. *)
LEMMA MovesIsEffective ==
  ASSUME NEW q \in Procs, Moves(q), Effective(q), NEW p \in Procs
  PROVE  Effective(p)
<1>1. CASE p = q
  BY <1>1
<1>2. CASE p # q
  BY <1>2 DEF Moves, Effective, At
<1> QED
  BY <1>1, <1>2

LEMMA EndsMoves ==
  ASSUME TypeOK, NEW q \in Procs, NEW m, Ends(q, m), ~At(q, "idle"),
         \A n \in Names \ {cmd[q].name} : store'[n] = store[n]
  PROVE  Moves(q) /\ said'[q] = m
BY DEF Ends, Moves, TypeOK, At, Idle

LEMMA GoesMoves ==
  ASSUME TypeOK, NEW q \in Procs, NEW s \in Steps, Goes(q, s), ~At(q, "idle"),
         \A n \in Names \ {cmd[q].name} : store'[n] = store[n],
         s = "open" => store'[cmd[q].name] # Absent, s # "write"
  PROVE  Moves(q) /\ Effective(q)
<1>1. cmd[q] \in Commands /\ s # "idle"
  BY DEF TypeOK, Steps
<1>2. /\ cmd'[q].name = cmd[q].name /\ cmd'[q].alone = cmd[q].alone /\ cmd'[q].step = s
      /\ \A r \in Procs \ {q} : cmd'[r] = cmd[r]
  BY <1>1 DEF Goes, TypeOK, Commands
<1> QED
  BY <1>1, <1>2 DEF Moves, Effective, At

LEMMA PutsAway ==
  ASSUME TypeOK, NEW m, NEW v, Puts(m, v) \/ UNCHANGED store
  PROVE  \A n \in Names \ {m} : store'[n] = store[n]
BY DEF Puts, TypeOK

LEMMA SoleStep ==
  ASSUME SInv, "write" \notin Faults, [Next]_vars
  PROVE  \A p \in Procs : Sole(p)' /\ Effective(p)
<1>0. TypeOK
  BY DEF SInv
<1>1. CASE UNCHANGED vars
  BY <1>1 DEF vars, SInv, Sole, Alone, Works, At, Effective
<1>2. ASSUME NEW q \in Procs, Refuses(q), NEW p \in Procs
      PROVE  Sole(p)' /\ Effective(p)
  BY <1>2 DEF Refuses, SInv, Sole, Alone, Works, At, Effective
<1>3. ASSUME NEW q \in Procs, NEW c \in Commands, c.step \notin {"open", "write", "idle"},
             Begins(q, c), NEW p \in Procs
      PROVE  Sole(p)' /\ Effective(p)
  <2>1. Sole(p)'
    BY <1>3, BeginsKeepsSole
  <2>2. At(p, "idle") \/ ~At(p, "idle")'
    <3>1. CASE p = q
      BY <1>3, <3>1 DEF Begins
    <3>2. CASE p # q
      <4>1. cmd[p] \in Commands
        BY DEF SInv, TypeOK
      <4>2. cmd'[p] = [cmd[p] EXCEPT !.alone = FALSE] \/ cmd'[p] = cmd[p]
        BY <1>3, <3>2 DEF Begins
      <4> QED
        BY <4>1, <4>2 DEF At, Commands
    <3> QED
      BY <3>1, <3>2
  <2> QED
    BY <2>1, <2>2 DEF Effective
<1>4. ASSUME NEW q \in Procs, Moves(q) /\ Effective(q), NEW p \in Procs
      PROVE  Sole(p)' /\ Effective(p)
  BY <1>4, MovesKeepsSole, MovesIsEffective
<1>5. ASSUME NEW q \in Procs, NEW n \in Names, NEW p \in Procs,
             \/ \E v \in Asked : install_package(q, n, v)
             \/ update_package(q, n)
             \/ uninstall_package(q, n)
      PROVE  Sole(p)' /\ Effective(p)
  <2>1. CASE Refuses(q)
    BY <1>2, <2>1
  <2>2. ASSUME NEW v \in Asked, Installs(n, v),
               Begins(q, Command("install", n, Wanted(n, v), "mkdir"))
        PROVE  Sole(p)' /\ Effective(p)
    <3> DEFINE c == Command("install", n, Wanted(n, v), "mkdir")
    <3>1. c \in Commands /\ c.step = "mkdir"
      BY <2>2, WantedIsOffered DEF Command, Commands, Steps
    <3> HIDE DEF c
    <3>2. Begins(q, c)
      BY <2>2 DEF c
    <3> QED
      BY <1>3, <3>1, <3>2
  <2>3. CASE Registry[n] # <<>> /\ Begins(q, Command("update", n, Registry[n][1], "list"))
    <3> DEFINE c == Command("update", n, Registry[n][1], "list")
    <3>1. c \in Commands /\ c.step = "list"
      BY <2>3, NewestIsOffered DEF Command, Commands, Steps
    <3> HIDE DEF c
    <3>2. Begins(q, c)
      BY <2>3 DEF c
    <3> QED
      BY <1>3, <3>1, <3>2
  <2>4. CASE Begins(q, Command("uninstall", n, 0, "list"))
    <3> DEFINE c == Command("uninstall", n, 0, "list")
    <3>1. c \in Commands /\ c.step = "list"
      BY DEF Command, Commands, Steps
    <3> HIDE DEF c
    <3>2. Begins(q, c)
      BY <2>4 DEF c
    <3> QED
      BY <1>3, <3>1, <3>2
  <2> QED
    BY <1>5, <2>1, <2>2, <2>3, <2>4
       DEF install_package, update_package, uninstall_package
<1>6. ASSUME NEW q \in Procs, create_directories(q)
      PROVE  Moves(q) /\ Effective(q)
  <2>1. cmd[q].name \in Names /\ ~At(q, "idle")
    BY <1>0, <1>6, AtWork DEF create_directories, At, Steps
  <2>2. store'[cmd[q].name] # Absent
    BY <1>0, <1>6, <2>1, PutsHere, StatesDiffer DEF create_directories
  <2>3. \A n \in Names \ {cmd[q].name} : store'[n] = store[n]
    BY <1>0, <1>6, PutsAway DEF create_directories
  <2> QED
    BY <1>0, <1>6, <2>1, <2>2, <2>3, GoesMoves DEF create_directories, Steps
<1>7. ASSUME NEW q \in Procs, OpenFails(q)
      PROVE  Moves(q) /\ Effective(q)
  <2>1. ~At(q, "idle") /\ store' = store /\ Ends(q, "installed")
    BY <1>7 DEF OpenFails, At
  <2>2. ~Alone(q)
    BY <1>7 DEF OpenFails, SInv, Sole
  <2>3. Moves(q)
    BY <1>0, <2>1, EndsMoves
  <2> QED
    BY <2>2, <2>3 DEF Effective, Alone
<1>8. ASSUME NEW q \in Procs, OpenManifest(q)
      PROVE  Moves(q) /\ Effective(q)
  <2>1. cmd[q] \in Commands /\ ~At(q, "idle")
    BY <1>0, <1>8 DEF OpenManifest, At, TypeOK
  <2>2. \A n \in Names \ {cmd[q].name} : store'[n] = store[n]
    BY <1>0, <1>8, PutsAway DEF OpenManifest
  <2>3. /\ cmd'[q].name = cmd[q].name /\ cmd'[q].alone = cmd[q].alone
        /\ cmd'[q].step = "write" /\ cmd'[q].linked
        /\ \A r \in Procs \ {q} : cmd'[r] = cmd[r]
    BY <1>0, <1>8, <2>1 DEF OpenManifest, TypeOK, Commands
  <2> QED
    BY <2>1, <2>2, <2>3 DEF Moves, Effective, At
<1>9. ASSUME NEW q \in Procs, WriteManifest(q)
      PROVE  Moves(q) /\ Effective(q)
  <2>1. cmd[q].name \in Names /\ ~At(q, "idle")
    BY <1>0, <1>9, AtWork DEF WriteManifest, At, Steps
  <2>2. \A n \in Names \ {cmd[q].name} : store'[n] = store[n]
    BY <1>0, <1>9, PutsAway DEF WriteManifest
  <2>3. Moves(q) /\ said'[q] = "installed"
    BY <1>0, <1>9, <2>1, <2>2, EndsMoves DEF WriteManifest
  <2>4. Alone(q) => store'[cmd[q].name] = cmd[q].version
    BY <1>0, <1>9, <2>1, PutsHere DEF WriteManifest, SInv, Sole
  <2> QED
    BY <2>3, <2>4 DEF Effective, Alone
<1>10. ASSUME NEW q \in Procs, CompareVersions(q)
       PROVE  Moves(q) /\ Effective(q)
  <2>1. ~At(q, "idle") /\ store' = store
    BY <1>10 DEF CompareVersions, At
  <2>2. CASE Goes(q, "mkdir")
    BY <1>0, <2>1, <2>2, GoesMoves DEF Steps
  <2>3. CASE Ends(q, "up to date")
    <3>1. Moves(q) /\ said'[q] = "up to date"
      BY <1>0, <2>1, <2>3, EndsMoves
    <3> QED
      BY <3>1 DEF Effective
  <2> QED
    BY <1>10, <2>2, <2>3 DEF CompareVersions
<1>11. ASSUME NEW q \in Procs, FindPackage(q)
       PROVE  Moves(q) /\ Effective(q)
  <2>1. ~At(q, "idle") /\ store' = store
    BY <1>11 DEF FindPackage, At
  <2>2. CASE Goes(q, "unlink")
    BY <1>0, <2>1, <2>2, GoesMoves DEF Steps
  <2>3. CASE Ends(q, "refused")
    <3>1. Moves(q) /\ said'[q] = "refused"
      BY <1>0, <2>1, <2>3, EndsMoves
    <3> QED
      BY <3>1 DEF Effective
  <2> QED
    BY <1>11, <2>2, <2>3 DEF FindPackage
<1>12. ASSUME NEW q \in Procs, NothingToRemove(q)
       PROVE  Moves(q) /\ Effective(q)
  <2>1. ~At(q, "idle") /\ store' = store /\ store[cmd[q].name] = Absent
    BY <1>12 DEF NothingToRemove, At
  <2>2. Moves(q) /\ said'[q] = "uninstalled"
    BY <1>0, <1>12, <2>1, EndsMoves DEF NothingToRemove
  <2> QED
    BY <2>1, <2>2 DEF Effective
<1>13. ASSUME NEW q \in Procs, RemoveManifest(q)
       PROVE  Moves(q) /\ Effective(q)
  <2>1. ~At(q, "idle") /\ \A r \in Procs : cmd[r] \in Commands
    BY <1>0, <1>13 DEF RemoveManifest, At, TypeOK
  <2>2. \A n \in Names \ {cmd[q].name} : store'[n] = store[n]
    BY <1>0, <1>13, PutsAway DEF RemoveManifest
  <2>3. /\ cmd'[q].name = cmd[q].name /\ cmd'[q].alone = cmd[q].alone
        /\ cmd'[q].step = "rmdir"
    BY <1>13, <2>1 DEF RemoveManifest, Commands
  <2>4. \A r \in Procs \ {q} :
          /\ cmd'[r].name = cmd[r].name /\ cmd'[r].step = cmd[r].step
          /\ cmd'[r].alone = cmd[r].alone
          /\ cmd'[r].linked = cmd[r].linked \/ cmd[r].name = cmd[q].name
    BY <1>13, <2>1 DEF RemoveManifest, Commands
  <2> QED
    BY <2>1, <2>2, <2>3, <2>4 DEF Moves, Effective, At
<1>14. ASSUME NEW q \in Procs, RemoveDirectory(q)
       PROVE  Moves(q) /\ Effective(q)
  <2>1. cmd[q].name \in Names /\ ~At(q, "idle")
    BY <1>0, <1>14, AtWork DEF RemoveDirectory, At, Steps
  <2>2. \A n \in Names \ {cmd[q].name} : store'[n] = store[n]
    BY <1>0, <1>14, PutsAway DEF RemoveDirectory
  <2>3. Moves(q) /\ said'[q] = "uninstalled"
    BY <1>0, <1>14, <2>1, <2>2, EndsMoves DEF RemoveDirectory
  <2>4. store'[cmd[q].name] = Absent
    BY <1>0, <1>14, <2>1, PutsHere DEF RemoveDirectory
  <2> QED
    BY <2>3, <2>4 DEF Effective
<1>15. ASSUME NEW q \in Procs, DirectoryNotEmpty(q) \/ Kill(q)
       PROVE  Moves(q) /\ Effective(q)
  <2>1. ~At(q, "idle") /\ store' = store /\ Ends(q, "died")
    BY <1>15 DEF DirectoryNotEmpty, Kill, At
  <2>2. Moves(q) /\ said'[q] = "died"
    BY <1>0, <2>1, EndsMoves
  <2> QED
    BY <2>2 DEF Effective
<1> QED
  BY <1>1, <1>4, <1>5, <1>6, <1>7, <1>8, <1>9, <1>10, <1>11, <1>12, <1>13, <1>14, <1>15
     DEF Next

(* A command that had its package to itself has done what it says.  That   *)
(* no other process came to the package makes what it finds at each step   *)
(* what it left there: the directory it makes is there when the manifest   *)
(* is opened, and the manifest it opens is there when it is written.       *)
THEOREM SoleCommandsTakeEffect ==
  "write" \notin Faults => (Spec => SoleCommandTakesEffect)
<1> SUFFICES ASSUME "write" \notin Faults
             PROVE  Spec => SoleCommandTakesEffect
  OBVIOUS
<1>1. Init => SInv
  <2>1. Init => \A p \in Procs : Sole(p)
    <3>1. Idle.step = "idle"
      BY DEF Idle
    <3> QED
      BY <3>1 DEF Init, Sole, Alone, At
  <2> QED
    BY <2>1, InitType DEF SInv
<1>2. SInv /\ [Next]_vars => SInv'
  BY StepType, SoleStep DEF SInv
<1>3. SInv /\ [Next]_vars =>
        [\A p \in Procs :
           (~At(p, "idle") /\ cmd[p].alone /\ At(p, "idle")') =>
             /\ said'[p] = "installed" => store'[cmd[p].name] = cmd[p].version
             /\ said'[p] = "uninstalled" => store'[cmd[p].name] = Absent]_vars
  BY SoleStep DEF Effective
<1> QED
  BY <1>1, <1>2, <1>3, PTL DEF Spec, SoleCommandTakesEffect
=============================================================================
