---------------------------- MODULE ModuleLoader ----------------------------
(***************************************************************************)
(* The module system of a script context: lib/internal/modules/loader.js,  *)
(* with the reload of lib/internal/cauldron/platform/spigot/index.js that  *)
(* empties its caches while scripts are running.                           *)
(*                                                                         *)
(* require() and reload() are synchronous, so the module bodies and the    *)
(* functions in progress form a stack of frames [k, inst]: k = "load" runs *)
(* the body of an instance of Module, k = "call" a function it defined,    *)
(* called by another module, by a timer or by a Bukkit callback.           *)
(*                                                                         *)
(* The class Module is itself exported by a native module, so a reload     *)
(* that empties the native cache leads to a new class with a cache of its  *)
(* own, while the functions of the old one go on using the old class.      *)
(* Classes are numbered by the generation of native modules they are in.   *)
(***************************************************************************)
EXTENDS Integers, Sequences, FiniteSets, SequencesExt

CONSTANTS Files,        \* the files with a module body
          Packages,     \* the directories with a package.json
          IndexOf,      \* index.js of each package
          Entries,      \* the files a package.json may name as main
          Main,         \* process.mainModule
          NoJson,       \* no package.json (read)
          MaxInstances, \* bound: modules instantiated
          MaxDepth,     \* bound: frames in progress
          MaxNative,    \* bound: generations of native modules
          MaxEdits      \* bound: changes of a package.json

ASSUME LoaderAssumption ==
  /\ Main \in Files /\ Entries \subseteq Files
  /\ IndexOf \in [Packages -> Files]
  /\ NoJson \notin Files
  /\ {MaxInstances, MaxDepth, MaxNative, MaxEdits} \subseteq Nat

VARIABLES instances,  \* the modules instantiated, in order
          cache,      \* _cache of each class: an instance or 0
          main,       \* Module.main of each class: an instance or 0
          packages,   \* mainPackageCache of each class
          native,     \* the generation of native modules in the native cache
          epoch,      \* history: how often each class ran runMain
          started,    \* history: whether the last runMain of a class found its file
          stack,      \* the frames in progress, the innermost last
          given,      \* the instance whose exports the last step returned, or 0
          served,     \* history: instances given for a package since its json was read
          json,       \* the file named by each package.json on disk
          edits       \* history: changes of a package.json

vars == <<instances, cache, main, packages, native, epoch, started, stack, given,
          served, json, edits>>
registry == <<cache, main, packages, native, epoch, started>>
disk     == <<json, edits>>

Classes   == 0..MaxNative
Known     == DOMAIN instances
NoCache   == [f \in Files |-> 0]
Running   == stack[Len(stack)].inst
ClassOf(i) == instances[i].class
CanEnter  == Len(stack) < MaxDepth
CanMake   == Len(instances) < MaxInstances

Init ==
  /\ instances = << >>
  /\ cache = [c \in Classes |-> NoCache]
  /\ main = [c \in Classes |-> 0]
  /\ packages = [c \in Classes |-> [p \in Packages |-> NoJson]]
  /\ native = 0
  /\ epoch = [c \in Classes |-> 0]
  /\ started = [c \in Classes |-> FALSE]
  /\ stack = << >>
  /\ given = 0
  /\ served = [c \in Classes |-> [p \in Packages |-> {}]]
  /\ json \in [Packages -> Entries \cup {NoJson}]
  /\ edits = 0

Load(i) == [k |-> "load", inst |-> i]
Call(i) == [k |-> "call", inst |-> i]

\* Fault: a module is stamped with the generation to come.
InstanceAhead(f, c, e, g) ==
  [file |-> f, class |-> c, epoch |-> e, born |-> g + 1, state |-> "loading"]

\* new Module(...) under class c, running generation g of the native modules
Instance(f, c, e, g) == [file |-> f, class |-> c, epoch |-> e, born |-> g, state |-> "loading"]

-----------------------------------------------------------------------------
(* require() of the running module *)

\* tryReadPackage: a package.json that was read once is never read again.
ReadPackage(c, p) == IF packages[c][p] # NoJson THEN packages[c][p] ELSE json[p]

\* resolveFileName of a package directory.
Resolved(c, p) == IF ReadPackage(c, p) = NoJson THEN IndexOf[p] ELSE ReadPackage(c, p)

\* Fault: the module is not cached before its body runs.
LoadFileUncached(c, f) ==
  /\ CanMake /\ CanEnter
  /\ instances' = Append(instances, Instance(f, c, epoch[c], native))
  /\ stack' = Append(stack, Load(Len(instances')))
  /\ given' = 0
  /\ UNCHANGED cache

\* Module._load after the file name is known: the exports of the cached module,
\* whatever has become of it, or a new module that is cached before its body runs.
LoadFile(c, f) ==
  \/ /\ cache[c][f] # 0
     /\ given' = cache[c][f]
     /\ UNCHANGED <<instances, cache, stack>>
  \/ /\ cache[c][f] = 0
     /\ CanMake /\ CanEnter
     /\ instances' = Append(instances, Instance(f, c, epoch[c], native))
     /\ cache' = [cache EXCEPT ![c][f] = Len(instances')]
     /\ stack' = Append(stack, Load(Len(instances')))
     /\ given' = 0

Require(f) ==
  /\ stack # << >>
  /\ LoadFile(ClassOf(Running), f)
  /\ UNCHANGED <<main, packages, native, epoch, started, served, disk>>

RequirePackage(p) ==
  /\ stack # << >>
  /\ LET c == ClassOf(Running)
         f == Resolved(c, p)
     IN  /\ LoadFile(c, f)
         /\ packages' = [packages EXCEPT ![c][p] = ReadPackage(c, p)]
         /\ served' = IF ReadPackage(c, p) = NoJson THEN served
                      ELSE [served EXCEPT ![c][p] = @ \cup {cache'[c][f]}]
  /\ UNCHANGED <<main, native, epoch, started, disk>>

-----------------------------------------------------------------------------
(* The frames *)

\* A module body ends, or a function returns.
Finish ==
  /\ stack # << >>
  /\ stack' = Front(stack)
  /\ instances' = IF Last(stack).k = "load"
                  THEN [instances EXCEPT ![Running].state = "loaded"]
                  ELSE instances
  /\ given' = 0
  /\ UNCHANGED <<registry, served, disk>>

\* Fault: a body that throws looks as if it were still running.
UnwoundSilently(n) ==
  /\ stack' = SubSeq(stack, 1, n)
  /\ instances' = instances

\* An exception leaves the frames above n; the bodies among them stay undone.
Unwound(n) ==
  /\ stack' = SubSeq(stack, 1, n)
  /\ instances' = [i \in Known |->
       IF \E j \in (n + 1)..Len(stack) : stack[j] = Load(i)
       THEN [instances[i] EXCEPT !.state = "failed"]
       ELSE instances[i]]

\* The running code throws - a require() whose file is not found among it - and
\* one of the frames below, or the host, catches.
Throw ==
  /\ stack # << >>
  /\ \E n \in 0..(Len(stack) - 1) : Unwound(n)
  /\ given' = 0
  /\ UNCHANGED <<registry, served, disk>>

\* A function of a module is called: by another module or by the host.
CallInto(i) ==
  /\ CanEnter
  /\ stack' = Append(stack, Call(i))
  /\ given' = 0
  /\ UNCHANGED <<instances, registry, served, disk>>

-----------------------------------------------------------------------------
(* Start and reload *)

\* Fault: the cache is not replaced.
RunMainKeepingCache(c, g) ==
  /\ epoch' = [epoch EXCEPT ![c] = @ + 1]
  /\ started' = [started EXCEPT ![c] = TRUE]
  /\ instances' = Append(instances, Instance(Main, c, epoch'[c], g))
  /\ cache' = [cache EXCEPT ![c][Main] = Len(instances')]
  /\ main' = [main EXCEPT ![c] = Len(instances')]
  /\ stack' = Append(stack, Load(Len(instances')))
  /\ served' = [served EXCEPT ![c] = [p \in Packages |-> {}]]

\* Module.runMain of class c with generation g of the native modules: a fresh
\* cache, then _load of the main file with isMain set.
RunMain(c, g) ==
  /\ epoch' = [epoch EXCEPT ![c] = @ + 1]
  /\ started' = [started EXCEPT ![c] = TRUE]
  /\ instances' = Append(instances, Instance(Main, c, epoch'[c], g))
  /\ cache' = [cache EXCEPT ![c] = [NoCache EXCEPT ![Main] = Len(instances')]]
  /\ main' = [main EXCEPT ![c] = Len(instances')]
  /\ stack' = Append(stack, Load(Len(instances')))
  /\ served' = [served EXCEPT ![c] = [p \in Packages |-> {}]]

\* runMain when the main file cannot be found: the cache is fresh and empty.
RunMissingMain(c) ==
  /\ epoch' = [epoch EXCEPT ![c] = @ + 1]
  /\ started' = [started EXCEPT ![c] = FALSE]
  /\ cache' = [cache EXCEPT ![c] = NoCache]
  /\ served' = [served EXCEPT ![c] = [p \in Packages |-> {}]]
  /\ UNCHANGED main

\* initializeCore(), once: an exception of runMain is logged, the server goes on.
Boot ==
  /\ epoch[0] = 0
  /\ \/ CanMake /\ CanEnter /\ RunMain(0, native)
     \/ RunMissingMain(0) /\ UNCHANGED <<instances, stack>>
  /\ given' = 0
  /\ UNCHANGED <<packages, native, disk>>

\* Whose reload() can be called now: a module has the API of any generation
\* since it was loaded, and the server has the commands "reloadjs".
ReloadsInReach == IF stack = << >> THEN 0..native ELSE instances[Running].born..native

\* reload() of generation c: its class empties the native cache and its own, and
\* runs main again on top of the caller.
Reload(c) ==
  /\ epoch[0] > 0
  /\ c \in ReloadsInReach
  /\ native < MaxNative
  /\ native' = native + 1
  /\ \/ CanMake /\ CanEnter /\ RunMain(c, native')
     \/ RunMissingMain(c) /\ \E n \in {0} \cup (0..(Len(stack) - 1)) : Unwound(n)
  /\ given' = 0
  /\ UNCHANGED <<packages, disk>>

\* npm install, or an editor, rewrites a package.json.
EditPackage(p, f) ==
  /\ edits < MaxEdits /\ json[p] # f
  /\ edits' = edits + 1
  /\ json' = [json EXCEPT ![p] = f]
  /\ given' = 0
  /\ UNCHANGED <<instances, registry, stack, served>>

Next ==
  \/ Boot
  \/ \E f \in Files : Require(f)
  \/ \E p \in Packages : RequirePackage(p)
  \/ Finish
  \/ Throw
  \/ \E i \in Known : CallInto(i)
  \/ \E c \in Classes : Reload(c)
  \/ \E p \in Packages, f \in Entries \cup {NoJson} : EditPackage(p, f)

Spec == Init /\ [][Next]_vars

-----------------------------------------------------------------------------
(* Properties *)

InstanceType ==
  [file : Files, class : Classes, epoch : Nat, born : Classes,
   state : {"loading", "loaded", "failed"}]

TypeOK ==
  /\ instances \in Seq(InstanceType)
  /\ cache \in [Classes -> [Files -> {0} \cup Known]]
  /\ main \in [Classes -> {0} \cup Known]
  /\ packages \in [Classes -> [Packages -> Entries \cup {NoJson}]]
  /\ native \in Classes
  /\ epoch \in [Classes -> Nat] /\ started \in [Classes -> BOOLEAN]
  /\ stack \in Seq([k : {"load", "call"}, inst : Known])
  /\ given \in {0} \cup Known
  /\ served \in [Classes -> [Packages -> SUBSET Known]]
  /\ json \in [Packages -> Entries \cup {NoJson}] /\ edits \in Nat

\* _load's promise: between two runs of main, a class evaluates each file at
\* most once - also when the first evaluation failed or is still going on, and
\* when a reload was started in the middle of it.
EvaluatedOnce ==
  \A i, j \in Known :
    (/\ instances[i].file = instances[j].file
     /\ ClassOf(i) = ClassOf(j)
     /\ instances[i].epoch = instances[j].epoch) => i = j

\* reload()'s promise: a class that has run main again never hands out a
\* module it loaded before, even to functions that survived the reload.
FreshAfterReload ==
  given # 0 => instances[given].epoch = epoch[ClassOf(given)]

\* require() answers from one consistent program: exports of a module whose body is not
\* over are handed out only inside that evaluation, below whose frame the asker runs;
\* Module.main, which mainRequire resolves against, is the cached main module; and a package
\* whose package.json was read stays one module although the file is rewritten.
RequireIsConsistent ==
  /\ (given # 0 /\ instances[given].state = "loading")
       => \E j \in DOMAIN stack : stack[j] = Load(given)
  /\ \A c \in Classes : started[c] => main[c] # 0 /\ main[c] = cache[c][Main]
  /\ \A c \in Classes, p \in Packages : Cardinality(served[c][p]) <= 1
=============================================================================
