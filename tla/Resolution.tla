----------------------------- MODULE Resolution -----------------------------
(***************************************************************************)
(* From the text of a require() to what it loads: the order in which       *)
(* Module._load asks (internal/modules/loader.js), the search for the file *)
(* (resolveRequireRoot, resolveFileName), the names of Java classes        *)
(* (internal/resolvers), the preparation of a file's text (transform,      *)
(* internal/transformers, internal/modules/helpers.js) and the cache of    *)
(* native modules (NativeModule, internal/bootstrap/loader.js).            *)
(* The file system is a record [files, dirs, main]: two sets of paths and  *)
(* the main that the package.json of each directory in its domain names,   *)
(* << >> if it names none.                                                 *)
(***************************************************************************)
EXTENDS Strings, FiniteSets, TLC

\* No path is the empty name.
Throws == <<"">>

-----------------------------------------------------------------------------
(* Paths (path.js over java.nio.file.Path): names, the first "/" if it is  *)
(* absolute.                                                               *)

Absolute(p) == p # << >> /\ p[1] = "/"
Path(text) == (IF StartsWith(text, "/") THEN <<"/">> ELSE << >>)
              \o SelectSeq(SplitAt(text, {"/"}), LAMBDA n : n # "")
PathText(p) == IF Absolute(p) THEN "/" \o Join(Tail(p), "/") ELSE Join(p, "/")

Inside(p, q) == IF Absolute(q) THEN q ELSE p \o q
Step(p, name) ==
  IF name = "." THEN p
  ELSE IF name # ".." \/ p = << >> \/ Last(p) = ".." THEN Append(p, name)
  ELSE IF p = <<"/">> THEN p ELSE Front(p)
normalize(p) == FoldLeft(Step, << >>, p)
resolve(p, q) == normalize(Inside(p, q))
\* join(): the texts with a separator between them, so a root in q does not count.
join(p, q) == normalize(p \o SelectSeq(q, LAMBDA n : n # "/"))

-----------------------------------------------------------------------------
(* The file of a request.                                                  *)

isRequestRelative(request) == \E c \in {".", "/", "\\"} : StartsWith(request[1], c)
\* split('.').slice(-1)[0] of the whole path.
Extension(file) ==
  LET parts == SplitAt(Last(file), {"."})
  IN IF Len(parts) = 1 THEN PathText(file) ELSE Last(parts)
Suffixed(p, end) == Append(Front(p), Last(p) \o end)
exists(fs, file) == file \in fs.files \cup fs.dirs

\* The directories whose node_modules are searched, from dir up to the root, which is left
\* out, and no more than 8.
Places(dir) ==
  LET up[i \in 1..8] == IF i = 1 THEN dir ELSE resolve(up[i - 1], <<"..">>)
      last == {i \in 1..8 : up[i] = <<"/">>}
  IN [i \in 1..(IF last = {} THEN 8 ELSE (CHOOSE i \in last : \A j \in last : i <= j) - 1) |-> up[i]]

resolveRequireRoot(fs, request, dir) ==
  LET places == Places(dir)
      found == SelectSeq(places, LAMBDA p : exists(fs, resolve(p, <<"node_modules">> \o request)))
      core  == Suffixed(<<"lib">> \o request, ".js")
  IN IF isRequestRelative(request) THEN resolve(dir, request)
     ELSE IF found # << >> THEN resolve(found[1], <<"node_modules">> \o request)
     ELSE IF exists(fs, core) THEN core ELSE Throws

\* ext is the extension of the module that asks.
FileOf(fs, root, ext) ==
  LET ends == <<"." \o ext, ".js">> \o (IF ext = "js" THEN <<".d.js">> ELSE << >>)
      tried == SelectSeq(ends, LAMBDA end : exists(fs, Suffixed(root, end)))
      main == resolve(root, fs.main[root])
  IN IF root = Throws THEN Throws
     ELSE IF root \in fs.files THEN root
     ELSE IF root \in fs.dirs
          THEN IF root \notin DOMAIN fs.main \/ fs.main[root] = << >> THEN resolve(root, <<"index." \o ext>>)
               ELSE IF exists(fs, main) THEN main ELSE Suffixed(main, "." \o ext)
     ELSE IF tried # << >> THEN Suffixed(root, tried[1]) ELSE Throws

resolveFileName(fs, request, parent) ==
  FileOf(fs, resolveRequireRoot(fs, request, resolve(parent, <<"..">>)), Extension(parent))

-----------------------------------------------------------------------------
(* Java classes.                                                           *)

pathToNamespace(text) == Join(SplitAt(text, {"/", "\\"}), ".")
WithoutJava(id) == IF StartsWith(id, "@java/") THEN SubSeq(id, 7, Len(id)) ELSE id
\* Java.type() finds no class under a name with a slash, and the namespace is evaluated.
JavaClass(id) == "Packages." \o pathToNamespace(WithoutJava(id))

\* The packages that stand for Java packages, in lower case; every object has a constructor.
Shorthands == [bukkit |-> "org.", spigotmc |-> "org.", java |-> "", bungee |-> "net.md_5.", constructor |-> ""]
Shorthand(id) == SplitAt(id, {".", "\\", "/"})[1]

\* tryResolve: the first resolver that takes the request, << >> if none does.
tryResolve(id) ==
  IF StartsWith(id, "@java/") THEN <<JavaClass(id)>>
  ELSE IF Shorthand(id) \in DOMAIN Shorthands THEN <<JavaClass("@java/" \o Shorthands[Shorthand(id)] \o id)>>
  ELSE IF StartsWith(id, "@lib/") THEN <<JavaClass("com.cauldronjs.libs." \o id)>>
  ELSE << >>

\* Module._load up to the cache: what kind of thing the request is, and which.
Asked(fs, request, parent) ==
  LET path == Path(request)
      native == tryResolve(request)
      file == resolveFileName(fs, path, parent)
  IN IF StartsWith(request, "internal/") \/ StartsWith(request, "internal\\")
     THEN IF StartsWith(parent[1], "lib") THEN <<"native", request>> ELSE Throws
     ELSE IF ~isRequestRelative(path) /\ native # << >> THEN <<"java", native[1]>>
     ELSE IF file = Throws THEN Throws ELSE <<"file", file>>

-----------------------------------------------------------------------------
(* The text of a file: characters, of which some stand for themselves.     *)

stripBOM(s) == IF s # << >> /\ s[1] = "BOM" THEN Tail(s) ELSE s
stripShebang(s) ==
  LET ends == {i \in 3..Len(s) : s[i] \in {"LF", "CR"}}
  IN IF ~IsPrefix(<<"#", "!">>, s) THEN s
     ELSE IF ends = {} THEN << >>
     ELSE SubSeq(s, CHOOSE i \in ends : \A j \in ends : i <= j, Len(s))
readAndStrip(s) == stripBOM(stripShebang(s))

\* The transformer for .js takes what is meant for the one for .d.js, and does what it does.
transform(filename, s) ==
  (IF EndsWith(filename, ".json") THEN <<"module.exports = ">> ELSE << >>) \o readAndStrip(s)

-----------------------------------------------------------------------------
(* NativeModule.require: deps lists what the body of each module requires, *)
(* and a module of broken throws after that.  The modules cached, those    *)
(* whose body ran to its end, the bodies begun, and whether it threw.      *)

NewNative == [cached |-> {}, done |-> {}, begun |-> << >>, threw |-> FALSE]

RECURSIVE NativeRequire(_, _, _, _), RequireAll(_, _, _, _)
Compile(state, id, deps, broken) ==
  LET ran == RequireAll([state EXCEPT !.cached = @ \cup {id}, !.begun = Append(@, id)], deps[id], deps, broken)
      fails == ran.threw \/ id \in broken
  IN [ran EXCEPT !.threw = fails, !.done = IF fails THEN @ ELSE @ \cup {id}]
NativeRequire(state, id, deps, broken) ==
  IF id \in state.cached THEN state ELSE Compile(state, id, deps, broken)
RequireAll(state, ids, deps, broken) ==
  IF ids = << >> \/ state.threw THEN state
  ELSE RequireAll(NativeRequire(state, Head(ids), deps, broken), Tail(ids), deps, broken)

-----------------------------------------------------------------------------
(* What a reader expects.                                                  *)

\* Paths: where a path leads does not depend on the order in which it is put together,
\* and nothing leaves a root.
PathLaws(p, q, r) ==
  LET dir == resolve(<<"/">>, p)  file == resolve(dir, q)
  IN /\ resolve(p, Inside(q, r)) = resolve(resolve(p, q), r)
     /\ normalize(normalize(p)) = normalize(p)
     /\ join(p, q) = resolve(p, SelectSeq(q, LAMBDA n : n # "/"))
     /\ Absolute(file) /\ ".." \notin Range(file)

\* Two spellings of a path name one file, and what was found can be asked for by its name.
SpellingLaws(fs, request, parent) ==
  LET file == resolveFileName(fs, request, parent)
      same(r) == resolveFileName(fs, r, parent) = file
  IN (isRequestRelative(request) /\ file # Throws) =>
       /\ ~Absolute(request) => same(<<".">> \o request) /\ same(<<".", "gone", "..">> \o request)
       /\ file \in fs.files /\ Absolute(file) => same(file)

\* A package comes from the nearest node_modules that has it, the library's own modules
\* come last, and only the main or the index of a directory may be missing.
PackageLaws(fs, request, parent) ==
  LET dir == resolve(parent, <<"..">>)
      at(n) == SubSeq(dir, 1, n) \o <<"node_modules">> \o request
      have == {n \in 2..Len(dir) : n > Len(dir) - 8 /\ exists(fs, at(n))}
      core == Suffixed(<<"lib">> \o request, ".js")
      root == resolveRequireRoot(fs, request, dir)
      file == resolveFileName(fs, request, parent)
  IN /\ ~isRequestRelative(request) /\ Absolute(dir)
          => root = IF have # {} THEN at(CHOOSE n \in have : \A m \in have : m <= n)
                    ELSE IF core \in fs.files THEN core ELSE Throws
     /\ file = Throws \/ file \in fs.files \cup fs.dirs \/ root \in fs.dirs

\* A path of folders and a path of dots name the same class, and no relative path names one.
ClassLaws(fs, request, parent) ==
  LET asked == Asked(fs, request, parent)
  IN /\ asked[1] = "java" => ~isRequestRelative(Path(request)) /\ ~Has(asked[2], "/")
     /\ asked[1] = "java" /\ ~Has(request, "@") => Asked(fs, pathToNamespace(request), parent) = asked
     /\ asked[1] = "java" => asked = Asked(fs, "@java/" \o SubSeq(asked[2], 10, Len(asked[2])), parent)

\* Lines keep their numbers, nothing but a mark or a first line goes, and it goes at once.
StripLaws(s) ==
  LET lines(t) == Cardinality({i \in DOMAIN t : t[i] = "LF"})
      kept == readAndStrip(s)
  IN /\ IsSuffix(kept, s) /\ lines(kept) = lines(s)
     /\ ~IsPrefix(<<"BOM">>, s) => readAndStrip(kept) = kept
     /\ ~IsPrefix(<<"#", "!">>, s) /\ ~IsPrefix(<<"BOM">>, s) => kept = s

\* Every body runs at most once, whoever asks and however often; without a failure all that
\* is within reach is done before the answer, and after a failure nothing is tried again.
NativeLaws(deps, broken, first, second) ==
  LET once == NativeRequire(NewNative, first, deps, broken)
      twice == NativeRequire([once EXCEPT !.threw = FALSE], second, deps, broken)
      reach[n \in 0..Cardinality(DOMAIN deps)] ==
        IF n = 0 THEN {first} ELSE reach[n - 1] \cup UNION {Range(deps[id]) : id \in reach[n - 1]}
      all == reach[Cardinality(DOMAIN deps)]
  IN /\ IsInjective(twice.begun) /\ Range(twice.begun) = twice.cached
     /\ IsPrefix(once.begun, twice.begun)
     /\ once.threw <=> all \cap broken # {}
     /\ ~once.threw => once.done = all /\ once.cached = all
     /\ second = first => twice.begun = once.begun /\ ~twice.threw
=============================================================================
