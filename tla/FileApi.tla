------------------------------ MODULE FileApi -------------------------------
(***************************************************************************)
(* What scripts do to files through fs (internal/fs/core.js).  A disk maps *)
(* the places below the directory of the isolate, sequences of names, to   *)
(* a file's text or to Dir.  A spelling is a sequence of names and of      *)
(* separators of either kind.  A call may end in several ways, as Java     *)
(* lists a directory in no order: Outcomes is the set of them, each a disk *)
(* and a result or the exception.  The functions of java.io.File are those *)
(* of a Unix machine.                                                      *)
(***************************************************************************)
EXTENDS Integers, Sequences, FiniteSets, SequencesExt

Dir == <<"directory">>
Sep == "/"
Ends(disk, result) == {[disk |-> disk, result |-> result, error |-> FALSE]}
Fails(disk) == {[disk |-> disk, result |-> FALSE, error |-> TRUE]}

sanitizePath(path) == [i \in DOMAIN path |-> IF path[i] \in {"\\", "/"} THEN Sep ELSE path[i]]

\* The place a sanitized spelling names: separators in front or twice in a row say nothing.
getFile(path) == SelectSeq(path, LAMBDA c : c # Sep)
At(path) == getFile(sanitizePath(path))

-----------------------------------------------------------------------------
(* java.io.File and java.nio.file.Files.                                   *)

Exists(disk, p) == p = << >> \/ p \in DOMAIN disk
IsDirectory(disk, p) == p = << >> \/ (p \in DOMAIN disk /\ disk[p] = Dir)
IsFile(disk, p) == Exists(disk, p) /\ ~IsDirectory(disk, p)
Under(disk, p) == {q \in DOMAIN disk : IsPrefix(p, q)}
Children(disk, p) == {q \in Under(disk, p) : Len(q) = Len(p) + 1}
Less(disk, gone) == [q \in DOMAIN disk \ gone |-> disk[q]]
With(disk, p, what) == [q \in DOMAIN disk \cup {p} |-> IF q = p THEN what ELSE disk[q]]

delete(disk, p) ==
  IF p \in DOMAIN disk /\ Children(disk, p) = {} THEN Ends(Less(disk, {p}), TRUE) ELSE Ends(disk, FALSE)

\* Nothing is made where a file stands in the way.
mkdirs(disk, p) ==
  LET way == {SubSeq(p, 1, n) : n \in 1..Len(p)}
  IN IF Exists(disk, p) \/ \E q \in way : IsFile(disk, q) THEN Ends(disk, FALSE)
     ELSE Ends([q \in DOMAIN disk \cup way |-> IF q \in way THEN Dir ELSE disk[q]], TRUE)

Moved(disk, p, to) ==
  LET gone == Under(disk, p) \cup {to}
      new(q) == to \o SubSeq(q, Len(p) + 1, Len(q))
      came == {new(q) : q \in Under(disk, p)}
  IN [q \in (DOMAIN disk \ gone) \cup came |->
        IF q \in came THEN disk[CHOOSE r \in Under(disk, p) : new(r) = q] ELSE disk[q]]

renameTo(disk, p, to) ==
  LET fits == \/ ~Exists(disk, to)
              \/ IsFile(disk, p) /\ IsFile(disk, to)
              \/ IsDirectory(disk, p) /\ IsDirectory(disk, to) /\ Children(disk, to) = {}
  IN IF p = to /\ Exists(disk, p) THEN Ends(disk, TRUE)
     ELSE IF p \in DOMAIN disk /\ to # << >> /\ fits /\ ~IsPrefix(p, to) /\ IsDirectory(disk, Front(to))
     THEN Ends(Moved(disk, p, to), TRUE)
     ELSE Ends(disk, FALSE)

writeTo(disk, p, text) ==
  IF p = << >> \/ IsDirectory(disk, p) \/ ~IsDirectory(disk, Front(p)) THEN Fails(disk)
  ELSE Ends(With(disk, p, text), TRUE)

-----------------------------------------------------------------------------
(* The functions that wait for the answer.                                 *)

existsSync(disk, path) == Ends(disk, Exists(disk, At(path)))
mkdirSync(disk, path) == mkdirs(disk, At(path))
renameSync(disk, old, new) == renameTo(disk, At(old), At(new))
writeFileSync(disk, file, text) == writeTo(disk, At(file), text)
readFileSync(disk, path) == IF IsFile(disk, At(path)) THEN Ends(disk, disk[At(path)]) ELSE Fails(disk)

\* 0 for a file, 1 for a directory.
statSync(disk, path) ==
  Ends(disk, IF IsFile(disk, At(path)) THEN 0 ELSE IF IsDirectory(disk, At(path)) THEN 1 ELSE -1)

\* The files of a directory, without its directories.
readdirSync(disk, path) ==
  IF IsDirectory(disk, At(path)) THEN Ends(disk, {Last(q) : q \in {r \in Children(disk, At(path)) : IsFile(disk, r)}})
  ELSE Fails(disk)

\* The recursion asks exports, which module.exports has replaced, and throws at the first
\* directory inside; the files listed before it are gone by then.
rmdirSync(disk, path) ==
  LET inside == IF IsDirectory(disk, At(path)) THEN Children(disk, At(path)) ELSE {}
      files == {q \in inside : IsFile(disk, q)}
  IN IF files # inside THEN UNION {Fails(Less(disk, gone)) : gone \in SUBSET files}
     ELSE delete(Less(disk, files), At(path))

Outcomes(disk, c) ==
  CASE c.op = "exists"    -> existsSync(disk, c.path)
    [] c.op = "stat"      -> statSync(disk, c.path)
    [] c.op = "mkdir"     -> mkdirSync(disk, c.path)
    [] c.op = "readdir"   -> readdirSync(disk, c.path)
    [] c.op = "rename"    -> renameSync(disk, c.path, c.to)
    [] c.op = "rmdir"     -> rmdirSync(disk, c.path)
    [] c.op = "writeFile" -> writeFileSync(disk, c.path, c.text)
    [] c.op = "readFile"  -> readFileSync(disk, c.path)

-----------------------------------------------------------------------------
(* Their namesakes with a callback, which is "none", "returns" or "throws".*)

\* What the callback is told: whether an error, each time.
Told(error, callback) == IF ~error /\ callback = "throws" THEN <<FALSE, TRUE>> ELSE <<error>>

\* The work is done before the call returns, and not at all without a callback; an
\* exception of the callback counts as one of the work.
callbackify(disk, c, callback) ==
  IF callback = "none" THEN {[disk |-> disk, told |-> << >>]}
  ELSE {[disk |-> o.disk, told |-> Told(o.error, callback)] : o \in Outcomes(disk, c)}

\* exists() hands getFile a function, readdir() asks for async, which nobody defines.
AlwaysFails(disk, callback) ==
  {[disk |-> disk, told |-> IF callback = "none" THEN << >> ELSE Told(TRUE, callback)]}

\* access, chmod, copyFile, open, unlink, watch and others take a callback and have no body.
Unanswered(disk) == {[disk |-> disk, told |-> << >>]}

Async(disk, c, callback) ==
  CASE c.op \in {"exists", "readdir"} -> AlwaysFails(disk, callback)
    [] c.op = "unlink"                -> Unanswered(disk)
    [] OTHER                          -> callbackify(disk, c, callback)

-----------------------------------------------------------------------------
(* What a script expects.                                                  *)

WellFormed(disk) == \A p \in DOMAIN disk : p # << >> /\ IsDirectory(disk, Front(p))
Only(S) == CHOOSE x \in S : TRUE

\* A call leaves a tree, touches nothing but the places it names and what is below them,
\* and says so truly: what was made, moved or written is there under every spelling, what
\* was removed is not, and a call that answers FALSE or fails changed nothing, rmdirSync()
\* of a directory with a directory in it excepted, which keeps all that lies deeper.
CallLaws(disk, c, o) ==
  LET p == At(c.path)
      to == IF c.op = "rename" THEN At(c.to) ELSE p
      near == {q \in DOMAIN disk \cup DOMAIN o.disk : IsPrefix(p, q) \/ IsPrefix(to, q) \/ (c.op = "mkdir" /\ IsPrefix(q, p))}
  IN /\ WellFormed(o.disk)
     /\ \A q \in (DOMAIN disk \cup DOMAIN o.disk) \ near : q \in DOMAIN disk /\ q \in DOMAIN o.disk /\ o.disk[q] = disk[q]
     /\ c.op \notin {"mkdir", "rename", "writeFile", "rmdir"} => o.disk = disk
     /\ c.op \in {"mkdir", "rename", "writeFile"} => (o.error \/ ~o.result => o.disk = disk)
     /\ c.op = "rmdir" /\ o.error =>
          /\ IsDirectory(o.disk, p)
          /\ \A q \in DOMAIN disk : Len(q) # Len(p) + 1 \/ disk[q] = Dir => q \in DOMAIN o.disk /\ o.disk[q] = disk[q]
     /\ c.op = "rmdir" /\ ~o.error /\ o.result => Under(o.disk, p) = {}
     /\ c.op = "rename" /\ ~o.error /\ o.result /\ p # to =>
          /\ Under(o.disk, p) = {}
          /\ \A q \in Under(disk, p) : o.disk[to \o SubSeq(q, Len(p) + 1, Len(q))] = disk[q]
     /\ c.op = "mkdir" /\ o.result => Only(statSync(o.disk, c.path)).result = 1
     /\ c.op = "writeFile" /\ ~o.error => \A path \in {c.path, sanitizePath(c.path), <<Sep>> \o c.path} :
          Only(readFileSync(o.disk, path)).result = c.text /\ Only(statSync(o.disk, path)).result = 0
     /\ c.op = "readdir" /\ ~o.error => \A q \in DOMAIN disk :
          Last(q) \in o.result /\ Front(q) = p <=> Front(q) = p /\ Only(statSync(disk, q)).result = 0
     /\ c.op = "exists" => (o.result <=> Only(statSync(disk, c.path)).result # -1)

\* A callback is told once of what the call without one would have done, and a second time
\* only if it threw; a call without a callback, and one that fails, leaves the disk alone.
AsyncLaws(disk, c, callback, a) ==
  /\ callback = "none" \/ c.op = "unlink" <=> a.told = << >>
  /\ Len(a.told) = 2 => callback = "throws" /\ a.told = <<FALSE, TRUE>>
  /\ a.told = << >> => a.disk = disk
  /\ a.told # << >> => c.op \in {"exists", "readdir"} \/
       \E o \in Outcomes(disk, c) : o.disk = a.disk /\ a.told[1] = o.error
Respelled(c) == [x \in DOMAIN c |-> IF x \in {"path", "to"} THEN At(c[x]) ELSE c[x]]
FileApiLaws(disk, c, callback) ==
  /\ c.op # "unlink" => /\ Outcomes(disk, c) = Outcomes(disk, Respelled(c))
                        /\ \A o \in Outcomes(disk, c) : CallLaws(disk, c, o)
  /\ \A a \in Async(disk, c, callback) : AsyncLaws(disk, c, callback, a)
=============================================================================
