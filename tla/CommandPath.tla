----------------------------- MODULE CommandPath ------------------------------
(***************************************************************************)
(* Which command the words of a command line name                          *)
(* (lib/internal/cauldron/platform/spigot/command.js). A tree gives every  *)
(* command its subcommands in their order, each with name, aliases and     *)
(* the command; a word is a record: a letter sequence's lower-case form    *)
(* (low) and whether it is written so already (plain).                     *)
(***************************************************************************)
EXTENDS Integers, Sequences, SequencesExt

\* name.toLowerCase() is compared, the aliases as they are.
NamesExactly(sub, word) == sub.name = word \/ word \in sub.aliases
Names(sub, word) == \/ sub.name.low = word.low
                    \/ [low |-> word.low, plain |-> TRUE] \in sub.aliases

\* The first subcommand that the word at this depth names, then on below it.
RECURSIVE findSubcommandWithArgs(_, _, _)
findSubcommandWithArgs(tree, c, args) ==
  LET hits == {i \in DOMAIN tree[c].subs : tree[c].depth < Len(args)
                                           /\ Names(tree[c].subs[i], args[tree[c].depth + 1])}
  IN IF hits = {} THEN c
     ELSE findSubcommandWithArgs(tree, tree[c].subs[CHOOSE i \in hits : \A j \in hits : i <= j].command, args)
\* What execute() is given: the words after the command's depth.
ArgsLeft(tree, c, args) == SubSeq(args, tree[c].depth + 1, Len(args))

\* Tab completion goes down by exact names only. It hands on the words from the one that
\* names nothing, or the last one when all of them name a command.
RECURSIVE CompletesAt(_, _, _, _)
CompletesAt(tree, c, buffer, i) ==
  LET hits == {k \in DOMAIN tree[c].subs : i <= Len(buffer) /\ tree[c].subs[k].name = buffer[i]}
  IN CASE i > Len(buffer)          -> [command |-> c, args |-> SubSeq(buffer, i - 1, Len(buffer))]
       [] i <= Len(buffer) /\ hits = {} -> [command |-> c, args |-> SubSeq(buffer, i, Len(buffer))]
       [] OTHER -> CompletesAt(tree, tree[c].subs[CHOOSE k \in hits : TRUE].command, buffer, i + 1)

\* fromPath: the names one after the other, as far as they go.
fromPath(tree, top, path) ==
  FoldLeft(LAMBDA at, name :
             LET hits == {k \in DOMAIN tree[at.command].subs : tree[at.command].subs[k].name = name}
             IN IF at.stopped \/ hits = {} THEN [at EXCEPT !.stopped = TRUE]
                ELSE [at EXCEPT !.command = tree[at.command].subs[CHOOSE k \in hits : TRUE].command],
           [command |-> top, stopped |-> FALSE], path).command

\* The permission of a command, from the top down, and the lines of its help.
RECURSIVE buildPermission(_, _)
buildPermission(tree, c) ==
  LET parents == {p \in DOMAIN tree : \E i \in DOMAIN tree[p].subs : tree[p].subs[i].command = c}
  IN IF parents = {} THEN <<c>> ELSE Append(buildPermission(tree, CHOOSE p \in parents : TRUE), c)
RECURSIVE buildHelp(_, _)
buildHelp(tree, c) == <<c>> \o FlattenSeq([i \in DOMAIN tree[c].subs |-> buildHelp(tree, tree[c].subs[i].command)])

-----------------------------------------------------------------------------
\* The commands from the top down that the words name one after the other.
Follow(tree, path, args) ==
  \A k \in DOMAIN path :
    \E i \in DOMAIN tree[IF k = 1 THEN 1 ELSE path[k - 1]].subs :
      LET sub == tree[IF k = 1 THEN 1 ELSE path[k - 1]].subs[i]
      IN sub.command = path[k] /\ (sub.name.low = args[k].low
                                   \/ \E a \in sub.aliases : a.plain /\ a.low = args[k].low)

\* What runs is at the end of the longest path the words follow, and its words are the
\* others. Without aliases and for words in the right case it is where fromPath and tab
\* completion lead as well, and completion hands on the same words when any are left. Its
\* permission names the commands of that path, its help all below it, each after its parent.
PathLaws(tree, args, exact) ==
  LET c == findSubcommandWithArgs(tree, 1, args)
      Paths == UNION {[1..n -> DOMAIN tree] : n \in 0..Len(args)}
      longest == CHOOSE p \in Paths : Follow(tree, p, args)
                   /\ \A q \in Paths : Follow(tree, q, args) => Len(q) <= Len(p)
      completes == CompletesAt(tree, 1, <<"top">> \o args, 2)
  IN /\ c = (IF longest = << >> THEN 1 ELSE longest[Len(longest)])
     /\ ArgsLeft(tree, c, args) = SubSeq(args, Len(longest) + 1, Len(args))
     /\ buildPermission(tree, c) = <<1>> \o longest
     /\ LET help == buildHelp(tree, c)
            before(d) == {help[j] : j \in 1..(CHOOSE i \in DOMAIN help : help[i] = d)}
        IN /\ IsInjective(help) /\ Range(help) = {d \in DOMAIN tree : IsPrefix(buildPermission(tree, c), buildPermission(tree, d))}
           /\ \A d \in Range(help) : d # c => Range(buildPermission(tree, d)) \ Range(buildPermission(tree, c)) \subseteq before(d)
     /\ exact => /\ fromPath(tree, 1, args) = c /\ completes.command = c
                 /\ Len(longest) < Len(args) => completes.args = ArgsLeft(tree, c, args)
=============================================================================
