--------------------------- MODULE CommandRegistry ---------------------------
(***************************************************************************)
(* The command registry of one script context                              *)
(* (lib/internal/cauldron/platform/spigot/command.js): the label table     *)
(* registeredCommands, the CauldronCommand objects with their parents and  *)
(* subcommands, and the part of Bukkit's command map they put their        *)
(* BukkitCommand into.  A script may build commands with new, registerCommand *)
(* and addSubcommand in any order, and clearCommands runs at every reload. *)
(***************************************************************************)
EXTENDS Integers, FiniteSets, SequencesExt

CONSTANTS Labels,       \* names and aliases
          Namings,      \* how the commands, in order of creation, may be named
          MaxCommands,  \* bound: CauldronCommand objects created
          MaxDepth      \* bound: depth of nested subcommands

ASSUME CommandAssumption ==
  /\ IsFiniteSet(Labels) /\ MaxCommands \in Nat /\ MaxDepth \in Nat
  /\ Namings \subseteq [1..MaxCommands -> [name : Labels, aliases : SUBSET Labels]]

VARIABLES made,         \* how many CauldronCommand objects exist
          name,         \* this.name
          aliases,      \* this.aliases
          parent,       \* this.parent, 0 for null
          depth,        \* this.depth
          subs,         \* this.subcommands, 0 for an absent entry
          known,        \* this.hasBeenRegistered
          bukkit,       \* its $$bukkitCommand: "none", "live" in the map, "gone"
          registered,   \* registeredCommands, 0 for an absent label
          overwritten   \* history: commands that lost a label to another one

registryVars == <<made, name, aliases, parent, depth, subs, known, bukkit, registered, overwritten>>

Commands  == 1..MaxCommands
OrNull    == 0..MaxCommands
NoLabels  == [l \in Labels |-> 0]
LabelsOf(c) == {name[c]} \cup aliases[c]
Existing  == 1..made
Labelled  == {registered[l] : l \in Labels} \ {0}

RegistryInit ==
  /\ made = 0
  /\ \E naming \in Namings :
       /\ name = [c \in Commands |-> naming[c].name]
       /\ aliases = [c \in Commands |-> naming[c].aliases]
  /\ parent = [c \in Commands |-> 0]
  /\ depth = [c \in Commands |-> 0]
  /\ subs = [c \in Commands |-> NoLabels]
  /\ known = [c \in Commands |-> FALSE]
  /\ bukkit = [c \in Commands |-> "none"]
  /\ registered = NoLabels
  /\ overwritten = {}

\* registeredCommands[label] = this for the name and every alias, on top of a
\* table in which some entries may just have been deleted
Relabel(table, c) == [l \in Labels |-> IF l \in LabelsOf(c) THEN c ELSE table[l]]

Displaced(c) == {registered[l] : l \in LabelsOf(c)} \ {0, c}

\* A top-level register(): a BukkitCommand of its own and all its labels.
RegisterTop(c) ==
  /\ bukkit' = [bukkit EXCEPT ![c] = "live"]
  /\ registered' = Relabel(registered, c)
  /\ overwritten' = overwritten \cup Displaced(c)
  /\ known' = [known EXCEPT ![c] = TRUE]
  /\ UNCHANGED <<parent, depth, subs>>

-----------------------------------------------------------------------------
\* new CauldronCommand(name, ...)
New ==
  /\ made < MaxCommands
  /\ made' = made + 1
  /\ UNCHANGED <<name, aliases, parent, depth, subs, known, bukkit, registered, overwritten>>

\* CauldronCommand.registerCommand(name, ...): the label of a prior command of
\* that name is deleted, and the new command registered over it.
RegisterCommand ==
  /\ made < MaxCommands
  /\ made' = made + 1
  /\ RegisterTop(made')
  /\ UNCHANGED <<name, aliases>>

\* Fault: hasBeenRegistered is not asked.
RegisterAgain(c) ==
  /\ parent[c] = 0
  /\ RegisterTop(c)
  /\ UNCHANGED <<made, name, aliases>>

\* command.register().  A second call of a top-level command finds no parent
\* and throws before it changes anything.
Register(c) ==
  /\ \/ parent[c] = 0 /\ ~known[c] /\ RegisterTop(c)
     \/ /\ parent[c] # 0
        /\ subs' = [subs EXCEPT ![parent[c]][name[c]] = c]
        /\ known' = [known EXCEPT ![c] = TRUE]
        /\ UNCHANGED <<parent, depth, bukkit, registered, overwritten>>
  /\ UNCHANGED <<made, name, aliases>>

\* Fault: the depth is counted towards the root.
AddSubcommandUp(p, c) ==
  /\ p # c
  /\ depth[p] < MaxDepth
  /\ parent' = [parent EXCEPT ![c] = p]
  /\ depth' = [depth EXCEPT ![c] = depth[p] - 1]
  /\ UNCHANGED <<made, name, aliases, subs, known, bukkit, registered, overwritten>>

\* parent.addSubcommand(command): nothing else notices the new parent.
AddSubcommand(p, c) ==
  /\ p # c
  /\ depth[p] < MaxDepth
  /\ parent' = [parent EXCEPT ![c] = p]
  /\ depth' = [depth EXCEPT ![c] = depth[p] + 1]
  /\ UNCHANGED <<made, name, aliases, subs, known, bukkit, registered, overwritten>>

\* The subcommand tables after each command of cs has deleted itself from the parent it has now.
Without(table, cs) ==
  [p \in Commands |-> [l \in Labels |->
    IF \E s \in cs : parent[s] = p /\ name[s] = l THEN 0 ELSE table[p][l]]]

\* command.unregister() on the pair at = [bukkit, subs]: a command with a parent
\* deletes itself from it; one without leaves the command map and has its
\* subcommands delete themselves.
Unregistered(at, c) ==
  IF parent[c] # 0
  THEN [at EXCEPT !.subs = Without(@, {c})]
  ELSE [bukkit |-> [at.bukkit EXCEPT ![c] = "gone"],
        subs   |-> Without(at.subs, {at.subs[c][l] : l \in Labels} \ {0})]

Now == [bukkit |-> bukkit, subs |-> subs]

\* The labels stay.  A command that never had a BukkitCommand throws instead.
Unregister(c) ==
  /\ parent[c] = 0 => bukkit[c] # "none"
  /\ LET after == Unregistered(Now, c) IN bukkit' = after.bukkit /\ subs' = after.subs
  /\ UNCHANGED <<made, name, aliases, parent, depth, known, registered, overwritten>>

\* Fault: the labels go, the commands stay with Bukkit.
ClearLabels ==
  /\ registered # NoLabels
  /\ registered' = NoLabels
  /\ UNCHANGED <<made, name, aliases, parent, depth, subs, known, bukkit, overwritten>>

\* CauldronCommand.clearCommands(): label by label, unregister the command and
\* delete the label.  The labels come in the order in which they were entered.
AfterLabels(order) ==
  LET after[i \in 0..Len(order)] ==
        IF i = 0 THEN Now ELSE Unregistered(after[i - 1], registered[order[i]])
  IN  after[Len(order)]

ClearCommands ==
  /\ registered # NoLabels
  /\ \E order \in SetToSeqs({l \in Labels : registered[l] # 0}) :
       LET after == AfterLabels(order) IN bukkit' = after.bukkit /\ subs' = after.subs
  /\ registered' = NoLabels
  /\ UNCHANGED <<made, name, aliases, parent, depth, known, overwritten>>

RegistryNext ==
  \/ New
  \/ RegisterCommand
  \/ \E c \in Existing : Register(c)
  \/ \E p \in Existing, c \in Existing : AddSubcommand(p, c)
  \/ \E c \in Existing : Unregister(c)
  \/ ClearCommands

RegistrySpec == RegistryInit /\ [][RegistryNext]_registryVars

-----------------------------------------------------------------------------
(* Properties *)

RegistryTypeOK ==
  /\ made \in OrNull
  /\ name \in [Commands -> Labels] /\ aliases \in [Commands -> SUBSET Labels]
  /\ parent \in [Commands -> 0..made] /\ depth \in [Commands -> Nat]
  /\ subs \in [Commands -> [Labels -> 0..made]]
  /\ known \in [Commands -> BOOLEAN]
  /\ bukkit \in [Commands -> {"none", "live", "gone"}]
  /\ registered \in [Labels -> 0..made]
  /\ overwritten \subseteq Existing

\* A command Bukkit still knows is out of reach of clearCommands only if
\* another command took a label of it, or it was made a subcommand.
EscapesOnlyIfOverwrittenOrAdopted ==
  \A c \in Existing : (bukkit[c] = "live" /\ c \notin Labelled) =>
    (c \in overwritten \/ parent[c] # 0)

\* The tables agree, whatever scripts did before: every labelled command has a BukkitCommand
\* to take out of the map, so that clearCommands cannot fail half way; an entry of a
\* subcommand table was put there by a command of that name that had been given a parent;
\* and a command that left Bukkit's map never comes back, as hasBeenRegistered is not reset.
LabelSound(l) == registered[l] # 0 => /\ bukkit[registered[l]] # "none"
                                      /\ l \in LabelsOf(registered[l])
EntrySound(p, l) == subs[p][l] # 0 =>
  LET s == subs[p][l] IN name[s] = l /\ parent[s] # 0 /\ known[s]
TablesAgree ==
  /\ [](\A l \in Labels : LabelSound(l) /\ \A p \in Commands : EntrySound(p, l))
  /\ [][\A c \in Commands : bukkit[c] = "gone" => bukkit'[c] = "gone"]_registryVars
=============================================================================
