---------------------------- MODULE CommandProofs ----------------------------
(***************************************************************************)
(* The commands: the tables of CommandRegistry agree and a clear reaches    *)
(* what it should, for any number of commands, labels and levels; and in    *)
(* CommandExecution states and waiting calls are accounted for, for any     *)
(* number of senders, executions and calls.                                 *)
(***************************************************************************)
EXTENDS CommandRegistry, CommandExecution, FiniteSetTheorems, SequenceTheorems,
        WellFoundedInduction, TLAPS

(* Steps one after the other.                                              *)

\* What holds at 0, and at n + 1 when it does at n, holds at every number.
LEMMA Induction ==
  ASSUME NEW S \in SUBSET Nat, 0 \in S, \A n \in S : n + 1 \in S
  PROVE  S = Nat
<1> SUFFICES ASSUME Nat \ S # {} PROVE FALSE
  OBVIOUS
<1>1. PICK m \in Nat \ S : \A k \in Nat \ S : ~(<<k, m>> \in OpToRel(<, Nat))
  BY WFMin, NatLessThanWellFounded
<1>2. \A k \in Nat \ S : ~(k < m)
  BY <1>1 DEF OpToRel
<1>3. m \in Nat /\ m \notin S /\ m # 0
  OBVIOUS
<1>4. m - 1 \in Nat /\ m - 1 < m /\ (m - 1) + 1 = m
  BY <1>3
<1>5. m - 1 \in S
  BY <1>2, <1>4
<1>6. QED
  BY <1>3, <1>4, <1>5

\* The results of doing step[1], ..., step[n] one after the other.
Iterates(g, Results, first, step, n) ==
  /\ g \in [0..n -> Results] /\ g[0] = first
  /\ \A i \in 1..n : g[i] = step[i][g[i - 1]]

\* There are such results.
LEMMA IteratesExist ==
  ASSUME NEW Results, NEW first \in Results, NEW n \in Nat, NEW step \in [1..n -> [Results -> Results]]
  PROVE  \E g : Iterates(g, Results, first, step, n)
<1> DEFINE S == {m \in Nat : m <= n => \E g : Iterates(g, Results, first, step, m)}
<1>1. 0 \in S
  <2> DEFINE g == [i \in 0..0 |-> first]
  <2>1. g \in [0..0 -> Results] /\ g[0] = first
    OBVIOUS
  <2> HIDE DEF g
  <2>2. ASSUME NEW i \in 1..0 PROVE FALSE
    OBVIOUS
  <2>3. Iterates(g, Results, first, step, 0)
    BY <2>1, <2>2 DEF Iterates
  <2>4. QED
    BY <2>3
<1>2. ASSUME NEW m \in S PROVE m + 1 \in S
  <2> SUFFICES ASSUME m + 1 <= n PROVE \E g : Iterates(g, Results, first, step, m + 1)
    BY m + 1 \in Nat
  <2>1. m \in Nat /\ m + 1 \in 1..n
    OBVIOUS
  <2>2. PICK g : Iterates(g, Results, first, step, m)
    BY <2>1
  <2> DEFINE more == step[m + 1][g[m]]
             h == [i \in 0..(m + 1) |-> IF i <= m THEN g[i] ELSE more]
  <2>3. g \in [0..m -> Results] /\ g[0] = first /\ \A i \in 1..m : g[i] = step[i][g[i - 1]]
    BY <2>2 DEF Iterates
  <2>4. more \in Results
    BY <2>1, <2>3
  <2> HIDE DEF more
  <2>5. /\ h \in [0..(m + 1) -> Results]
        /\ \A i \in 0..m : h[i] = g[i]
        /\ h[m + 1] = more
    BY <2>1, <2>3, <2>4
  <2> HIDE DEF h
  <2>6. h[0] = first
    BY <2>1, <2>3, <2>5
  <2>7. ASSUME NEW i \in 1..(m + 1) PROVE h[i] = step[i][h[i - 1]]
    <3>1. CASE i <= m
      <4>1. i \in 0..m /\ i - 1 \in 0..m /\ i \in 1..m
        BY <2>1, <3>1
      <4>2. QED
        BY <2>3, <2>5, <4>1
    <3>2. CASE ~(i <= m)
      <4>1. i = m + 1 /\ i - 1 = m /\ m \in 0..m
        BY <2>1, <3>2
      <4>2. QED
        BY <2>5, <4>1 DEF more
    <3>3. QED
      BY <3>1, <3>2
  <2>8. QED
    BY <2>5, <2>6, <2>7 DEF Iterates
<1>3. S = Nat
  <2> HIDE DEF S
  <2>1. S \in SUBSET Nat
    BY DEF S
  <2>2. QED
    BY <1>1, <1>2, <2>1, Induction
<1>4. n \in S
  BY <1>3
<1>5. QED
  BY <1>4

-----------------------------------------------------------------------------
(* The registry.                                                           *)

BukkitStates == {"none", "live", "gone"}
InMap        == [Commands -> BukkitStates]

\* What is still to be made has no parent and is not registered.
Unmade == \A c \in Commands : c > made => ~known[c] /\ parent[c] = 0

\* Who has or had a BukkitCommand was registered.
Known == \A c \in Commands : bukkit[c] # "none" => known[c]

\* Subcommand tables that hold only what was put there under its own name.
Tables ==
  {t \in [Commands -> [Labels -> 0..made]] : \A p \in Commands, l \in Labels :
     t[p][l] # 0 => name[t[p][l]] = l /\ parent[t[p][l]] # 0 /\ known[t[p][l]]}

RegistryInv ==
  /\ RegistryTypeOK /\ Unmade /\ Known /\ subs \in Tables
  /\ \A l \in Labels : LabelSound(l)
  /\ EscapesOnlyIfOverwrittenOrAdopted

LEMMA RegistryMembers ==
  ASSUME RegistryTypeOK
  PROVE  /\ made \in Nat /\ MaxCommands \in Nat /\ made <= MaxCommands
         /\ Existing \subseteq Commands /\ \A c \in Commands : c \in Nat \ {0}
         /\ \A c \in 0..made : c # 0 => c \in Existing /\ c \in Commands
         /\ \A c \in Commands : name[c] \in Labels /\ LabelsOf(c) \subseteq Labels /\ name[c] \in LabelsOf(c)
BY CommandAssumption DEF RegistryTypeOK, Existing, Commands, OrNull, LabelsOf

LEMMA RegistryInitHolds == RegistryInit => RegistryInv
<1> SUFFICES ASSUME RegistryInit PROVE RegistryInv
  OBVIOUS
<1>1. PICK naming \in Namings : /\ name = [c \in Commands |-> naming[c].name]
                                /\ aliases = [c \in Commands |-> naming[c].aliases]
  BY DEF RegistryInit
<1>2. naming \in [Commands -> [name : Labels, aliases : SUBSET Labels]]
  BY CommandAssumption DEF Commands
<1>3. RegistryTypeOK
  BY <1>1, <1>2, CommandAssumption DEF RegistryInit, RegistryTypeOK, NoLabels, Commands, OrNull, Existing
<1>4. subs \in Tables
  BY <1>3 DEF RegistryInit, RegistryTypeOK, Tables, NoLabels
<1>5. QED
  BY <1>3, <1>4 DEF RegistryInit, RegistryInv, Unmade, Known, LabelSound, NoLabels,
     EscapesOnlyIfOverwrittenOrAdopted, Existing

\* A command that gets a BukkitCommand and its labels: what it displaces is overwritten.
LEMMA RegisterTopKeeps ==
  ASSUME RegistryInv, NEW c \in Commands, parent[c] = 0, ~known[c],
         made' \in {made, made + 1}, made' <= MaxCommands, c <= made',
         RegisterTop(c), name' = name, aliases' = aliases
  PROVE  RegistryInv' /\ \A d \in Commands : bukkit[d] = "gone" => bukkit'[d] = "gone"
<1>0. /\ made \in Nat /\ MaxCommands \in Nat /\ made <= MaxCommands /\ made' \in OrNull
      /\ made' \in Nat /\ made <= made' /\ c \in Nat \ {0} /\ c \in 1..made' /\ c \in 0..made' /\ 0..made \subseteq 0..made'
  BY RegistryMembers DEF RegistryInv, OrNull, Commands
<1> USE DEF RegisterTop
<1>1. /\ bukkit' \in InMap /\ bukkit'[c] = "live" /\ known' \in [Commands -> BOOLEAN] /\ known'[c]
      /\ \A d \in Commands : d # c => bukkit'[d] = bukkit[d] /\ known'[d] = known[d]
  BY DEF RegistryInv, RegistryTypeOK, InMap, BukkitStates
<1>2. /\ registered' \in [Labels -> 0..made']
      /\ \A l \in LabelsOf(c) : l \in Labels /\ registered'[l] = c
      /\ \A l \in Labels \ LabelsOf(c) : registered'[l] = registered[l]
  BY <1>0, RegistryMembers DEF RegistryInv, RegistryTypeOK, Relabel
<1>3. Displaced(c) \subseteq Existing
  BY RegistryMembers DEF RegistryInv, RegistryTypeOK, Displaced
<1>4. RegistryTypeOK'
  <2>1. overwritten' \subseteq Existing'
    <3>1. overwritten' = overwritten \cup Displaced(c) /\ overwritten \subseteq Existing
      BY DEF RegistryInv, RegistryTypeOK
    <3>2. Existing \subseteq Existing'
      BY <1>0 DEF Existing
    <3>3. QED
      BY <1>3, <3>1, <3>2
  <2>2. parent' \in [Commands -> 0..made'] /\ subs' \in [Commands -> [Labels -> 0..made']]
    BY <1>0 DEF RegistryInv, RegistryTypeOK
  <2>3. QED
    BY <1>0, <1>1, <1>2, <2>1, <2>2 DEF RegistryInv, RegistryTypeOK, InMap, BukkitStates
<1>5. Unmade'
  BY <1>0, <1>1 DEF RegistryInv, Unmade, Commands
<1>6. Known'
  BY <1>1 DEF RegistryInv, Known
<1>7. subs' \in Tables'
  <2>1. subs' \in [Commands -> [Labels -> 0..made']]
    BY <1>4 DEF RegistryTypeOK
  <2>2. ASSUME NEW p \in Commands, NEW l \in Labels, subs'[p][l] # 0
        PROVE  name'[subs'[p][l]] = l /\ parent'[subs'[p][l]] # 0 /\ known'[subs'[p][l]]
    <3> DEFINE s == subs[p][l]
    <3>1. s \in 0..made /\ s # 0 /\ s \in Commands /\ subs' = subs
      BY <2>2, RegistryMembers DEF RegistryInv, RegistryTypeOK
    <3>2. name[s] = l /\ parent[s] # 0 /\ known[s]
      BY <3>1 DEF RegistryInv, Tables
    <3> HIDE DEF s
    <3>3. QED
      BY <1>1, <3>1, <3>2 DEF s
  <2>3. QED
    BY <2>1, <2>2 DEF Tables
<1>8. ASSUME NEW l \in Labels PROVE LabelSound(l)'
  <2>1. CASE l \in LabelsOf(c)
    BY <1>1, <1>2, <2>1 DEF LabelSound, LabelsOf
  <2>2. CASE l \notin LabelsOf(c)
    <3>1. registered'[l] = registered[l] /\ registered[l] \in 0..made /\ LabelSound(l)
      BY <1>2, <2>2 DEF RegistryInv, RegistryTypeOK
    <3>2. registered[l] # 0 => registered[l] \in Commands
      BY <3>1, RegistryMembers DEF RegistryInv
    <3>3. QED
      BY <1>1, <3>1, <3>2 DEF LabelSound, LabelsOf
  <2>3. QED
    BY <2>1, <2>2
<1>9. EscapesOnlyIfOverwrittenOrAdopted'
  <2> SUFFICES ASSUME NEW d \in Commands, d \in Existing', bukkit'[d] = "live", d \notin Labelled', parent'[d] = 0
               PROVE  d \in overwritten'
    BY <1>4, RegistryMembers, <1>0 DEF EscapesOnlyIfOverwrittenOrAdopted, Existing, Commands
  <2>1. d # c
    <3>1. name[c] \in LabelsOf(c) /\ c # 0
      BY <1>0 DEF LabelsOf
    <3>2. c \in Labelled'
      BY <1>2, <3>1 DEF Labelled
    <3>3. QED
      BY <3>2
  <2>2. bukkit[d] = "live" /\ known[d] /\ d \in Existing /\ parent[d] = 0 /\ d # 0
    BY <1>0, <1>1, <2>1 DEF RegistryInv, Known, Unmade, Existing, Commands
  <2>3. CASE d \notin Labelled
    BY <2>2, <2>3 DEF RegistryInv, EscapesOnlyIfOverwrittenOrAdopted
  <2>4. CASE d \in Labelled
    <3>1. PICK l \in Labels : registered[l] = d
      BY <2>4 DEF Labelled
    <3>2. l \in LabelsOf(c)
      BY <1>2, <2>2, <3>1 DEF Labelled
    <3>3. QED
      BY <2>1, <2>2, <3>1, <3>2 DEF Displaced
  <2>5. QED
    BY <2>3, <2>4
<1>10. \A d \in Commands : bukkit[d] = "gone" => bukkit'[d] = "gone"
  BY <1>1 DEF RegistryInv, Known
<1>11. RegistryInv'
  <2> USE <1>4, <1>5, <1>6, <1>7, <1>8, <1>9
  <2> HIDE DEF RegisterTop
  <2>1. QED
    BY DEF RegistryInv
<1>12. QED
  BY <1>10, <1>11

\* The steps that touch neither labels nor the command map.
LEMMA NewKeeps == RegistryInv /\ New => RegistryInv'
<1> SUFFICES ASSUME RegistryInv, New PROVE RegistryInv'
  OBVIOUS
<1>0. /\ made \in Nat /\ MaxCommands \in Nat /\ made' \in OrNull /\ made' = made + 1
      /\ 0..made \subseteq 0..made' /\ Existing \subseteq Existing' /\ made' \in Commands
  BY RegistryMembers DEF RegistryInv, OrNull, Commands, New, Existing
<1>1. RegistryTypeOK'
  BY <1>0 DEF RegistryInv, RegistryTypeOK, New
<1>2. Unmade' /\ Known'
  BY <1>0 DEF RegistryInv, Unmade, Known, New, Commands
<1>3. subs' \in Tables'
  BY <1>1 DEF RegistryInv, RegistryTypeOK, Tables, New
<1>4. \A l \in Labels : LabelSound(l)'
  BY DEF RegistryInv, LabelSound, New, LabelsOf
<1>5. EscapesOnlyIfOverwrittenOrAdopted'
  <2> SUFFICES ASSUME NEW d \in Existing', bukkit'[d] = "live", d \notin Labelled'
               PROVE  d \in overwritten' \/ parent'[d] # 0
    BY DEF EscapesOnlyIfOverwrittenOrAdopted
  <2>1. d \in Commands /\ bukkit[d] = "live" /\ d \notin Labelled
    BY <1>0 DEF New, Labelled, Existing, Commands
  <2>2. d \in Existing
    BY <1>0, <2>1 DEF RegistryInv, Known, Unmade, Existing, Commands
  <2>3. QED
    BY <2>1, <2>2 DEF RegistryInv, EscapesOnlyIfOverwrittenOrAdopted, New
<1>6. QED
  BY <1>1, <1>2, <1>3, <1>4, <1>5 DEF RegistryInv

LEMMA AddSubcommandKeeps ==
  ASSUME RegistryInv, NEW p \in Existing, NEW c \in Existing, AddSubcommand(p, c)
  PROVE  RegistryInv'
<1> USE DEF AddSubcommand
<1>0. /\ made \in Nat /\ p \in Commands /\ c \in Commands /\ p \in 0..made /\ p # 0 /\ c <= made
      /\ depth[p] \in Nat
  BY RegistryMembers DEF RegistryInv, Existing, RegistryTypeOK
<1>1. /\ parent' \in [Commands -> 0..made] /\ parent'[c] = p
      /\ \A d \in Commands : d # c => parent'[d] = parent[d]
      /\ \A d \in Commands : parent[d] # 0 => parent'[d] # 0
  BY <1>0 DEF RegistryInv, RegistryTypeOK
<1>2. RegistryTypeOK'
  BY <1>0, <1>1 DEF RegistryInv, RegistryTypeOK, Existing
<1>3. Unmade' /\ Known'
  BY <1>0, <1>1 DEF RegistryInv, Unmade, Known, Commands
<1>4. subs' \in Tables'
  <2>1. subs \in [Commands -> [Labels -> 0..made]] /\ 0..made \subseteq Nat
    BY DEF RegistryInv, RegistryTypeOK
  <2>2. \A q \in Commands, l \in Labels : subs[q][l] # 0 => subs[q][l] \in Commands
    BY <2>1, RegistryMembers DEF RegistryInv
  <2>3. QED
    BY <1>1, <2>1, <2>2 DEF RegistryInv, Tables
<1>5. \A l \in Labels : LabelSound(l)'
  BY DEF RegistryInv, LabelSound, LabelsOf
<1>6. EscapesOnlyIfOverwrittenOrAdopted'
  <2>1. Existing \subseteq Commands
    BY RegistryMembers DEF RegistryInv
  <2>2. QED
    BY <1>1, <2>1 DEF RegistryInv, EscapesOnlyIfOverwrittenOrAdopted, Labelled, Existing
<1>7. QED
  BY <1>2, <1>3, <1>4, <1>5, <1>6 DEF RegistryInv

\* A subcommand enters its parent's table.
LEMMA RegisterSubKeeps ==
  ASSUME RegistryInv, NEW c \in Existing, parent[c] # 0, Register(c)
  PROVE  RegistryInv' /\ bukkit' = bukkit
<1>0. /\ subs' = [subs EXCEPT ![parent[c]][name[c]] = c]
      /\ known' = [known EXCEPT ![c] = TRUE]
      /\ UNCHANGED <<made, name, aliases, parent, depth, bukkit, registered, overwritten>>
  BY DEF Register
<1>1. /\ made \in Nat /\ c \in Commands /\ c \in 0..made /\ parent[c] \in Commands /\ name[c] \in Labels /\ c <= made
      /\ subs \in [Commands -> [Labels -> 0..made]]
  BY RegistryMembers DEF RegistryInv, Existing, RegistryTypeOK
<1>2. /\ known' \in [Commands -> BOOLEAN] /\ known'[c]
      /\ \A d \in Commands : d # c => known'[d] = known[d]
      /\ \A d \in Commands : known[d] => known'[d]
  BY <1>0, <1>1 DEF RegistryInv, RegistryTypeOK
<1>3. /\ subs' \in [Commands -> [Labels -> 0..made]]
      /\ \A p \in Commands, l \in Labels : subs'[p][l] = IF p = parent[c] /\ l = name[c] THEN c ELSE subs[p][l]
  BY <1>0, <1>1
<1>4. RegistryTypeOK'
  BY <1>0, <1>2, <1>3 DEF RegistryInv, RegistryTypeOK, Existing
<1>5. Unmade' /\ Known'
  BY <1>0, <1>1, <1>2 DEF RegistryInv, Unmade, Known, Commands
<1>6. subs' \in Tables'
  <2>1. \A p \in Commands, l \in Labels : subs[p][l] # 0 => subs[p][l] \in Commands
    BY <1>1, RegistryMembers DEF RegistryInv
  <2>2. QED
    BY <1>0, <1>1, <1>2, <1>3, <2>1 DEF RegistryInv, Tables
<1>7. \A l \in Labels : LabelSound(l)'
  BY <1>0 DEF RegistryInv, LabelSound, LabelsOf
<1>8. EscapesOnlyIfOverwrittenOrAdopted'
  BY <1>0 DEF RegistryInv, EscapesOnlyIfOverwrittenOrAdopted, Labelled, Existing
<1>9. QED
  BY <1>0, <1>4, <1>5, <1>6, <1>7, <1>8 DEF RegistryInv

-----------------------------------------------------------------------------
(* Unregistering.                                                          *)

Pairs == [bukkit : InMap, subs : Tables]

\* What unregistering may have led to: commands left the map, entries their tables.
Thinned == {r \in Pairs : \A d \in Commands :
              r.bukkit[d] = bukkit[d] \/ (r.bukkit[d] = "gone" /\ bukkit[d] # "none")}

LEMMA WithoutFewer ==
  ASSUME RegistryInv, NEW t \in Tables, NEW cs
  PROVE  Without(t, cs) \in Tables
<1>1. t \in [Commands -> [Labels -> 0..made]] /\ 0 \in 0..made
  BY RegistryMembers DEF Tables, RegistryInv
<1>2. \A p \in Commands, l \in Labels : /\ Without(t, cs)[p][l] \in {0, t[p][l]}
                                        /\ Without(t, cs)[p][l] \in 0..made
  BY <1>1 DEF Without
<1>3. Without(t, cs) \in [Commands -> [Labels -> 0..made]]
  <2>1. \A p \in Commands : Without(t, cs)[p] \in [Labels -> 0..made]
    BY <1>1 DEF Without
  <2>2. QED
    BY <2>1 DEF Without
<1>4. QED
  BY <1>2, <1>3 DEF Tables

LEMMA UnregisteredSound ==
  ASSUME RegistryInv, NEW at \in Thinned, NEW c \in Commands, parent[c] = 0 => bukkit[c] # "none"
  PROVE  /\ Unregistered(at, c) \in Thinned
         /\ parent[c] = 0 => Unregistered(at, c).bukkit[c] = "gone"
         /\ \A d \in Commands : at.bukkit[d] = "gone" => Unregistered(at, c).bukkit[d] = "gone"
<1> DEFINE cs == {at.subs[c][l] : l \in Labels} \ {0}
<1>1. /\ at = [bukkit |-> at.bukkit, subs |-> at.subs] /\ at.bukkit \in InMap /\ at.subs \in Tables
      /\ \A d \in Commands : at.bukkit[d] = bukkit[d] \/ (at.bukkit[d] = "gone" /\ bukkit[d] # "none")
  BY DEF Thinned, Pairs
<1>2. Without(at.subs, {c}) \in Tables /\ Without(at.subs, cs) \in Tables
  BY <1>1, WithoutFewer
<1>3. CASE parent[c] # 0
  <2>1. Unregistered(at, c) = [at EXCEPT !.subs = Without(at.subs, {c})]
    BY <1>3 DEF Unregistered
  <2>2. Unregistered(at, c) = [bukkit |-> at.bukkit, subs |-> Without(at.subs, {c})]
    BY <1>1, <2>1
  <2>3. QED
    BY <1>1, <1>2, <1>3, <2>2 DEF Thinned, Pairs
<1>4. CASE parent[c] = 0
  <2> DEFINE b == [at.bukkit EXCEPT ![c] = "gone"]
  <2>1. Unregistered(at, c) = [bukkit |-> b, subs |-> Without(at.subs, cs)]
    BY <1>4 DEF Unregistered
  <2>2. b \in InMap /\ b[c] = "gone" /\ \A d \in Commands : d # c => b[d] = at.bukkit[d]
    BY <1>1 DEF InMap, BukkitStates
  <2> HIDE DEF b, cs
  <2>3. QED
    BY <1>1, <1>2, <1>4, <2>1, <2>2 DEF Thinned, Pairs
<1>5. QED
  BY <1>3, <1>4

LEMMA NowThinned == RegistryInv => Now \in Thinned
BY DEF RegistryInv, RegistryTypeOK, Now, Thinned, Pairs, InMap, BukkitStates

\* What became of the commands of the labels that were cleared, in any order.
LEMMA AfterLabelsSound ==
  ASSUME RegistryInv, NEW n \in Nat, NEW order \in [1..n -> {l \in Labels : registered[l] # 0}]
  PROVE  /\ AfterLabels(order) \in Thinned
         /\ \A i \in 1..n : parent[registered[order[i]]] = 0 =>
              AfterLabels(order).bukkit[registered[order[i]]] = "gone"
<1> DEFINE step == [i \in 1..n |-> [at \in Thinned |-> Unregistered(at, registered[order[i]])]]
           isAfter(f) == f = [i \in 0..Len(order) |->
                                IF i = 0 THEN Now ELSE Unregistered(f[i - 1], registered[order[i]])]
           after == CHOOSE f : isAfter(f)
<1>1. Len(order) = n /\ \A i \in 1..n : /\ order[i] \in Labels
                                        /\ registered[order[i]] \in Commands /\ bukkit[registered[order[i]]] # "none"
  <2>1. \A l \in Labels : registered[l] # 0 => registered[l] \in Commands /\ bukkit[registered[l]] # "none"
    BY RegistryMembers DEF RegistryInv, RegistryTypeOK, LabelSound
  <2>2. QED
    BY <2>1
<1>2. \A i \in 1..n, at \in Thinned :
        /\ step[i][at] = Unregistered(at, registered[order[i]]) /\ step[i][at] \in Thinned
        /\ parent[registered[order[i]]] = 0 => step[i][at].bukkit[registered[order[i]]] = "gone"
        /\ \A d \in Commands : at.bukkit[d] = "gone" => step[i][at].bukkit[d] = "gone"
  BY <1>1, UnregisteredSound
<1>3. step \in [1..n -> [Thinned -> Thinned]]
  BY <1>2
<1> HIDE DEF step
<1>4. PICK g : Iterates(g, Thinned, Now, step, n)
  BY <1>3, NowThinned, IteratesExist
<1>5. /\ g \in [0..n -> Thinned] /\ g[0] = Now
      /\ \A i \in 1..n : i - 1 \in 0..n /\ g[i] = Unregistered(g[i - 1], registered[order[i]])
  <2>1. ASSUME NEW i \in 1..n PROVE i - 1 \in 0..n /\ g[i] = Unregistered(g[i - 1], registered[order[i]])
    <3>1. i - 1 \in 0..n /\ g[i] = step[i][g[i - 1]] /\ g[i - 1] \in Thinned
      BY <1>4 DEF Iterates
    <3>2. QED
      BY <1>2, <3>1
  <2>2. QED
    BY <1>4, <2>1 DEF Iterates
<1>6. isAfter(g)
  <2>1. \A i \in 0..n : g[i] = IF i = 0 THEN Now ELSE Unregistered(g[i - 1], registered[order[i]])
    <3>1. \A i \in 0..n : i # 0 => i \in 1..n
      OBVIOUS
    <3>2. QED
      BY <1>5, <3>1
  <2>2. g = [i \in 0..n |-> g[i]]
    BY <1>5
  <2>3. QED
    BY <1>1, <2>1, <2>2
<1>7. isAfter(after)
  BY <1>6
<1>8. AfterLabels(order) = after[n]
  BY <1>1 DEF AfterLabels
<1> HIDE DEF after
<1>9. after[0] = Now /\ \A i \in 1..n : after[i] = Unregistered(after[i - 1], registered[order[i]])
  BY <1>1, <1>7
<1> DEFINE cleared(m) == /\ after[m] \in Thinned
                         /\ \A i \in 1..m : parent[registered[order[i]]] = 0 =>
                              after[m].bukkit[registered[order[i]]] = "gone"
           S == {m \in Nat : m <= n => cleared(m)}
<1>10. 0 \in S
  BY <1>9, NowThinned
<1>11. ASSUME NEW m \in S PROVE m + 1 \in S
  <2> SUFFICES ASSUME m + 1 <= n PROVE cleared(m + 1)
    BY m + 1 \in Nat
  <2>1. m \in Nat /\ m + 1 \in 1..n /\ (m + 1) - 1 = m /\ cleared(m)
    OBVIOUS
  <2>2. after[m + 1] = step[m + 1][after[m]] /\ after[m] \in Thinned
    BY <1>2, <1>9, <2>1
  <2>3. \A i \in 1..(m + 1) : i = m + 1 \/ i \in 1..m
    BY <2>1
  <2>4. \A i \in 1..(m + 1) : registered[order[i]] \in Commands
    BY <1>1, <2>1
  <2> HIDE DEF S
  <2>5. QED
    BY <1>2, <2>1, <2>2, <2>3, <2>4
<1>12. n \in S
  <2> HIDE DEF S
  <2>1. S \in SUBSET Nat
    BY DEF S
  <2>2. QED
    BY <1>10, <1>11, <2>1, Induction
<1>13. QED
  BY <1>8, <1>12

\* Commands that left the map and entries that left their tables disturb nothing, as
\* long as a command that is still in the map keeps its labels.
LEMMA ThinnedKeeps ==
  ASSUME RegistryInv, NEW r \in Thinned, bukkit' = r.bukkit, subs' = r.subs,
         UNCHANGED <<made, name, aliases, parent, depth, known, overwritten>>,
         \/ registered' = registered
         \/ /\ registered' = NoLabels
            /\ \A c \in Labelled : parent[c] = 0 => bukkit'[c] = "gone"
  PROVE  RegistryInv' /\ \A c \in Commands : bukkit[c] = "gone" => bukkit'[c] = "gone"
<1>1. /\ bukkit' \in InMap /\ subs' \in Tables
      /\ \A c \in Commands : bukkit'[c] = bukkit[c] \/ (bukkit'[c] = "gone" /\ bukkit[c] # "none")
  BY DEF Thinned, Pairs
<1>2. made \in Nat /\ Existing \subseteq Commands /\ \A c \in 0..made : c # 0 => c \in Existing /\ c \in Commands
  BY RegistryMembers DEF RegistryInv
<1>3. registered' \in [Labels -> 0..made]
  BY <1>2 DEF RegistryInv, RegistryTypeOK, NoLabels
<1>4. RegistryTypeOK'
  BY <1>1, <1>3 DEF RegistryInv, RegistryTypeOK, InMap, BukkitStates, Tables, Existing
<1>5. Unmade' /\ Known'
  BY <1>1 DEF RegistryInv, Unmade, Known
<1>6. subs' \in Tables'
  BY <1>1 DEF Tables
<1>7. ASSUME NEW l \in Labels PROVE LabelSound(l)'
  <2>1. CASE registered' = NoLabels
    BY <2>1 DEF NoLabels, LabelSound
  <2>2. CASE registered' = registered
    <3>1. registered[l] \in 0..made /\ LabelSound(l)
      BY DEF RegistryInv, RegistryTypeOK
    <3>2. QED
      BY <1>1, <1>2, <2>2, <3>1 DEF LabelSound, LabelsOf
  <2>3. QED
    BY <2>1, <2>2
<1>8. EscapesOnlyIfOverwrittenOrAdopted'
  <2> SUFFICES ASSUME NEW c \in Existing, bukkit'[c] = "live", c \notin Labelled', parent[c] = 0
               PROVE  c \in overwritten
    BY DEF EscapesOnlyIfOverwrittenOrAdopted, Existing
  <2>1. bukkit[c] = "live"
    BY <1>1, <1>2
  <2>2. c \notin Labelled
    <3>1. CASE registered' = registered
      BY <3>1 DEF Labelled
    <3>2. CASE registered' # registered
      BY <3>2
    <3>3. QED
      BY <3>1, <3>2
  <2>3. QED
    BY <2>1, <2>2 DEF RegistryInv, EscapesOnlyIfOverwrittenOrAdopted
<1>9. RegistryInv'
  BY <1>4, <1>5, <1>6, <1>7, <1>8 DEF RegistryInv
<1>10. QED
  BY <1>1, <1>9

LEMMA UnregisterKeeps ==
  ASSUME RegistryInv, NEW c \in Existing, Unregister(c)
  PROVE  RegistryInv' /\ \A d \in Commands : bukkit[d] = "gone" => bukkit'[d] = "gone"
<1>1. c \in Commands /\ (parent[c] = 0 => bukkit[c] # "none")
  BY RegistryMembers DEF RegistryInv, Unregister
<1>2. Unregistered(Now, c) \in Thinned
  BY <1>1, NowThinned, UnregisteredSound
<1>3. /\ bukkit' = Unregistered(Now, c).bukkit /\ subs' = Unregistered(Now, c).subs
      /\ registered' = registered
      /\ UNCHANGED <<made, name, aliases, parent, depth, known, overwritten>>
  BY DEF Unregister
<1>4. QED
  BY <1>2, <1>3, ThinnedKeeps

LEMMA ClearCommandsKeeps ==
  ASSUME RegistryInv, ClearCommands
  PROVE  RegistryInv' /\ \A d \in Commands : bukkit[d] = "gone" => bukkit'[d] = "gone"
<1> DEFINE entered == {l \in Labels : registered[l] # 0}
           n       == Cardinality(entered)
<1>1. IsFiniteSet(entered) /\ n \in Nat
  BY CommandAssumption, FS_Subset, FS_CardinalityType
<1>2. PICK order \in SetToSeqs(entered) :
        /\ bukkit' = AfterLabels(order).bukkit /\ subs' = AfterLabels(order).subs
  BY DEF ClearCommands
<1>3. order \in [1..n -> entered] /\ \A i, j \in 1..n : i # j => order[i] # order[j]
  BY <1>2 DEF SetToSeqs
<1>4. \A l \in entered : \E i \in 1..n : order[i] = l
  <2> HIDE DEF entered
  <2>1. order \in Injection(1..n, entered)
    BY <1>3 DEF Injection, IsInjective
  <2>2. IsFiniteSet(1..n) /\ Cardinality(1..n) = n
    BY <1>1, FS_Interval
  <2>3. order \in Surjection(1..n, entered)
    BY <1>1, <2>1, <2>2, FS_Injection DEF entered
  <2>4. QED
    BY <2>3 DEF Surjection
<1>5. /\ AfterLabels(order) \in Thinned
      /\ \A i \in 1..n : parent[registered[order[i]]] = 0 => bukkit'[registered[order[i]]] = "gone"
  BY <1>1, <1>2, <1>3, AfterLabelsSound
<1>6. \A c \in Labelled : parent[c] = 0 => bukkit'[c] = "gone"
  BY <1>4, <1>5 DEF Labelled
<1>7. registered' = NoLabels /\ UNCHANGED <<made, name, aliases, parent, depth, known, overwritten>>
  BY DEF ClearCommands
<1>8. QED
  BY <1>2, <1>5, <1>6, <1>7, ThinnedKeeps

-----------------------------------------------------------------------------
LEMMA RegistryNextKeeps ==
  RegistryInv /\ [RegistryNext]_registryVars =>
    RegistryInv' /\ [\A c \in Commands : bukkit[c] = "gone" => bukkit'[c] = "gone"]_registryVars
<1> SUFFICES ASSUME RegistryInv, RegistryNext
             PROVE  RegistryInv' /\ \A c \in Commands : bukkit[c] = "gone" => bukkit'[c] = "gone"
  <2>1. ASSUME RegistryInv, UNCHANGED registryVars PROVE RegistryInv'
    <3>1. RegistryTypeOK'
      BY <2>1 DEF registryVars, RegistryInv, RegistryTypeOK, Existing
    <3>2. Unmade' /\ Known'
      BY <2>1 DEF registryVars, RegistryInv, Unmade, Known
    <3>3. subs' \in Tables'
      BY <2>1 DEF registryVars, RegistryInv, Tables
    <3>4. \A l \in Labels : LabelSound(l)'
      BY <2>1 DEF registryVars, RegistryInv, LabelSound, LabelsOf
    <3>5. EscapesOnlyIfOverwrittenOrAdopted'
      BY <2>1 DEF registryVars, RegistryInv, EscapesOnlyIfOverwrittenOrAdopted, Existing, Labelled
    <3>6. QED
      BY <3>1, <3>2, <3>3, <3>4, <3>5 DEF RegistryInv
  <2>2. QED
    BY <2>1
<1>0. made \in Nat /\ Existing \subseteq Commands /\ \A c \in Existing : c <= made
  BY RegistryMembers DEF RegistryInv, Existing
<1>1. CASE New
  BY <1>1, NewKeeps DEF New
<1>2. CASE RegisterCommand
  <2>1. made' = made + 1 /\ made' <= MaxCommands /\ made' \in Commands /\ made' > made
    BY <1>0, <1>2, CommandAssumption DEF RegisterCommand, Commands
  <2>2. PICK c \in Commands : c = made'
    BY <2>1
  <2>3. parent[c] = 0 /\ ~known[c]
    BY <2>1, <2>2 DEF RegistryInv, Unmade
  <2>4. RegisterTop(c) /\ name' = name /\ aliases' = aliases
    BY <1>2, <2>2 DEF RegisterCommand
  <2>5. c <= made' /\ made' \in {made, made + 1}
    BY <1>0, <2>1, <2>2
  <2>6. QED
    BY <2>1, <2>3, <2>4, <2>5, RegisterTopKeeps
<1>3. ASSUME NEW c \in Existing, Register(c)
      PROVE  RegistryInv' /\ \A d \in Commands : bukkit[d] = "gone" => bukkit'[d] = "gone"
  <2>1. CASE parent[c] # 0
    BY <1>3, <2>1, RegisterSubKeeps
  <2>2. CASE parent[c] = 0
    <3>1. ~known[c] /\ RegisterTop(c) /\ UNCHANGED <<made, name, aliases>>
      BY <1>3, <2>2 DEF Register
    <3>2. made' <= MaxCommands /\ c <= made' /\ made' \in {made, made + 1}
      BY <1>0, <3>1, RegistryMembers DEF RegistryInv
    <3>3. QED
      BY <1>0, <2>2, <3>1, <3>2, RegisterTopKeeps
  <2>3. QED
    BY <2>1, <2>2
<1>4. ASSUME NEW p \in Existing, NEW c \in Existing, AddSubcommand(p, c)
      PROVE  RegistryInv' /\ \A d \in Commands : bukkit[d] = "gone" => bukkit'[d] = "gone"
  BY <1>4, AddSubcommandKeeps DEF AddSubcommand
<1>5. ASSUME NEW c \in Existing, Unregister(c)
      PROVE  RegistryInv' /\ \A d \in Commands : bukkit[d] = "gone" => bukkit'[d] = "gone"
  BY <1>5, UnregisterKeeps
<1>6. CASE ClearCommands
  BY <1>6, ClearCommandsKeeps
<1>7. QED
  BY <1>1, <1>2, <1>3, <1>4, <1>5, <1>6 DEF RegistryNext

\* The invariant from which the properties of the registry follow.
THEOREM RegistryInductive == RegistrySpec => []RegistryInv
<1>1. RegistryInv /\ [RegistryNext]_registryVars => RegistryInv'
  BY RegistryNextKeeps
<1>2. QED
  BY <1>1, RegistryInitHolds, PTL DEF RegistrySpec

\* Labels and subcommand tables name only commands that were made, and depths are natural
\* numbers, whatever scripts build and register (command.js:102-194).
THEOREM RegistryTyped == RegistrySpec => []RegistryTypeOK
<1>1. RegistryInv => RegistryTypeOK
  BY DEF RegistryInv
<1>2. QED
  BY <1>1, RegistryInductive, PTL

\* What a clear cannot reach and Bukkit still has lost a label to another command, or became a
\* subcommand after it was registered (command.js:145-163, 352-378).
THEOREM OnlyOverwrittenOrAdoptedEscape == RegistrySpec => []EscapesOnlyIfOverwrittenOrAdopted
<1>1. RegistryInv => EscapesOnlyIfOverwrittenOrAdopted
  BY DEF RegistryInv
<1>2. QED
  BY <1>1, RegistryInductive, PTL

\* Every labelled command has a BukkitCommand to take out of the map, so that a clear cannot
\* fail half way; a subcommand's entry is its own; and a command that left Bukkit's map never
\* comes back (command.js:145-178, 372-378).
THEOREM TablesAlwaysAgree == RegistrySpec => TablesAgree
<1>1. RegistryInv => \A l \in Labels : LabelSound(l) /\ \A p \in Commands : EntrySound(p, l)
  BY DEF RegistryInv, Tables, EntrySound
<1>2. RegistryInv /\ [RegistryNext]_registryVars =>
        [\A c \in Commands : bukkit[c] = "gone" => bukkit'[c] = "gone"]_registryVars
  BY RegistryNextKeeps
<1>3. QED
  BY <1>1, <1>2, RegistryInductive, PTL DEF RegistrySpec, TablesAgree

-----------------------------------------------------------------------------
(* Executions.                                                             *)

Run     == [sender : Senders, fresh : BOOLEAN, state : States]
Runs    == Seq(Run)
Waiting == Seq(0..Len(promises))

Typed ==
  /\ restriction \in {"none", "console", "player"}
  /\ commandState \in [Ids -> States] /\ stored \in [Ids -> States] /\ stale \subseteq Ids
  /\ runs \in Runs /\ Len(runs) <= MaxRuns
  /\ promises \in Seq(Promises) /\ Len(promises) <= MaxWaiting
  /\ \A w \in DOMAIN promises : promises[w].run \in DOMAIN runs
  /\ array \in BOOLEAN /\ listening \in Waiting /\ IsInjective(listening)

\* An execution that nobody has set or cleared a state after has the state there is.
FreshIsCurrent == \A r \in DOMAIN runs : runs[r].fresh => runs[r].state = commandState[IdOf(r)]

\* A waiting call has come one place nearer with every message it was passed over.
ComesNearer ==
  \A i \in DOMAIN listening : listening[i] # 0 =>
    i + promises[listening[i]].missed <= promises[listening[i]].ahead + 1

\* Of whom, and what became of it.
Owner(p) == getSenderId(runs[p.run].sender)
Accounted(w) ==
  LET p == promises[w]
  IN /\ p.status = "resolved" => Owner(p) \in p.heard
     /\ p.status # "pending" => w \notin ToSet(listening)
     /\ p.status = "pending" /\ w \notin ToSet(listening) => p.heard \ {Owner(p)} # {}

ExecutionInv ==
  /\ Typed /\ FreshIsCurrent /\ StateLostOnlyIfStale /\ ComesNearer
  /\ \A w \in DOMAIN promises : Accounted(w)

LEMMA IdsAre == \A s \in Senders : getSenderId(s) \in Ids
BY DEF getSenderId, Ids

LEMMA RunsAre ==
  ASSUME runs \in Runs
  PROVE  /\ DOMAIN runs = 1..Len(runs) /\ Len(runs) \in Nat
         /\ \A r \in DOMAIN runs : /\ runs[r] \in Run /\ runs[r].sender \in Senders
                                   /\ runs[r].fresh \in BOOLEAN /\ runs[r].state \in States
                                   /\ IdOf(r) \in Ids
<1>1. DOMAIN runs = 1..Len(runs) /\ Len(runs) \in Nat /\ \A r \in DOMAIN runs : runs[r] \in Run
  BY DEF Runs
<1>2. \A r \in DOMAIN runs : /\ runs[r].sender \in Senders
                             /\ runs[r].fresh \in BOOLEAN /\ runs[r].state \in States
  BY <1>1 DEF Run
<1>3. QED
  BY <1>1, <1>2, IdsAre DEF IdOf

LEMMA NoStateIsState == NoState \in States
BY DEF NoState, States

LEMMA ExecutionInitHolds == Init => ExecutionInv
<1> SUFFICES ASSUME Init PROVE ExecutionInv
  OBVIOUS
<1>1. Typed
  <2>1. runs \in Runs /\ Len(runs) = 0 /\ promises \in Seq(Promises) /\ Len(promises) = 0
        /\ listening \in Waiting /\ IsInjective(listening) /\ DOMAIN promises = {}
    BY DEF Init, Runs, Waiting, IsInjective
  <2>2. commandState \in [Ids -> States] /\ stored \in [Ids -> States] /\ stale \subseteq Ids
    BY NoStateIsState DEF Init
  <2>3. MaxRuns \in Nat /\ MaxWaiting \in Nat
    BY CommandsAssumption
  <2>4. restriction \in {"none", "console", "player"} /\ array \in BOOLEAN
    BY DEF Init
  <2>5. QED
    BY <2>1, <2>2, <2>3, <2>4 DEF Typed
<1>2. QED
  BY <1>1 DEF Init, ExecutionInv, FreshIsCurrent, StateLostOnlyIfStale, ComesNearer

\* The steps of a state.
LEMMA StatesKeep ==
  ASSUME ExecutionInv, NEW r \in DOMAIN runs, runs' = NowStale(IdOf(r)),
         UNCHANGED <<restriction, conversation>>, NEW now \in States, NEW sum \in States,
         commandState' = [commandState EXCEPT ![IdOf(r)] = now],
         stored' = [stored EXCEPT ![IdOf(r)] = sum],
         stale' \subseteq Ids, stale \ {IdOf(r)} \subseteq stale', IdOf(r) \notin stale' => now = sum
  PROVE  ExecutionInv'
<1> DEFINE id == IdOf(r)
<1>1. runs \in Runs /\ runs[r].sender \in Senders /\ id \in Ids
  BY RunsAre DEF ExecutionInv, Typed
<1>2. /\ runs' \in Runs /\ Len(runs') = Len(runs) /\ DOMAIN runs' = DOMAIN runs
      /\ \A q \in DOMAIN runs : /\ runs'[q].sender = runs[q].sender /\ runs'[q].state = runs[q].state
                                /\ IdOf(q)' = IdOf(q)
                                /\ runs'[q].fresh => runs[q].fresh /\ IdOf(q) # id
  <2>1. \A q \in DOMAIN runs : runs[q] \in Run
    BY <1>1, RunsAre
  <2>2. /\ DOMAIN runs' = 1..Len(runs) /\ Len(runs) \in Nat
        /\ \A q \in DOMAIN runs : runs'[q] = IF IdOf(q) = id THEN [runs[q] EXCEPT !.fresh = FALSE] ELSE runs[q]
    BY <1>1 DEF NowStale, Runs
  <2>3. \A q \in DOMAIN runs : /\ runs'[q] \in Run
                               /\ runs'[q].sender = runs[q].sender /\ runs'[q].state = runs[q].state
                               /\ runs'[q].fresh => runs[q].fresh /\ IdOf(q) # id
    BY <2>1, <2>2 DEF Run
  <2>4. runs' = [q \in 1..Len(runs) |-> runs'[q]]
    BY <2>2 DEF NowStale
  <2>5. runs' \in Runs /\ Len(runs') = Len(runs)
    BY <1>1, <2>2, <2>3, <2>4 DEF Runs
  <2>6. QED
    BY <1>1, <2>2, <2>3, <2>5 DEF IdOf, Runs
<1>3. /\ commandState' \in [Ids -> States] /\ stored' \in [Ids -> States]
      /\ commandState'[id] = now /\ stored'[id] = sum
      /\ \A i \in Ids : i # id => commandState'[i] = commandState[i] /\ stored'[i] = stored[i]
  BY <1>1 DEF ExecutionInv, Typed
<1>4. UNCHANGED <<restriction, listening, array, promises>>
  BY DEF conversation
<1>5. Typed'
  BY <1>2, <1>3, <1>4 DEF ExecutionInv, Typed, Waiting
<1>6. FreshIsCurrent'
  <2>1. \A q \in DOMAIN runs : IdOf(q) \in Ids
    BY <1>1, RunsAre
  <2>2. QED
    BY <1>2, <1>3, <2>1 DEF ExecutionInv, FreshIsCurrent
<1>7. StateLostOnlyIfStale'
  BY <1>3 DEF ExecutionInv, StateLostOnlyIfStale
<1>8. ComesNearer'
  BY <1>4 DEF ExecutionInv, ComesNearer
<1>9. \A w \in DOMAIN promises' : Accounted(w)'
  <2>1. \A w \in DOMAIN promises : Owner(promises[w])' = Owner(promises[w])
    BY <1>2, <1>4 DEF ExecutionInv, Typed, Owner
  <2>2. QED
    BY <1>4, <2>1 DEF ExecutionInv, Accounted
<1>10. QED
  BY <1>5, <1>6, <1>7, <1>8, <1>9 DEF ExecutionInv

LEMMA SetStateKeeps ==
  ASSUME ExecutionInv, NEW r \in DOMAIN runs, NEW k \in Keys, NEW v \in Values, setState(r, k, v)
  PROVE  ExecutionInv'
<1> DEFINE id == IdOf(r)
<1>1. id \in Ids /\ runs[r].state \in States /\ runs[r].fresh \in BOOLEAN
      /\ commandState[id] \in States /\ stored[id] \in States
  BY RunsAre DEF ExecutionInv, Typed
<1>2. \A s \in States : Spread(s, k, v) \in States
  BY DEF Spread, States
<1>3. NextState(r, k, v) = Spread(runs[r].state, k, v) /\ NextState(r, k, v) \in States
  BY <1>1, <1>2 DEF NextState
<1>4. /\ commandState' = [commandState EXCEPT ![id] = NextState(r, k, v)]
      /\ stored' = [stored EXCEPT ![id] = Spread(stored[id], k, v)]
      /\ stale' = IF runs[r].fresh THEN stale ELSE stale \cup {id}
      /\ runs' = NowStale(id) /\ UNCHANGED <<restriction, conversation>>
  BY DEF setState
<1>5. stale' \subseteq Ids /\ stale \ {id} \subseteq stale'
  BY <1>1, <1>4 DEF ExecutionInv, Typed
<1>6. id \notin stale' => NextState(r, k, v) = Spread(stored[id], k, v)
  <2> SUFFICES ASSUME id \notin stale' PROVE runs[r].state = stored[id]
    BY <1>3
  <2>1. runs[r].fresh /\ id \notin stale
    BY <1>1, <1>4
  <2>2. QED
    BY <1>1, <2>1 DEF ExecutionInv, FreshIsCurrent, StateLostOnlyIfStale
<1>7. QED
  BY <1>1, <1>2, <1>3, <1>4, <1>5, <1>6, StatesKeep

LEMMA ClearStateKeeps ==
  ASSUME ExecutionInv, NEW r \in DOMAIN runs, clearState(r)
  PROVE  ExecutionInv'
<1>1. IdOf(r) \in Ids /\ stale' \subseteq Ids /\ stale \ {IdOf(r)} \subseteq stale'
  BY RunsAre DEF ExecutionInv, Typed, clearState
<1>2. QED
  BY <1>1, NoStateIsState, StatesKeep DEF clearState

\* An execution begins.
LEMMA ExecuteKeeps ==
  ASSUME ExecutionInv, NEW sender \in Senders, NEW permitted, Execute(sender, permitted)
  PROVE  ExecutionInv'
<1> DEFINE run == [sender |-> sender, fresh |-> TRUE, state |-> commandState[getSenderId(sender)]]
<1>1. /\ Len(runs) < MaxRuns /\ runs' = Append(runs, run)
      /\ UNCHANGED <<restriction, conversation, states>>
  BY DEF Execute
<1>2. run \in Run /\ getSenderId(sender) \in Ids
  BY IdsAre DEF Run, ExecutionInv, Typed
<1>3. runs \in Runs /\ Len(runs) \in Nat /\ MaxRuns \in Nat
  BY CommandsAssumption, RunsAre DEF ExecutionInv, Typed
<1>4. runs' \in Runs /\ Len(runs') = Len(runs) + 1
  BY <1>1, <1>2, <1>3 DEF Runs
<1>5. /\ DOMAIN runs = 1..Len(runs) /\ DOMAIN runs' = 1..(Len(runs) + 1)
      /\ \A q \in DOMAIN runs : q \in DOMAIN runs' /\ runs'[q] = runs[q]
      /\ runs'[Len(runs) + 1] = run
      /\ \A q \in DOMAIN runs' : q \in DOMAIN runs \/ q = Len(runs) + 1
  <2> HIDE DEF run
  <2>1. QED
    BY <1>1, <1>2, <1>3, <1>4 DEF Runs
<1>6. UNCHANGED <<restriction, listening, array, promises, commandState, stale, stored>>
  BY <1>1 DEF conversation, states
<1>7. Typed'
  BY <1>1, <1>3, <1>4, <1>5, <1>6 DEF ExecutionInv, Typed, Waiting
<1>8. FreshIsCurrent'
  <2> SUFFICES ASSUME NEW q \in DOMAIN runs', runs'[q].fresh PROVE runs'[q].state = commandState'[IdOf(q)']
    BY DEF FreshIsCurrent
  <2>1. CASE q \in DOMAIN runs
    BY <1>5, <1>6, <2>1 DEF ExecutionInv, FreshIsCurrent, IdOf
  <2>2. CASE q = Len(runs) + 1
    BY <1>5, <1>6, <2>2 DEF IdOf
  <2>3. QED
    BY <1>5, <2>1, <2>2
<1>9. StateLostOnlyIfStale' /\ ComesNearer'
  BY <1>6 DEF ExecutionInv, StateLostOnlyIfStale, ComesNearer
<1>10. \A w \in DOMAIN promises' : Accounted(w)'
  <2>1. \A w \in DOMAIN promises : Owner(promises[w])' = Owner(promises[w])
    BY <1>5, <1>6 DEF ExecutionInv, Typed, Owner
  <2>2. QED
    BY <1>6, <2>1 DEF ExecutionInv, Accounted
<1>11. QED
  BY <1>7, <1>8, <1>9, <1>10 DEF ExecutionInv

-----------------------------------------------------------------------------
(* The listeners of "playerchat".                                          *)

\* Different elements of 0..n.
LEMMA FewListen ==
  ASSUME NEW n \in Nat, NEW s \in Seq(0..n), IsInjective(s)
  PROVE  Len(s) <= n + 1
<1>1. Len(s) \in Nat /\ s \in [1..Len(s) -> 0..n]
  OBVIOUS
<1>2. s \in Injection(1..Len(s), 0..n)
  BY <1>1 DEF Injection
<1>3. IsFiniteSet(0..n) /\ Cardinality(0..n) = n + 1 /\ Cardinality(1..Len(s)) = Len(s)
  <2>1. 0 \in Int /\ 1 \in Int /\ n \in Int /\ Len(s) \in Int /\ ~(0 > n)
    BY <1>1
  <2>2. IsFiniteSet(0..n) /\ Cardinality(0..n) = n - 0 + 1
    BY <2>1, FS_Interval
  <2>3. Cardinality(1..Len(s)) = IF 1 > Len(s) THEN 0 ELSE Len(s) - 1 + 1
    BY <2>1, FS_Interval
  <2>4. QED
    BY <1>1, <2>2, <2>3
<1>4. QED
  BY <1>1, <1>2, <1>3, FS_Injection

\* A list without its i-th element.
LEMMA Removed ==
  ASSUME NEW S, NEW s \in Seq(S), NEW i \in DOMAIN s
  PROVE  /\ RemoveAt(s, i) \in Seq(S) /\ Len(RemoveAt(s, i)) = Len(s) - 1
         /\ \A j \in DOMAIN RemoveAt(s, i) :
              /\ j \in DOMAIN s /\ j + 1 \in DOMAIN s
              /\ RemoveAt(s, i)[j] = IF j < i THEN s[j] ELSE s[j + 1]
<1> DEFINE a == SubSeq(s, 1, i - 1)
           b == SubSeq(s, i + 1, Len(s))
<1>1. Len(s) \in Nat /\ DOMAIN s = 1..Len(s) /\ i \in 1..Len(s)
  OBVIOUS
<1>2. a \in Seq(S) /\ Len(a) = i - 1 /\ \A j \in 1..(i - 1) : a[j] = s[j]
  BY <1>1
<1>3. b \in Seq(S) /\ Len(b) = Len(s) - i /\ \A j \in 1..(Len(s) - i) : b[j] = s[j + i]
  BY <1>1
<1>4. RemoveAt(s, i) = a \o b
  BY DEF RemoveAt
<1> HIDE DEF a, b
<1>5. a \o b \in Seq(S) /\ Len(a \o b) = Len(s) - 1 /\ DOMAIN (a \o b) = 1..(Len(s) - 1)
  <2>1. a \o b \in Seq(S) /\ Len(a \o b) = Len(a) + Len(b)
    BY <1>2, <1>3, ConcatProperties
  <2>2. Len(a \o b) = Len(s) - 1
    BY <1>1, <1>2, <1>3, <2>1
  <2>3. QED
    BY <2>1, <2>2
<1>6. ASSUME NEW j \in 1..(Len(s) - 1) PROVE (a \o b)[j] = IF j < i THEN s[j] ELSE s[j + 1]
  <2>1. CASE j < i
    <3>1. j \in 1..(i - 1)
      BY <1>1, <2>1
    <3>2. (a \o b)[j] = a[j]
      BY <1>2, <1>3, <3>1
    <3>3. QED
      BY <1>2, <2>1, <3>1, <3>2
  <2>2. CASE ~(j < i)
    <3>1. j - (i - 1) \in 1..(Len(s) - i) /\ (j - (i - 1)) + i = j + 1
      BY <1>1, <2>2
    <3>2. (a \o b)[j] = b[j - (i - 1)]
      BY <1>1, <1>2, <1>3, <2>2, <3>1
    <3>3. b[j - (i - 1)] = s[j + 1]
      BY <1>3, <3>1
    <3>4. QED
      BY <2>2, <3>2, <3>3
  <2>3. QED
    BY <2>1, <2>2
<1>7. \A j \in 1..(Len(s) - 1) : j \in DOMAIN s /\ j + 1 \in DOMAIN s
  BY <1>1
<1>8. QED
  BY <1>4, <1>5, <1>6, <1>7

LEMMA RemovedInjective ==
  ASSUME NEW S, NEW s \in Seq(S), NEW i \in DOMAIN s, IsInjective(s)
  PROVE  IsInjective(RemoveAt(s, i)) /\ \A j \in DOMAIN RemoveAt(s, i) : RemoveAt(s, i)[j] # s[i]
<1> DEFINE t == RemoveAt(s, i)
           at(j) == IF j < i THEN j ELSE j + 1
<1>1. DOMAIN s \subseteq Nat /\ i \in Nat
  OBVIOUS
<1>2. \A j \in DOMAIN t : j \in Nat /\ at(j) \in DOMAIN s /\ t[j] = s[at(j)] /\ at(j) # i
  <2> SUFFICES ASSUME NEW j \in DOMAIN t PROVE j \in Nat /\ at(j) \in DOMAIN s /\ t[j] = s[at(j)] /\ at(j) # i
    OBVIOUS
  <2>1. j \in DOMAIN s /\ j + 1 \in DOMAIN s /\ t[j] = IF j < i THEN s[j] ELSE s[j + 1]
    BY Removed
  <2> HIDE DEF t
  <2>2. QED
    BY <1>1, <2>1
<1> HIDE DEF t
<1>3. \A j, k \in DOMAIN t : at(j) = at(k) => j = k
  BY <1>1, <1>2
<1>4. QED
  BY <1>2, <1>3 DEF IsInjective, t

LEMMA RemovedAt ==
  ASSUME NEW S, NEW s \in Seq(S), NEW i \in DOMAIN s, NEW j \in DOMAIN RemoveAt(s, i)
  PROVE  /\ j \in DOMAIN s /\ j + 1 \in DOMAIN s
         /\ RemoveAt(s, i)[j] = IF j < i THEN s[j] ELSE s[j + 1]
BY Removed

\* What a message leaves of the listeners: each that stays and is not the script's own has
\* come nearer, for the one before it took itself out of the array.
LEMMA RemainingSound ==
  ASSUME NEW n \in Nat, NEW list \in Seq(0..n), IsInjective(list)
  PROVE  /\ Remaining(list) \in Seq(0..n) /\ IsInjective(Remaining(list))
         /\ \A j \in DOMAIN Remaining(list) :
              \E i \in DOMAIN list : list[i] = Remaining(list)[j] /\ (list[i] = 0 \/ i > j)
<1> DEFINE Lists == Seq(0..n)
           len   == Len(list)
           step  == [i \in 1..len |-> [l \in Lists |-> Turn(l, i)]]
           isAfter(f) == f = [i \in 0..Len(list) |-> IF i = 0 THEN list ELSE Turn(f[i - 1], i)]
           after == CHOOSE f : isAfter(f)
           from(l, j, m, i) == list[i] = l[j] /\ (IF j <= m THEN list[i] = 0 \/ i > j ELSE i >= j)
           soFar(l, m) == /\ l \in Lists /\ IsInjective(l)
                          /\ \A j \in DOMAIN l : \E i \in DOMAIN list : from(l, j, m, i)
<1>1. len \in Nat /\ DOMAIN list = 1..len /\ list \in Lists
  OBVIOUS
<1>2. \A i \in 1..len, l \in Lists : step[i][l] = Turn(l, i) /\ Turn(l, i) \in Lists
  <2> SUFFICES ASSUME NEW i \in 1..len, NEW l \in Lists PROVE Turn(l, i) \in Lists
    OBVIOUS
  <2>1. i > Len(l) \/ i \in DOMAIN l
    BY <1>1
  <2>2. QED
    BY <2>1, Removed DEF Turn
<1>3. step \in [1..len -> [Lists -> Lists]]
  BY <1>2
<1> HIDE DEF step
<1>4. PICK g : Iterates(g, Lists, list, step, len)
  BY <1>1, <1>3, IteratesExist
<1>5. /\ g \in [0..len -> Lists] /\ g[0] = list
      /\ \A i \in 1..len : i - 1 \in 0..len /\ g[i] = Turn(g[i - 1], i)
  <2>1. ASSUME NEW i \in 1..len PROVE i - 1 \in 0..len /\ g[i] = Turn(g[i - 1], i)
    <3>1. i - 1 \in 0..len
      BY <1>1
    <3>2. g[i] = step[i][g[i - 1]] /\ g[i - 1] \in Lists
      BY <1>4, <3>1 DEF Iterates
    <3>3. QED
      BY <1>2, <3>1, <3>2
  <2>2. QED
    BY <1>4, <2>1 DEF Iterates
<1>6. isAfter(g)
  <2>1. \A i \in 0..len : g[i] = IF i = 0 THEN list ELSE Turn(g[i - 1], i)
    <3>1. \A i \in 0..len : i # 0 => i \in 1..len
      OBVIOUS
    <3>2. QED
      BY <1>5, <3>1
  <2>2. g = [i \in 0..len |-> g[i]]
    BY <1>5
  <2>3. QED
    BY <2>1, <2>2
<1>7. isAfter(after)
  BY <1>6
<1>8. Remaining(list) = after[len]
  BY DEF Remaining
<1> HIDE DEF after
<1>9. after[0] = list /\ \A i \in 1..len : after[i] = Turn(after[i - 1], i)
  BY <1>1, <1>7
<1>10. soFar(list, 0)
  <2>1. \A j \in DOMAIN list : from(list, j, 0, j)
    BY <1>1
  <2>2. QED
    BY <1>1, <2>1
<1>11. ASSUME NEW m \in 0..(len - 1), NEW l, soFar(l, m)
       PROVE  soFar(Turn(l, m + 1), m + 1)
  <2>1. l \in Lists /\ Len(l) \in Nat /\ DOMAIN l = 1..Len(l) /\ m \in Nat /\ DOMAIN list \subseteq Nat
    BY <1>1, <1>11
  <2>2. CASE m + 1 > Len(l) \/ l[m + 1] = 0
    <3>1. Turn(l, m + 1) = l
      BY <2>2 DEF Turn
    <3>2. ASSUME NEW j \in DOMAIN l PROVE \E i \in DOMAIN list : from(l, j, m + 1, i)
      <4>1. PICK i \in DOMAIN list : from(l, j, m, i)
        BY <1>11
      <4>2. CASE j = m + 1
        BY <2>1, <2>2, <4>1, <4>2
      <4>3. CASE j # m + 1
        <5>1. j <= m + 1 <=> j <= m
          BY <2>1, <4>3
        <5>2. QED
          BY <4>1, <5>1
      <4>4. QED
        BY <4>2, <4>3
    <3>3. QED
      BY <1>11, <3>1, <3>2
  <2>3. CASE ~(m + 1 > Len(l) \/ l[m + 1] = 0)
    <3> DEFINE t == RemoveAt(l, m + 1)
    <3>1. Turn(l, m + 1) = t /\ m + 1 \in DOMAIN l
      BY <2>1, <2>3 DEF Turn
    <3>2. t \in Lists /\ IsInjective(t)
      BY <1>11, <3>1, Removed, RemovedInjective
    <3>3. \A j \in DOMAIN t : /\ j \in DOMAIN l /\ j + 1 \in DOMAIN l
                              /\ t[j] = IF j < m + 1 THEN l[j] ELSE l[j + 1]
      <4>1. m + 1 \in Nat
        BY <2>1
      <4>2. \A j \in DOMAIN RemoveAt(l, m + 1) :
              /\ j \in DOMAIN l /\ j + 1 \in DOMAIN l
              /\ RemoveAt(l, m + 1)[j] = IF j < m + 1 THEN l[j] ELSE l[j + 1]
        BY <2>1, <3>1, RemovedAt
      <4>3. QED
        BY <4>2
    <3> HIDE DEF t
    <3>4. ASSUME NEW j \in DOMAIN t PROVE \E i \in DOMAIN list : from(t, j, m + 1, i)
      <4>1. CASE j < m + 1
        <5>1. PICK i \in DOMAIN list : from(l, j, m, i)
          BY <1>11, <3>3, SMTT(60)
        <5>2. t[j] = l[j] /\ j \in Nat
          BY <3>2, <3>3, <4>1
        <5>3. from(t, j, m + 1, i)
          BY <2>1, <4>1, <5>1, <5>2, SMTT(60)
        <5>4. QED
          BY <5>3
      <4>2. CASE ~(j < m + 1)
        <5>1. PICK i \in DOMAIN list : from(l, j + 1, m, i)
          BY <1>11, <3>3, SMTT(60)
        <5>2. t[j] = l[j + 1] /\ j \in Nat
          BY <3>2, <3>3, <4>2
        <5>3. from(t, j, m + 1, i)
          BY <2>1, <4>2, <5>1, <5>2, SMTT(60)
        <5>4. QED
          BY <5>3
      <4>3. QED
        BY <4>1, <4>2
    <3>5. QED
      BY <3>1, <3>2, <3>4
  <2>4. QED
    BY <2>2, <2>3
<1> DEFINE S == {m \in Nat : m <= len => soFar(after[m], m)}
<1> HIDE DEF soFar, isAfter
<1>12. 0 \in S
  BY <1>9, <1>10
<1>13. ASSUME NEW m \in S PROVE m + 1 \in S
  <2> SUFFICES ASSUME m + 1 <= len PROVE soFar(after[m + 1], m + 1)
    BY m + 1 \in Nat
  <2>1. m \in Nat /\ m \in 0..(len - 1) /\ m + 1 \in 1..len /\ (m + 1) - 1 = m /\ soFar(after[m], m)
    BY <1>1
  <2>2. after[m + 1] = Turn(after[m], m + 1)
    BY <1>9, <2>1
  <2>3. QED
    BY <1>11, <2>1, <2>2
<1>14. len \in S
  <2> HIDE DEF S
  <2>1. S \in SUBSET Nat
    BY DEF S
  <2>2. QED
    BY <1>1, <1>12, <1>13, <2>1, Induction
<1>15. soFar(Remaining(list), len)
  BY <1>8, <1>14
<1> DEFINE r == Remaining(list)
<1>16. r \in Lists /\ IsInjective(r) /\ \A j \in DOMAIN r : \E i \in DOMAIN list : from(r, j, len, i)
  BY <1>15 DEF soFar
<1> HIDE DEF r
<1>17. \A j \in DOMAIN r, i \in DOMAIN list : from(r, j, len, i) => list[i] = r[j] /\ (list[i] = 0 \/ i > j)
  <2> SUFFICES ASSUME NEW j \in DOMAIN r, NEW i \in DOMAIN list, from(r, j, len, i)
               PROVE  list[i] = 0 \/ i > j
    OBVIOUS
  <2>1. i <= len /\ i \in Nat /\ j \in Nat
    BY <1>1, <1>16
  <2>2. QED
    BY <1>1, <2>1
<1>18. QED
  BY <1>16, <1>17 DEF r

\* The steps that leave the states alone.
LEMMA StatesStay ==
  ASSUME ExecutionInv, UNCHANGED <<runs, states>>
  PROVE  FreshIsCurrent' /\ StateLostOnlyIfStale'
BY DEF ExecutionInv, FreshIsCurrent, StateLostOnlyIfStale, states, IdOf

LEMMA ListeningIs ==
  ASSUME Typed
  PROVE  /\ Len(listening) \in Nat /\ DOMAIN listening = 1..Len(listening) /\ Len(promises) \in Nat
         /\ DOMAIN promises = 1..Len(promises) /\ Len(listening) <= Len(promises) + 1
         /\ \A i \in DOMAIN listening : /\ listening[i] \in 0..Len(promises)
                                        /\ listening[i] # 0 => listening[i] \in DOMAIN promises
         /\ \A w \in DOMAIN promises : promises[w] \in Promises
<1>1. promises \in Seq(Promises) /\ Len(promises) \in Nat /\ DOMAIN promises = 1..Len(promises)
      /\ \A w \in DOMAIN promises : promises[w] \in Promises
  BY DEF Typed
<1>2. listening \in Seq(0..Len(promises)) /\ IsInjective(listening)
  BY DEF Typed, Waiting
<1>3. Len(listening) <= Len(promises) + 1
  BY <1>1, <1>2, FewListen
<1>4. QED
  BY <1>1, <1>2, <1>3

\* A script's own listener comes and goes.
LEMMA ListenKeeps ==
  ASSUME ExecutionInv, Listen
  PROVE  ExecutionInv'
<1>1. 0 \notin ToSet(listening) /\ listening' = Append(listening, 0) /\ array' = TRUE
      /\ UNCHANGED <<restriction, runs, promises, states, commandState, stored, stale>>
  BY DEF Listen, states
<1>2. listening \in Waiting /\ 0 \in 0..Len(promises) /\ IsInjective(listening)
  BY ListeningIs DEF ExecutionInv, Typed
<1>3. /\ listening' \in Waiting /\ Len(listening) \in Nat /\ DOMAIN listening = 1..Len(listening)
      /\ DOMAIN listening' = 1..(Len(listening) + 1) /\ listening'[Len(listening) + 1] = 0
      /\ \A i \in DOMAIN listening : listening'[i] = listening[i]
      /\ \A i \in DOMAIN listening' : i \in DOMAIN listening \/ i = Len(listening) + 1
  BY <1>1, <1>2 DEF Waiting
<1>4. \A i \in DOMAIN listening : listening[i] # 0
  BY <1>1 DEF ToSet
<1>5. IsInjective(listening')
  BY <1>2, <1>3, <1>4 DEF IsInjective
<1>6. Typed'
  BY <1>1, <1>3, <1>5 DEF ExecutionInv, Typed, Waiting
<1>7. ComesNearer'
  BY <1>1, <1>3 DEF ExecutionInv, ComesNearer
<1>8. ASSUME NEW w \in DOMAIN promises' PROVE Accounted(w)'
  <2>1. w \in DOMAIN promises /\ w # 0 /\ Accounted(w)
    BY <1>1, ListeningIs DEF ExecutionInv
  <2>2. w \in ToSet(listening') <=> w \in ToSet(listening)
    BY <1>3, <2>1 DEF ToSet
  <2>3. QED
    BY <1>1, <2>1, <2>2 DEF Accounted, Owner
<1>9. QED
  BY <1>1, <1>6, <1>7, <1>8, StatesStay DEF ExecutionInv

LEMMA UnlistenKeeps ==
  ASSUME ExecutionInv, Unlisten
  PROVE  ExecutionInv'
<1>1. PICK k \in DOMAIN listening : listening[k] = 0 /\ listening' = RemoveAt(listening, k)
  BY DEF Unlisten
<1>2. UNCHANGED <<restriction, runs, array, promises, states, commandState, stored, stale>>
  BY DEF Unlisten, states
<1>3. listening \in Waiting /\ IsInjective(listening)
  BY DEF ExecutionInv, Typed
<1>4. listening' \in Waiting /\ IsInjective(listening')
  BY <1>1, <1>3, Removed, RemovedInjective DEF Waiting
<1>5. \A j \in DOMAIN listening' : /\ j \in DOMAIN listening /\ j + 1 \in DOMAIN listening
                                   /\ listening'[j] = IF j < k THEN listening[j] ELSE listening[j + 1]
  BY <1>1, <1>3, RemovedAt DEF Waiting
<1>6. Typed'
  BY <1>2, <1>4 DEF ExecutionInv, Typed, Waiting
<1>7. ComesNearer'
  <2> SUFFICES ASSUME NEW j \in DOMAIN listening', listening'[j] # 0
               PROVE  j + promises[listening'[j]].missed <= promises[listening'[j]].ahead + 1
    BY <1>2 DEF ComesNearer
  <2>1. PICK i \in DOMAIN listening : i \in Nat /\ j \in Nat /\ i >= j /\ listening[i] = listening'[j]
    BY <1>3, <1>5, ListeningIs DEF ExecutionInv
  <2>2. promises[listening[i]] \in Promises
    BY <2>1, ListeningIs DEF ExecutionInv
  <2>3. promises[listening[i]].missed \in Nat /\ promises[listening[i]].ahead \in Nat
    BY <2>2, CommandsAssumption DEF Promises
  <2>4. i + promises[listening[i]].missed <= promises[listening[i]].ahead + 1
    BY <2>1 DEF ExecutionInv, ComesNearer
  <2>5. QED
    BY <2>1, <2>3, <2>4
<1>8. ASSUME NEW w \in DOMAIN promises' PROVE Accounted(w)'
  <2>1. w \in DOMAIN promises /\ w # 0 /\ Accounted(w)
    BY <1>2, ListeningIs DEF ExecutionInv
  <2>2. w \in ToSet(listening') => w \in ToSet(listening)
    BY <1>5 DEF ToSet
  <2>3. w \in ToSet(listening) => w \in ToSet(listening')
    <3> SUFFICES ASSUME w \in ToSet(listening) PROVE \E j \in DOMAIN listening' : listening'[j] = w
      BY DEF ToSet
    <3>1. PICK i \in DOMAIN listening : listening[i] = w
      BY DEF ToSet
    <3>2. i # k /\ DOMAIN listening = 1..Len(listening) /\ Len(listening) \in Nat
          /\ DOMAIN listening' = 1..(Len(listening) - 1)
      <4>1. listening' \in Seq(0..Len(promises)) /\ Len(listening') = Len(listening) - 1
        BY <1>1, <1>3, <1>4, Removed DEF Waiting
      <4>2. QED
        BY <1>1, <2>1, <3>1, <4>1, ListeningIs DEF ExecutionInv
    <3>3. CASE i < k
      <4>1. i \in DOMAIN listening' /\ listening'[i] = listening[i]
        BY <1>1, <1>5, <3>2, <3>3
      <4>2. QED
        BY <3>1, <4>1
    <3>4. CASE i > k
      <4>1. i - 1 \in DOMAIN listening' /\ ~(i - 1 < k) /\ (i - 1) + 1 = i
        BY <1>1, <3>2, <3>4
      <4>2. listening'[i - 1] = listening[i]
        BY <1>5, <4>1
      <4>3. QED
        BY <3>1, <4>1, <4>2
    <3>5. QED
      BY <3>2, <3>3, <3>4
  <2>4. QED
    BY <1>2, <2>1, <2>2, <2>3 DEF Accounted, Owner
<1>9. QED
  BY <1>2, <1>6, <1>7, <1>8, StatesStay DEF ExecutionInv

\* nextInput(): behind all that listen, or rejected.
LEMMA NextInputKeeps ==
  ASSUME ExecutionInv, NEW r \in DOMAIN runs, nextInput(r)
  PROVE  ExecutionInv'
<1> DEFINE w == Len(promises) + 1
           promise == [run |-> r, status |-> IF array THEN "pending" ELSE "rejected",
                       ahead |-> Len(listening), missed |-> 0, heard |-> {}]
<1>1. /\ Len(promises) < MaxWaiting /\ promises' = Append(promises, promise) /\ array' = TRUE
      /\ listening' = IF array THEN Waits(Len(promises')) ELSE listening
      /\ UNCHANGED <<restriction, runs, states, commandState, stored, stale>>
  BY DEF nextInput, states
<1>2. /\ Len(listening) \in Nat /\ DOMAIN listening = 1..Len(listening) /\ Len(promises) \in Nat
      /\ DOMAIN promises = 1..Len(promises) /\ Len(listening) <= Len(promises) + 1
      /\ promises \in Seq(Promises) /\ listening \in Waiting /\ IsInjective(listening)
      /\ MaxWaiting \in Nat /\ MaxRuns \in Nat
      /\ \A i \in DOMAIN listening : listening[i] \in 0..Len(promises) /\ listening[i] # w
  BY ListeningIs, CommandsAssumption DEF ExecutionInv, Typed
<1>3. promise \in Promises
  <2>1. r \in 1..MaxRuns
    BY <1>2, RunsAre DEF ExecutionInv, Typed
  <2>2. Len(listening) \in 0..MaxWaiting
    BY <1>1, <1>2
  <2>3. QED
    BY <2>1, <2>2 DEF Promises
<1>4. /\ promises' \in Seq(Promises) /\ Len(promises') = w /\ DOMAIN promises' = 1..w
      /\ promises'[w] = promise /\ \A v \in DOMAIN promises : v # w /\ promises'[v] = promises[v]
      /\ \A v \in DOMAIN promises' : v \in DOMAIN promises \/ v = w
  <2> HIDE DEF promise
  <2>1. QED
    BY <1>1, <1>2, <1>3
<1>5. /\ listening' \in Seq(0..w) /\ IsInjective(listening')
      /\ \A i \in DOMAIN listening' : \/ i \in DOMAIN listening /\ listening'[i] = listening[i]
                                      \/ array /\ i = Len(listening) + 1 /\ listening'[i] = w
      /\ \A i \in DOMAIN listening : i \in DOMAIN listening' /\ listening'[i] = listening[i]
      /\ array => Len(listening) + 1 \in DOMAIN listening' /\ listening'[Len(listening) + 1] = w
  <2>1. listening \in Seq(0..w)
    BY <1>2 DEF Waiting
  <2>2. CASE array
    <3>1. listening' = Append(listening, w)
      BY <1>1, <1>4, <2>2 DEF Waits
    <3>2. w \in 0..w
      BY <1>2
    <3> HIDE DEF w
    <3>3. /\ listening' \in Seq(0..w) /\ DOMAIN listening' = 1..(Len(listening) + 1)
          /\ listening'[Len(listening) + 1] = w
          /\ \A i \in DOMAIN listening : listening'[i] = listening[i]
      BY <1>2, <2>1, <3>1, <3>2
    <3>4. \A i \in DOMAIN listening' : i \in DOMAIN listening \/ i = Len(listening) + 1
      BY <1>2, <3>3
    <3>5. IsInjective(listening')
      BY <1>2, <3>3, <3>4 DEF IsInjective
    <3>6. QED
      BY <1>2, <2>2, <3>3, <3>4, <3>5
  <2>3. CASE ~array
    BY <1>1, <1>2, <2>1, <2>3
  <2>4. QED
    BY <2>2, <2>3
<1>6. Typed'
  <2>1. listening' \in Waiting'
    BY <1>4, <1>5 DEF Waiting
  <2>2. Len(promises') <= MaxWaiting
    BY <1>1, <1>2, <1>4
  <2>3. \A v \in DOMAIN promises' : promises'[v].run \in DOMAIN runs'
    BY <1>1, <1>4 DEF ExecutionInv, Typed
  <2>4. QED
    BY <1>1, <1>4, <1>5, <2>1, <2>2, <2>3 DEF ExecutionInv, Typed
<1>7. ComesNearer'
  <2> SUFFICES ASSUME NEW i \in DOMAIN listening', listening'[i] # 0
               PROVE  i + promises'[listening'[i]].missed <= promises'[listening'[i]].ahead + 1
    BY DEF ComesNearer
  <2>1. CASE i \in DOMAIN listening /\ listening'[i] = listening[i]
    <3>1. listening[i] \in DOMAIN promises
      BY <2>1, ListeningIs DEF ExecutionInv
    <3>2. QED
      BY <1>4, <2>1, <3>1 DEF ExecutionInv, ComesNearer
  <2>2. CASE i = Len(listening) + 1 /\ listening'[i] = w
    BY <1>2, <1>4, <2>2
  <2>3. QED
    BY <1>5, <2>1, <2>2
<1>8. ASSUME NEW v \in DOMAIN promises' PROVE Accounted(v)'
  <2>1. CASE v \in DOMAIN promises
    <3>1. v \in ToSet(listening') <=> v \in ToSet(listening)
      BY <1>4, <1>5, <2>1 DEF ToSet
    <3>2. QED
      BY <1>1, <1>4, <2>1, <3>1 DEF ExecutionInv, Accounted, Owner
  <2>2. CASE v = w
    <3>1. array => v \in ToSet(listening')
      BY <1>5, <2>2 DEF ToSet
    <3>2. ~array => v \notin ToSet(listening')
      BY <1>2, <1>5, <2>2 DEF ToSet
    <3>3. promises'[v] = promise /\ array \in BOOLEAN
      BY <1>4, <2>2 DEF ExecutionInv, Typed
    <3>4. /\ promise.status = IF array THEN "pending" ELSE "rejected"
      OBVIOUS
    <3> HIDE DEF promise
    <3>5. QED
      BY <3>1, <3>2, <3>3, <3>4 DEF Accounted
  <2>3. QED
    BY <1>4, <2>1, <2>2
<1>9. QED
  BY <1>1, <1>6, <1>7, <1>8, StatesStay DEF ExecutionInv

\* A message goes through the listeners.
LEMMA ChatKeeps ==
  ASSUME ExecutionInv, NEW player \in Players, Chat(player)
  PROVE  ExecutionInv'
<1> DEFINE heardBy(w) == [promises[w] EXCEPT !.status = Ends(promises[w], w, player),
                                             !.heard = promises[w].heard \cup {player},
                                             !.missed = promises[w].missed + 1]
           r == Remaining(listening)
<1>1. /\ listening' = r
      /\ promises' = [w \in DOMAIN promises |-> IF w \notin ToSet(listening) THEN promises[w] ELSE heardBy(w)]
      /\ UNCHANGED <<restriction, runs, array, states, commandState, stored, stale>>
  BY DEF Chat, states
<1>2. /\ listening \in Seq(0..Len(promises)) /\ IsInjective(listening)
      /\ Len(promises) \in Nat /\ DOMAIN promises = 1..Len(promises)
      /\ \A w \in DOMAIN promises : promises[w] \in Promises
      /\ promises \in Seq(Promises)
  BY ListeningIs DEF ExecutionInv, Typed, Waiting
<1>3. /\ r \in Seq(0..Len(promises)) /\ IsInjective(r)
      /\ \A j \in DOMAIN r :
           \E i \in DOMAIN listening : listening[i] = r[j] /\ (listening[i] = 0 \/ i > j)
  BY <1>2, RemainingSound
<1> HIDE DEF r
<1>4. ToSet(r) \subseteq ToSet(listening)
  BY <1>3 DEF ToSet
<1>5. ASSUME NEW w \in DOMAIN promises, w \in ToSet(listening)
      PROVE  /\ heardBy(w) \in Promises /\ heardBy(w).run = promises[w].run
             /\ heardBy(w).ahead = promises[w].ahead /\ heardBy(w).missed = promises[w].missed + 1
             /\ heardBy(w).heard = promises[w].heard \cup {player}
             /\ promises[w].status = "pending"
             /\ heardBy(w).status = IF w \notin ToSet(r) /\ Owner(promises[w]) = player
                                    THEN "resolved" ELSE "pending"
  <2>1. promises[w] \in Promises /\ promises[w].status = "pending"
    BY <1>2, <1>5 DEF ExecutionInv, Accounted
  <2>2. Ends(promises[w], w, player) = IF w \notin ToSet(r) /\ Owner(promises[w]) = player
                                       THEN "resolved" ELSE "pending"
    BY <1>5, <2>1 DEF Ends, EndsWith, Called, Owner, r
  <2>3. Ends(promises[w], w, player) \in {"pending", "resolved", "rejected"}
    BY <2>2
  <2>4. heardBy(w) \in Promises
    <3>1. promises[w].heard \cup {player} \in SUBSET Players /\ promises[w].missed + 1 \in Nat
      BY <2>1 DEF Promises
    <3>2. QED
      BY <2>1, <2>3, <3>1 DEF Promises
  <2>5. QED
    BY <2>1, <2>2, <2>4 DEF Promises
<1> HIDE DEF heardBy
<1>6. /\ DOMAIN promises' = DOMAIN promises /\ promises' \in Seq(Promises) /\ Len(promises') = Len(promises)
      /\ \A w \in DOMAIN promises : promises'[w] = IF w \notin ToSet(listening) THEN promises[w] ELSE heardBy(w)
  <2>1. /\ DOMAIN promises' = 1..Len(promises)
        /\ \A w \in DOMAIN promises : /\ promises'[w] = IF w \notin ToSet(listening) THEN promises[w] ELSE heardBy(w)
                                      /\ promises'[w] \in Promises
    BY <1>1, <1>2, <1>5
  <2>2. promises' = [w \in 1..Len(promises) |-> promises'[w]]
    BY <1>1, <1>2
  <2>3. QED
    BY <1>2, <2>1, <2>2
<1>7. Typed'
  <2>1. \A w \in DOMAIN promises' : promises'[w].run \in DOMAIN runs'
    BY <1>1, <1>5, <1>6 DEF ExecutionInv, Typed
  <2>2. listening' \in Waiting' /\ IsInjective(listening')
    BY <1>1, <1>3, <1>6 DEF Waiting
  <2>3. QED
    BY <1>1, <1>6, <2>1, <2>2 DEF ExecutionInv, Typed
<1>8. ComesNearer'
  <2> SUFFICES ASSUME NEW j \in DOMAIN r, r[j] # 0
               PROVE  j + promises'[r[j]].missed <= promises'[r[j]].ahead + 1
    BY <1>1 DEF ComesNearer
  <2>1. PICK i \in DOMAIN listening : listening[i] = r[j] /\ i > j
    BY <1>3
  <2>2. i \in Nat /\ j \in Nat /\ listening[i] # 0 /\ listening[i] \in DOMAIN promises
    BY <1>2, <1>3, <2>1, ListeningIs DEF ExecutionInv
  <2> DEFINE w == r[j]
  <2>3. w \in DOMAIN promises /\ w \in ToSet(listening) /\ promises[w] \in Promises
    BY <1>2, <2>1, <2>2 DEF ToSet
  <2>4. i + promises[w].missed <= promises[w].ahead + 1
    BY <2>1, <2>2 DEF ExecutionInv, ComesNearer
  <2>5. promises[w].missed \in Nat /\ promises[w].ahead \in Nat
    BY <2>3, CommandsAssumption DEF Promises
  <2>6. promises'[w].missed = promises[w].missed + 1 /\ promises'[w].ahead = promises[w].ahead
    BY <1>5, <1>6, <2>3
  <2> HIDE DEF w
  <2>7. j + promises'[w].missed <= promises'[w].ahead + 1
    BY <2>1, <2>2, <2>4, <2>5, <2>6
  <2>8. QED
    BY <2>7 DEF w
<1>9. ASSUME NEW w \in DOMAIN promises' PROVE Accounted(w)'
  <2>1. w \in DOMAIN promises /\ Accounted(w) /\ promises[w] \in Promises
    BY <1>2, <1>6 DEF ExecutionInv
  <2>2. CASE w \notin ToSet(listening)
    <3>1. promises'[w] = promises[w] /\ w \notin ToSet(r)
      BY <1>4, <1>6, <2>1, <2>2
    <3>2. QED
      BY <1>1, <2>1, <2>2, <3>1 DEF Accounted, Owner
  <2>3. CASE w \in ToSet(listening)
    <3>1. promises'[w] = heardBy(w)
      BY <1>6, <2>1, <2>3
    <3>2. Owner(promises[w])' = Owner(promises[w])
      BY <1>1, <1>5, <2>1, <2>3, <3>1 DEF Owner
    <3>3. /\ promises'[w].heard = promises[w].heard \cup {player}
          /\ promises'[w].status = IF w \notin ToSet(r) /\ Owner(promises[w]) = player
                                   THEN "resolved" ELSE "pending"
      BY <1>5, <2>1, <2>3, <3>1
    <3>4. QED
      BY <1>1, <3>2, <3>3 DEF Accounted
  <2>4. QED
    BY <2>2, <2>3
<1>10. QED
  BY <1>1, <1>7, <1>8, <1>9, StatesStay DEF ExecutionInv

-----------------------------------------------------------------------------
LEMMA ExecutionNextKeeps == ExecutionInv /\ [Next]_vars => ExecutionInv'
<1> SUFFICES ASSUME ExecutionInv, [Next]_vars PROVE ExecutionInv'
  OBVIOUS
<1>1. CASE UNCHANGED vars
  <2>1. UNCHANGED <<restriction, runs, listening, array, promises, commandState, stale, stored>>
    BY <1>1 DEF vars, conversation, states
  <2>2. Typed'
    BY <2>1 DEF ExecutionInv, Typed, Waiting
  <2>3. FreshIsCurrent' /\ StateLostOnlyIfStale'
    BY <2>1, StatesStay DEF states
  <2>4. ComesNearer' /\ \A w \in DOMAIN promises' : Accounted(w)'
    BY <2>1 DEF ExecutionInv, ComesNearer, Accounted, Owner
  <2>5. QED
    BY <2>2, <2>3, <2>4 DEF ExecutionInv
<1>2. ASSUME NEW sender \in Senders, NEW permitted \in BOOLEAN, Execute(sender, permitted) PROVE ExecutionInv'
  BY <1>2, ExecuteKeeps
<1>3. ASSUME NEW r \in DOMAIN runs, NEW k \in Keys, NEW v \in Values, setState(r, k, v) PROVE ExecutionInv'
  BY <1>3, SetStateKeeps
<1>4. ASSUME NEW r \in DOMAIN runs, clearState(r) \/ nextInput(r) PROVE ExecutionInv'
  BY <1>4, ClearStateKeeps, NextInputKeeps
<1>5. CASE Listen \/ Unlisten
  BY <1>5, ListenKeeps, UnlistenKeeps
<1>6. ASSUME NEW player \in Players, Chat(player) PROVE ExecutionInv'
  BY <1>6, ChatKeeps
<1>7. QED
  BY <1>1, <1>2, <1>3, <1>4, <1>5, <1>6 DEF Next

\* The invariant from which the properties of the executions follow.
THEOREM ExecutionInductive == Spec => []ExecutionInv
<1>1. QED
  BY ExecutionInitHolds, ExecutionNextKeeps, PTL DEF Spec

\* States, executions and waiting calls keep their types, and nobody listens to "playerchat"
\* twice (command.js:270-291, events.js:292-330).
THEOREM ExecutionTyped == Spec => []TypeOK
<1>1. ExecutionInv => TypeOK
  <2> SUFFICES ASSUME ExecutionInv PROVE TypeOK
    OBVIOUS
  <2>1. \A r \in DOMAIN runs : runs[r].sender \in Senders /\ runs[r].state \in States
    BY RunsAre DEF ExecutionInv, Typed
  <2>2. ToSet(promises) \subseteq Promises /\ ToSet(listening) \subseteq 0..Len(promises)
    BY ListeningIs DEF ExecutionInv, ToSet
  <2>3. QED
    BY <2>1, <2>2 DEF ExecutionInv, Typed, TypeOK
<1>2. QED
  BY <1>1, ExecutionInductive, PTL

\* A sender's state is all that was set since it was cleared, unless an execution set it that
\* had begun before another set or clear (command.js:270-277).
THEOREM OnlyStaleSetsLose == Spec => []StateLostOnlyIfStale
<1>1. ExecutionInv => StateLostOnlyIfStale
  BY DEF ExecutionInv
<1>2. QED
  BY <1>1, ExecutionInductive, PTL

\* A call of nextInput is answered only after its own player spoke; one that waits is in the
\* array or was taken out by another's message; and it is passed over less often than there were
\* listeners before it (command.js:281-291, events.js:268-277, 333-344).
THEOREM WaitersAreAccounted == Spec => []WaitersAccounted
<1>1. ExecutionInv => WaitersAccounted
  <2> SUFFICES ASSUME ExecutionInv, NEW w \in DOMAIN promises
               PROVE  LET p == promises[w]
                          own == {getSenderId(runs[p.run].sender)}
                      IN /\ p.status = "resolved" => own \subseteq p.heard
                         /\ p.status # "pending" => w \notin ToSet(listening)
                         /\ (p.status = "pending" /\ w \notin ToSet(listening)) => p.heard \ own # {}
                         /\ w \in ToSet(listening) => p.missed <= p.ahead
    BY DEF WaitersAccounted
  <2>1. Accounted(w)
    BY DEF ExecutionInv
  <2>2. ASSUME w \in ToSet(listening) PROVE promises[w].missed <= promises[w].ahead
    <3>1. PICK i \in DOMAIN listening : listening[i] = w
      BY <2>2 DEF ToSet
    <3>2. i \in Nat /\ i >= 1 /\ w # 0 /\ promises[w] \in Promises
      BY <3>1, ListeningIs DEF ExecutionInv
    <3>3. promises[w].missed \in Nat /\ promises[w].ahead \in Nat
      BY <3>2, CommandsAssumption DEF Promises
    <3>4. i + promises[w].missed <= promises[w].ahead + 1
      BY <3>1, <3>2 DEF ExecutionInv, ComesNearer
    <3>5. QED
      BY <3>2, <3>3, <3>4
  <2>3. QED
    BY <2>1, <2>2 DEF Accounted, Owner
<1>2. QED
  BY <1>1, ExecutionInductive, PTL

=============================================================================
