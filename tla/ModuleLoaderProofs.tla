-------------------------- MODULE ModuleLoaderProofs --------------------------
(***************************************************************************)
(* Whatever is required, thrown, called back or reloaded in whatever order, *)
(* a class evaluates a file at most once between two runs of main, and      *)
(* hands out nothing it loaded before the last one.                         *)
(***************************************************************************)
EXTENDS ModuleLoader, SequenceTheorems, FiniteSetTheorems, TLAPS

USE LoaderAssumption

\* The cache holds modules of its class, of the file asked for, and of the
\* class's present epoch only.
CacheCurrent ==
  \A c \in Classes, f \in Files : cache[c][f] # 0 =>
    /\ instances[cache[c][f]].file = f
    /\ instances[cache[c][f]].class = c
    /\ instances[cache[c][f]].epoch = epoch[c]

\* A module of the present epoch never leaves the cache, not even by failing.
CurrentIsCached ==
  \A i \in Known :
    /\ instances[i].epoch <= epoch[instances[i].class]
    /\ instances[i].epoch = epoch[instances[i].class] =>
         cache[instances[i].class][instances[i].file] = i

Keyed == CacheCurrent /\ CurrentIsCached /\ EvaluatedOnce

IInv == TypeOK /\ Keyed /\ FreshAfterReload

\* Every module stays, with the key under which it was loaded.
KeepsKeys ==
  /\ DOMAIN instances \subseteq DOMAIN instances'
  /\ \A i \in Known :
       /\ instances'[i].file = instances[i].file
       /\ instances'[i].class = instances[i].class
       /\ instances'[i].epoch = instances[i].epoch

-----------------------------------------------------------------------------
(* Sequences of frames and of modules *)

FrameType == [k : {"load", "call"}, inst : Known]

\* The innermost element, the others, and every prefix.
LEMMA Shortened ==
  ASSUME NEW S, NEW s \in Seq(S), s # << >>
  PROVE  /\ s[Len(s)] \in S
         /\ Front(s) \in Seq(S)
         /\ \A n \in 0..(Len(s) - 1) : SubSeq(s, 1, n) \in Seq(S)
<1>1. Len(s) \in Nat /\ Len(s) > 0 /\ DOMAIN s = 1..Len(s)
  BY EmptySeq
<1>2. s[Len(s)] \in S
  BY <1>1, ElementOfSeq
<1>3. \A n \in 0..(Len(s) - 1) : SubSeq(s, 1, n) \in Seq(S)
  BY <1>1, SubSeqProperties
<1>4. QED
  BY <1>1, <1>2, <1>3 DEF Front

\* What Append does to the modules instantiated.
LEMMA AppendInstance ==
  ASSUME TypeOK, NEW x \in InstanceType, instances' = Append(instances, x)
  PROVE  /\ instances' \in Seq(InstanceType)
         /\ Len(instances') = Len(instances) + 1
         /\ Known' = Known \cup {Len(instances')}
         /\ Len(instances') \notin Known
         /\ instances'[Len(instances')] = x
         /\ \A i \in Known : instances'[i] = instances[i]
         /\ KeepsKeys
BY DEF TypeOK, Known, KeepsKeys

\* A prefix of a sequence is a sequence over the same set.
LEMMA Prefixed ==
  ASSUME NEW S, NEW s \in Seq(S), NEW n \in 0..Len(s)
  PROVE  SubSeq(s, 1, n) \in Seq(S)
OBVIOUS

\* An exception keeps every module, and leaves a prefix of the frames.
LEMMA UnwoundKeeps ==
  ASSUME TypeOK, NEW n \in {0} \cup (0..(Len(stack) - 1)), Unwound(n)
  PROVE  /\ instances' \in Seq(InstanceType)
         /\ Known' = Known
         /\ KeepsKeys
         /\ stack' \in Seq(FrameType)
<1>1. instances \in Seq(InstanceType) /\ Known = 1..Len(instances) /\ Len(instances) \in Nat
  BY DEF TypeOK, Known
<1> DEFINE hit(i) == \E j \in (n + 1)..Len(stack) : stack[j] = Load(i)
           new(i) == IF hit(i) THEN [instances[i] EXCEPT !.state = "failed"] ELSE instances[i]
<1>2. instances' = [i \in Known |-> new(i)]
  BY DEF Unwound
<1>3. ASSUME NEW i \in Known
      PROVE  /\ new(i) \in InstanceType
             /\ new(i).file = instances[i].file
             /\ new(i).class = instances[i].class
             /\ new(i).epoch = instances[i].epoch
  <2>1. instances[i] \in InstanceType
    BY <1>1
  <2>2. [instances[i] EXCEPT !.state = "failed"] \in InstanceType
    BY <2>1 DEF InstanceType
  <2> HIDE DEF hit
  <2>3. QED
    BY <2>1, <2>2 DEF InstanceType
<1> HIDE DEF new
<1>4. instances' \in Seq(InstanceType) /\ Known' = Known
  BY <1>1, <1>2, <1>3 DEF Known
<1>5. KeepsKeys
  BY <1>2, <1>3 DEF KeepsKeys, Known
<1>6. stack' \in Seq(FrameType)
  <2>1. stack \in Seq(FrameType)
    BY DEF TypeOK, FrameType
  <2> HIDE DEF FrameType
  <2>2. n \in 0..Len(stack)
    BY <2>1
  <2>3. QED
    BY <2>1, <2>2, Prefixed DEF Unwound
<1>7. QED
  BY <1>4, <1>5, <1>6

\* Ending a body changes nothing but its state.
LEMMA FinishKeeps ==
  ASSUME TypeOK, Finish
  PROVE  /\ instances' \in Seq(InstanceType)
         /\ Known' = Known
         /\ KeepsKeys
         /\ stack' \in Seq(FrameType)
<1>1. /\ instances \in Seq(InstanceType)
      /\ stack \in Seq(FrameType)
      /\ stack # << >>
  BY DEF TypeOK, Finish, FrameType
<1>2. Running \in Known
  <2>1. stack[Len(stack)] \in FrameType
    BY <1>1, Shortened
  <2>2. QED
    BY <2>1 DEF Running, FrameType
<1>3. stack' \in Seq(FrameType)
  BY <1>1, Shortened DEF Finish
<1>4. CASE instances' = instances
  BY <1>1, <1>3, <1>4 DEF KeepsKeys, Known
<1>5. CASE instances' = [instances EXCEPT ![Running].state = "loaded"]
  <2>1. instances[Running] \in InstanceType
    BY <1>1, <1>2 DEF Known
  <2>2. [instances[Running] EXCEPT !.state = "loaded"] \in InstanceType
    BY <2>1 DEF InstanceType
  <2>3. instances' = [instances EXCEPT ![Running] = [instances[Running] EXCEPT !.state = "loaded"]]
    BY <1>5
  <2>4. instances' \in Seq(InstanceType) /\ Known' = Known
    BY <1>1, <1>2, <2>2, <2>3 DEF Known
  <2>5. KeepsKeys
    BY <1>1, <1>2, <2>1, <2>3 DEF KeepsKeys, Known, InstanceType
  <2>6. QED
    BY <1>3, <2>4, <2>5
<1>6. QED
  BY <1>4, <1>5 DEF Finish

-----------------------------------------------------------------------------
(* How the keys survive the four kinds of step *)

\* Steps that make no module and touch no cache.
LEMMA KeyedQuiet ==
  ASSUME TypeOK, Keyed, KeepsKeys, Known' = Known, UNCHANGED <<cache, epoch>>
  PROVE  Keyed'
<1>1. cache \in [Classes -> [Files -> {0} \cup Known]]
  BY DEF TypeOK
<1>2. CacheCurrent'
  BY <1>1 DEF Keyed, CacheCurrent, KeepsKeys
<1>3. CurrentIsCached'
  BY DEF Keyed, CurrentIsCached, KeepsKeys
<1>4. EvaluatedOnce'
  BY DEF Keyed, EvaluatedOnce, KeepsKeys, ClassOf
<1>5. QED
  BY <1>2, <1>3, <1>4 DEF Keyed

\* _load of a file that is not cached.
LEMMA KeyedLoad ==
  ASSUME TypeOK, Keyed, NEW c \in Classes, NEW f \in Files, NEW g \in Classes,
         cache[c][f] = 0,
         instances' = Append(instances, Instance(f, c, epoch[c], g)),
         cache' = [cache EXCEPT ![c][f] = Len(instances')],
         epoch' = epoch
  PROVE  Keyed'
<1> DEFINE x == Instance(f, c, epoch[c], g)
           n == Len(instances')
<1>1. x \in InstanceType /\ x.file = f /\ x.class = c /\ x.epoch = epoch[c]
  BY DEF Instance, InstanceType, TypeOK
<1>2. /\ Known' = Known \cup {n} /\ n \notin Known /\ n \in Nat \ {0}
      /\ instances'[n] = x
      /\ \A i \in Known : instances'[i] = instances[i]
  BY <1>1, AppendInstance DEF TypeOK, Known
<1>3. /\ cache \in [Classes -> [Files -> {0} \cup Known]]
      /\ epoch \in [Classes -> Nat]
      /\ \A i \in Known : instances[i] \in InstanceType
  BY DEF TypeOK, Known
<1> HIDE DEF x, n
<1>4. \A d \in Classes, h \in Files :
        cache'[d][h] = IF d = c /\ h = f THEN n ELSE cache[d][h]
  BY <1>3 DEF n
<1>5. CacheCurrent'
  <2> SUFFICES ASSUME NEW d \in Classes, NEW h \in Files, cache'[d][h] # 0
               PROVE  /\ instances'[cache'[d][h]].file = h
                      /\ instances'[cache'[d][h]].class = d
                      /\ instances'[cache'[d][h]].epoch = epoch'[d]
    BY DEF CacheCurrent
  <2>1. CASE d = c /\ h = f
    BY <1>1, <1>2, <1>4, <2>1
  <2>2. CASE ~(d = c /\ h = f)
    <3>1. cache'[d][h] = cache[d][h] /\ cache[d][h] \in Known
      BY <1>3, <1>4, <2>2
    <3>2. instances'[cache'[d][h]] = instances[cache[d][h]]
      BY <1>2, <3>1
    <3>3. cache[d][h] # 0
      BY <3>1
    <3>4. /\ instances[cache[d][h]].file = h
          /\ instances[cache[d][h]].class = d
          /\ instances[cache[d][h]].epoch = epoch[d]
      BY <3>3 DEF Keyed, CacheCurrent
    <3>5. QED
      BY <3>2, <3>4
  <2>3. QED
    BY <2>1, <2>2
<1>6. CurrentIsCached'
  <2> SUFFICES ASSUME NEW i \in Known'
               PROVE  /\ instances'[i].epoch <= epoch[instances'[i].class]
                      /\ instances'[i].epoch = epoch[instances'[i].class] =>
                           cache'[instances'[i].class][instances'[i].file] = i
    BY DEF CurrentIsCached
  <2>1. CASE i = n
    BY <1>1, <1>2, <1>3, <1>4, <2>1
  <2>2. CASE i \in Known
    <3>1. instances'[i] = instances[i] /\ instances[i] \in InstanceType
      BY <1>2, <1>3, <2>2
    <3>2. instances[i].class \in Classes /\ instances[i].file \in Files
      BY <3>1 DEF InstanceType
    <3>3. /\ instances[i].epoch <= epoch[instances[i].class]
          /\ instances[i].epoch = epoch[instances[i].class] =>
               cache[instances[i].class][instances[i].file] = i
      BY <2>2 DEF Keyed, CurrentIsCached
    <3>4. i # 0
      BY <2>2 DEF Known, TypeOK
    <3>5. QED
      BY <1>4, <3>1, <3>2, <3>3, <3>4
  <2>3. QED
    BY <1>2, <2>1, <2>2
<1>7. \A i \in Known : ~(/\ instances[i].file = f /\ instances[i].class = c
                         /\ instances[i].epoch = epoch[c])
  <2>1. \A i \in Known : i # 0
    BY DEF Known, TypeOK
  <2>2. QED
    BY <2>1 DEF Keyed, CurrentIsCached
<1>8. EvaluatedOnce'
  <2> SUFFICES ASSUME NEW i \in Known', NEW j \in Known',
                      instances'[i].file = instances'[j].file,
                      instances'[i].class = instances'[j].class,
                      instances'[i].epoch = instances'[j].epoch
               PROVE  i = j
    BY DEF EvaluatedOnce, ClassOf
  <2>1. CASE i \in Known /\ j \in Known
    BY <1>2, <2>1 DEF Keyed, EvaluatedOnce, ClassOf
  <2>2. CASE i = n /\ j \in Known
    <3>1. instances'[j] = instances[j] /\ instances'[i] = x
      BY <1>2, <2>2
    <3>2. /\ instances[j].file = f /\ instances[j].class = c
          /\ instances[j].epoch = epoch[c]
      BY <1>1, <3>1
    <3>3. QED
      BY <1>7, <2>2, <3>2
  <2>3. CASE j = n /\ i \in Known
    <3>1. instances'[i] = instances[i] /\ instances'[j] = x
      BY <1>2, <2>3
    <3>2. /\ instances[i].file = f /\ instances[i].class = c
          /\ instances[i].epoch = epoch[c]
      BY <1>1, <3>1
    <3>3. QED
      BY <1>7, <2>3, <3>2
  <2>4. QED
    BY <1>2, <2>1, <2>2, <2>3
<1>9. QED
  BY <1>5, <1>6, <1>8 DEF Keyed

\* runMain with a main file: a new epoch with one module.
LEMMA KeyedRunMain ==
  ASSUME TypeOK, Keyed, NEW c \in Classes, NEW g \in Classes, RunMain(c, g)
  PROVE  Keyed'
<1> DEFINE x == Instance(Main, c, epoch'[c], g)
           n == Len(instances')
<1>1. epoch' \in [Classes -> Nat] /\ epoch'[c] = epoch[c] + 1
      /\ \A d \in Classes : d # c => epoch'[d] = epoch[d]
  BY DEF TypeOK, RunMain
<1>2. x \in InstanceType /\ x.file = Main /\ x.class = c /\ x.epoch = epoch'[c]
  BY <1>1 DEF Instance, InstanceType
<1>3. /\ Known' = Known \cup {n} /\ n \notin Known /\ n \in Nat \ {0}
      /\ instances'[n] = x
      /\ \A i \in Known : instances'[i] = instances[i]
  BY <1>2, AppendInstance, SMTT(60) DEF TypeOK, Known, RunMain
<1>4. /\ cache \in [Classes -> [Files -> {0} \cup Known]]
      /\ epoch \in [Classes -> Nat]
      /\ \A i \in Known : instances[i] \in InstanceType
  BY DEF TypeOK, Known
<1> HIDE DEF x, n
<1>5. /\ \A d \in Classes \ {c} : cache'[d] = cache[d]
      /\ \A h \in Files : cache'[c][h] = IF h = Main THEN n ELSE 0
  BY <1>4 DEF n, RunMain, NoCache
<1>6. CacheCurrent'
  <2> SUFFICES ASSUME NEW d \in Classes, NEW h \in Files, cache'[d][h] # 0
               PROVE  /\ instances'[cache'[d][h]].file = h
                      /\ instances'[cache'[d][h]].class = d
                      /\ instances'[cache'[d][h]].epoch = epoch'[d]
    BY DEF CacheCurrent
  <2>1. CASE d = c
    BY <1>2, <1>3, <1>5, <2>1
  <2>2. CASE d # c
    BY <1>1, <1>3, <1>4, <1>5, <2>2 DEF Keyed, CacheCurrent
  <2>3. QED
    BY <2>1, <2>2
<1>7. CurrentIsCached'
  <2> SUFFICES ASSUME NEW i \in Known'
               PROVE  /\ instances'[i].epoch <= epoch'[instances'[i].class]
                      /\ instances'[i].epoch = epoch'[instances'[i].class] =>
                           cache'[instances'[i].class][instances'[i].file] = i
    BY DEF CurrentIsCached
  <2>1. CASE i = n
    BY <1>1, <1>2, <1>3, <1>5, <2>1
  <2>2. CASE i \in Known
    <3>1. instances'[i] = instances[i] /\ instances[i] \in InstanceType
      BY <1>3, <1>4, <2>2
    <3>2. /\ instances[i].class \in Classes /\ instances[i].file \in Files
          /\ instances[i].epoch \in Nat
      BY <3>1 DEF InstanceType
    <3>3. /\ instances[i].epoch <= epoch[instances[i].class]
          /\ instances[i].epoch = epoch[instances[i].class] =>
               cache[instances[i].class][instances[i].file] = i
      BY <2>2 DEF Keyed, CurrentIsCached
    <3>4. CASE instances[i].class = c
      BY <1>1, <1>4, <3>1, <3>2, <3>3, <3>4
    <3>5. CASE instances[i].class # c
      BY <1>1, <1>5, <3>1, <3>2, <3>3, <3>5
    <3>6. QED
      BY <3>4, <3>5
  <2>3. QED
    BY <1>3, <2>1, <2>2
<1>8. \A i \in Known : ~(instances[i].class = c /\ instances[i].epoch = epoch'[c])
  BY <1>1, <1>4 DEF Keyed, CurrentIsCached, InstanceType
<1>9. EvaluatedOnce'
  BY <1>2, <1>3, <1>8 DEF Keyed, EvaluatedOnce, ClassOf
<1>10. QED
  BY <1>6, <1>7, <1>9 DEF Keyed

\* runMain without one: a new epoch with none.
LEMMA KeyedMissingMain ==
  ASSUME TypeOK, Keyed, NEW c \in Classes, RunMissingMain(c), KeepsKeys, Known' = Known
  PROVE  Keyed'
<1>1. /\ epoch' \in [Classes -> Nat] /\ epoch'[c] = epoch[c] + 1
      /\ \A d \in Classes : d # c => epoch'[d] = epoch[d]
  BY DEF TypeOK, RunMissingMain
<1>2. /\ cache \in [Classes -> [Files -> {0} \cup Known]]
      /\ epoch \in [Classes -> Nat]
      /\ \A i \in Known : instances[i] \in InstanceType
  BY DEF TypeOK, Known
<1>3. /\ \A d \in Classes \ {c} : cache'[d] = cache[d]
      /\ \A h \in Files : cache'[c][h] = 0
  BY <1>2 DEF RunMissingMain, NoCache
<1>4. CacheCurrent'
  BY <1>1, <1>2, <1>3 DEF Keyed, CacheCurrent, KeepsKeys
<1>5. CurrentIsCached'
  <2> SUFFICES ASSUME NEW i \in Known
               PROVE  /\ instances'[i].epoch <= epoch'[instances'[i].class]
                      /\ instances'[i].epoch = epoch'[instances'[i].class] =>
                           cache'[instances'[i].class][instances'[i].file] = i
    BY DEF CurrentIsCached
  <2>1. /\ instances[i].class \in Classes /\ instances[i].file \in Files
        /\ instances[i].epoch \in Nat
    BY <1>2 DEF InstanceType
  <2>2. /\ instances[i].epoch <= epoch[instances[i].class]
        /\ instances[i].epoch = epoch[instances[i].class] =>
             cache[instances[i].class][instances[i].file] = i
    BY DEF Keyed, CurrentIsCached
  <2>3. /\ instances'[i].file = instances[i].file
        /\ instances'[i].class = instances[i].class
        /\ instances'[i].epoch = instances[i].epoch
    BY DEF KeepsKeys
  <2>4. CASE instances[i].class = c
    BY <1>1, <1>2, <2>1, <2>2, <2>3, <2>4
  <2>5. CASE instances[i].class # c
    BY <1>1, <1>3, <2>1, <2>2, <2>3, <2>5
  <2>6. QED
    BY <2>4, <2>5
<1>6. EvaluatedOnce'
  BY DEF Keyed, EvaluatedOnce, KeepsKeys, ClassOf
<1>7. QED
  BY <1>4, <1>5, <1>6 DEF Keyed

-----------------------------------------------------------------------------
(* The inductive invariant *)

\* Tables and frames that name known modules still do when more are known.
LEMMA MoreKnown ==
  ASSUME TypeOK, Known \subseteq Known'
  PROVE  /\ cache \in [Classes -> [Files -> {0} \cup Known']]
         /\ main \in [Classes -> {0} \cup Known']
         /\ served \in [Classes -> [Packages -> SUBSET Known']]
         /\ stack \in Seq(FrameType')
<1>1. cache \in [Classes -> [Files -> {0} \cup Known']]
  BY DEF TypeOK
<1>2. main \in [Classes -> {0} \cup Known']
  BY DEF TypeOK
<1>3. served \in [Classes -> [Packages -> SUBSET Known']]
  BY DEF TypeOK
<1>4. stack \in Seq(FrameType')
  <2>1. stack \in Seq(FrameType)
    BY DEF TypeOK, FrameType
  <2>2. FrameType \subseteq FrameType'
    BY DEF FrameType
  <2> HIDE DEF FrameType
  <2>3. QED
    BY <2>1, <2>2
<1>5. QED
  BY <1>1, <1>2, <1>3, <1>4

\* What _load leaves, whether the file was cached or not.
LEMMA LoadFileStep ==
  ASSUME TypeOK, Keyed, NEW c \in Classes, NEW f \in Files, LoadFile(c, f), epoch' = epoch
  PROVE  /\ instances' \in Seq(InstanceType) /\ Known \subseteq Known'
         /\ cache' \in [Classes -> [Files -> {0} \cup Known']]
         /\ cache'[c][f] \in Known'
         /\ stack' \in Seq(FrameType')
         /\ given' \in {0} \cup Known'
         /\ Keyed' /\ FreshAfterReload'
<1>0. /\ cache \in [Classes -> [Files -> {0} \cup Known]]
      /\ stack \in Seq(FrameType) /\ instances \in Seq(InstanceType)
  BY DEF TypeOK, FrameType
<1>1. CASE cache[c][f] # 0 /\ given' = cache[c][f] /\ UNCHANGED <<instances, cache, stack>>
  <2>1. KeepsKeys /\ Known' = Known
    BY <1>1 DEF KeepsKeys, Known
  <2>2. Keyed'
    BY <1>1, <2>1, KeyedQuiet
  <2>3. cache[c][f] \in Known
    BY <1>0, <1>1
  <2>4. /\ instances[cache[c][f]].class = c
        /\ instances[cache[c][f]].epoch = epoch[c]
    BY <1>1 DEF Keyed, CacheCurrent
  <2>5. FreshAfterReload'
    BY <1>1, <2>4 DEF FreshAfterReload, ClassOf
  <2>6. stack' \in Seq(FrameType')
    BY <1>0, <1>1, <2>1 DEF FrameType
  <2>7. QED
    BY <1>0, <1>1, <2>1, <2>2, <2>3, <2>5, <2>6
<1>2. CASE /\ cache[c][f] = 0
           /\ instances' = Append(instances, Instance(f, c, epoch[c], native))
           /\ cache' = [cache EXCEPT ![c][f] = Len(instances')]
           /\ stack' = Append(stack, Load(Len(instances')))
           /\ given' = 0
  <2> DEFINE n == Len(instances')
  <2>1. native \in Classes
    BY DEF TypeOK
  <2>2. Instance(f, c, epoch[c], native) \in InstanceType
    BY <2>1 DEF Instance, InstanceType, TypeOK
  <2>3. instances' \in Seq(InstanceType) /\ Known' = Known \cup {n}
    BY <1>2, <2>2, AppendInstance
  <2>4. Keyed'
    BY <1>2, <2>1, KeyedLoad
  <2> HIDE DEF n
  <2>5. cache' \in [Classes -> [Files -> {0} \cup Known']] /\ cache'[c][f] = n
    BY <1>0, <1>2, <2>3 DEF n
  <2>6. Load(n) \in FrameType' /\ stack \in Seq(FrameType')
    BY <2>3, MoreKnown DEF Load, FrameType
  <2>7. stack' \in Seq(FrameType')
    BY <1>2, <2>6, AppendProperties DEF n
  <2>8. QED
    BY <1>2, <2>3, <2>4, <2>5, <2>7 DEF FreshAfterReload
<1>3. QED
  BY <1>1, <1>2 DEF LoadFile

\* What runMain leaves.
LEMMA RunMainStep ==
  ASSUME TypeOK, Keyed, NEW c \in Classes, NEW g \in Classes, RunMain(c, g)
  PROVE  /\ instances' \in Seq(InstanceType) /\ Known \subseteq Known'
         /\ cache' \in [Classes -> [Files -> {0} \cup Known']]
         /\ main' \in [Classes -> {0} \cup Known']
         /\ epoch' \in [Classes -> Nat] /\ started' \in [Classes -> BOOLEAN]
         /\ stack' \in Seq(FrameType')
         /\ served' \in [Classes -> [Packages -> SUBSET Known']]
         /\ Keyed'
<1> DEFINE n == Len(instances')
<1>1. epoch' \in [Classes -> Nat] /\ started' \in [Classes -> BOOLEAN]
  BY DEF TypeOK, RunMain
<1>2. Instance(Main, c, epoch'[c], g) \in InstanceType
  BY <1>1 DEF Instance, InstanceType
<1>3. instances' \in Seq(InstanceType) /\ Known' = Known \cup {n}
  BY <1>2, AppendInstance DEF RunMain
<1>4. Keyed'
  BY KeyedRunMain
<1> HIDE DEF n
<1>5. Known \subseteq Known' /\ n \in Known'
  BY <1>3
<1>6. [NoCache EXCEPT ![Main] = n] \in [Files -> {0} \cup Known']
  BY <1>5 DEF NoCache
<1>7. cache' \in [Classes -> [Files -> {0} \cup Known']]
  <2>1. cache \in [Classes -> [Files -> {0} \cup Known']]
    BY <1>5, MoreKnown
  <2>2. QED
    BY <1>6, <2>1 DEF RunMain, n
<1>8. main' \in [Classes -> {0} \cup Known']
  <2>1. main \in [Classes -> {0} \cup Known']
    BY <1>5, MoreKnown
  <2>2. QED
    BY <1>5, <2>1 DEF RunMain, n
<1>9. stack' \in Seq(FrameType')
  <2>1. Load(n) \in FrameType' /\ stack \in Seq(FrameType')
    BY <1>5, MoreKnown DEF Load, FrameType
  <2>2. QED
    BY <2>1, AppendProperties DEF RunMain, n
<1>10. served' \in [Classes -> [Packages -> SUBSET Known']]
  <2>1. served \in [Classes -> [Packages -> SUBSET Known']]
    BY <1>5, MoreKnown
  <2>2. [p \in Packages |-> {}] \in [Packages -> SUBSET Known']
    OBVIOUS
  <2>3. QED
    BY <2>1, <2>2 DEF RunMain
<1>11. QED
  BY <1>1, <1>3, <1>4, <1>5, <1>7, <1>8, <1>9, <1>10

\* What runMain leaves of the tables when the main file cannot be found.
LEMMA RunMissingMainStep ==
  ASSUME TypeOK, NEW c \in Classes, RunMissingMain(c)
  PROVE  /\ cache' \in [Classes -> [Files -> {0} \cup Known]]
         /\ main' = main
         /\ epoch' \in [Classes -> Nat] /\ started' \in [Classes -> BOOLEAN]
         /\ served' \in [Classes -> [Packages -> SUBSET Known]]
<1>1. epoch' \in [Classes -> Nat] /\ started' \in [Classes -> BOOLEAN]
  BY DEF RunMissingMain, TypeOK
<1>2. cache' \in [Classes -> [Files -> {0} \cup Known]] /\ main' = main
  BY DEF RunMissingMain, TypeOK, NoCache
<1>3. served' \in [Classes -> [Packages -> SUBSET Known]]
  <2>1. served \in [Classes -> [Packages -> SUBSET Known]]
    BY DEF TypeOK
  <2>2. [p \in Packages |-> {}] \in [Packages -> SUBSET Known]
    OBVIOUS
  <2>3. QED
    BY <2>1, <2>2 DEF RunMissingMain
<1>4. QED
  BY <1>1, <1>2, <1>3

\* The code that runs belongs to a known module, and so to a class.
LEMMA RunningTyped ==
  ASSUME TypeOK, stack # << >>
  PROVE  Running \in Known /\ instances[Running] \in InstanceType
<1>1. stack[Len(stack)] \in FrameType
  BY Shortened DEF TypeOK, FrameType
<1>2. Running \in Known
  BY <1>1 DEF Running, FrameType
<1>3. QED
  BY <1>2 DEF TypeOK, Known

THEOREM InitSound == Init => IInv
<1> SUFFICES ASSUME Init PROVE IInv
  OBVIOUS
<1>1. Known = {} /\ instances \in Seq(InstanceType) /\ stack \in Seq(FrameType)
  BY DEF Init, Known
<1>2. TypeOK
  BY <1>1 DEF Init, TypeOK, Classes, NoCache, FrameType
<1>3. Keyed
  BY <1>1 DEF Init, Keyed, CacheCurrent, CurrentIsCached, EvaluatedOnce, NoCache
<1>4. FreshAfterReload
  BY DEF Init, FreshAfterReload
<1>5. QED
  BY <1>2, <1>3, <1>4 DEF IInv

THEOREM StepSound == IInv /\ [Next]_vars => IInv'
<1> SUFFICES ASSUME IInv, [Next]_vars PROVE IInv'
  OBVIOUS
<1>0. TypeOK /\ Keyed /\ FreshAfterReload
  BY DEF IInv
<1>1. CASE Boot
  <2>1. 0 \in Classes /\ native \in Classes
    BY <1>0 DEF TypeOK, Classes
  <2>2. CASE RunMain(0, native)
    <3>1. Keyed' /\ FreshAfterReload'
      BY <1>0, <1>1, <2>1, <2>2, RunMainStep DEF Boot, FreshAfterReload
    <3>2. TypeOK'
      BY <1>0, <1>1, <2>1, <2>2, RunMainStep DEF Boot, TypeOK, disk, FrameType
    <3>3. QED
      BY <3>1, <3>2 DEF IInv
  <2>3. CASE RunMissingMain(0) /\ UNCHANGED <<instances, stack>>
    <3>1. Known' = Known /\ KeepsKeys
      BY <2>3 DEF Known, KeepsKeys
    <3>2. Keyed' /\ FreshAfterReload'
      BY <1>0, <1>1, <2>1, <2>3, <3>1, KeyedMissingMain DEF Boot, FreshAfterReload
    <3>3. TypeOK'
      BY <1>0, <1>1, <2>1, <2>3, <3>1, RunMissingMainStep DEF Boot, TypeOK, disk
    <3>4. QED
      BY <3>2, <3>3 DEF IInv
  <2>4. QED
    BY <1>1, <2>2, <2>3 DEF Boot
<1>2. ASSUME NEW f \in Files, Require(f) PROVE IInv'
  <2>1. ClassOf(Running) \in Classes /\ LoadFile(ClassOf(Running), f) /\ epoch' = epoch
    BY <1>0, <1>2, RunningTyped DEF Require, ClassOf, InstanceType
  <2>2. Keyed' /\ FreshAfterReload' /\ Known \subseteq Known'
    BY <1>0, <2>1, LoadFileStep
  <2>3. TypeOK'
    BY <1>0, <1>2, <2>1, <2>2, LoadFileStep, MoreKnown DEF Require, TypeOK, disk, FrameType
  <2>4. QED
    BY <2>2, <2>3 DEF IInv
<1>3. ASSUME NEW p \in Packages, RequirePackage(p) PROVE IInv'
  <2> DEFINE c == ClassOf(Running)
             f == Resolved(c, p)
  <2>1. c \in Classes
    BY <1>0, <1>3, RunningTyped DEF RequirePackage, ClassOf, InstanceType
  <2>2. ReadPackage(c, p) \in Entries \cup {NoJson} /\ f \in Files
    BY <1>0, <2>1 DEF TypeOK, ReadPackage, Resolved
  <2>3. LoadFile(c, f) /\ epoch' = epoch
    BY <1>3 DEF RequirePackage
  <2>4. /\ packages' = [packages EXCEPT ![c][p] = ReadPackage(c, p)]
        /\ served' = IF ReadPackage(c, p) = NoJson THEN served
                     ELSE [served EXCEPT ![c][p] = @ \cup {cache'[c][f]}]
    BY <1>3 DEF RequirePackage
  <2> HIDE DEF c, f
  <2>5. Keyed' /\ FreshAfterReload' /\ Known \subseteq Known' /\ cache'[c][f] \in Known'
    BY <1>0, <2>1, <2>2, <2>3, LoadFileStep
  <2>6. packages' \in [Classes -> [Packages -> Entries \cup {NoJson}]]
    BY <1>0, <2>1, <2>2, <2>4 DEF TypeOK
  <2>7. served' \in [Classes -> [Packages -> SUBSET Known']]
    <3>1. served \in [Classes -> [Packages -> SUBSET Known']]
      BY <1>0, <2>5, MoreKnown
    <3>2. QED
      BY <2>1, <2>4, <2>5, <3>1
  <2>8. main \in [Classes -> {0} \cup Known']
    BY <1>0, <2>5, MoreKnown
  <2>9. TypeOK'
    BY <1>0, <1>3, <2>1, <2>2, <2>3, <2>6, <2>7, <2>8, LoadFileStep
       DEF RequirePackage, TypeOK, disk, FrameType
  <2>10. QED
    BY <2>5, <2>9 DEF IInv
<1>4. CASE Finish
  <2>1. /\ Known' = Known /\ KeepsKeys /\ UNCHANGED <<cache, epoch>>
        /\ instances' \in Seq(InstanceType) /\ stack' \in Seq(FrameType)
    BY <1>0, <1>4, FinishKeeps DEF Finish, registry
  <2>2. Keyed' /\ FreshAfterReload'
    BY <1>0, <1>4, <2>1, KeyedQuiet DEF Finish, FreshAfterReload
  <2>3. TypeOK'
    BY <1>0, <1>4, <2>1 DEF Finish, TypeOK, registry, disk, FrameType
  <2>4. QED
    BY <2>2, <2>3 DEF IInv
<1>5. CASE Throw
  <2>1. /\ Known' = Known /\ KeepsKeys /\ UNCHANGED <<cache, epoch>>
        /\ instances' \in Seq(InstanceType) /\ stack' \in Seq(FrameType)
    BY <1>0, <1>5, UnwoundKeeps DEF Throw, registry
  <2>2. Keyed' /\ FreshAfterReload'
    BY <1>0, <1>5, <2>1, KeyedQuiet DEF Throw, FreshAfterReload
  <2>3. TypeOK'
    BY <1>0, <1>5, <2>1 DEF Throw, TypeOK, registry, disk, FrameType
  <2>4. QED
    BY <2>2, <2>3 DEF IInv
<1>6. ASSUME NEW i \in Known, CallInto(i) PROVE IInv'
  <2>1. Known' = Known /\ KeepsKeys /\ UNCHANGED <<cache, epoch>>
    BY <1>6 DEF CallInto, registry, KeepsKeys, Known
  <2>2. Keyed' /\ FreshAfterReload'
    BY <1>0, <1>6, <2>1, KeyedQuiet DEF CallInto, FreshAfterReload
  <2>3. stack' \in Seq(FrameType)
    <3>1. Call(i) \in FrameType /\ stack \in Seq(FrameType)
      BY <1>0 DEF Call, FrameType, TypeOK
    <3>2. QED
      BY <1>6, <3>1, AppendProperties DEF CallInto
  <2>4. TypeOK'
    BY <1>0, <1>6, <2>1, <2>3 DEF CallInto, TypeOK, registry, disk, FrameType
  <2>5. QED
    BY <2>2, <2>4 DEF IInv
<1>7. ASSUME NEW c \in Classes, Reload(c) PROVE IInv'
  <2>1. native' \in Classes
    BY <1>0, <1>7 DEF Reload, TypeOK, Classes
  <2>2. CASE RunMain(c, native')
    <3>1. Keyed' /\ FreshAfterReload'
      BY <1>0, <1>7, <2>1, <2>2, RunMainStep DEF Reload, FreshAfterReload
    <3>2. TypeOK'
      BY <1>0, <1>7, <2>1, <2>2, RunMainStep DEF Reload, TypeOK, disk, FrameType
    <3>3. QED
      BY <3>1, <3>2 DEF IInv
  <2>3. CASE RunMissingMain(c) /\ \E n \in {0} \cup (0..(Len(stack) - 1)) : Unwound(n)
    <3>1. /\ Known' = Known /\ KeepsKeys
          /\ instances' \in Seq(InstanceType) /\ stack' \in Seq(FrameType)
      BY <1>0, <2>3, UnwoundKeeps
    <3>2. Keyed' /\ FreshAfterReload'
      BY <1>0, <1>7, <2>3, <3>1, KeyedMissingMain DEF Reload, FreshAfterReload
    <3>3. TypeOK'
      BY <1>0, <1>7, <2>1, <2>3, <3>1, RunMissingMainStep DEF Reload, TypeOK, disk, FrameType
    <3>4. QED
      BY <3>2, <3>3 DEF IInv
  <2>4. QED
    BY <1>7, <2>2, <2>3 DEF Reload
<1>8. ASSUME NEW p \in Packages, NEW f \in Entries \cup {NoJson}, EditPackage(p, f)
      PROVE  IInv'
  <2>1. Known' = Known /\ KeepsKeys /\ UNCHANGED <<cache, epoch>>
    BY <1>8 DEF EditPackage, registry, KeepsKeys, Known
  <2>2. Keyed' /\ FreshAfterReload'
    BY <1>0, <1>8, <2>1, KeyedQuiet DEF EditPackage, FreshAfterReload
  <2>3. TypeOK'
    BY <1>0, <1>8, <2>1 DEF EditPackage, TypeOK, registry
  <2>4. QED
    BY <2>2, <2>3 DEF IInv
<1>9. CASE UNCHANGED vars
  <2>1. Known' = Known /\ KeepsKeys /\ UNCHANGED <<cache, epoch>>
    BY <1>9 DEF vars, KeepsKeys, Known
  <2>2. Keyed'
    BY <1>0, <2>1, KeyedQuiet
  <2>3. TypeOK' /\ FreshAfterReload'
    BY <1>0, <1>9, <2>1 DEF vars, TypeOK, FreshAfterReload, ClassOf
  <2>4. QED
    BY <2>2, <2>3 DEF IInv
<1>10. QED
  BY <1>1, <1>2, <1>3, <1>4, <1>5, <1>6, <1>7, <1>8, <1>9 DEF Next

LEMMA AlwaysSound == Spec => []IInv
BY InitSound, StepSound, PTL DEF Spec

\* The frames, the caches and the histories have their types.
THEOREM TypeCorrect == Spec => []TypeOK
<1>1. IInv => TypeOK
  BY DEF IInv
<1>2. QED
  BY AlwaysSound, <1>1, PTL

\* A class evaluates each file at most once between two runs of main, however
\* many files, packages, modules, calls in progress and reloads there are.
THEOREM EvaluatedOnceHolds == Spec => []EvaluatedOnce
<1>1. IInv => EvaluatedOnce
  BY DEF IInv, Keyed
<1>2. QED
  BY AlwaysSound, <1>1, PTL

\* After a reload, require() hands out nothing that was loaded before it.
THEOREM FreshAfterReloadHolds == Spec => []FreshAfterReload
<1>1. IInv => FreshAfterReload
  BY DEF IInv
<1>2. QED
  BY AlwaysSound, <1>1, PTL

-----------------------------------------------------------------------------
(* require() is consistent.                                                *)

\* A module that is loading has the frame of its body on the stack.
LoadingBelow ==
  \A i \in Known : instances[i].state = "loading" => \E j \in DOMAIN stack : stack[j] = Load(i)

\* Module.main is the cached main module.
MainCached == \A c \in Classes : started[c] => main[c] # 0 /\ main[c] = cache[c][Main]

\* A package was served the cached module of the file that its package.json, as it was
\* read, names.
ServedCached ==
  \A c \in Classes, p \in Packages : served[c][p] # {} =>
    /\ packages[c][p] \in Entries /\ cache[c][packages[c][p]] # 0
    /\ served[c][p] = {cache[c][packages[c][p]]}

Consistent == LoadingBelow /\ MainCached /\ ServedCached

\* A body that begins lies on the stack.
LEMMA LoadingNew ==
  ASSUME TypeOK, LoadingBelow, NEW x \in InstanceType,
         instances' = Append(instances, x), stack' = Append(stack, Load(Len(instances')))
  PROVE  LoadingBelow'
<1>1. /\ Known' = Known \cup {Len(instances')} /\ instances'[Len(instances')] = x
      /\ \A i \in Known : instances'[i] = instances[i]
  BY AppendInstance
<1>2. /\ stack \in Seq(FrameType) /\ Len(stack) \in Nat /\ DOMAIN stack = 1..Len(stack)
  BY DEF TypeOK, FrameType
<1>3. /\ DOMAIN stack' = 1..(Len(stack) + 1) /\ stack'[Len(stack) + 1] = Load(Len(instances'))
      /\ \A j \in DOMAIN stack : stack'[j] = stack[j]
  BY <1>2
<1>4. ASSUME NEW i \in Known', instances'[i].state = "loading"
      PROVE  \E j \in DOMAIN stack' : stack'[j] = Load(i)
  <2>1. CASE i = Len(instances')
    <3>1. Len(stack) + 1 \in DOMAIN stack'
      BY <1>2, <1>3
    <3>2. QED
      BY <1>3, <2>1, <3>1
  <2>2. CASE i \in Known
    <3>1. instances[i].state = "loading"
      BY <1>1, <1>4, <2>2
    <3>2. PICK j \in DOMAIN stack : stack[j] = Load(i)
      BY <2>2, <3>1 DEF LoadingBelow
    <3>3. j \in DOMAIN stack' /\ stack'[j] = Load(i)
      BY <1>2, <1>3, <3>2
    <3>4. QED
      BY <3>3
  <2>3. QED
    BY <1>1, <1>4, <2>1, <2>2
<1>5. QED
  BY <1>4 DEF LoadingBelow, Load

\* Bodies that an exception leaves are loading no more.
LEMMA LoadingUnwound ==
  ASSUME TypeOK, LoadingBelow, NEW n \in {0} \cup (0..(Len(stack) - 1)), Unwound(n)
  PROVE  LoadingBelow'
<1>1. Known' = Known
  BY UnwoundKeeps
<1>2. /\ stack \in Seq(FrameType) /\ Len(stack) \in Nat /\ DOMAIN stack = 1..Len(stack) /\ n \in 0..Len(stack)
  BY DEF TypeOK, FrameType
<1>3. /\ stack' = SubSeq(stack, 1, n) /\ DOMAIN stack' = 1..n /\ \A j \in 1..n : stack'[j] = stack[j]
  BY <1>2, SubSeqProperties DEF Unwound
<1>4. ASSUME NEW i \in Known', instances'[i].state = "loading"
      PROVE  \E j \in DOMAIN stack' : stack'[j] = Load(i)
  <2>1. /\ i \in Known
        /\ instances'[i] = IF \E j \in (n + 1)..Len(stack) : stack[j] = Load(i)
                           THEN [instances[i] EXCEPT !.state = "failed"] ELSE instances[i]
    BY <1>1 DEF Unwound
  <2>2. instances[i] \in InstanceType
    BY <2>1 DEF TypeOK, Known
  <2>3. ~ \E j \in (n + 1)..Len(stack) : stack[j] = Load(i)
    <3>1. SUFFICES ASSUME \E j \in (n + 1)..Len(stack) : stack[j] = Load(i) PROVE FALSE
      OBVIOUS
    <3>2. instances'[i] = [instances[i] EXCEPT !.state = "failed"]
      BY <2>1, <3>1
    <3>3. instances'[i].state = "failed"
      BY <2>2, <3>2 DEF InstanceType
    <3>4. QED
      BY <1>4, <3>3
  <2>4. instances[i].state = "loading"
    BY <1>4, <2>1, <2>3
  <2>5. PICK j \in DOMAIN stack : stack[j] = Load(i)
    BY <2>1, <2>4 DEF LoadingBelow
  <2>6. j \in 1..n
    BY <1>2, <2>3, <2>5
  <2>7. QED
    BY <1>3, <2>5, <2>6
<1>5. QED
  BY <1>4 DEF LoadingBelow, Load

\* A body that ends is loaded.
LEMMA LoadingFinish ==
  ASSUME TypeOK, LoadingBelow, Finish
  PROVE  LoadingBelow'
<1>1. /\ stack \in Seq(FrameType) /\ Len(stack) \in Nat /\ DOMAIN stack = 1..Len(stack) /\ Len(stack) >= 1
  BY DEF TypeOK, FrameType, Finish
<1>2. /\ Front(stack) \in Seq(FrameType) /\ DOMAIN Front(stack) = 1..(Len(stack) - 1)
      /\ \A j \in 1..(Len(stack) - 1) : Front(stack)[j] = stack[j]
  BY <1>1 DEF Front
<1>3. stack' = Front(stack)
  BY DEF Finish
<1>4. Running \in Known /\ stack[Len(stack)] \in FrameType /\ Last(stack) = stack[Len(stack)]
  <2>1. stack[Len(stack)] \in FrameType
    BY <1>1, ElementOfSeq
  <2>2. QED
    BY <2>1 DEF FrameType, Running, Last
<1>5. ASSUME NEW i \in Known', instances'[i].state = "loading"
      PROVE  \E j \in DOMAIN stack' : stack'[j] = Load(i)
  <2>1. /\ i \in Known /\ instances[i].state = "loading"
        /\ ~(Last(stack).k = "load" /\ i = Running)
    <3>1. CASE Last(stack).k = "load"
      <4>1. instances' = [instances EXCEPT ![Running].state = "loaded"]
        BY <3>1 DEF Finish
      <4>2. i \in Known /\ instances[i] \in InstanceType /\ instances \in Seq(InstanceType)
        BY <4>1 DEF Known, TypeOK
      <4>3. CASE i = Running
        <5>1. instances'[i] = [instances[i] EXCEPT !.state = "loaded"]
          BY <4>1, <4>2, <4>3 DEF Known
        <5>2. instances'[i].state = "loaded"
          BY <4>2, <5>1 DEF InstanceType
        <5>3. QED
          BY <1>5, <5>2
      <4>4. CASE i # Running
        BY <1>5, <4>1, <4>2, <4>4 DEF Known
      <4>5. QED
        BY <4>3, <4>4
    <3>2. CASE Last(stack).k # "load"
      BY <1>5, <3>2 DEF Finish, Known
    <3>3. QED
      BY <3>1, <3>2
  <2>2. PICK j \in DOMAIN stack : stack[j] = Load(i)
    BY <2>1 DEF LoadingBelow
  <2>3. j # Len(stack)
    BY <1>4, <2>1, <2>2 DEF Load, Running
  <2>4. j \in 1..(Len(stack) - 1)
    BY <1>1, <2>2, <2>3
  <2>5. QED
    BY <1>2, <1>3, <2>2, <2>4
<1>6. QED
  BY <1>5 DEF LoadingBelow, Load

\* Steps that leave the modules alone and the frames in place.
LEMMA LoadingQuiet ==
  ASSUME TypeOK, LoadingBelow, instances' = instances,
         stack' = stack \/ \E i \in Known : stack' = Append(stack, Call(i))
  PROVE  LoadingBelow'
<1>1. /\ stack \in Seq(FrameType) /\ Len(stack) \in Nat /\ DOMAIN stack = 1..Len(stack)
  BY DEF TypeOK, FrameType
<1>2. \A j \in DOMAIN stack : j \in DOMAIN stack' /\ stack'[j] = stack[j]
  BY <1>1
<1>3. ASSUME NEW i \in Known', instances'[i].state = "loading"
      PROVE  \E j \in DOMAIN stack' : stack'[j] = Load(i)
  <2>1. PICK j \in DOMAIN stack : stack[j] = Load(i)
    BY <1>3 DEF LoadingBelow, Known
  <2>2. QED
    BY <1>2, <2>1
<1>4. QED
  BY <1>3 DEF LoadingBelow, Load

\* What require() finds, or caches, is what a package and main were.
LEMMA CachedLoad ==
  ASSUME TypeOK, MainCached, ServedCached, NEW c \in Classes, NEW f \in Files, LoadFile(c, f)
  PROVE  /\ \A d \in Classes, g \in Files : cache[d][g] # 0 => cache'[d][g] = cache[d][g]
         /\ cache'[c][f] # 0
<1>1. cache \in [Classes -> [Files -> {0} \cup Known]] /\ instances \in Seq(InstanceType)
  BY DEF TypeOK
<1>2. CASE cache[c][f] # 0
  BY <1>2 DEF LoadFile
<1>3. CASE cache[c][f] = 0
  <2>1. cache' = [cache EXCEPT ![c][f] = Len(instances')] /\ Len(instances') = Len(instances) + 1
    BY <1>1, <1>3 DEF LoadFile
  <2>2. Len(instances') # 0
    BY <1>1, <2>1
  <2>3. QED
    BY <1>1, <1>3, <2>1, <2>2
<1>4. QED
  BY <1>2, <1>3

\* require() pushes the frame of the body, or nothing.
LEMMA LoadingLoad ==
  ASSUME TypeOK, LoadingBelow, NEW c \in Classes, NEW f \in Files, LoadFile(c, f)
  PROVE  LoadingBelow'
<1>1. CASE cache[c][f] # 0
  BY <1>1, LoadingQuiet DEF LoadFile
<1>2. CASE cache[c][f] = 0
  <2>1. Instance(f, c, epoch[c], native) \in InstanceType
    BY DEF Instance, InstanceType, TypeOK
  <2>2. QED
    BY <1>2, <2>1, LoadingNew DEF LoadFile
<1>3. QED
  BY <1>1, <1>2

\* runMain begins with an empty cache, and main in it.
LEMMA ConsistentRunMain ==
  ASSUME TypeOK, MainCached, ServedCached, NEW c \in Classes, NEW g \in Classes, RunMain(c, g), packages' = packages
  PROVE  MainCached' /\ ServedCached'
<1>1. /\ cache \in [Classes -> [Files -> {0} \cup Known]] /\ main \in [Classes -> {0} \cup Known]
      /\ started \in [Classes -> BOOLEAN] /\ served \in [Classes -> [Packages -> SUBSET Known]]
      /\ Len(instances) \in Nat /\ instances \in Seq(InstanceType)
  BY DEF TypeOK
<1>2. Len(instances') = Len(instances) + 1
  BY <1>1 DEF RunMain
<1>3. /\ cache' = [cache EXCEPT ![c] = [NoCache EXCEPT ![Main] = Len(instances')]]
      /\ main' = [main EXCEPT ![c] = Len(instances')]
      /\ started' = [started EXCEPT ![c] = TRUE]
      /\ served' = [served EXCEPT ![c] = [p \in Packages |-> {}]]
  BY DEF RunMain
<1>4. MainCached'
  <2>1. ASSUME NEW d \in Classes, started'[d] PROVE main'[d] # 0 /\ main'[d] = cache'[d][Main]
    <3>1. CASE d = c
      <4>1. main'[d] = Len(instances') /\ cache'[d][Main] = Len(instances')
        BY <1>1, <1>3, <3>1 DEF NoCache
      <4>2. QED
        BY <1>1, <1>2, <4>1
    <3>2. CASE d # c
      BY <1>1, <1>3, <2>1, <3>2 DEF MainCached
    <3>3. QED
      BY <3>1, <3>2
  <2>2. QED
    BY <2>1 DEF MainCached
<1>5. ServedCached'
  <2>1. ASSUME NEW d \in Classes, NEW p \in Packages, served'[d][p] # {}
        PROVE  /\ d # c /\ served'[d] = served[d] /\ cache'[d] = cache[d]
    BY <1>1, <1>3, <2>1
  <2>2. QED
    BY <2>1 DEF ServedCached
<1>6. QED
  BY <1>4, <1>5

\* Without a main file the cache is empty.
LEMMA ConsistentMissingMain ==
  ASSUME TypeOK, MainCached, ServedCached, NEW c \in Classes, RunMissingMain(c), packages' = packages
  PROVE  MainCached' /\ ServedCached'
<1>1. /\ cache \in [Classes -> [Files -> {0} \cup Known]]
      /\ started \in [Classes -> BOOLEAN] /\ served \in [Classes -> [Packages -> SUBSET Known]]
  BY DEF TypeOK
<1>2. /\ cache' = [cache EXCEPT ![c] = NoCache] /\ main' = main
      /\ started' = [started EXCEPT ![c] = FALSE]
      /\ served' = [served EXCEPT ![c] = [p \in Packages |-> {}]]
  BY DEF RunMissingMain
<1>3. ASSUME NEW d \in Classes, started'[d] PROVE d # c /\ started[d] /\ cache'[d] = cache[d]
  BY <1>1, <1>2, <1>3
<1>4. MainCached'
  BY <1>2, <1>3 DEF MainCached
<1>5. ASSUME NEW d \in Classes, NEW p \in Packages, served'[d][p] # {}
      PROVE  /\ d # c /\ served'[d] = served[d] /\ cache'[d] = cache[d]
  BY <1>1, <1>2, <1>5
<1>6. ServedCached'
  BY <1>5 DEF ServedCached
<1>7. QED
  BY <1>4, <1>6

\* A package is served the file its package.json names.
LEMMA ConsistentPackage ==
  ASSUME TypeOK, MainCached, ServedCached, NEW p \in Packages, RequirePackage(p)
  PROVE  ServedCached'
<1> DEFINE c == ClassOf(Running)
           f == Resolved(c, p)
           r == ReadPackage(c, p)
<1>1. c \in Classes
  <2>1. stack # << >>
    BY DEF RequirePackage
  <2>2. QED
    BY <2>1, RunningTyped DEF ClassOf, InstanceType
<1>2. /\ packages \in [Classes -> [Packages -> Entries \cup {NoJson}]] /\ json[p] \in Entries \cup {NoJson}
      /\ served \in [Classes -> [Packages -> SUBSET Known]]
  BY DEF TypeOK
<1>3. /\ LoadFile(c, f) /\ packages' = [packages EXCEPT ![c][p] = r]
      /\ served' = IF r = NoJson THEN served ELSE [served EXCEPT ![c][p] = @ \cup {cache'[c][f]}]
  BY DEF RequirePackage
<1> HIDE DEF c
<1>4. r \in Entries \cup {NoJson} /\ (packages[c][p] # NoJson => r = packages[c][p])
  BY <1>1, <1>2 DEF ReadPackage
<1>5. f \in Files /\ (r # NoJson => f = r)
  BY <1>4 DEF Resolved
<1> HIDE DEF f, r
<1>6. /\ \A d \in Classes, g \in Files : cache[d][g] # 0 => cache'[d][g] = cache[d][g]
      /\ cache'[c][f] # 0
  BY <1>1, <1>3, <1>5, CachedLoad
<1>7. ASSUME NEW d \in Classes, NEW q \in Packages, served'[d][q] # {}
      PROVE  /\ packages'[d][q] \in Entries /\ cache'[d][packages'[d][q]] # 0
             /\ served'[d][q] = {cache'[d][packages'[d][q]]}
  <2>1. CASE d = c /\ q = p /\ r # NoJson
    <3>1. served'[c][p] = served[c][p] \cup {cache'[c][f]} /\ packages'[c][p] = r
      BY <1>1, <1>2, <1>3, <2>1
    <3>2. served[c][p] \subseteq {cache'[c][f]}
      <4>1. CASE served[c][p] = {}
        BY <4>1
      <4>2. CASE served[c][p] # {}
        <5>1. packages[c][p] \in Entries /\ cache[c][packages[c][p]] # 0 /\ served[c][p] = {cache[c][packages[c][p]]}
          BY <1>1, <4>2 DEF ServedCached
        <5>2. packages[c][p] = f /\ f \in Files
          BY <1>4, <1>5, <5>1
        <5>3. QED
          BY <1>1, <1>6, <5>1, <5>2
      <4>3. QED
        BY <4>1, <4>2
    <3>3. QED
      BY <1>4, <1>5, <1>6, <2>1, <3>1, <3>2
  <2>2. CASE ~(d = c /\ q = p /\ r # NoJson)
    <3>1. served'[d][q] = served[d][q]
      BY <1>1, <1>2, <1>3, <2>2
    <3>2. packages[d][q] \in Entries /\ cache[d][packages[d][q]] # 0 /\ served[d][q] = {cache[d][packages[d][q]]}
      BY <1>7, <3>1 DEF ServedCached
    <3>3. packages'[d][q] = packages[d][q]
      BY <1>1, <1>2, <1>3, <1>4, <2>2, <3>2
    <3>4. packages[d][q] \in Files
      BY <3>2
    <3>5. QED
      BY <1>6, <3>1, <3>2, <3>3, <3>4
  <2>3. QED
    BY <2>1, <2>2
<1>8. QED
  BY <1>7 DEF ServedCached

\* What is in the cache stays there while a class does not run main.
LEMMA MainKept ==
  ASSUME MainCached, UNCHANGED <<main, started>>,
         \A d \in Classes, g \in Files : cache[d][g] # 0 => cache'[d][g] = cache[d][g]
  PROVE  MainCached'
BY DEF MainCached

\* Every step keeps require() consistent.
LEMMA ConsistentStep ==
  ASSUME TypeOK, TypeOK', Consistent, [Next]_vars
  PROVE  Consistent'
<1> USE DEF Consistent
<1>1. ASSUME NEW f \in Files, Require(f) PROVE Consistent'
  <2>1. ClassOf(Running) \in Classes /\ LoadFile(ClassOf(Running), f)
    <3>1. stack # << >> /\ LoadFile(ClassOf(Running), f)
      BY <1>1 DEF Require
    <3>2. QED
      BY <3>1, RunningTyped DEF ClassOf, InstanceType
  <2>2. /\ \A d \in Classes, g \in Files : cache[d][g] # 0 => cache'[d][g] = cache[d][g]
        /\ LoadingBelow'
    BY <2>1, CachedLoad, LoadingLoad
  <2>3. MainCached'
    BY <1>1, <2>2, MainKept DEF Require
  <2>4. ServedCached'
    BY <1>1, <2>2 DEF Require, ServedCached
  <2>5. QED
    BY <2>2, <2>3, <2>4
<1>2. ASSUME NEW p \in Packages, RequirePackage(p) PROVE Consistent'
  <2> DEFINE c == ClassOf(Running)
             f == Resolved(c, p)
  <2>1. c \in Classes /\ LoadFile(c, f)
    <3>1. stack # << >> /\ LoadFile(c, f)
      BY <1>2 DEF RequirePackage
    <3>2. QED
      BY <3>1, RunningTyped DEF ClassOf, InstanceType
  <2>2. f \in Files
    BY <2>1 DEF Resolved, ReadPackage, TypeOK
  <2> HIDE DEF c, f
  <2>3. /\ \A d \in Classes, g \in Files : cache[d][g] # 0 => cache'[d][g] = cache[d][g]
        /\ LoadingBelow'
    BY <2>1, <2>2, CachedLoad, LoadingLoad
  <2>4. MainCached'
    BY <1>2, <2>3, MainKept DEF RequirePackage
  <2>5. ServedCached'
    BY <1>2, ConsistentPackage
  <2>6. QED
    BY <2>3, <2>4, <2>5
<1>3. CASE Boot \/ \E c \in Classes : Reload(c)
  <2>1. ASSUME NEW c \in Classes, NEW g \in Classes, RunMain(c, g), packages' = packages PROVE Consistent'
    <3>1. Main \in Files /\ Instance(Main, c, epoch'[c], g) \in InstanceType
      BY DEF Instance, InstanceType, TypeOK
    <3>2. LoadingBelow'
      BY <2>1, <3>1, LoadingNew DEF RunMain
    <3>3. QED
      BY <2>1, <3>2, ConsistentRunMain
  <2>2. ASSUME NEW c \in Classes, RunMissingMain(c), packages' = packages,
               \/ UNCHANGED <<instances, stack>>
               \/ \E n \in {0} \cup (0..(Len(stack) - 1)) : Unwound(n)
        PROVE Consistent'
    BY <2>2, ConsistentMissingMain, LoadingQuiet, LoadingUnwound
  <2>3. CASE Boot
    BY <2>1, <2>2, <2>3 DEF Boot, Classes, TypeOK
  <2>4. ASSUME NEW c \in Classes, Reload(c) PROVE Consistent'
    <3>1. native' \in Classes /\ packages' = packages
      BY <2>4 DEF Reload, TypeOK
    <3>2. QED
      BY <2>1, <2>2, <2>4, <3>1 DEF Reload
  <2>5. QED
    BY <1>3, <2>3, <2>4
<1>4. CASE Finish \/ Throw \/ (\E i \in Known : CallInto(i)) \/ UNCHANGED vars
           \/ \E p \in Packages, f \in Entries \cup {NoJson} : EditPackage(p, f)
  <2>1. UNCHANGED <<main, started, cache, packages, served>>
    BY <1>4 DEF Finish, Throw, CallInto, EditPackage, registry, vars
  <2>2. MainCached' /\ ServedCached'
    BY <2>1 DEF MainCached, ServedCached
  <2>3. LoadingBelow'
    <3>1. CASE Finish
      BY <3>1, LoadingFinish
    <3>2. CASE Throw
      BY <3>2, LoadingUnwound DEF Throw
    <3>3. CASE ~Finish /\ ~Throw
      BY <1>4, <3>3, LoadingQuiet DEF CallInto, EditPackage, vars
    <3>4. QED
      BY <3>1, <3>2, <3>3
  <2>4. QED
    BY <2>2, <2>3
<1>5. QED
  BY <1>1, <1>2, <1>3, <1>4 DEF Next

\* Exports of a module that is not over come from a body further down the stack, Module.main
\* is the cached main module, and a package stays one module, for any number of files,
\* packages, frames, reloads and changes of a package.json.
THEOREM RequireIsConsistentHolds == Spec => []RequireIsConsistent
<1>1. Init => Consistent
  BY DEF Init, Consistent, LoadingBelow, MainCached, ServedCached, Known
<1>2. TypeOK /\ TypeOK' /\ Consistent /\ [Next]_vars => Consistent'
  BY ConsistentStep
<1>3. TypeOK /\ Consistent => RequireIsConsistent
  <2> SUFFICES ASSUME TypeOK, Consistent PROVE RequireIsConsistent
    OBVIOUS
  <2>1. (given # 0 /\ instances[given].state = "loading") => \E j \in DOMAIN stack : stack[j] = Load(given)
    BY DEF Consistent, LoadingBelow, TypeOK
  <2>2. ASSUME NEW c \in Classes, NEW p \in Packages PROVE Cardinality(served[c][p]) <= 1
    <3>1. CASE served[c][p] = {}
      BY <3>1, FS_EmptySet
    <3>2. CASE served[c][p] # {}
      <4>1. PICK x : served[c][p] = {x}
        BY <3>2 DEF Consistent, ServedCached
      <4>2. QED
        BY <4>1, FS_Singleton
    <3>3. QED
      BY <3>1, <3>2
  <2>3. QED
    BY <2>1, <2>2 DEF RequireIsConsistent, Consistent, MainCached
<1>4. QED
  BY <1>1, <1>2, <1>3, TypeCorrect, PTL DEF Spec
=============================================================================
