-------------------------- MODULE DispatcherProofs --------------------------
(* Proofs about Registry and Dispatcher for every catalogue of modules,     *)
(* every list of them and any number of senders, requests and restarts.     *)
EXTENDS Dispatcher, Loops, FiniteSetTheorems

----------------------------------------------------------------------------
(* Build. *)

CronName == {c.name : c \in UNION {ToSet(Factory[m].crons) : m \in DOMAIN Factory}}

(* What a registry may be made of, at each point of Build.                  *)
Registries ==
  [modules : Seq(DOMAIN Factory),
   commands : UNION {[N -> [module : DOMAIN Factory, visibility : Visibility]] :
                       N \in SUBSET Command},
   crons : UNION {[N -> [module : DOMAIN Factory]] : N \in SUBSET CronName},
   hooks : Seq(DOMAIN Factory),
   seen : SUBSET ModuleName, unknown : BOOLEAN, failed : BOOLEAN]

(* A map with one more entry is a map.                                      *)
LEMMA RegisteredType ==
  ASSUME NEW Names, NEW E, NEW entries \in UNION {[N -> E] : N \in SUBSET Names},
         NEW n \in Names, NEW entry \in E
  PROVE  Registered(entries, n, entry) \in UNION {[N -> E] : N \in SUBSET Names}
<1>1. PICK N \in SUBSET Names : entries \in [N -> E]
  OBVIOUS
<1>2. Registered(entries, n, entry) \in [N \cup {n} -> E]
  BY <1>1 DEF Registered
<1>3. QED
  BY <1>2

(* An error keeps a registry one. *)
LEMMA RefusedType ==
  ASSUME NEW r \in Registries
  PROVE  Refused(r) \in Registries
BY DEF Refused, Registries

(* So does a command that is added, or refused.                             *)
LEMMA AddCommandType ==
  ASSUME NEW r \in Registries, NEW m \in DOMAIN Factory,
         NEW c \in ToSet(Factory[m].commands)
  PROVE  AddCommand(r, m, c) \in Registries
<1>1. CASE r.failed \/ ~validateCommand(c) \/ Taken(r.commands, c.name, m)
  BY <1>1, RefusedType DEF AddCommand
<1>2. CASE ~(r.failed \/ ~validateCommand(c) \/ Taken(r.commands, c.name, m))
  <2> DEFINE E == [module : DOMAIN Factory, visibility : Visibility]
             e == [module |-> m, visibility |-> c.visibility]
             new == Registered(r.commands, c.name, e)
  <2>1. c.name \in Command /\ e \in E
    BY <1>2 DEF Command, validateCommand
  <2>2. r.commands \in UNION {[N -> E] : N \in SUBSET Command}
    BY DEF Registries
  <2> HIDE DEF E, e
  <2>3. new \in UNION {[N -> E] : N \in SUBSET Command}
    BY <2>1, <2>2, RegisteredType
  <2>4. AddCommand(r, m, c) = [r EXCEPT !.commands = new]
    BY <1>2 DEF AddCommand, e
  <2> HIDE DEF new
  <2>5. QED
    BY <2>3, <2>4 DEF Registries, E
<1>3. QED
  BY <1>1, <1>2

(* And a cron. *)
LEMMA AddCronType ==
  ASSUME NEW r \in Registries, NEW m \in DOMAIN Factory,
         NEW c \in ToSet(Factory[m].crons)
  PROVE  AddCron(r, m, c) \in Registries
<1>1. CASE r.failed \/ ~validateCron(c) \/ Taken(r.crons, c.name, m)
  BY <1>1, RefusedType DEF AddCron
<1>2. CASE ~(r.failed \/ ~validateCron(c) \/ Taken(r.crons, c.name, m))
  <2> DEFINE E == [module : DOMAIN Factory]
             e == [module |-> m]
             new == Registered(r.crons, c.name, e)
  <2>1. c.name \in CronName /\ e \in E
    BY DEF CronName
  <2>2. r.crons \in UNION {[N -> E] : N \in SUBSET CronName}
    BY DEF Registries
  <2> HIDE DEF E, e
  <2>3. new \in UNION {[N -> E] : N \in SUBSET CronName}
    BY <2>1, <2>2, RegisteredType
  <2>4. AddCron(r, m, c) = [r EXCEPT !.crons = new]
    BY <1>2 DEF AddCron, e
  <2> HIDE DEF new
  <2>5. QED
    BY <2>3, <2>4 DEF Registries, E
<1>3. QED
  BY <1>1, <1>2

(* The loop over a module's commands: it adds them one by one.              *)
LEMMA AddCommandsRuns ==
  ASSUME NEW r \in Registries, NEW m \in DOMAIN Factory,
         NEW s \in Seq(ToSet(Factory[m].commands))
  PROVE  \E h \in [0 .. Len(s) -> Registries] :
           /\ h[0] = r
           /\ \A j \in 1 .. Len(s) : h[j] = AddCommand(h[j - 1], m, s[j])
           /\ AddCommands(r, m, s) = h[Len(s)]
<1> DEFINE n == Len(s)
           F == [i \in 1 .. n |-> [x \in Registries |-> AddCommand(x, m, s[i])]]
           Loop(g) == g = [S \in SUBSET (1 .. n) |->
                             IF S = {} THEN r ELSE AddCommand(g[S \ {Max(S)}], m, s[Max(S)])]
           g0 == CHOOSE g : Loop(g)
<1>1. /\ n \in Nat /\ DOMAIN s = 1 .. n
      /\ \A i \in 1 .. n : s[i] \in ToSet(Factory[m].commands)
  OBVIOUS
<1>2. AddCommands(r, m, s) = g0[1 .. n]
  BY <1>1 DEF AddCommands, FoldLeft, MapThenFoldSet
<1>3. /\ F \in [1 .. n -> [Registries -> Registries]]
      /\ \A i \in 1 .. n : \A x \in Registries : F[i][x] = AddCommand(x, m, s[i])
  BY <1>1, AddCommandType
<1> HIDE DEF n, F
<1>4. \A S \in SUBSET (1 .. n) :
        S # {} => Max(S) \in 1 .. n /\ S \ {Max(S)} \in SUBSET (1 .. n)
  BY <1>1, Greatest
<1>5. PICK f \in [SUBSET (1 .. n) -> Registries] : IsFold(f, r, n, F)
  BY <1>1, <1>3, FoldExists
<1>6. Loop(f)
  BY <1>3, <1>4, <1>5 DEF IsFold
<1>7. Loop(g0)
  <2> HIDE DEF Loop
  <2> QED BY <1>6
<1> HIDE DEF g0
<1>8. /\ g0[{}] = r
      /\ \A S \in SUBSET (1 .. n) :
           S # {} => g0[S] = AddCommand(g0[S \ {Max(S)}], m, s[Max(S)])
  BY <1>7
<1> HIDE DEF Loop
<1>9. PICK h \in [0 .. n -> Registries] : Rounds(h, r, n, F) /\ h[n] = g0[1 .. n]
  <2>1. FoldsIn(g0, Registries, r, n, F)
    BY <1>3, <1>4, <1>8 DEF FoldsIn
  <2>2. r \in Registries /\ n \in Nat /\ F \in [1 .. n -> [Registries -> Registries]]
    BY <1>1, <1>3
  <2>3. QED
    BY <2>1, <2>2, FoldRuns
<1>10. \A j \in 1 .. n : h[j] = AddCommand(h[j - 1], m, s[j])
  <2> TAKE j \in 1 .. n
  <2>1. j - 1 \in 0 .. n
    BY <1>1
  <2>2. QED
    BY <1>3, <1>9, <2>1 DEF Rounds
<1>11. QED
  BY <1>2, <1>9, <1>10 DEF n, Rounds

(* The loop over its crons.                                                   *)
LEMMA AddCronsRuns ==
  ASSUME NEW r \in Registries, NEW m \in DOMAIN Factory,
         NEW s \in Seq(ToSet(Factory[m].crons))
  PROVE  \E h \in [0 .. Len(s) -> Registries] :
           /\ h[0] = r
           /\ \A j \in 1 .. Len(s) : h[j] = AddCron(h[j - 1], m, s[j])
           /\ AddCrons(r, m, s) = h[Len(s)]
<1> DEFINE n == Len(s)
           F == [i \in 1 .. n |-> [x \in Registries |-> AddCron(x, m, s[i])]]
           Loop(g) == g = [S \in SUBSET (1 .. n) |->
                             IF S = {} THEN r ELSE AddCron(g[S \ {Max(S)}], m, s[Max(S)])]
           g0 == CHOOSE g : Loop(g)
<1>1. /\ n \in Nat /\ DOMAIN s = 1 .. n
      /\ \A i \in 1 .. n : s[i] \in ToSet(Factory[m].crons)
  OBVIOUS
<1>2. AddCrons(r, m, s) = g0[1 .. n]
  BY <1>1 DEF AddCrons, FoldLeft, MapThenFoldSet
<1>3. /\ F \in [1 .. n -> [Registries -> Registries]]
      /\ \A i \in 1 .. n : \A x \in Registries : F[i][x] = AddCron(x, m, s[i])
  BY <1>1, AddCronType
<1> HIDE DEF n, F
<1>4. \A S \in SUBSET (1 .. n) :
        S # {} => Max(S) \in 1 .. n /\ S \ {Max(S)} \in SUBSET (1 .. n)
  BY <1>1, Greatest
<1>5. PICK f \in [SUBSET (1 .. n) -> Registries] : IsFold(f, r, n, F)
  BY <1>1, <1>3, FoldExists
<1>6. Loop(f)
  BY <1>3, <1>4, <1>5 DEF IsFold
<1>7. Loop(g0)
  <2> HIDE DEF Loop
  <2> QED BY <1>6
<1> HIDE DEF g0
<1>8. /\ g0[{}] = r
      /\ \A S \in SUBSET (1 .. n) :
           S # {} => g0[S] = AddCron(g0[S \ {Max(S)}], m, s[Max(S)])
  BY <1>7
<1> HIDE DEF Loop
<1>9. PICK h \in [0 .. n -> Registries] : Rounds(h, r, n, F) /\ h[n] = g0[1 .. n]
  <2>1. FoldsIn(g0, Registries, r, n, F)
    BY <1>3, <1>4, <1>8 DEF FoldsIn
  <2>2. r \in Registries /\ n \in Nat /\ F \in [1 .. n -> [Registries -> Registries]]
    BY <1>1, <1>3
  <2>3. QED
    BY <2>1, <2>2, FoldRuns
<1>10. \A j \in 1 .. n : h[j] = AddCron(h[j - 1], m, s[j])
  <2> TAKE j \in 1 .. n
  <2>1. j - 1 \in 0 .. n
    BY <1>1
  <2>2. QED
    BY <1>3, <1>9, <2>1 DEF Rounds
<1>11. QED
  BY <1>2, <1>9, <1>10 DEF n, Rounds

(* What a module declares keeps a registry one.                             *)
LEMMA AddModuleType ==
  ASSUME NEW r \in Registries, NEW m \in DOMAIN Factory
  PROVE  AddModule(r, m) \in Registries
<1> DEFINE mod == Factory[m]
           hooked == [r EXCEPT !.hooks = IF mod.hook THEN Append(@, m) ELSE @]
           commanded == AddCommands(hooked, m, mod.commands)
           scheduled == AddCrons(commanded, m, mod.crons)
<1>1. mod.commands \in Seq(ToSet(mod.commands)) /\ mod.crons \in Seq(ToSet(mod.crons))
  BY CatalogueAssumption
<1>2. hooked \in Registries
  <2>1. r.hooks \in Seq(DOMAIN Factory) /\ Append(r.hooks, m) \in Seq(DOMAIN Factory)
    BY DEF Registries
  <2>2. hooked = r \/ hooked = [r EXCEPT !.hooks = Append(@, m)]
    BY DEF Registries
  <2>3. [r EXCEPT !.hooks = Append(@, m)] \in Registries
    BY <2>1 DEF Registries
  <2>4. QED
    BY <2>2, <2>3
<1> HIDE DEF hooked, mod
<1>3. commanded \in Registries
  BY <1>1, <1>2, AddCommandsRuns DEF mod
<1> HIDE DEF commanded
<1>4. scheduled \in Registries
  <2>1. mod.crons \in Seq(ToSet(Factory[m].crons))
    BY <1>1 DEF mod
  <2> HIDE DEF scheduled
  <2>2. PICK h \in [0 .. Len(mod.crons) -> Registries] :
          AddCrons(commanded, m, mod.crons) = h[Len(mod.crons)]
    BY <1>3, <2>1, AddCronsRuns
  <2>3. Len(mod.crons) \in Nat
    BY <2>1
  <2>4. QED
    BY <2>2, <2>3 DEF scheduled
<1>5. AddModule(r, m) = IF mod.name \notin {None, m} THEN Refused(r)
                        ELSE [scheduled EXCEPT !.modules = Append(@, m)]
  BY DEF AddModule, scheduled, commanded, hooked, mod
<1> HIDE DEF scheduled
<1>6. [scheduled EXCEPT !.modules = Append(@, m)] \in Registries
  <2>1. Append(scheduled.modules, m) \in Seq(DOMAIN Factory)
    BY <1>4 DEF Registries
  <2>2. QED
    BY <1>4, <2>1 DEF Registries
<1>7. QED
  BY <1>5, <1>6, RefusedType

(* And a name of the list. *)
LEMMA LoadModuleType ==
  ASSUME NEW r \in Registries, NEW m
  PROVE  LoadModule(r, m) \in Registries
<1>1. CASE r.failed
  BY <1>1 DEF LoadModule
<1>2. CASE ~r.failed /\ (m \notin ModuleName \/ m \in r.seen)
  BY <1>2, RefusedType DEF LoadModule
<1>3. CASE ~r.failed /\ m \in ModuleName /\ m \notin r.seen /\ m \notin DOMAIN Factory
  <2>1. LoadModule(r, m) = [r EXCEPT !.seen = @ \cup {m}, !.unknown = TRUE]
    BY <1>3 DEF LoadModule
  <2>2. QED
    BY <1>3, <2>1 DEF Registries
<1>4. CASE ~r.failed /\ m \in ModuleName /\ m \notin r.seen /\ m \in DOMAIN Factory
  <2>1. LoadModule(r, m) = AddModule([r EXCEPT !.seen = @ \cup {m}], m)
    BY <1>4 DEF LoadModule
  <2>2. [r EXCEPT !.seen = @ \cup {m}] \in Registries
    BY <1>4 DEF Registries
  <2>3. QED
    BY <1>4, <2>1, <2>2, AddModuleType
<1>5. QED
  BY <1>1, <1>2, <1>3, <1>4

(* The registry that Build starts from is one. *)
LEMMA NoRegistryType == NoRegistry \in Registries
<1>1. {} \in SUBSET Command /\ {} \in SUBSET CronName
  OBVIOUS
<1>2. QED
  BY <1>1 DEF NoRegistry, Registries

(* And Build's own.                                                         *)
LEMMA LoadModulesRuns ==
  ASSUME NEW s, s \in Seq(ToSet(s))
  PROVE  \E h \in [0 .. Len(s) -> Registries] :
           /\ h[0] = NoRegistry
           /\ \A j \in 1 .. Len(s) : h[j] = LoadModule(h[j - 1], s[j])
           /\ LoadModules(s) = h[Len(s)]
<1> DEFINE n == Len(s)
           F == [i \in 1 .. n |-> [x \in Registries |-> LoadModule(x, s[i])]]
           Loop(g) == g = [S \in SUBSET (1 .. n) |->
                             IF S = {} THEN NoRegistry ELSE LoadModule(g[S \ {Max(S)}], s[Max(S)])]
           g0 == CHOOSE g : Loop(g)
<1>1. /\ n \in Nat /\ DOMAIN s = 1 .. n
  OBVIOUS
<1>2. LoadModules(s) = g0[1 .. n]
  BY <1>1 DEF LoadModules, FoldLeft, MapThenFoldSet
<1>3. /\ F \in [1 .. n -> [Registries -> Registries]]
      /\ \A i \in 1 .. n : \A x \in Registries : F[i][x] = LoadModule(x, s[i])
  BY <1>1, LoadModuleType
<1> HIDE DEF n, F
<1>4. \A S \in SUBSET (1 .. n) :
        S # {} => Max(S) \in 1 .. n /\ S \ {Max(S)} \in SUBSET (1 .. n)
  BY <1>1, Greatest
<1>5. PICK f \in [SUBSET (1 .. n) -> Registries] : IsFold(f, NoRegistry, n, F)
  BY <1>1, <1>3, NoRegistryType, FoldExists
<1>6. Loop(f)
  BY <1>3, <1>4, <1>5 DEF IsFold
<1>7. Loop(g0)
  <2> HIDE DEF Loop
  <2> QED BY <1>6
<1> HIDE DEF g0
<1>8. /\ g0[{}] = NoRegistry
      /\ \A S \in SUBSET (1 .. n) :
           S # {} => g0[S] = LoadModule(g0[S \ {Max(S)}], s[Max(S)])
  BY <1>7
<1> HIDE DEF Loop
<1>9. PICK h \in [0 .. n -> Registries] : Rounds(h, NoRegistry, n, F) /\ h[n] = g0[1 .. n]
  <2>1. FoldsIn(g0, Registries, NoRegistry, n, F)
    BY <1>3, <1>4, <1>8 DEF FoldsIn
  <2>2. NoRegistry \in Registries /\ n \in Nat /\ F \in [1 .. n -> [Registries -> Registries]]
    BY <1>1, <1>3, NoRegistryType
  <2>3. QED
    BY <2>1, <2>2, FoldRuns
<1>10. \A j \in 1 .. n : h[j] = LoadModule(h[j - 1], s[j])
  <2> TAKE j \in 1 .. n
  <2>1. j - 1 \in 0 .. n
    BY <1>1
  <2>2. QED
    BY <1>3, <1>9, <2>1 DEF Rounds
<1>11. QED
  BY <1>2, <1>9, <1>10 DEF n, Rounds

(* Whatever the list, Build returns a registry. *)
LEMMA BuildType ==
  ASSUME NEW enabled, enabled \in Seq(ToSet(enabled))
  PROVE  Build(enabled) \in Registries
<1>1. LoadModules(enabled) \in Registries
  BY LoadModulesRuns
<1>2. QED
  BY <1>1, RefusedType DEF Build

----------------------------------------------------------------------------
(* What Build promises. *)

(* What holds at 0 and passes from each index to the next holds at all.     *)
LEMMA AtEachIndex ==
  ASSUME NEW n \in Nat, NEW G, 0 \in G,
         \A i \in 1 .. n : i - 1 \in G => i \in G
  PROVE  \A i \in 0 .. n : i \in G
<1> DEFINE g == [i \in 0 .. n |-> i]
<1>1. g[0] \in G /\ \A i \in 1 .. n : g[i - 1] \in G => g[i] \in G
  OBVIOUS
<1>2. \A i \in 0 .. n : g[i] \in G
  <2> HIDE DEF g
  <2> QED BY <1>1, Steps
<1>3. QED
  BY <1>2

(* The commands of a module m, each known by m and its place in m's list.   *)
CommandAt(x) == Factory[x[1]].commands[x[2]]
CommandsUpTo(m, k) == {<<m, j>> : j \in 1 .. k}
CommandsOf(m) == CommandsUpTo(m, Len(Factory[m].commands))

(* A registry has the commands D, each under its name and with its own      *)
(* module and visibility, and no others; they are valid, and no two have    *)
(* one name.                                                                *)
CommandsAre(r, D) ==
  /\ \A n \in DOMAIN r.commands : \E x \in D : n = CommandAt(x).name
  /\ \A x \in D :
       /\ CommandAt(x).name \in DOMAIN r.commands
       /\ r.commands[CommandAt(x).name] =
            [module |-> x[1], visibility |-> CommandAt(x).visibility]
       /\ validateCommand(CommandAt(x))
  /\ \A x, y \in D : CommandAt(x).name = CommandAt(y).name => x = y

(* There is a reason to refuse the commands D. *)
CommandFault(D) ==
  \/ \E x \in D : ~validateCommand(CommandAt(x))
  \/ \E x, y \in D : x # y /\ CommandAt(x).name = CommandAt(y).name

(* But for the commands, r is q. *)
SameButCommands(r, q) ==
  /\ r.modules = q.modules /\ r.crons = q.crons /\ r.hooks = q.hooks
  /\ r.seen = q.seen /\ (r.unknown <=> q.unknown)

(* A command is added, or refused for a fault. *)
LEMMA AddCommandStep ==
  ASSUME NEW r \in Registries, NEW D, CommandsAre(r, D), ~r.failed,
         NEW m, NEW j, <<m, j>> \notin D,
         NEW a, a = AddCommand(r, m, Factory[m].commands[j])
  PROVE  \/ a.failed /\ CommandFault(D \cup {<<m, j>>})
         \/ /\ ~a.failed /\ CommandsAre(a, D \cup {<<m, j>>})
            /\ SameButCommands(a, r)
<1> DEFINE c == Factory[m].commands[j]
           x0 == <<m, j>>
<1>1. CommandAt(x0) = c
  BY DEF CommandAt
<1>2. CASE ~validateCommand(c) \/ Taken(r.commands, c.name, m)
  <2>1. a.failed
    BY <1>2 DEF AddCommand, Refused, Registries
  <2>2. CommandFault(D \cup {x0})
    <3>1. CASE ~validateCommand(c)
      BY <1>1, <3>1 DEF CommandFault
    <3>2. CASE Taken(r.commands, c.name, m)
      <4>1. PICK y \in D : c.name = CommandAt(y).name
        BY <3>2 DEF Taken, TakenByAny, CommandsAre
      <4>2. y # x0 /\ y \in D \cup {x0} /\ x0 \in D \cup {x0}
        BY <4>1
      <4> HIDE DEF x0, c
      <4>3. QED
        BY <1>1, <4>1, <4>2 DEF CommandFault
    <3>3. QED
      BY <1>2, <3>1, <3>2
  <2>3. QED
    BY <2>1, <2>2
<1>3. CASE validateCommand(c) /\ ~Taken(r.commands, c.name, m)
  <2> DEFINE e == [module |-> m, visibility |-> c.visibility]
             new == Registered(r.commands, c.name, e)
  <2>1. a = [r EXCEPT !.commands = new]
    BY <1>3 DEF AddCommand
  <2>2. ~a.failed /\ SameButCommands(a, r) /\ a.commands = new
    BY <2>1 DEF Registries, SameButCommands
  <2>3. /\ DOMAIN new = DOMAIN r.commands \cup {c.name}
        /\ new[c.name] = e /\ c.name \notin DOMAIN r.commands
        /\ \A n \in DOMAIN r.commands : new[n] = r.commands[n]
    BY <1>3 DEF Registered, Taken, TakenByAny
  <2>4. e = [module |-> x0[1], visibility |-> CommandAt(x0).visibility]
    BY <1>1
  <2> HIDE DEF e, new, x0, c
  <2>5. CommandsAre(a, D \cup {x0})
    <3>1. \A n \in DOMAIN a.commands : \E x \in D \cup {x0} : n = CommandAt(x).name
      BY <1>1, <2>2, <2>3 DEF CommandsAre
    <3>2. \A x \in D : CommandAt(x).name \in DOMAIN r.commands
      BY DEF CommandsAre
    <3>3. ASSUME NEW x \in D \cup {x0}
          PROVE  /\ CommandAt(x).name \in DOMAIN a.commands
                 /\ a.commands[CommandAt(x).name] =
                      [module |-> x[1], visibility |-> CommandAt(x).visibility]
                 /\ validateCommand(CommandAt(x))
      <4>1. CASE x \in D
        BY <2>2, <2>3, <4>1 DEF CommandsAre
      <4>2. CASE x = x0
        BY <1>1, <1>3, <2>2, <2>3, <2>4, <4>2
      <4>3. QED
        BY <4>1, <4>2
    <3>4. ASSUME NEW x \in D \cup {x0}, NEW y \in D \cup {x0},
                 CommandAt(x).name = CommandAt(y).name
          PROVE  x = y
      BY <1>1, <2>3, <3>2, <3>4 DEF CommandsAre
    <3>5. QED
      BY <3>1, <3>3, <3>4 DEF CommandsAre
  <2>6. QED
    BY <2>2, <2>5 DEF x0
<1>4. QED
  BY <1>2, <1>3

(* The loop over a module's commands adds them all, or one of them or of    *)
(* those before has a fault.                                                *)
LEMMA AddCommandsAll ==
  ASSUME NEW r \in Registries, NEW D, CommandsAre(r, D), ~r.failed,
         NEW m \in DOMAIN Factory, \A j : <<m, j>> \notin D,
         NEW a, a = AddCommands(r, m, Factory[m].commands)
  PROVE  \/ a.failed /\ CommandFault(D \cup CommandsOf(m))
         \/ /\ ~a.failed /\ CommandsAre(a, D \cup CommandsOf(m))
            /\ SameButCommands(a, r)
<1> DEFINE s == Factory[m].commands
           n == Len(s)
<1>1. s \in Seq(ToSet(s)) /\ n \in Nat
  BY CatalogueAssumption
<1> HIDE DEF s
<1>2. PICK h \in [0 .. n -> Registries] :
        /\ h[0] = r
        /\ \A j \in 1 .. n : h[j] = AddCommand(h[j - 1], m, s[j])
        /\ a = h[n]
  BY <1>1, AddCommandsRuns DEF s
<1> HIDE DEF n
<1> DEFINE After(j) == D \cup CommandsUpTo(m, j)
           G == {j \in 0 .. n :
                   \/ h[j].failed /\ CommandFault(After(j))
                   \/ /\ ~h[j].failed /\ CommandsAre(h[j], After(j))
                      /\ SameButCommands(h[j], r)}
<1>3. 0 \in G
  <2>1. After(0) = D
    BY DEF CommandsUpTo
  <2> HIDE DEF After
  <2>2. QED
    BY <1>1, <1>2, <2>1 DEF SameButCommands
<1>4. ASSUME NEW j \in 1 .. n, j - 1 \in G
      PROVE  j \in G
  <2>1. After(j) = After(j - 1) \cup {<<m, j>>}
    BY <1>1 DEF CommandsUpTo
  <2>2. h[j - 1] \in Registries /\ h[j] = AddCommand(h[j - 1], m, s[j]) /\ j \in 0 .. n
    BY <1>1, <1>2
  <2>3. <<m, j>> \notin After(j - 1)
    BY <1>1 DEF CommandsUpTo
  <2> HIDE DEF After
  <2>4. CASE h[j - 1].failed /\ CommandFault(After(j - 1))
    <3>1. h[j].failed
      BY <2>2, <2>4 DEF AddCommand, Refused, Registries
    <3>2. CommandFault(After(j))
      BY <2>1, <2>4 DEF CommandFault
    <3>3. QED
      BY <2>2, <3>1, <3>2
  <2>5. CASE /\ ~h[j - 1].failed /\ CommandsAre(h[j - 1], After(j - 1))
             /\ SameButCommands(h[j - 1], r)
    <3>1. \/ h[j].failed /\ CommandFault(After(j))
          \/ /\ ~h[j].failed /\ CommandsAre(h[j], After(j))
             /\ SameButCommands(h[j], h[j - 1])
      <4>1. h[j] = AddCommand(h[j - 1], m, Factory[m].commands[j])
        BY <2>2 DEF s
      <4>2. \/ h[j].failed /\ CommandFault(After(j - 1) \cup {<<m, j>>})
            \/ /\ ~h[j].failed /\ CommandsAre(h[j], After(j - 1) \cup {<<m, j>>})
               /\ SameButCommands(h[j], h[j - 1])
        BY <2>2, <2>3, <2>5, <4>1, AddCommandStep
      <4>3. QED
        BY <2>1, <4>2
    <3>2. SameButCommands(h[j], h[j - 1]) => SameButCommands(h[j], r)
      BY <2>5 DEF SameButCommands
    <3>3. QED
      BY <2>2, <3>1, <3>2
  <2>6. QED
    BY <1>4, <2>4, <2>5
<1> HIDE DEF G
<1>5. n \in G
  <2>1. \A j \in 1 .. n : j - 1 \in G => j \in G
    BY <1>4
  <2>2. \A j \in 0 .. n : j \in G
    BY <1>1, <1>3, <2>1, AtEachIndex
  <2>3. QED
    BY <1>1, <2>2
<1>6. After(n) = D \cup CommandsOf(m)
  BY DEF CommandsOf, n, s
<1>7. QED
  BY <1>2, <1>5, <1>6 DEF G

(* The same of crons, each kept with its own module.                        *)
CronAt(x) == Factory[x[1]].crons[x[2]]
CronsUpTo(m, k) == {<<m, j>> : j \in 1 .. k}
CronsOf(m) == CronsUpTo(m, Len(Factory[m].crons))

CronsAre(r, D) ==
  /\ \A n \in DOMAIN r.crons : \E x \in D : n = CronAt(x).name
  /\ \A x \in D :
       /\ CronAt(x).name \in DOMAIN r.crons
       /\ r.crons[CronAt(x).name] =
            [module |-> x[1]]
       /\ validateCron(CronAt(x))
  /\ \A x, y \in D : CronAt(x).name = CronAt(y).name => x = y

CronFault(D) ==
  \/ \E x \in D : ~validateCron(CronAt(x))
  \/ \E x, y \in D : x # y /\ CronAt(x).name = CronAt(y).name

SameButCrons(r, q) ==
  /\ r.modules = q.modules /\ r.commands = q.commands /\ r.hooks = q.hooks
  /\ r.seen = q.seen /\ (r.unknown <=> q.unknown)

(* A cron is added, or refused for a fault. *)
LEMMA AddCronStep ==
  ASSUME NEW r \in Registries, NEW D, CronsAre(r, D), ~r.failed,
         NEW m, NEW j, <<m, j>> \notin D,
         NEW a, a = AddCron(r, m, Factory[m].crons[j])
  PROVE  \/ a.failed /\ CronFault(D \cup {<<m, j>>})
         \/ /\ ~a.failed /\ CronsAre(a, D \cup {<<m, j>>})
            /\ SameButCrons(a, r)
<1> DEFINE c == Factory[m].crons[j]
           x0 == <<m, j>>
<1>1. CronAt(x0) = c
  BY DEF CronAt
<1>2. CASE ~validateCron(c) \/ Taken(r.crons, c.name, m)
  <2>1. a.failed
    BY <1>2 DEF AddCron, Refused, Registries
  <2>2. CronFault(D \cup {x0})
    <3>1. CASE ~validateCron(c)
      BY <1>1, <3>1 DEF CronFault
    <3>2. CASE Taken(r.crons, c.name, m)
      <4>1. PICK y \in D : c.name = CronAt(y).name
        BY <3>2 DEF Taken, TakenByAny, CronsAre
      <4>2. y # x0 /\ y \in D \cup {x0} /\ x0 \in D \cup {x0}
        BY <4>1
      <4> HIDE DEF x0, c
      <4>3. QED
        BY <1>1, <4>1, <4>2 DEF CronFault
    <3>3. QED
      BY <1>2, <3>1, <3>2
  <2>3. QED
    BY <2>1, <2>2
<1>3. CASE validateCron(c) /\ ~Taken(r.crons, c.name, m)
  <2> DEFINE e == [module |-> m]
             new == Registered(r.crons, c.name, e)
  <2>1. a = [r EXCEPT !.crons = new]
    BY <1>3 DEF AddCron
  <2>2. ~a.failed /\ SameButCrons(a, r) /\ a.crons = new
    BY <2>1 DEF Registries, SameButCrons
  <2>3. /\ DOMAIN new = DOMAIN r.crons \cup {c.name}
        /\ new[c.name] = e /\ c.name \notin DOMAIN r.crons
        /\ \A n \in DOMAIN r.crons : new[n] = r.crons[n]
    BY <1>3 DEF Registered, Taken, TakenByAny
  <2>4. e = [module |-> x0[1]]
    BY <1>1
  <2> HIDE DEF e, new, x0, c
  <2>5. CronsAre(a, D \cup {x0})
    <3>1. \A n \in DOMAIN a.crons : \E x \in D \cup {x0} : n = CronAt(x).name
      BY <1>1, <2>2, <2>3 DEF CronsAre
    <3>2. \A x \in D : CronAt(x).name \in DOMAIN r.crons
      BY DEF CronsAre
    <3>3. ASSUME NEW x \in D \cup {x0}
          PROVE  /\ CronAt(x).name \in DOMAIN a.crons
                 /\ a.crons[CronAt(x).name] =
                      [module |-> x[1]]
                 /\ validateCron(CronAt(x))
      <4>1. CASE x \in D
        BY <2>2, <2>3, <4>1 DEF CronsAre
      <4>2. CASE x = x0
        BY <1>1, <1>3, <2>2, <2>3, <2>4, <4>2
      <4>3. QED
        BY <4>1, <4>2
    <3>4. ASSUME NEW x \in D \cup {x0}, NEW y \in D \cup {x0},
                 CronAt(x).name = CronAt(y).name
          PROVE  x = y
      BY <1>1, <2>3, <3>2, <3>4 DEF CronsAre
    <3>5. QED
      BY <3>1, <3>3, <3>4 DEF CronsAre
  <2>6. QED
    BY <2>2, <2>5 DEF x0
<1>4. QED
  BY <1>2, <1>3

(* So are all of a module. *)
LEMMA AddCronsAll ==
  ASSUME NEW r \in Registries, NEW D, CronsAre(r, D), ~r.failed,
         NEW m \in DOMAIN Factory, \A j : <<m, j>> \notin D,
         NEW a, a = AddCrons(r, m, Factory[m].crons)
  PROVE  \/ a.failed /\ CronFault(D \cup CronsOf(m))
         \/ /\ ~a.failed /\ CronsAre(a, D \cup CronsOf(m))
            /\ SameButCrons(a, r)
<1> DEFINE s == Factory[m].crons
           n == Len(s)
<1>1. s \in Seq(ToSet(s)) /\ n \in Nat
  BY CatalogueAssumption
<1> HIDE DEF s
<1>2. PICK h \in [0 .. n -> Registries] :
        /\ h[0] = r
        /\ \A j \in 1 .. n : h[j] = AddCron(h[j - 1], m, s[j])
        /\ a = h[n]
  BY <1>1, AddCronsRuns DEF s
<1> HIDE DEF n
<1> DEFINE After(j) == D \cup CronsUpTo(m, j)
           G == {j \in 0 .. n :
                   \/ h[j].failed /\ CronFault(After(j))
                   \/ /\ ~h[j].failed /\ CronsAre(h[j], After(j))
                      /\ SameButCrons(h[j], r)}
<1>3. 0 \in G
  <2>1. After(0) = D
    BY DEF CronsUpTo
  <2> HIDE DEF After
  <2>2. QED
    BY <1>1, <1>2, <2>1 DEF SameButCrons
<1>4. ASSUME NEW j \in 1 .. n, j - 1 \in G
      PROVE  j \in G
  <2>1. After(j) = After(j - 1) \cup {<<m, j>>}
    BY <1>1 DEF CronsUpTo
  <2>2. h[j - 1] \in Registries /\ h[j] = AddCron(h[j - 1], m, s[j]) /\ j \in 0 .. n
    BY <1>1, <1>2
  <2>3. <<m, j>> \notin After(j - 1)
    BY <1>1 DEF CronsUpTo
  <2> HIDE DEF After
  <2>4. CASE h[j - 1].failed /\ CronFault(After(j - 1))
    <3>1. h[j].failed
      BY <2>2, <2>4 DEF AddCron, Refused, Registries
    <3>2. CronFault(After(j))
      BY <2>1, <2>4 DEF CronFault
    <3>3. QED
      BY <2>2, <3>1, <3>2
  <2>5. CASE /\ ~h[j - 1].failed /\ CronsAre(h[j - 1], After(j - 1))
             /\ SameButCrons(h[j - 1], r)
    <3>1. \/ h[j].failed /\ CronFault(After(j))
          \/ /\ ~h[j].failed /\ CronsAre(h[j], After(j))
             /\ SameButCrons(h[j], h[j - 1])
      <4>1. h[j] = AddCron(h[j - 1], m, Factory[m].crons[j])
        BY <2>2 DEF s
      <4>2. \/ h[j].failed /\ CronFault(After(j - 1) \cup {<<m, j>>})
            \/ /\ ~h[j].failed /\ CronsAre(h[j], After(j - 1) \cup {<<m, j>>})
               /\ SameButCrons(h[j], h[j - 1])
        BY <2>2, <2>3, <2>5, <4>1, AddCronStep
      <4>3. QED
        BY <2>1, <4>2
    <3>2. SameButCrons(h[j], h[j - 1]) => SameButCrons(h[j], r)
      BY <2>5 DEF SameButCrons
    <3>3. QED
      BY <2>2, <3>1, <3>2
  <2>6. QED
    BY <1>4, <2>4, <2>5
<1> HIDE DEF G
<1>5. n \in G
  <2>1. \A j \in 1 .. n : j - 1 \in G => j \in G
    BY <1>4
  <2>2. \A j \in 0 .. n : j \in G
    BY <1>1, <1>3, <2>1, AtEachIndex
  <2>3. QED
    BY <1>1, <2>2
<1>6. After(n) = D \cup CronsOf(m)
  BY DEF CronsOf, n, s
<1>7. QED
  BY <1>2, <1>5, <1>6 DEF G

----------------------------------------------------------------------------
(* A module, and the list. *)

(* A fault found among a module's commands is not forgotten.                *)
LEMMA FailedStays ==
  ASSUME NEW r \in Registries, r.failed, NEW m \in DOMAIN Factory
  PROVE  AddCrons(r, m, Factory[m].crons).failed
<1> DEFINE s == Factory[m].crons
           n == Len(s)
<1>1. s \in Seq(ToSet(s)) /\ n \in Nat
  BY CatalogueAssumption
<1> HIDE DEF s
<1>2. PICK h \in [0 .. n -> Registries] :
        /\ h[0] = r
        /\ \A j \in 1 .. n : h[j] = AddCron(h[j - 1], m, s[j])
        /\ AddCrons(r, m, s) = h[n]
  BY <1>1, AddCronsRuns DEF s
<1> DEFINE G == {j \in 0 .. n : h[j].failed}
<1>3. ASSUME NEW j \in 1 .. n, j - 1 \in G
      PROVE  j \in G
  <2>1. h[j - 1] \in Registries /\ h[j - 1].failed /\ j \in 0 .. n
    BY <1>1, <1>3
  <2>2. h[j] = Refused(h[j - 1])
    BY <1>2, <2>1 DEF AddCron
  <2>3. h[j].failed
    BY <2>1, <2>2 DEF Refused, Registries
  <2>4. QED
    BY <2>1, <2>3
<1>4. 0 \in G
  BY <1>1, <1>2
<1> HIDE DEF G, n
<1>5. \A j \in 0 .. n : j \in G
  <2>1. \A j \in 1 .. n : j - 1 \in G => j \in G
    BY <1>3
  <2>2. QED
    BY <1>1, <1>4, <2>1, AtEachIndex
<1>6. h[n].failed
  BY <1>1, <1>5 DEF G
<1>7. QED
  BY <1>2, <1>6 DEF s

(* What a module's hook adds to the hooks. *)
LEMMA AppendedSet ==
  ASSUME NEW S, NEW s \in Seq(S), NEW m \in S
  PROVE  ToSet(Append(s, m)) = ToSet(s) \cup {m}
<1> DEFINE t == Append(s, m)
           n == Len(s)
<1>1. /\ n \in Nat /\ DOMAIN s = 1 .. n /\ DOMAIN t = 1 .. (n + 1)
      /\ t[n + 1] = m /\ \A i \in 1 .. n : t[i] = s[i]
  OBVIOUS
<1> HIDE DEF t, n
<1>2. ToSet(t) = {t[i] : i \in 1 .. (n + 1)} /\ ToSet(s) = {s[i] : i \in 1 .. n}
  BY <1>1 DEF ToSet
<1>3. \A i : i \in 1 .. (n + 1) <=> i \in 1 .. n \/ i = n + 1
  BY <1>1
<1>4. QED
  BY <1>1, <1>2, <1>3 DEF t

NameFits(m) == Factory[m].name \in {None, m}

(* What a module declares is added as a whole, or there is a fault in it,   *)
(* or between it and those before.                                          *)
LEMMA AddModuleStep ==
  ASSUME NEW r \in Registries, ~r.failed, NEW m \in DOMAIN Factory,
         NEW D, CommandsAre(r, D), \A j : <<m, j>> \notin D,
         NEW E, CronsAre(r, E), \A j : <<m, j>> \notin E,
         NEW a, a = AddModule(r, m)
  PROVE  \/ /\ a.failed
            /\ \/ ~NameFits(m) \/ CommandFault(D \cup CommandsOf(m))
               \/ CronFault(E \cup CronsOf(m))
         \/ /\ ~a.failed /\ NameFits(m)
            /\ CommandsAre(a, D \cup CommandsOf(m)) /\ CronsAre(a, E \cup CronsOf(m))
            /\ a.modules = Append(r.modules, m)
            /\ ToSet(a.hooks) = ToSet(r.hooks) \cup (IF Factory[m].hook THEN {m} ELSE {})
            /\ a.seen = r.seen /\ (a.unknown <=> r.unknown)
<1> DEFINE mod == Factory[m]
           hooked == [r EXCEPT !.hooks = IF mod.hook THEN Append(@, m) ELSE @]
           commanded == AddCommands(hooked, m, mod.commands)
           scheduled == AddCrons(commanded, m, mod.crons)
<1>1. mod.commands \in Seq(ToSet(mod.commands)) /\ mod.crons \in Seq(ToSet(mod.crons))
  BY CatalogueAssumption
<1>2. /\ hooked \in Registries /\ ~hooked.failed
      /\ hooked.commands = r.commands /\ hooked.crons = r.crons
      /\ hooked.modules = r.modules /\ hooked.seen = r.seen
      /\ (hooked.unknown <=> r.unknown)
      /\ ToSet(hooked.hooks) = ToSet(r.hooks) \cup (IF Factory[m].hook THEN {m} ELSE {})
  <2>1. /\ r.hooks \in Seq(DOMAIN Factory) /\ Append(r.hooks, m) \in Seq(DOMAIN Factory)
        /\ ToSet(Append(r.hooks, m)) = ToSet(r.hooks) \cup {m}
    BY AppendedSet DEF Registries
  <2>2. CASE mod.hook
    <3>1. hooked = [r EXCEPT !.hooks = Append(@, m)]
      BY <2>2
    <3> HIDE DEF hooked
    <3>2. QED
      BY <2>1, <2>2, <3>1 DEF Registries
  <2>3. CASE ~mod.hook
    <3>1. hooked = r
      BY <2>3 DEF Registries
    <3> HIDE DEF hooked
    <3>2. QED
      BY <2>3, <3>1
  <2>4. QED
    BY <2>2, <2>3
<1>3. a = IF mod.name \notin {None, m} THEN Refused(r)
          ELSE [scheduled EXCEPT !.modules = Append(@, m)]
  BY DEF AddModule
<1> HIDE DEF hooked, mod
<1>4. CommandsAre(hooked, D) /\ CronsAre(hooked, E)
  BY <1>2 DEF CommandsAre, CronsAre
<1>5. commanded \in Registries
  BY <1>1, <1>2, AddCommandsRuns DEF mod
<1>6. \/ commanded.failed /\ CommandFault(D \cup CommandsOf(m))
      \/ /\ ~commanded.failed /\ CommandsAre(commanded, D \cup CommandsOf(m))
         /\ SameButCommands(commanded, hooked)
  BY <1>2, <1>4, AddCommandsAll DEF mod
<1> HIDE DEF commanded
<1>7. scheduled \in Registries
  <2>1. mod.crons \in Seq(ToSet(Factory[m].crons))
    BY <1>1 DEF mod
  <2> HIDE DEF scheduled
  <2>2. PICK h \in [0 .. Len(mod.crons) -> Registries] :
          AddCrons(commanded, m, mod.crons) = h[Len(mod.crons)]
    BY <1>5, <2>1, AddCronsRuns
  <2>3. Len(mod.crons) \in Nat
    BY <2>1
  <2>4. QED
    BY <2>2, <2>3 DEF scheduled
<1>8. \/ /\ scheduled.failed
         /\ CommandFault(D \cup CommandsOf(m)) \/ CronFault(E \cup CronsOf(m))
      \/ /\ ~scheduled.failed
         /\ CommandsAre(commanded, D \cup CommandsOf(m))
         /\ CronsAre(scheduled, E \cup CronsOf(m))
         /\ SameButCommands(commanded, hooked) /\ SameButCrons(scheduled, commanded)
  <2>1. CASE commanded.failed /\ CommandFault(D \cup CommandsOf(m))
    BY <1>5, <2>1, FailedStays DEF mod
  <2>2. CASE /\ ~commanded.failed /\ CommandsAre(commanded, D \cup CommandsOf(m))
             /\ SameButCommands(commanded, hooked)
    <3>1. CronsAre(commanded, E)
      BY <1>4, <2>2 DEF CronsAre, SameButCommands
    <3>2. scheduled = AddCrons(commanded, m, Factory[m].crons)
      BY DEF mod
    <3> HIDE DEF scheduled
    <3>3. \/ scheduled.failed /\ CronFault(E \cup CronsOf(m))
          \/ /\ ~scheduled.failed /\ CronsAre(scheduled, E \cup CronsOf(m))
             /\ SameButCrons(scheduled, commanded)
      BY <1>5, <2>2, <3>1, <3>2, AddCronsAll
    <3>4. QED
      BY <2>2, <3>3
  <2>3. QED
    BY <1>6, <2>1, <2>2
<1> HIDE DEF scheduled
<1>9. CASE ~NameFits(m)
  <2>1. a = Refused(r)
    BY <1>3, <1>9 DEF NameFits, mod
  <2>2. a.failed
    BY <2>1 DEF Refused, Registries
  <2>3. QED
    BY <1>9, <2>2
<1>10. CASE NameFits(m)
  <2>1. a = [scheduled EXCEPT !.modules = Append(@, m)]
    BY <1>3, <1>10 DEF NameFits, mod
  <2>2. /\ a.failed <=> scheduled.failed
        /\ a.modules = Append(scheduled.modules, m)
        /\ a.commands = scheduled.commands /\ a.crons = scheduled.crons
        /\ a.hooks = scheduled.hooks /\ a.seen = scheduled.seen
        /\ (a.unknown <=> scheduled.unknown)
    BY <1>7, <2>1 DEF Registries
  <2>3. CASE scheduled.failed
    BY <1>8, <2>2, <2>3
  <2>4. CASE ~scheduled.failed
    <3>1. CommandsAre(a, D \cup CommandsOf(m)) /\ CronsAre(a, E \cup CronsOf(m))
      BY <1>8, <2>2, <2>4 DEF CommandsAre, CronsAre, SameButCrons
    <3>2. /\ a.modules = Append(r.modules, m) /\ a.seen = r.seen
          /\ (a.unknown <=> r.unknown) /\ a.hooks = hooked.hooks
      BY <1>2, <1>8, <2>2, <2>4 DEF SameButCommands, SameButCrons
    <3>3. QED
      BY <1>2, <1>10, <2>2, <2>4, <3>1, <3>2
  <2>5. QED
    BY <2>3, <2>4
<1>11. QED
  BY <1>9, <1>10

(* The modules among the first i names of a list, and what they declare.    *)
Known(list, i) == {list[x] : x \in 1 .. i} \cap DOMAIN Factory
CommandsIn(M) == UNION {CommandsOf(m) : m \in M}
CronsIn(M) == UNION {CronsOf(m) : m \in M}

(* A module's commands and crons are no other module's. *)
LEMMA InAll ==
  ASSUME NEW M, NEW m, m \notin M
  PROVE  /\ CommandsIn(M \cup {m}) = CommandsIn(M) \cup CommandsOf(m)
         /\ CronsIn(M \cup {m}) = CronsIn(M) \cup CronsOf(m)
         /\ \A j : <<m, j>> \notin CommandsIn(M) /\ <<m, j>> \notin CronsIn(M)
<1>1. \A q, j : <<m, j>> \in CommandsOf(q) \/ <<m, j>> \in CronsOf(q) => q = m
  BY DEF CommandsOf, CronsOf, CommandsUpTo, CronsUpTo
<1>2. QED
  BY <1>1 DEF CommandsIn, CronsIn

(* There is a fault in the first i names of a list, but for unknown ones.   *)
ListFault(list, i) ==
  \/ \E x, y \in 1 .. i : x # y /\ list[x] = list[y]
  \/ \E x \in 1 .. i : list[x] \notin ModuleName
  \/ \E m \in Known(list, i) : ~NameFits(m)
  \/ CommandFault(CommandsIn(Known(list, i)))
  \/ CronFault(CronsIn(Known(list, i)))

(* A registry has what the first i names of a list stand for.               *)
Built(r, list, i) ==
  /\ \A x, y \in 1 .. i : list[x] = list[y] => x = y
  /\ \A x \in 1 .. i : list[x] \in ModuleName
  /\ r.seen = {list[x] : x \in 1 .. i}
  /\ r.unknown <=> \E x \in 1 .. i : list[x] \notin DOMAIN Factory
  /\ ~r.unknown => Len(r.modules) = i /\ \A x \in 1 .. i : r.modules[x] = list[x]
  /\ \A m \in Known(list, i) : NameFits(m)
  /\ CommandsAre(r, CommandsIn(Known(list, i)))
  /\ CronsAre(r, CronsIn(Known(list, i)))
  /\ ToSet(r.hooks) = {m \in Known(list, i) : Factory[m].hook}

(* A fault stays one in a longer list. *)
LEMMA FaultStays ==
  ASSUME NEW list, NEW i \in Nat, NEW k \in Nat, i <= k, ListFault(list, i)
  PROVE  ListFault(list, k)
<1>1. \A x \in 1 .. i : x \in 1 .. k
  OBVIOUS
<1>2. Known(list, i) \subseteq Known(list, k)
  BY <1>1 DEF Known
<1>3. /\ CommandsIn(Known(list, i)) \subseteq CommandsIn(Known(list, k))
      /\ CronsIn(Known(list, i)) \subseteq CronsIn(Known(list, k))
  BY <1>2 DEF CommandsIn, CronsIn
<1>4. /\ \A D, F : D \subseteq F /\ CommandFault(D) => CommandFault(F)
      /\ \A D, F : D \subseteq F /\ CronFault(D) => CronFault(F)
  BY DEF CommandFault, CronFault
<1>5. QED
  BY <1>1, <1>2, <1>3, <1>4 DEF ListFault

(* The next name of the list is loaded, or there is a fault.                *)
LEMMA LoadModuleStep ==
  ASSUME NEW list, NEW i \in Nat \ {0},
         NEW r \in Registries, ~r.failed, Built(r, list, i - 1),
         NEW a, a = LoadModule(r, list[i])
  PROVE  \/ a.failed /\ ListFault(list, i)
         \/ ~a.failed /\ Built(a, list, i)
<1> DEFINE m == list[i]
           K == Known(list, i - 1)
<1>1. \A x : x \in 1 .. i <=> x \in 1 .. (i - 1) \/ x = i
  OBVIOUS
<1>2. i \notin 1 .. (i - 1)
  OBVIOUS
<1>3. {list[x] : x \in 1 .. i} = {list[x] : x \in 1 .. (i - 1)} \cup {m}
  BY <1>1
<1>4. CASE m \notin ModuleName \/ m \in r.seen
  <2>1. a = Refused(r)
    BY <1>4 DEF LoadModule
  <2>2. a.failed
    BY <2>1 DEF Refused, Registries
  <2>3. ListFault(list, i)
    <3>1. CASE m \notin ModuleName
      BY <1>1, <3>1 DEF ListFault
    <3>2. CASE m \in r.seen
      <4>1. PICK x \in 1 .. (i - 1) : list[x] = m
        BY <3>2 DEF Built
      <4>2. x \in 1 .. i /\ i \in 1 .. i /\ x # i
        BY <1>1, <1>2
      <4>3. QED
        BY <4>1, <4>2 DEF ListFault
    <3>3. QED
      BY <1>4, <3>1, <3>2
  <2>4. QED
    BY <2>2, <2>3
<1>5. CASE m \in ModuleName /\ m \notin r.seen
  <2>1. \A x, y \in 1 .. i : list[x] = list[y] => x = y
    BY <1>1, <1>5 DEF Built
  <2>2. \A x \in 1 .. i : list[x] \in ModuleName
    BY <1>1, <1>5 DEF Built
  <2>3. m \notin K
    BY <1>5 DEF Known, Built
  <2> DEFINE seen == [r EXCEPT !.seen = @ \cup {m}]
  <2>4. r.seen \cup {m} = {list[x] : x \in 1 .. i} /\ r.seen \cup {m} \in SUBSET ModuleName
    BY <1>3, <1>5 DEF Built, Registries
  <2>5. CASE m \notin DOMAIN Factory
    <3>1. a = [r EXCEPT !.seen = @ \cup {m}, !.unknown = TRUE]
      BY <1>5, <2>5 DEF LoadModule
    <3>2. Known(list, i) = K
      BY <1>3, <2>5 DEF Known
    <3>3. /\ ~a.failed /\ a.unknown /\ a.seen = r.seen \cup {m}
          /\ a.commands = r.commands /\ a.crons = r.crons /\ a.hooks = r.hooks
      BY <3>1 DEF Registries
    <3>4. CommandsAre(a, CommandsIn(K)) /\ CronsAre(a, CronsIn(K))
      BY <3>3 DEF Built, CommandsAre, CronsAre
    <3>5. \E x \in 1 .. i : list[x] \notin DOMAIN Factory
      BY <1>1, <2>5
    <3>6. /\ \A q \in K : NameFits(q)
          /\ ToSet(a.hooks) = {q \in K : Factory[q].hook}
      BY <3>3 DEF Built
    <3> HIDE DEF K, m
    <3>7. QED
      BY <2>1, <2>2, <2>4, <3>2, <3>3, <3>4, <3>5, <3>6 DEF Built
  <2>6. CASE m \in DOMAIN Factory
    <3>1. a = AddModule(seen, m)
      BY <1>5, <2>6 DEF LoadModule
    <3>2. /\ seen \in Registries /\ ~seen.failed /\ seen.seen = r.seen \cup {m}
          /\ seen.commands = r.commands /\ seen.crons = r.crons /\ seen.hooks = r.hooks
          /\ seen.modules = r.modules /\ (seen.unknown <=> r.unknown)
      BY <2>4 DEF Registries
    <3> HIDE DEF seen
    <3>3. Known(list, i) = K \cup {m}
      BY <1>3, <2>6 DEF Known
    <3>4. CommandsAre(seen, CommandsIn(K)) /\ CronsAre(seen, CronsIn(K))
      BY <3>2 DEF Built, CommandsAre, CronsAre
    <3>5. /\ CommandsIn(Known(list, i)) = CommandsIn(K) \cup CommandsOf(m)
          /\ CronsIn(Known(list, i)) = CronsIn(K) \cup CronsOf(m)
          /\ \A j : <<m, j>> \notin CommandsIn(K)
          /\ \A j : <<m, j>> \notin CronsIn(K)
      BY <2>3, <3>3, InAll
    <3> HIDE DEF K, m
    <3>6. \/ /\ a.failed
             /\ \/ ~NameFits(m) \/ CommandFault(CommandsIn(Known(list, i)))
                \/ CronFault(CronsIn(Known(list, i)))
          \/ /\ ~a.failed /\ NameFits(m)
             /\ CommandsAre(a, CommandsIn(Known(list, i)))
             /\ CronsAre(a, CronsIn(Known(list, i)))
             /\ a.modules = Append(seen.modules, m)
             /\ ToSet(a.hooks) = ToSet(seen.hooks) \cup (IF Factory[m].hook THEN {m} ELSE {})
             /\ a.seen = seen.seen /\ (a.unknown <=> seen.unknown)
      <4> DEFINE D == CommandsIn(K)
                 E == CronsIn(K)
      <4>1. /\ CommandsAre(seen, D) /\ \A j : <<m, j>> \notin D
            /\ CronsAre(seen, E) /\ \A j : <<m, j>> \notin E
        BY <3>4, <3>5
      <4> HIDE DEF D, E
      <4>2. \/ /\ a.failed
               /\ \/ ~NameFits(m) \/ CommandFault(D \cup CommandsOf(m))
                  \/ CronFault(E \cup CronsOf(m))
            \/ /\ ~a.failed /\ NameFits(m)
               /\ CommandsAre(a, D \cup CommandsOf(m)) /\ CronsAre(a, E \cup CronsOf(m))
               /\ a.modules = Append(seen.modules, m)
               /\ ToSet(a.hooks) = ToSet(seen.hooks) \cup (IF Factory[m].hook THEN {m} ELSE {})
               /\ a.seen = seen.seen /\ (a.unknown <=> seen.unknown)
        BY <2>6, <3>1, <3>2, <4>1, AddModuleStep
      <4>3. /\ CommandsIn(Known(list, i)) = D \cup CommandsOf(m)
            /\ CronsIn(Known(list, i)) = E \cup CronsOf(m)
        BY <3>5 DEF D, E
      <4>4. QED
        BY <4>2, <4>3
    <3>7. CASE a.failed
      BY <3>3, <3>6, <3>7 DEF ListFault
    <3>8. CASE ~a.failed
      <4>1. a.unknown <=> \E x \in 1 .. i : list[x] \notin DOMAIN Factory
        BY <1>1, <2>6, <3>2, <3>6, <3>8 DEF Built, m
      <4>2. ASSUME ~a.unknown
            PROVE  Len(a.modules) = i /\ \A x \in 1 .. i : a.modules[x] = list[x]
        <5>1. r.modules \in Seq(DOMAIN Factory) /\ a.modules = Append(r.modules, m)
          BY <3>2, <3>6, <3>8 DEF Registries
        <5>2. Len(r.modules) = i - 1 /\ \A x \in 1 .. (i - 1) : r.modules[x] = list[x]
          BY <3>2, <3>6, <3>8, <4>2 DEF Built
        <5>3. /\ Len(a.modules) = i /\ a.modules[i] = m
              /\ \A x \in 1 .. (i - 1) : a.modules[x] = r.modules[x]
          BY <5>1, <5>2, <2>6
        <5>4. QED
          BY <1>1, <5>2, <5>3 DEF m
      <4>3. \A q \in Known(list, i) : NameFits(q)
        BY <3>3, <3>6, <3>8 DEF Built, K
      <4>4. ToSet(a.hooks) = {q \in Known(list, i) : Factory[q].hook}
        <5>1. ToSet(r.hooks) = {q \in K : Factory[q].hook}
          BY DEF Built, K
        <5>2. ToSet(a.hooks) =
                {q \in K : Factory[q].hook} \cup (IF Factory[m].hook THEN {m} ELSE {})
          BY <3>2, <3>6, <3>8, <5>1
        <5>3. QED
          BY <3>3, <5>2
      <4>5. a.seen = {list[x] : x \in 1 .. i}
        BY <2>4, <3>2, <3>6, <3>8
      <4>6. QED
        BY <2>1, <2>2, <3>6, <3>8, <4>1, <4>2, <4>3, <4>4, <4>5 DEF Built
    <3>9. QED
      BY <3>7, <3>8
  <2>7. QED
    BY <2>5, <2>6
<1>6. QED
  BY <1>4, <1>5

(* The loop over the list loads it all, or there is a fault in it.          *)
LEMMA LoadModulesAll ==
  ASSUME NEW list, list \in Seq(ToSet(list)), NEW a, a = LoadModules(list)
  PROVE  \/ a.failed /\ ListFault(list, Len(list))
         \/ ~a.failed /\ Built(a, list, Len(list))
<1> DEFINE n == Len(list)
<1>1. n \in Nat
  OBVIOUS
<1>2. PICK h \in [0 .. n -> Registries] :
        /\ h[0] = NoRegistry
        /\ \A j \in 1 .. n : h[j] = LoadModule(h[j - 1], list[j])
        /\ a = h[n]
  BY LoadModulesRuns
<1> HIDE DEF n
<1> DEFINE G == {j \in 0 .. n : \/ h[j].failed /\ ListFault(list, j)
                                \/ ~h[j].failed /\ Built(h[j], list, j)}
<1>3. 0 \in G
  <2>1. Known(list, 0) = {} /\ CommandsIn({}) = {} /\ CronsIn({}) = {}
    BY DEF Known, CommandsIn, CronsIn
  <2>2. CommandsAre(NoRegistry, {}) /\ CronsAre(NoRegistry, {})
    BY DEF CommandsAre, CronsAre, NoRegistry
  <2>3. ToSet(<<>>) = {}
    BY DEF ToSet
  <2>4. /\ NoRegistry.seen = {} /\ ~NoRegistry.unknown /\ ~NoRegistry.failed
        /\ NoRegistry.modules = <<>> /\ NoRegistry.hooks = <<>>
    BY DEF NoRegistry
  <2>5. 1 .. 0 = {} /\ Len(<<>>) = 0
    OBVIOUS
  <2>6. Built(NoRegistry, list, 0)
    BY <2>1, <2>2, <2>3, <2>4, <2>5 DEF Built
  <2>7. QED
    BY <1>1, <1>2, <2>4, <2>6
<1>4. ASSUME NEW j \in 1 .. n, j - 1 \in G
      PROVE  j \in G
  <2>1. /\ h[j - 1] \in Registries /\ h[j] = LoadModule(h[j - 1], list[j])
        /\ j \in 0 .. n /\ j \in Nat \ {0} /\ j - 1 \in Nat /\ j - 1 <= j
    BY <1>1, <1>2
  <2>2. CASE h[j - 1].failed /\ ListFault(list, j - 1)
    <3>1. h[j].failed
      BY <2>1, <2>2 DEF LoadModule
    <3>2. ListFault(list, j)
      BY <2>1, <2>2, FaultStays
    <3>3. QED
      BY <2>1, <3>1, <3>2
  <2>3. CASE ~h[j - 1].failed /\ Built(h[j - 1], list, j - 1)
    <3>1. \/ h[j].failed /\ ListFault(list, j)
          \/ ~h[j].failed /\ Built(h[j], list, j)
      BY <2>1, <2>3, LoadModuleStep
    <3>2. QED
      BY <2>1, <3>1
  <2>4. QED
    BY <1>4, <2>2, <2>3
<1> HIDE DEF G
<1>5. n \in G
  <2>1. \A j \in 1 .. n : j - 1 \in G => j \in G
    BY <1>4
  <2>2. \A j \in 0 .. n : j \in G
    BY <1>1, <1>3, <2>1, AtEachIndex
  <2>3. QED
    BY <1>1, <2>2
<1>6. QED
  BY <1>2, <1>5 DEF G, n

(* A list with a fault is not faultless: the places of Faultless are those  *)
(* of the list, not of its modules.                                         *)
LEMMA FaultIsFault ==
  ASSUME NEW list, list \in Seq(ToSet(list)), ListFault(list, Len(list))
  PROVE  ~Faultless(list)
<1> DEFINE n == Len(list)
           At(field, x) == Factory[list[x[1]]][field][x[2]]
           Entries(field) ==
             UNION {{<<i, j>> : j \in DOMAIN Factory[list[i]][field]} : i \in DOMAIN list}
<1>1. n \in Nat /\ DOMAIN list = 1 .. n
  OBVIOUS
<1>2. Faultless(list) =>
        /\ IsInjective(list)
        /\ \A i \in DOMAIN list : list[i] \in ModuleName \cap DOMAIN Factory
        /\ \A i \in DOMAIN list : NameFits(list[i])
        /\ \A x \in Entries("commands") : validateCommand(At("commands", x))
        /\ \A x \in Entries("crons") : validateCron(At("crons", x))
        /\ \A x, y \in Entries("commands") :
             At("commands", x).name = At("commands", y).name => x = y
        /\ \A x, y \in Entries("crons") :
             At("crons", x).name = At("crons", y).name => x = y
  BY DEF Faultless, NameFits
<1>3. ASSUME NEW z \in CommandsIn(Known(list, n))
      PROVE  \E x \in Entries("commands") :
               At("commands", x) = CommandAt(z) /\ z = <<list[x[1]], x[2]>>
  <2>1. PICK m \in Known(list, n) :
          \E j \in 1 .. Len(Factory[m].commands) : z = <<m, j>>
    BY DEF CommandsIn, CommandsOf, CommandsUpTo
  <2>2. PICK j \in 1 .. Len(Factory[m].commands) : z = <<m, j>>
    BY <2>1
  <2>3. PICK i \in 1 .. n : list[i] = m
    BY <2>1 DEF Known
  <2>4. DOMAIN Factory[m].commands = 1 .. Len(Factory[m].commands)
    BY <2>1, CatalogueAssumption DEF Known
  <2>5. <<i, j>> \in Entries("commands")
    BY <1>1, <2>3, <2>4
  <2>6. At("commands", <<i, j>>) = CommandAt(z)
    BY <2>2, <2>3 DEF CommandAt
  <2>7. QED
    BY <2>2, <2>3, <2>5, <2>6
<1>4. ASSUME NEW z \in CronsIn(Known(list, n))
      PROVE  \E x \in Entries("crons") :
               At("crons", x) = CronAt(z) /\ z = <<list[x[1]], x[2]>>
  <2>1. PICK m \in Known(list, n) :
          \E j \in 1 .. Len(Factory[m].crons) : z = <<m, j>>
    BY DEF CronsIn, CronsOf, CronsUpTo
  <2>2. PICK j \in 1 .. Len(Factory[m].crons) : z = <<m, j>>
    BY <2>1
  <2>3. PICK i \in 1 .. n : list[i] = m
    BY <2>1 DEF Known
  <2>4. DOMAIN Factory[m].crons = 1 .. Len(Factory[m].crons)
    BY <2>1, CatalogueAssumption DEF Known
  <2>5. <<i, j>> \in Entries("crons")
    BY <1>1, <2>3, <2>4
  <2>6. At("crons", <<i, j>>) = CronAt(z)
    BY <2>2, <2>3 DEF CronAt
  <2>7. QED
    BY <2>2, <2>3, <2>5, <2>6
<1> HIDE DEF At, Entries
<1>5. CASE \E x, y \in 1 .. n : x # y /\ list[x] = list[y]
  BY <1>1, <1>2, <1>5 DEF IsInjective
<1>6. CASE \E x \in 1 .. n : list[x] \notin ModuleName
  BY <1>1, <1>2, <1>6
<1>7. CASE \E m \in Known(list, n) : ~NameFits(m)
  BY <1>1, <1>2, <1>7 DEF Known
<1>8. CASE CommandFault(CommandsIn(Known(list, n)))
  <2> SUFFICES ASSUME Faultless(list) PROVE FALSE
    OBVIOUS
  <2>1. ~ \E z \in CommandsIn(Known(list, n)) : ~validateCommand(CommandAt(z))
    BY <1>2, <1>3
  <2>2. PICK y, z \in CommandsIn(Known(list, n)) :
          y # z /\ CommandAt(y).name = CommandAt(z).name
    BY <1>8, <2>1 DEF CommandFault
  <2>3. PICK v \in Entries("commands") :
          At("commands", v) = CommandAt(y) /\ y = <<list[v[1]], v[2]>>
    BY <1>3
  <2>4. PICK w \in Entries("commands") :
          At("commands", w) = CommandAt(z) /\ z = <<list[w[1]], w[2]>>
    BY <1>3
  <2>5. v = w
    BY <1>2, <2>2, <2>3, <2>4
  <2>6. QED
    BY <2>2, <2>3, <2>4, <2>5
<1>9. CASE CronFault(CronsIn(Known(list, n)))
  <2> SUFFICES ASSUME Faultless(list) PROVE FALSE
    OBVIOUS
  <2>1. ~ \E z \in CronsIn(Known(list, n)) : ~validateCron(CronAt(z))
    BY <1>2, <1>4
  <2>2. PICK y, z \in CronsIn(Known(list, n)) :
          y # z /\ CronAt(y).name = CronAt(z).name
    BY <1>9, <2>1 DEF CronFault
  <2>3. PICK v \in Entries("crons") :
          At("crons", v) = CronAt(y) /\ y = <<list[v[1]], v[2]>>
    BY <1>4
  <2>4. PICK w \in Entries("crons") :
          At("crons", w) = CronAt(z) /\ z = <<list[w[1]], w[2]>>
    BY <1>4
  <2>5. v = w
    BY <1>2, <2>2, <2>3, <2>4
  <2>6. QED
    BY <2>2, <2>3, <2>4, <2>5
<1>10. QED
  BY <1>5, <1>6, <1>7, <1>8, <1>9 DEF ListFault

(* The converse: a list that was loaded whole has no fault.                 *)
LEMMA LoadedIsFaultless ==
  ASSUME NEW list, list \in Seq(ToSet(list)),
         NEW r, Built(r, list, Len(list)), ~r.unknown
  PROVE  Faultless(list)
<1> DEFINE n == Len(list)
           K == Known(list, n)
<1>1. n \in Nat /\ DOMAIN list = 1 .. n /\ list \in [DOMAIN list -> ToSet(list)]
  BY DEF ToSet
<1>2. \A i \in 1 .. n : list[i] \in ModuleName /\ list[i] \in DOMAIN Factory /\ NameFits(list[i])
  BY DEF Built, Known
<1>3. IsInjective(list)
  BY <1>1 DEF Built, IsInjective
<1>4. \A i \in 1 .. n :
        /\ DOMAIN Factory[list[i]]["commands"] = 1 .. Len(Factory[list[i]].commands)
        /\ DOMAIN Factory[list[i]]["crons"] = 1 .. Len(Factory[list[i]].crons)
  BY <1>2, CatalogueAssumption
<1> DEFINE Entries(field) ==
             UNION {{<<i, j>> : j \in DOMAIN Factory[list[i]][field]} : i \in DOMAIN list}
           At(field, x) == Factory[list[x[1]]][field][x[2]]
<1>5. ASSUME NEW x \in Entries("commands")
      PROVE  /\ x[1] \in 1 .. n /\ x = <<x[1], x[2]>>
             /\ <<list[x[1]], x[2]>> \in CommandsIn(K)
             /\ At("commands", x) = CommandAt(<<list[x[1]], x[2]>>)
  <2>1. PICK i \in 1 .. n : \E j \in DOMAIN Factory[list[i]]["commands"] : x = <<i, j>>
    BY <1>1
  <2>2. PICK j \in 1 .. Len(Factory[list[i]].commands) : x = <<i, j>>
    BY <1>4, <2>1
  <2>3. list[i] \in K
    BY <1>2 DEF Known
  <2>4. <<list[i], j>> \in CommandsIn(K)
    BY <2>3 DEF CommandsIn, CommandsOf, CommandsUpTo
  <2>5. QED
    BY <2>2, <2>4 DEF CommandAt
<1>6. ASSUME NEW x \in Entries("crons")
      PROVE  /\ x[1] \in 1 .. n /\ x = <<x[1], x[2]>>
             /\ <<list[x[1]], x[2]>> \in CronsIn(K)
             /\ At("crons", x) = CronAt(<<list[x[1]], x[2]>>)
  <2>1. PICK i \in 1 .. n : \E j \in DOMAIN Factory[list[i]]["crons"] : x = <<i, j>>
    BY <1>1
  <2>2. PICK j \in 1 .. Len(Factory[list[i]].crons) : x = <<i, j>>
    BY <1>4, <2>1
  <2>3. list[i] \in K
    BY <1>2 DEF Known
  <2>4. <<list[i], j>> \in CronsIn(K)
    BY <2>3 DEF CronsIn, CronsOf, CronsUpTo
  <2>5. QED
    BY <2>2, <2>4 DEF CronAt
<1>7. CommandsAre(r, CommandsIn(K)) /\ CronsAre(r, CronsIn(K))
  BY DEF Built
<1> HIDE DEF Entries, At, K
<1>8. /\ \A x \in Entries("commands") : validateCommand(At("commands", x))
      /\ \A x \in Entries("crons") : validateCron(At("crons", x))
  <2>1. \A z \in CommandsIn(K) : validateCommand(CommandAt(z))
    BY <1>7 DEF CommandsAre
  <2>2. \A z \in CronsIn(K) : validateCron(CronAt(z))
    BY <1>7 DEF CronsAre
  <2>3. ASSUME NEW x \in Entries("commands")
        PROVE  validateCommand(At("commands", x))
    BY <1>5, <2>1
  <2>4. ASSUME NEW x \in Entries("crons")
        PROVE  validateCron(At("crons", x))
    BY <1>6, <2>2
  <2>5. QED
    BY <2>3, <2>4
<1>9. ASSUME NEW x \in Entries("commands"), NEW y \in Entries("commands"),
             At("commands", x).name = At("commands", y).name
      PROVE  x = y
  <2>1. <<list[x[1]], x[2]>> = <<list[y[1]], y[2]>>
    <3> DEFINE p == <<list[x[1]], x[2]>>
               q == <<list[y[1]], y[2]>>
    <3>1. /\ p \in CommandsIn(K) /\ At("commands", x) = CommandAt(p)
          /\ q \in CommandsIn(K) /\ At("commands", y) = CommandAt(q)
      BY <1>5
    <3>2. \A u, v \in CommandsIn(K) : CommandAt(u).name = CommandAt(v).name => u = v
      BY <1>7 DEF CommandsAre
    <3> HIDE DEF p, q
    <3>3. p = q
      BY <1>9, <3>1, <3>2
    <3>4. QED
      BY <3>3 DEF p, q
  <2>2. x[1] = y[1] /\ x[2] = y[2]
    BY <1>1, <1>3, <1>5, <2>1 DEF IsInjective
  <2>3. QED
    BY <1>5, <2>2
<1>10. ASSUME NEW x \in Entries("crons"), NEW y \in Entries("crons"),
              At("crons", x).name = At("crons", y).name
       PROVE  x = y
  <2>1. <<list[x[1]], x[2]>> = <<list[y[1]], y[2]>>
    <3> DEFINE p == <<list[x[1]], x[2]>>
               q == <<list[y[1]], y[2]>>
    <3>1. /\ p \in CronsIn(K) /\ At("crons", x) = CronAt(p)
          /\ q \in CronsIn(K) /\ At("crons", y) = CronAt(q)
      BY <1>6
    <3>2. \A u, v \in CronsIn(K) : CronAt(u).name = CronAt(v).name => u = v
      BY <1>7 DEF CronsAre
    <3> HIDE DEF p, q
    <3>3. p = q
      BY <1>10, <3>1, <3>2
    <3>4. QED
      BY <3>3 DEF p, q
  <2>2. x[1] = y[1] /\ x[2] = y[2]
    BY <1>1, <1>3, <1>6, <2>1 DEF IsInjective
  <2>3. QED
    BY <1>6, <2>2
<1>11. \A field \in {"commands", "crons"} : \A x, y \in Entries(field) :
         At(field, x).name = At(field, y).name => x = y
  BY <1>9, <1>10
<1>12. QED
  BY <1>1, <1>2, <1>3, <1>8, <1>11 DEF Faultless, NameFits, Entries, At

(* Build refuses exactly the lists with a fault: it neither starts a        *)
(* process on less than the list says nor refuses a list without cause      *)
(* (registry.go).                                                           *)
THEOREM BuildRefusesFaults ==
  ASSUME NEW list, list \in Seq(ToSet(list))
  PROVE  ~Build(list).failed <=> Faultless(list)
<1> DEFINE a == LoadModules(list)
           n == Len(list)
<1>1. a \in Registries
  BY LoadModulesRuns
<1>2. \/ a.failed /\ ListFault(list, n)
      \/ ~a.failed /\ Built(a, list, n)
  BY LoadModulesAll
<1>3. Build(list) = IF a.unknown THEN Refused(a) ELSE a
  BY DEF Build
<1> HIDE DEF a
<1>4. CASE a.failed
  <2>1. Build(list).failed
    BY <1>1, <1>3, <1>4 DEF Refused, Registries
  <2>2. QED
    BY <1>2, <1>4, <2>1, FaultIsFault
<1>5. CASE ~a.failed /\ ~a.unknown
  BY <1>2, <1>3, <1>5, LoadedIsFaultless
<1>6. CASE ~a.failed /\ a.unknown
  <2>1. Build(list).failed
    BY <1>1, <1>3, <1>6 DEF Refused, Registries
  <2>2. PICK x \in 1 .. n : list[x] \notin DOMAIN Factory
    BY <1>2, <1>6 DEF Built
  <2>3. ~Faultless(list)
    BY <2>2 DEF Faultless
  <2>4. QED
    BY <2>1, <2>3
<1>7. QED
  BY <1>4, <1>5, <1>6

----------------------------------------------------------------------------
(* What a registry has, and what /help says of it. *)

(* What Build returns for a list it takes.                                  *)
LEMMA BuildIsBuilt ==
  ASSUME NEW list, list \in Seq(ToSet(list)), ~Build(list).failed,
         NEW a, a = Build(list)
  PROVE  a \in Registries /\ Built(a, list, Len(list)) /\ ~a.unknown
<1> DEFINE l == LoadModules(list)
<1>1. l \in Registries
  BY LoadModulesRuns
<1>2. a = IF l.unknown THEN Refused(l) ELSE l
  BY DEF Build
<1>3. l.failed \/ Built(l, list, Len(list))
  BY LoadModulesAll
<1> HIDE DEF l
<1>4. ~l.unknown
  BY <1>1, <1>2 DEF Refused, Registries
<1>5. QED
  BY <1>1, <1>2, <1>3, <1>4

(* A process serves what its modules declare, each command in its           *)
(* visibility and each cron as its own module's (registry.go).              *)
THEOREM BuildDeclares ==
  ASSUME NEW list, list \in Seq(ToSet(list)), ~Build(list).failed,
         NEW a, a = Build(list)
  PROVE  Declares(list, a)
<1> DEFINE n == Len(list)
           K == Known(list, n)
<1>1. a \in Registries /\ Built(a, list, n) /\ ~a.unknown
  BY BuildIsBuilt
<1>2. n \in Nat /\ DOMAIN list = 1 .. n /\ ToSet(list) = {list[i] : i \in 1 .. n}
  BY DEF ToSet
<1>3. K = ToSet(list) /\ ToSet(list) \subseteq DOMAIN Factory
  BY <1>1, <1>2 DEF Built, Known
<1>4. a.modules = list
  <2>1. /\ a.modules \in Seq(DOMAIN Factory) /\ Len(a.modules) = n
        /\ \A x \in 1 .. n : a.modules[x] = list[x]
    BY <1>1 DEF Built, Registries
  <2>2. QED
    BY <1>2, <2>1
<1>5. CommandsAre(a, CommandsIn(K)) /\ CronsAre(a, CronsIn(K))
  BY <1>1 DEF Built
<1>6. ToSet(a.hooks) = {m \in ToSet(list) : Factory[m].hook}
  BY <1>1, <1>3 DEF Built
<1> HIDE DEF K, n
<1>7. ASSUME NEW m \in ToSet(list), NEW c \in ToSet(Factory[m].commands)
      PROVE  /\ c.name \in DOMAIN a.commands
             /\ a.commands[c.name] = [module |-> m, visibility |-> c.visibility]
  <2>1. PICK j \in 1 .. Len(Factory[m].commands) : c = Factory[m].commands[j]
    BY <1>3, CatalogueAssumption DEF ToSet
  <2>2. <<m, j>> \in CommandsIn(K) /\ CommandAt(<<m, j>>) = c
    BY <1>3, <2>1 DEF CommandsIn, CommandsOf, CommandsUpTo, CommandAt
  <2>3. QED
    BY <1>5, <2>2 DEF CommandsAre
<1>8. ASSUME NEW m \in ToSet(list), NEW c \in ToSet(Factory[m].crons)
      PROVE  c.name \in DOMAIN a.crons /\ a.crons[c.name].module = m
  <2>1. PICK j \in 1 .. Len(Factory[m].crons) : c = Factory[m].crons[j]
    BY <1>3, CatalogueAssumption DEF ToSet
  <2>2. <<m, j>> \in CronsIn(K) /\ CronAt(<<m, j>>) = c
    BY <1>3, <2>1 DEF CronsIn, CronsOf, CronsUpTo, CronAt
  <2>3. c.name \in DOMAIN a.crons /\ a.crons[c.name] = [module |-> m]
    BY <1>5, <2>2 DEF CronsAre
  <2>4. QED
    BY <2>3
<1>9. ASSUME NEW x \in CommandsIn(K)
      PROVE  \E m \in ToSet(list) : CommandAt(x) \in ToSet(Factory[m].commands)
  <2>1. PICK m \in ToSet(list) : \E j \in 1 .. Len(Factory[m].commands) : x = <<m, j>>
    BY <1>3 DEF CommandsIn, CommandsOf, CommandsUpTo
  <2>2. PICK j \in 1 .. Len(Factory[m].commands) : x = <<m, j>>
    BY <2>1
  <2>3. CommandAt(x) \in ToSet(Factory[m].commands)
    BY <1>3, <2>2, CatalogueAssumption DEF CommandAt, ToSet
  <2>4. QED
    BY <2>3
<1>10. ASSUME NEW x \in CronsIn(K)
       PROVE  \E m \in ToSet(list) : CronAt(x) \in ToSet(Factory[m].crons)
  <2>1. PICK m \in ToSet(list) : \E j \in 1 .. Len(Factory[m].crons) : x = <<m, j>>
    BY <1>3 DEF CronsIn, CronsOf, CronsUpTo
  <2>2. PICK j \in 1 .. Len(Factory[m].crons) : x = <<m, j>>
    BY <2>1
  <2>3. CronAt(x) \in ToSet(Factory[m].crons)
    BY <1>3, <2>2, CatalogueAssumption DEF CronAt, ToSet
  <2>4. QED
    BY <2>3
<1>11. \A k \in DOMAIN a.commands :
         \E m \in ToSet(list) : \E c \in ToSet(Factory[m].commands) : c.name = k
  BY <1>5, <1>9 DEF CommandsAre
<1>12. \A k \in DOMAIN a.crons :
         \E m \in ToSet(list) : \E c \in ToSet(Factory[m].crons) : c.name = k
  BY <1>5, <1>10 DEF CronsAre
<1>13. QED
  <2>1. \A k \in DOMAIN a.commands :
          {m \in ToSet(list) : \E c \in ToSet(Factory[m]["commands"]) : c.name = k} # {}
    BY <1>11
  <2>2. \A k \in DOMAIN a.crons :
          {m \in ToSet(list) : \E c \in ToSet(Factory[m]["crons"]) : c.name = k} # {}
    BY <1>12
  <2>3. QED
    BY <1>4, <1>6, <1>7, <1>8, <2>1, <2>2 DEF Declares

(* /help finds the module that registered a command: no other of the list   *)
(* declares its name.                                                       *)
LEMMA OwnerIsOwner ==
  ASSUME NEW list, list \in Seq(ToSet(list)), NEW r, Declares(list, r),
         NEW n \in DOMAIN r.commands
  PROVE  ownerOf(r, n) = r.commands[n].module
<1> DEFINE I == {i \in 1 .. Len(list) :
                   \E c \in ToSet(Factory[list[i]].commands) : c.name = n}
<1>1. r.modules = list /\ Len(list) \in Nat
  BY DEF Declares
<1>2. \A i \in I : list[i] = r.commands[n].module
  <2> TAKE i \in I
  <2>1. list[i] \in ToSet(list)
    BY DEF ToSet
  <2>2. PICK c \in ToSet(Factory[list[i]].commands) : c.name = n
    OBVIOUS
  <2>3. r.commands[n] = [module |-> list[i], visibility |-> c.visibility]
    BY <2>1, <2>2 DEF Declares
  <2>4. QED
    BY <2>3
<1>3. I # {}
  <2>1. {m \in ToSet(list) : \E c \in ToSet(Factory[m]["commands"]) : c.name = n} # {}
    BY DEF Declares
  <2>2. PICK m \in ToSet(list) : \E c \in ToSet(Factory[m].commands) : c.name = n
    BY <2>1
  <2>3. PICK i \in 1 .. Len(list) : list[i] = m
    BY DEF ToSet
  <2>4. i \in I
    BY <2>2, <2>3
  <2>5. QED
    BY <2>4
<1>4. PICK least \in I : \A i \in I : least <= i
  <2>1. I \in SUBSET Nat
    OBVIOUS
  <2> HIDE DEF I
  <2>2. QED
    BY <1>3, <2>1, Least
<1>5. Min(I) \in I
  BY <1>4 DEF Min
<1>6. Min(I) # 0
  BY <1>5
<1>7. ownerOf(r, n) = list[Min(I)]
  BY <1>1, <1>3, <1>6 DEF ownerOf, SelectInSeq
<1> HIDE DEF I
<1>8. QED
  BY <1>2, <1>5, <1>7

(* The sections of /help that may be. *)
Sections == [module : DOMAIN Factory, public : SUBSET Command, protected : SUBSET Command]
Pages == Seq(Sections)

(* A module of the catalogue has a section that may be. *)
LEMMA SectionType ==
  ASSUME NEW r \in Registries, NEW m \in DOMAIN Factory
  PROVE  Section(r, m) \in Sections
<1>1. DOMAIN r.commands \in SUBSET Command
  BY DEF Registries
<1>2. Shown(r, m, "public") \in SUBSET Command /\ Shown(r, m, "protected") \in SUBSET Command
  BY <1>1 DEF Shown
<1>3. QED
  BY <1>2 DEF Section, Sections

(* The loop of RenderHelp goes through the modules in their order.          *)
LEMMA RenderHelpRuns ==
  ASSUME NEW r \in Registries
  PROVE  \E h \in [0 .. Len(r.modules) -> Pages] :
           /\ h[0] = <<>>
           /\ \A j \in 1 .. Len(r.modules) : h[j] = AddSection(r, h[j - 1], r.modules[j])
           /\ RenderHelp(r) = h[Len(r.modules)]
<1> DEFINE s == r.modules
           n == Len(s)
           F == [i \in 1 .. n |-> [x \in Pages |-> AddSection(r, x, s[i])]]
           Loop(g) == g = [S \in SUBSET (1 .. n) |->
                             IF S = {} THEN <<>> ELSE AddSection(r, g[S \ {Max(S)}], s[Max(S)])]
           g0 == CHOOSE g : Loop(g)
<1>1. /\ n \in Nat /\ DOMAIN s = 1 .. n
      /\ \A i \in 1 .. n : s[i] \in DOMAIN Factory
      /\ <<>> \in Pages
  BY DEF Registries, Pages
<1>2. RenderHelp(r) = g0[1 .. n]
  BY <1>1 DEF RenderHelp, FoldLeft, MapThenFoldSet
<1>3. \A m \in DOMAIN Factory : \A x \in Pages : AddSection(r, x, m) \in Pages
  <2> TAKE m \in DOMAIN Factory
  <2> TAKE x \in Pages
  <2>1. Section(r, m) \in Sections
    BY SectionType
  <2>2. Append(x, Section(r, m)) \in Pages
    BY <2>1 DEF Pages
  <2>3. QED
    BY <2>2 DEF AddSection
<1> HIDE DEF s
<1>4. /\ F \in [1 .. n -> [Pages -> Pages]]
      /\ \A i \in 1 .. n : \A x \in Pages : F[i][x] = AddSection(r, x, s[i])
  BY <1>1, <1>3
<1> HIDE DEF n, F
<1>5. \A S \in SUBSET (1 .. n) :
        S # {} => Max(S) \in 1 .. n /\ S \ {Max(S)} \in SUBSET (1 .. n)
  BY <1>1, Greatest
<1>6. PICK f \in [SUBSET (1 .. n) -> Pages] : IsFold(f, <<>>, n, F)
  BY <1>1, <1>4, FoldExists
<1>7. Loop(f)
  BY <1>4, <1>5, <1>6 DEF IsFold
<1>8. Loop(g0)
  <2> HIDE DEF Loop
  <2> QED BY <1>7
<1> HIDE DEF g0
<1>9. /\ g0[{}] = <<>>
      /\ \A S \in SUBSET (1 .. n) :
           S # {} => g0[S] = AddSection(r, g0[S \ {Max(S)}], s[Max(S)])
  BY <1>8
<1> HIDE DEF Loop
<1>10. PICK h \in [0 .. n -> Pages] : Rounds(h, <<>>, n, F) /\ h[n] = g0[1 .. n]
  <2>1. FoldsIn(g0, Pages, <<>>, n, F)
    BY <1>4, <1>5, <1>9 DEF FoldsIn
  <2>2. <<>> \in Pages /\ n \in Nat /\ F \in [1 .. n -> [Pages -> Pages]]
    BY <1>1, <1>4
  <2>3. QED
    BY <2>1, <2>2, FoldRuns
<1>11. \A j \in 1 .. n : h[j] = AddSection(r, h[j - 1], s[j])
  <2> TAKE j \in 1 .. n
  <2>1. j - 1 \in 0 .. n
    BY <1>1
  <2>2. QED
    BY <1>4, <1>10, <2>1 DEF Rounds
<1>12. QED
  BY <1>2, <1>10, <1>11 DEF n, s, Rounds

(* After j modules the page has a section for each of them that shows a     *)
(* command, and none else, in their order.                                  *)
PageUpTo(r, list, page, j) ==
  /\ \A a \in 1 .. Len(page) : \E k \in 1 .. j : page[a] = Section(r, list[k])
  /\ \A k \in 1 .. j :
       ~Omitted(Section(r, list[k])) => \E a \in 1 .. Len(page) : page[a] = Section(r, list[k])
  /\ \A a, b \in 1 .. Len(page) : \A k, l \in 1 .. j :
       a < b /\ page[a].module = list[k] /\ page[b].module = list[l] => k < l

(* The next module's section goes to the end.                               *)
LEMMA AddSectionStep ==
  ASSUME NEW r, NEW list, NEW j \in Nat \ {0},
         \A x, y \in 1 .. j : list[x] = list[y] => x = y,
         NEW S, NEW page \in Seq(S), \A m : Section(r, m).module = m,
         PageUpTo(r, list, page, j - 1),
         Section(r, list[j]) \in S,
         NEW next, next = AddSection(r, page, list[j])
  PROVE  PageUpTo(r, list, next, j)
<1> DEFINE new == Section(r, list[j])
<1>1. \A x : x \in 1 .. j <=> x \in 1 .. (j - 1) \/ x = j
  OBVIOUS
<1>2. /\ \A a \in 1 .. Len(page) : \E k \in 1 .. (j - 1) : page[a] = Section(r, list[k])
      /\ \A k \in 1 .. (j - 1) :
           ~Omitted(Section(r, list[k])) => \E a \in 1 .. Len(page) : page[a] = Section(r, list[k])
      /\ \A a, b \in 1 .. Len(page) : \A k, l \in 1 .. (j - 1) :
           a < b /\ page[a].module = list[k] /\ page[b].module = list[l] => k < l
  BY DEF PageUpTo
<1>3. \A a \in 1 .. Len(page) : \E k \in 1 .. (j - 1) : page[a].module = list[k]
  BY <1>2
<1>4. \A a \in 1 .. Len(page) : \A k \in 1 .. j :
        page[a].module = list[k] => k \in 1 .. (j - 1)
  BY <1>1, <1>3
<1>5. CASE Omitted(new)
  <2>1. next = page
    BY <1>5 DEF AddSection
  <2>2. QED
    BY <1>1, <1>2, <1>4, <1>5, <2>1 DEF PageUpTo
<1>6. CASE ~Omitted(new)
  <2> DEFINE n == Len(page)
  <2>1. next = Append(page, new)
    BY <1>6 DEF AddSection
  <2>2. /\ n \in Nat /\ Len(next) = n + 1 /\ next[n + 1] = new
        /\ \A a \in 1 .. n : next[a] = page[a]
    BY <2>1
  <2> HIDE DEF n
  <2>3. \A a : a \in 1 .. (n + 1) <=> a \in 1 .. n \/ a = n + 1
    BY <2>2
  <2>4. new.module = list[j]
    OBVIOUS
  <2>5. \A a \in 1 .. Len(next) : \E k \in 1 .. j : next[a] = Section(r, list[k])
    BY <1>1, <1>2, <2>2, <2>3 DEF n
  <2>6. \A k \in 1 .. j :
          ~Omitted(Section(r, list[k])) => \E a \in 1 .. Len(next) : next[a] = Section(r, list[k])
    BY <1>1, <1>2, <2>2, <2>3 DEF n
  <2>7. ASSUME NEW a \in 1 .. Len(next), NEW b \in 1 .. Len(next),
               NEW k \in 1 .. j, NEW l \in 1 .. j,
               a < b, next[a].module = list[k], next[b].module = list[l]
        PROVE  k < l
    <3>1. a \in 1 .. n
      BY <2>2, <2>7
    <3>2. k \in 1 .. (j - 1)
      BY <1>4, <2>2, <2>7, <3>1 DEF n
    <3>3. CASE b = n + 1
      <4>1. l = j
        BY <1>1, <2>2, <2>4, <2>7, <3>3
      <4>2. QED
        BY <3>2, <4>1
    <3>4. CASE b # n + 1
      <4>1. b \in 1 .. n
        BY <2>2, <3>4
      <4>2. l \in 1 .. (j - 1)
        BY <1>4, <2>2, <2>7, <4>1 DEF n
      <4>3. QED
        BY <1>2, <2>2, <2>7, <3>1, <3>2, <4>1, <4>2 DEF n
    <3>5. QED
      BY <3>3, <3>4
  <2>8. QED
    BY <2>5, <2>6, <2>7 DEF PageUpTo
<1>7. QED
  BY <1>5, <1>6
(* Each section shows the commands of its kind that its module registered.  *)
LEMMA ShownIsListed ==
  ASSUME NEW list, list \in Seq(ToSet(list)), NEW r \in Registries, Declares(list, r),
         NEW m, NEW v
  PROVE  Shown(r, m, v) = {n \in DOMAIN r.commands :
                             r.commands[n] = [module |-> m, visibility |-> v]}
<1>1. \A n \in DOMAIN r.commands :
        r.commands[n] \in [module : DOMAIN Factory, visibility : Visibility]
  BY DEF Registries
<1>2. \A n \in DOMAIN r.commands : ownerOf(r, n) = r.commands[n].module
  BY OwnerIsOwner
<1>3. \A n \in DOMAIN r.commands :
        r.commands[n] = [module |-> m, visibility |-> v]
          <=> r.commands[n].visibility = v /\ r.commands[n].module = m
  BY <1>1
<1>4. QED
  BY <1>2, <1>3 DEF Shown

(* What BuildDeclares proves of a registry makes its /help true.            *)
LEMMA HelpTrue ==
  ASSUME NEW list, list \in Seq(ToSet(list)), IsInjective(list),
         NEW r \in Registries, Declares(list, r)
  PROVE  HelpIsTrue(list, r)
<1> DEFINE n == Len(list)
           page == RenderHelp(r)
<1>1. /\ n \in Nat /\ DOMAIN list = 1 .. n
      /\ \A x, y \in 1 .. n : list[x] = list[y] => x = y
  BY DEF IsInjective
<1>2. r.modules = list
  BY DEF Declares
<1>3. \A i \in 1 .. n : list[i] \in DOMAIN Factory
  BY <1>2 DEF Registries
<1>4. PICK h \in [0 .. n -> Pages] :
        /\ h[0] = <<>>
        /\ \A j \in 1 .. n : h[j] = AddSection(r, h[j - 1], list[j])
        /\ page = h[n]
  BY <1>2, RenderHelpRuns
<1> HIDE DEF n
<1>5. PageUpTo(r, list, h[0], 0)
  BY <1>4 DEF PageUpTo
<1>6. ASSUME NEW j \in 1 .. n, PageUpTo(r, list, h[j - 1], j - 1)
      PROVE  PageUpTo(r, list, h[j], j)
  <2>1. j \in Nat \ {0} /\ j - 1 \in 0 .. n
    BY <1>1
  <2>2. h[j - 1] \in Seq(Sections)
    BY <1>4, <2>1 DEF Pages
  <2>3. \A x, y \in 1 .. j : list[x] = list[y] => x = y
    BY <1>1
  <2>4. \A m : Section(r, m).module = m
    BY DEF Section
  <2>5. Section(r, list[j]) \in Sections
    BY <1>3, SectionType
  <2>6. h[j] = AddSection(r, h[j - 1], list[j])
    BY <1>4
  <2>7. QED
    BY <1>6, <2>1, <2>2, <2>3, <2>4, <2>5, <2>6, AddSectionStep
<1>7. PageUpTo(r, list, page, n)
  <2> DEFINE G == {j \in 0 .. n : PageUpTo(r, list, h[j], j)}
  <2>1. 0 \in G
    BY <1>1, <1>5
  <2>2. \A i \in 1 .. n : i - 1 \in G => i \in G
    BY <1>1, <1>6
  <2> HIDE DEF G
  <2>3. n \in G
    BY <1>1, <2>1, <2>2, AtEachIndex
  <2>4. QED
    BY <1>4, <2>3 DEF G
<1>8. page \in Seq(Sections)
  BY <1>1, <1>4 DEF Pages
<1> HIDE DEF page
<1>9. DOMAIN page = 1 .. Len(page)
  BY <1>8
<1> DEFINE Place(s) == CHOOSE k \in DOMAIN list : list[k] = s.module
           Listed(m, v) == {x \in DOMAIN r.commands :
                              r.commands[x] = [module |-> m, visibility |-> v]}
<1>10. ASSUME NEW i \in DOMAIN page
       PROVE  \E k \in 1 .. n : page[i] = Section(r, list[k]) /\ Place(page[i]) = k
  <2>1. PICK k \in 1 .. n : page[i] = Section(r, list[k])
    BY <1>7, <1>9 DEF PageUpTo
  <2>2. page[i].module = list[k]
    BY <2>1 DEF Section
  <2>3. Place(page[i]) = k
    BY <1>1, <2>2
  <2>4. QED
    BY <2>1, <2>3
<1>11. \A i \in DOMAIN page :
         /\ page[i].public = Listed(page[i].module, "public")
         /\ page[i].protected = Listed(page[i].module, "protected")
  <2> TAKE i \in DOMAIN page
  <2>1. PICK k \in 1 .. n : page[i] = Section(r, list[k])
    BY <1>7, <1>9 DEF PageUpTo
  <2>2. \A v : Shown(r, list[k], v) = Listed(list[k], v)
    BY ShownIsListed
  <2>3. QED
    BY <2>1, <2>2 DEF Section
<1>12. ASSUME NEW i \in DOMAIN page, NEW j \in DOMAIN page, i < j
       PROVE  Place(page[i]) < Place(page[j])
  <2>1. PICK k \in 1 .. n : page[i] = Section(r, list[k]) /\ Place(page[i]) = k
    BY <1>10
  <2>2. PICK l \in 1 .. n : page[j] = Section(r, list[l]) /\ Place(page[j]) = l
    BY <1>10
  <2>3. page[i].module = list[k] /\ page[j].module = list[l]
    BY <2>1, <2>2 DEF Section
  <2>4. k < l
    BY <1>7, <1>9, <1>12, <2>3 DEF PageUpTo
  <2>5. QED
    BY <2>1, <2>2, <2>4
<1>13. ASSUME NEW x \in DOMAIN r.commands, r.commands[x].visibility # "private"
       PROVE  \E i \in DOMAIN page : page[i].module = r.commands[x].module
  <2> DEFINE m == r.commands[x].module
  <2>1. /\ r.commands[x] \in [module : DOMAIN Factory, visibility : Visibility]
        /\ r.commands[x].visibility \in {"public", "protected"}
    BY <1>13 DEF Registries, Visibility
  <2>2. m \in ToSet(list)
    <3>1. {y \in ToSet(list) : \E c \in ToSet(Factory[y]["commands"]) : c.name = x} # {}
      BY DEF Declares
    <3>2. PICK y \in ToSet(list) : \E c \in ToSet(Factory[y].commands) : c.name = x
      BY <3>1
    <3>3. PICK c \in ToSet(Factory[y].commands) : c.name = x
      BY <3>2
    <3>4. r.commands[x] = [module |-> y, visibility |-> c.visibility]
      BY <3>3 DEF Declares
    <3>5. QED
      BY <3>4
  <2>3. PICK k \in 1 .. n : list[k] = m
    BY <1>1, <2>2 DEF ToSet
  <2>4. x \in Shown(r, m, r.commands[x].visibility)
    BY OwnerIsOwner DEF Shown
  <2>5. ~Omitted(Section(r, list[k]))
    BY <2>1, <2>3, <2>4 DEF Omitted, Section
  <2>6. PICK i \in 1 .. Len(page) : page[i] = Section(r, list[k])
    BY <1>7, <2>5 DEF PageUpTo
  <2>7. page[i].module = m
    BY <2>3, <2>6 DEF Section
  <2>8. QED
    BY <1>9, <2>6, <2>7
<1>14. QED
  <2>1. \A i, j \in DOMAIN page : i < j => Place(page[i]) < Place(page[j])
    BY <1>12
  <2>2. \A x \in DOMAIN r.commands :
          r.commands[x].visibility = "private"
            \/ \E i \in DOMAIN page : page[i].module = r.commands[x].module
    BY <1>13
  <2>3. QED
    BY <1>11, <2>1, <2>2 DEF HelpIsTrue, page
(* A process starts with exactly what the modules it was told to load       *)
(* declare and a /help that tells of it, however often processes start, and *)
(* only from a faultless list; and Build refuses no faultless list.         *)
THEOREM StartsServeWhatIsDeclared == Spec => ServesWhatIsDeclared
<1>1. FaultlessIsBuilt
  BY ConstantsAssumption, BuildRefusesFaults DEF FaultlessIsBuilt
<1> DEFINE Act == ~up /\ up' =>
                    /\ Faultless(conf'.enabled)
                    /\ Declares(conf'.enabled, reg') /\ HelpIsTrue(conf'.enabled, reg')
<1>2. ASSUME NEW c \in Config, Boot(c)
      PROVE  Act
  <2>1. conf' = c /\ reg' = Build(c.enabled) /\ ~Build(c.enabled).failed
    BY <1>2 DEF Boot, Starts
  <2> DEFINE list == c.enabled
             a == Build(list)
  <2>2. list \in Seq(ToSet(list))
    BY ConstantsAssumption
  <2> HIDE DEF list
  <2>3. Faultless(list)
    BY <2>1, <2>2, BuildRefusesFaults DEF list
  <2>4. a \in Registries /\ Declares(list, a)
    BY <2>1, <2>2, BuildType, BuildDeclares DEF list
  <2>5. IsInjective(list)
    BY <2>3 DEF Faultless
  <2>6. HelpIsTrue(list, a)
    BY <2>2, <2>4, <2>5, HelpTrue
  <2>7. QED
    BY <2>1, <2>3, <2>4, <2>6 DEF list
<1>3. ~up /\ up' /\ [Next]_vars => \E c \in Config : Boot(c)
  <2>1. Exit => ~up'
    BY DEF Exit
  <2>2. ASSUME NEW w \in Worker, NEW r \in Request, Receive(w, r)
        PROVE  up' = up
    BY <2>2 DEF Receive, process
  <2>3. ASSUME NEW w \in Worker,
               \/ Ignore(w) \/ Dispatch(w) \/ StartHook(w)
               \/ RunHandler(w) \/ RunCron(w) \/ Answered(w)
        PROVE  up' = up
    BY <2>3 DEF Ignore, Dispatch, StartHook, RunHandler, RunCron, Answered, process
  <2>4. ASSUME NEW i \in Run, NEW kind \in Kind, GetUsage(i, kind) \/ PutUsage(i, kind)
        PROVE  up' = up
    BY <2>4 DEF GetUsage, PutUsage, process
  <2>5. UNCHANGED vars => up' = up
    BY DEF vars, process
  <2>6. QED
    BY <2>1, <2>2, <2>3, <2>4, <2>5 DEF Next
<1>4. [Next]_vars => Act
  BY <1>2, <1>3
<1>5. QED
  BY <1>1, <1>4, PTL DEF Spec, ServesWhatIsDeclared
----------------------------------------------------------------------------
(* What requests keep.  A request under way carries the secret of its       *)
(* route, which is not the empty one, in the process that let it in, and    *)
(* the command it waits to run is one its sender is entitled to.            *)
LetIn(r) ==
  /\ r.route \in Secret /\ r.header # None
  /\ r.header = resolveSSMSecrets(conf)[r.route]

RequestInv(w) ==
  /\ pc[w] # "idle" => up
  /\ ran[w] # "no" => pc[w] = "answered"
  /\ pc[w] \in {"webhook", "hook", "handler"} => req[w].route = "webhook"
  /\ pc[w] = "cron" => req[w].route = "cron"
  /\ pc[w] \in {"webhook", "cron", "hook", "handler"} \/ ran[w] # "no" =>
       req[w] \in Request /\ LetIn(req[w])
  /\ pc[w] = "hook" =>
       cmd[w] \in Command /\ \A h \in BOOLEAN :
         Entitled([cmd |-> cmd[w], from |-> req[w].from, hooked |-> h])

(* What AnswersAreTrue says of one worker. *)
AnswerIsTrue(w) ==
  pc[w] = "answered" =>
    /\ req[w].route = "cron" => (answer[w] = 200 <=> ran[w] = "done")
    /\ answer[w] = 500 => req[w].route = "cron" /\ ran[w] \in {"error", "panic"}
    /\ answer[w] \notin {200, 500} => ran[w] = "no"

PC == {"idle", "webhook", "cron", "hook", "handler", "answered"}
Status == {0, 200, 400, 401, 404, 405, 413, 500}

ServedInv ==
  /\ up \in BOOLEAN /\ conf \in Config \cup {NoConfig}
  /\ up => secrets = resolveSSMSecrets(conf) /\ HasRequired(secrets)
  /\ \A n \in DOMAIN reg.commands : n \in DeclaredAs(VisibilityOf(n))
  /\ pc \in [Worker -> PC]
  /\ req \in [Worker -> Request \cup {NoRequest}]
  /\ cmd \in [Worker -> Command \cup {None}]
  /\ ran \in [Worker -> Outcome \cup {"no"}]
  /\ answer \in [Worker -> Status]
  /\ \A w \in Worker : RequestInv(w) /\ AnswerIsTrue(w)

(* What hooks keep.                                                         *)
RunRecord == [cmd : Command, from : Sender \cup {None}, hooked : BOOLEAN]
Pending == {w \in Worker : pc[w] \in {"webhook", "cron", "hook"}}

(* A goroutine at work belongs to a run of a live process, of a kind that    *)
(* run calls for; there is room for every request that may still run.       *)
HooksInv ==
  /\ invoked \in Seq(RunRecord)
  /\ Len(invoked) + Cardinality(Pending) <= MaxRuns
  /\ \A i \in 1 .. Len(invoked) : Entitled(invoked[i])
  /\ task \in [Run -> [Kind -> [at : {"no", "get", "put"}, n : Nat]]]
  /\ usage \in [Key -> Nat]
  /\ disturbed \subseteq Key
  /\ \A i \in Run : \A kind \in Kind :
       /\ task[i][kind].at # "no" =>
            up /\ i \in 1 .. Len(invoked) /\ kind \in KindsFor(invoked[i])
       /\ task[i][kind].at # "put" => task[i][kind].n = 0

(* The runs an entry counts, and those whose goroutine is done with it.     *)
Counting(k) == {i \in 1 .. Len(invoked) : k \in KeysOf(invoked[i])}
Over(k) == {i \in Counting(k) : task[i][k[1]].at = "no"}

(* No more than those, in the store and in what a goroutine has read. *)
Counted(k) ==
  /\ usage[k] <= Cardinality(Over(k))
  /\ \A i \in Counting(k) : task[i][k[1]].n <= Cardinality(Over(k))

(* Just those, and one goroutine at work at most. *)
Exact(k) ==
  /\ usage[k] = Cardinality(Over(k))
  /\ \A i \in Counting(k) : task[i][k[1]].at = "put" => task[i][k[1]].n = usage[k]
  /\ \A i, j \in Counting(k) \ Over(k) : i = j

CountersInv == \A k \in Key : Counted(k) /\ (k \notin disturbed => Exact(k))

(* The inductive invariant: requests, hooks and entries. *)
DispatcherIInv == ServedInv /\ HooksInv /\ CountersInv

(* What a registry that Build returns says of a command, a module of the    *)
(* catalogue declares.                                                      *)
LEMMA VisibleAsDeclared ==
  ASSUME NEW list, list \in Seq(ToSet(list)), ~Build(list).failed,
         NEW n \in DOMAIN Build(list).commands
  PROVE  n \in DeclaredAs(Build(list).commands[n].visibility)
<1> DEFINE r == Build(list)
<1>1. r \in Registries /\ Declares(list, r)
  BY BuildType, BuildDeclares
<1> HIDE DEF r
<1>2. ToSet(list) \subseteq DOMAIN Factory
  <2>1. r.modules = list /\ r.modules \in Seq(DOMAIN Factory)
    BY <1>1 DEF Declares, Registries
  <2>2. QED
    BY <2>1 DEF ToSet
<1>3. {m \in ToSet(list) : \E c \in ToSet(Factory[m]["commands"]) : c.name = n} # {}
  BY <1>1 DEF Declares, r
<1>4. PICK m \in ToSet(list) : \E c \in ToSet(Factory[m].commands) : c.name = n
  BY <1>3
<1>5. PICK c \in ToSet(Factory[m].commands) : c.name = n
  BY <1>4
<1>6. r.commands[n] = [module |-> m, visibility |-> c.visibility]
  BY <1>1, <1>5 DEF Declares
<1>7. c \in UNION {ToSet(Factory[x].commands) : x \in DOMAIN Factory}
  BY <1>2, <1>5
<1>8. r.commands[n].visibility = c.visibility
  BY <1>6
<1>9. n \in {d.name : d \in {e \in UNION {ToSet(Factory[x].commands) : x \in DOMAIN Factory} :
                                e.visibility = c.visibility}}
  BY <1>5, <1>7
<1>10. QED
  BY <1>8, <1>9 DEF DeclaredAs, r

(* A command declared in some visibility is a command. *)
LEMMA DeclaredIsCommand ==
  ASSUME NEW v, NEW n \in DeclaredAs(v)
  PROVE  n \in Command
BY DEF DeclaredAs, Command

(* A step of one worker's request.                                          *)
LEMMA WorkerStep ==
  ASSUME ServedInv, UNCHANGED process,
         NEW w \in Worker, NEW p \in PC, NEW q \in Request \cup {NoRequest},
         NEW c \in Command \cup {None}, NEW o \in Outcome \cup {"no"}, NEW a \in Status,
         pc' = [pc EXCEPT ![w] = p], req' = [req EXCEPT ![w] = q],
         cmd' = [cmd EXCEPT ![w] = c], ran' = [ran EXCEPT ![w] = o],
         answer' = [answer EXCEPT ![w] = a],
         RequestInv(w)', AnswerIsTrue(w)'
  PROVE  ServedInv'
<1>1. /\ pc \in [Worker -> PC] /\ req \in [Worker -> Request \cup {NoRequest}]
      /\ cmd \in [Worker -> Command \cup {None}] /\ ran \in [Worker -> Outcome \cup {"no"}]
      /\ answer \in [Worker -> Status]
  BY DEF ServedInv
<1>2. /\ pc' \in [Worker -> PC] /\ req' \in [Worker -> Request \cup {NoRequest}]
      /\ cmd' \in [Worker -> Command \cup {None}] /\ ran' \in [Worker -> Outcome \cup {"no"}]
      /\ answer' \in [Worker -> Status]
  BY <1>1
<1>3. up' = up /\ conf' = conf /\ secrets' = secrets /\ reg' = reg
  BY DEF process
<1>4. ASSUME NEW v \in Worker, v # w
      PROVE  RequestInv(v)' /\ AnswerIsTrue(v)'
  <2>1. /\ pc'[v] = pc[v] /\ req'[v] = req[v] /\ cmd'[v] = cmd[v]
        /\ ran'[v] = ran[v] /\ answer'[v] = answer[v]
    BY <1>1, <1>4
  <2>2. RequestInv(v) /\ AnswerIsTrue(v)
    BY DEF ServedInv
  <2>3. RequestInv(v)'
    BY <1>3, <2>1, <2>2 DEF RequestInv, LetIn
  <2>4. AnswerIsTrue(v)'
    BY <2>1, <2>2 DEF AnswerIsTrue
  <2>5. QED
    BY <2>3, <2>4
<1>5. \A v \in Worker : RequestInv(v)' /\ AnswerIsTrue(v)'
  BY <1>4
<1>6. /\ up' \in BOOLEAN /\ conf' \in Config \cup {NoConfig}
      /\ up' => secrets' = resolveSSMSecrets(conf') /\ HasRequired(secrets')
      /\ \A n \in DOMAIN reg'.commands : n \in DeclaredAs(VisibilityOf(n)')
  BY <1>3 DEF ServedInv, VisibilityOf
<1>7. QED
  BY <1>2, <1>5, <1>6 DEF ServedInv

(* A request is let in only with the secret of its route.                   *)
LEMMA ReceiveServes ==
  ASSUME ServedInv, NEW w \in Worker, NEW r \in Request, Receive(w, r)
  PROVE  ServedInv'
<1> DEFINE p == IF Refusal(r) # 0 THEN "answered" ELSE r.route
           a == IF Refusal(r) # 0 THEN Refusal(r) ELSE answer[w]
<1>1. /\ pc \in [Worker -> PC] /\ req \in [Worker -> Request \cup {NoRequest}]
      /\ cmd \in [Worker -> Command \cup {None}] /\ ran \in [Worker -> Outcome \cup {"no"}]
      /\ answer \in [Worker -> Status]
      /\ secrets = resolveSSMSecrets(conf) /\ HasRequired(secrets)
      /\ RequestInv(w)
  BY DEF ServedInv, Receive
<1>2. /\ pc[w] = "idle" /\ up /\ UNCHANGED process /\ cmd' = cmd /\ ran' = ran
      /\ req' = [req EXCEPT ![w] = r]
  BY DEF Receive
<1>3. Refusal(r) \in {0, 400, 401, 404, 405, 413}
  BY DEF Refusal, WebhookRefusal, CronRefusal
<1>4. r.route \in {"webhook", "cron"}
  BY ConstantsAssumption
<1>5. pc' = [pc EXCEPT ![w] = p] /\ answer' = [answer EXCEPT ![w] = a]
  BY <1>1 DEF Receive, Answer, Goto
<1>6. p \in PC /\ a \in Status /\ cmd[w] \in Command \cup {None} /\ ran[w] \in Outcome \cup {"no"}
  BY <1>1, <1>3, <1>4 DEF PC, Status
<1>7. cmd' = [cmd EXCEPT ![w] = cmd[w]] /\ ran' = [ran EXCEPT ![w] = ran[w]]
  BY <1>1, <1>2
<1>8. ran[w] = "no"
  BY <1>1, <1>2 DEF RequestInv
<1>9. Refusal(r) = 0 => LetIn(r)
  <2>1. SUFFICES ASSUME Refusal(r) = 0 PROVE LetIn(r)
    OBVIOUS
  <2>2. secrets["webhook"] # None
    BY <1>1 DEF HasRequired, RequiresBoth
  <2>3. CASE r.route = "webhook"
    <3>1. r.header = secrets["webhook"]
      BY <2>1, <2>3 DEF Refusal, WebhookRefusal
    <3>2. QED
      BY <1>1, <2>2, <2>3, <3>1 DEF LetIn, Secret
  <2>4. CASE r.route = "cron"
    <3>1. r.header = secrets["cron"] /\ secrets["cron"] # None
      BY <2>1, <2>4 DEF Refusal, CronRefusal, cronDisabled, EmptyDisables
    <3>2. QED
      BY <1>1, <2>4, <3>1 DEF LetIn, Secret
  <2>5. QED
    BY <1>4, <2>3, <2>4
<1>10. /\ pc'[w] = p /\ req'[w] = r /\ ran'[w] = "no" /\ answer'[w] = a /\ up'
       /\ LetIn(r)' = LetIn(r)
  BY <1>1, <1>2, <1>5, <1>8 DEF process, LetIn
<1>11. RequestInv(w)'
  BY <1>4, <1>9, <1>10 DEF RequestInv
<1>12. AnswerIsTrue(w)'
  BY <1>3, <1>4, <1>10 DEF AnswerIsTrue
<1> HIDE DEF p, a
<1>13. QED
  BY <1>2, <1>5, <1>6, <1>7, <1>11, <1>12, WorkerStep

(* A worker that is done forgets its request. *)
LEMMA AnsweredServes ==
  ASSUME ServedInv, NEW w \in Worker, Answered(w)
  PROVE  ServedInv'
<1>1. /\ pc \in [Worker -> PC] /\ req \in [Worker -> Request \cup {NoRequest}]
      /\ cmd \in [Worker -> Command \cup {None}] /\ ran \in [Worker -> Outcome \cup {"no"}]
      /\ answer \in [Worker -> Status]
  BY DEF ServedInv
<1>2. /\ UNCHANGED process /\ pc' = [pc EXCEPT ![w] = "idle"]
      /\ req' = [req EXCEPT ![w] = NoRequest] /\ cmd' = [cmd EXCEPT ![w] = None]
      /\ ran' = [ran EXCEPT ![w] = "no"] /\ answer' = [answer EXCEPT ![w] = 0]
  BY DEF Answered, Goto
<1>3. "idle" \in PC /\ 0 \in Status
  BY DEF PC, Status
<1>4. pc'[w] = "idle" /\ ran'[w] = "no"
  BY <1>1, <1>2
<1>5. RequestInv(w)' /\ AnswerIsTrue(w)'
  BY <1>4 DEF RequestInv, AnswerIsTrue
<1>6. QED
  BY <1>2, <1>3, <1>5, WorkerStep

(* The cron's answer says how it came back. *)
LEMMA RunCronServes ==
  ASSUME ServedInv, NEW w \in Worker, RunCron(w)
  PROVE  ServedInv'
<1>1. /\ pc \in [Worker -> PC] /\ req \in [Worker -> Request \cup {NoRequest}]
      /\ cmd \in [Worker -> Command \cup {None}] /\ ran \in [Worker -> Outcome \cup {"no"}]
      /\ answer \in [Worker -> Status]
      /\ RequestInv(w)
  BY DEF ServedInv
<1>2. pc[w] = "cron" /\ UNCHANGED process /\ req' = req /\ cmd' = cmd
  BY DEF RunCron
<1>3. PICK o \in Outcome \cup {"no"} : \E a \in Status :
        /\ pc' = [pc EXCEPT ![w] = "answered"]
        /\ ran' = [ran EXCEPT ![w] = o] /\ answer' = [answer EXCEPT ![w] = a]
        /\ a = IF o = "no" THEN 404 ELSE CronStatus(o)
  <2>1. ran[w] = "no"
    BY <1>1, <1>2 DEF RequestInv
  <2>2. CASE req[w].name \in DOMAIN reg.crons
    <3>1. PICK o \in Outcome : ran' = [ran EXCEPT ![w] = o] /\ Answer(w, CronStatus(o))
      BY <2>2 DEF RunCron
    <3>2. CronStatus(o) \in Status /\ o # "no"
      BY DEF CronStatus, PanicIsError, Status, Outcome
    <3>3. QED
      BY <3>1, <3>2 DEF Answer, Goto
  <2>3. CASE req[w].name \notin DOMAIN reg.crons
    <3>1. Answer(w, 404) /\ ran' = ran
      BY <2>3 DEF RunCron
    <3>2. ran' = [ran EXCEPT ![w] = "no"] /\ 404 \in Status
      BY <1>1, <2>1, <3>1 DEF Status
    <3>3. QED
      BY <3>1, <3>2 DEF Answer, Goto
  <2>4. QED
    BY <2>2, <2>3
<1>4. PICK a \in Status :
        /\ pc' = [pc EXCEPT ![w] = "answered"]
        /\ ran' = [ran EXCEPT ![w] = o] /\ answer' = [answer EXCEPT ![w] = a]
        /\ a = IF o = "no" THEN 404 ELSE CronStatus(o)
  BY <1>3
<1>5. /\ pc'[w] = "answered" /\ req'[w] = req[w] /\ ran'[w] = o /\ answer'[w] = a
      /\ up' = up
  BY <1>1, <1>2, <1>4 DEF process
<1>6. req' = [req EXCEPT ![w] = req[w]] /\ cmd' = [cmd EXCEPT ![w] = cmd[w]]
  BY <1>1, <1>2
<1>7. /\ up /\ req[w].route = "cron" /\ req[w] \in Request /\ LetIn(req[w])
      /\ cmd[w] \in Command \cup {None} /\ req[w] \in Request \cup {NoRequest} /\ "answered" \in PC
  BY <1>1, <1>2 DEF RequestInv, PC
<1>8. LetIn(req[w])'
  BY <1>2, <1>7 DEF LetIn, process
<1>9. RequestInv(w)'
  BY <1>5, <1>7, <1>8 DEF RequestInv
<1>10. AnswerIsTrue(w)'
  BY <1>4, <1>5, <1>7 DEF AnswerIsTrue, CronStatus, PanicIsError, Outcome
<1>11. QED
  BY <1>2, <1>4, <1>6, <1>7, <1>9, <1>10, WorkerStep

(* Steps of an update that change one worker's pc, its command or answer.   *)
LEMMA UpdateServes ==
  ASSUME ServedInv, NEW w \in Worker,
         Ignore(w) \/ Dispatch(w) \/ StartHook(w) \/ RunHandler(w)
  PROVE  ServedInv'
<1>1. /\ pc \in [Worker -> PC] /\ req \in [Worker -> Request \cup {NoRequest}]
      /\ cmd \in [Worker -> Command \cup {None}] /\ ran \in [Worker -> Outcome \cup {"no"}]
      /\ answer \in [Worker -> Status]
      /\ RequestInv(w)
  BY DEF ServedInv
<1>2. /\ pc[w] \in {"webhook", "hook", "handler"} /\ UNCHANGED process /\ req' = req
  BY DEF Ignore, Dispatch, StartHook, RunHandler
<1>3. /\ up /\ ran[w] = "no" /\ req[w].route = "webhook"
      /\ req[w] \in Request /\ LetIn(req[w])
      /\ cmd[w] \in Command \cup {None} /\ answer[w] \in Status
  BY <1>1, <1>2 DEF RequestInv
<1>4. /\ req' = [req EXCEPT ![w] = req[w]] /\ req'[w] = req[w] /\ LetIn(req[w])' /\ up'
      /\ req[w] \in Request \cup {NoRequest}
  BY <1>1, <1>2, <1>3 DEF process, LetIn
<1>5. /\ cmd' = cmd => cmd' = [cmd EXCEPT ![w] = cmd[w]]
      /\ ran' = ran => ran' = [ran EXCEPT ![w] = ran[w]]
      /\ answer' = answer => answer' = [answer EXCEPT ![w] = answer[w]]
  BY <1>1
<1>6. CASE Ignore(w)
  <2>1. /\ pc' = [pc EXCEPT ![w] = "answered"] /\ answer' = [answer EXCEPT ![w] = 200]
        /\ cmd' = [cmd EXCEPT ![w] = cmd[w]] /\ ran' = [ran EXCEPT ![w] = "no"]
    BY <1>3, <1>5, <1>6 DEF Ignore, Answer, Goto
  <2>2. /\ pc'[w] = "answered" /\ ran'[w] = "no" /\ answer'[w] = 200
    BY <1>1, <2>1
  <2>3. RequestInv(w)' /\ AnswerIsTrue(w)'
    BY <1>3, <1>4, <2>2 DEF RequestInv, AnswerIsTrue
  <2>4. "answered" \in PC /\ 200 \in Status
    BY DEF PC, Status
  <2>5. QED
    BY <1>2, <1>3, <1>4, <2>1, <2>3, <2>4, WorkerStep
<1>7. CASE Dispatch(w)
  <2>1. PICK c \in Matching(w) :
          /\ Permits(VisibilityOf(c), req[w].from)
          /\ cmd' = [cmd EXCEPT ![w] = c]
    BY <1>7 DEF Dispatch
  <2>2. c \in DeclaredAs(VisibilityOf(c))
    BY <2>1 DEF ServedInv, Matching
  <2>3. c \in Command
    BY <2>2, DeclaredIsCommand
  <2>4. \A h \in BOOLEAN : Entitled([cmd |-> c, from |-> req[w].from, hooked |-> h])
    <3>1. VisibilityOf(c) = "public" => c \in Open
      BY <2>2 DEF Open
    <3>2. VisibilityOf(c) = "protected" => c \in Gated
      BY <2>2 DEF Gated
    <3>3. req[w].from \in Admin => req[w].from # None
      BY ConstantsAssumption
    <3>4. QED
      BY <2>1, <3>1, <3>2, <3>3 DEF Permits, PermitsByVisibility, Entitled
  <2>5. /\ pc' = [pc EXCEPT ![w] = "hook"] /\ answer' = [answer EXCEPT ![w] = answer[w]]
        /\ ran' = [ran EXCEPT ![w] = "no"]
    BY <1>3, <1>5, <1>7 DEF Dispatch, Goto
  <2>6. pc'[w] = "hook" /\ ran'[w] = "no" /\ cmd'[w] = c
    BY <1>1, <2>1, <2>5
  <2>7. RequestInv(w)' /\ AnswerIsTrue(w)'
    <3>1. (\A h \in BOOLEAN : Entitled([cmd |-> cmd[w], from |-> req[w].from, hooked |-> h]))'
      BY <1>4, <2>4, <2>6 DEF Entitled
    <3>2. QED
      BY <1>3, <1>4, <2>3, <2>6, <3>1 DEF RequestInv, AnswerIsTrue
  <2>8. "hook" \in PC /\ c \in Command \cup {None}
    BY <2>3 DEF PC
  <2>9. QED
    BY <1>2, <1>3, <1>4, <2>1, <2>5, <2>7, <2>8, WorkerStep
<1>8. CASE StartHook(w)
  <2>1. /\ pc' = [pc EXCEPT ![w] = "handler"] /\ answer' = [answer EXCEPT ![w] = answer[w]]
        /\ cmd' = [cmd EXCEPT ![w] = cmd[w]] /\ ran' = [ran EXCEPT ![w] = "no"]
    BY <1>3, <1>5, <1>8 DEF StartHook, Goto
  <2>2. pc'[w] = "handler" /\ ran'[w] = "no"
    BY <1>1, <2>1
  <2>3. RequestInv(w)' /\ AnswerIsTrue(w)'
    BY <1>3, <1>4, <2>2 DEF RequestInv, AnswerIsTrue
  <2>4. "handler" \in PC
    BY DEF PC
  <2>5. QED
    BY <1>2, <1>3, <1>4, <2>1, <2>3, <2>4, WorkerStep
<1>9. CASE RunHandler(w)
  <2>1. /\ pc' = [pc EXCEPT ![w] = "answered"] /\ answer' = [answer EXCEPT ![w] = 200]
        /\ cmd' = [cmd EXCEPT ![w] = cmd[w]] /\ ran' = [ran EXCEPT ![w] = "done"]
    BY <1>5, <1>9 DEF RunHandler, Answer, Goto
  <2>2. pc'[w] = "answered" /\ ran'[w] = "done" /\ answer'[w] = 200
    BY <1>1, <2>1
  <2>3. RequestInv(w)' /\ AnswerIsTrue(w)'
    BY <1>3, <1>4, <2>2 DEF RequestInv, AnswerIsTrue
  <2>4. "answered" \in PC /\ 200 \in Status /\ "done" \in Outcome
    BY DEF PC, Status, Outcome
  <2>5. QED
    BY <1>2, <1>3, <1>4, <2>1, <2>3, <2>4, WorkerStep
<1>10. QED
  BY <1>6, <1>7, <1>8, <1>9

(* The process begins with the registry of its list, and ends with none.    *)
LEMMA ProcessServes ==
  ASSUME ServedInv, Exit \/ \E c \in Config : Boot(c)
  PROVE  ServedInv'
<1>1. ASSUME NEW c \in Config, Boot(c)
      PROVE  ServedInv'
  <2>1. /\ ~up /\ up' = TRUE /\ conf' = c /\ secrets' = resolveSSMSecrets(c)
        /\ reg' = Build(c.enabled) /\ ~Build(c.enabled).failed
        /\ HasRequired(resolveSSMSecrets(c))
        /\ UNCHANGED <<pc, req, cmd, ran, answer>>
    BY <1>1 DEF Boot, Starts
  <2>2. c.enabled \in Seq(ToSet(c.enabled))
    BY ConstantsAssumption
  <2>3. \A n \in DOMAIN reg'.commands : n \in DeclaredAs(reg'.commands[n].visibility)
    BY <2>1, <2>2, VisibleAsDeclared
  <2>4. ASSUME NEW w \in Worker
        PROVE  RequestInv(w)' /\ AnswerIsTrue(w)'
    <3>1. pc'[w] = "idle" /\ ran'[w] = "no"
      BY <2>1 DEF ServedInv, RequestInv, Outcome
    <3>2. QED
      BY <3>1 DEF RequestInv, AnswerIsTrue
  <2>5. /\ pc' \in [Worker -> PC] /\ req' \in [Worker -> Request \cup {NoRequest}]
        /\ cmd' \in [Worker -> Command \cup {None}] /\ ran' \in [Worker -> Outcome \cup {"no"}]
        /\ answer' \in [Worker -> Status]
    BY <2>1 DEF ServedInv
  <2>6. QED
    BY <2>1, <2>3, <2>4, <2>5 DEF ServedInv, VisibilityOf
<1>2. ASSUME Exit
      PROVE  ServedInv'
  <2>1. /\ up' = FALSE /\ conf' = NoConfig /\ reg' = NoRegistry
        /\ pc' = [w \in Worker |-> "idle"] /\ req' = [w \in Worker |-> NoRequest]
        /\ cmd' = [w \in Worker |-> None] /\ ran' = [w \in Worker |-> "no"]
        /\ answer' = [w \in Worker |-> 0]
    BY <1>2 DEF Exit
  <2>2. \A n \in DOMAIN reg'.commands : n \in DeclaredAs(reg'.commands[n].visibility)
    BY <2>1 DEF NoRegistry
  <2>3. \A w \in Worker : RequestInv(w)' /\ AnswerIsTrue(w)'
    BY <2>1 DEF RequestInv, AnswerIsTrue
  <2>4. QED
    BY <2>1, <2>2, <2>3 DEF ServedInv, VisibilityOf, PC, Status
<1>3. QED
  BY <1>1, <1>2

(* Every step keeps what requests keep. *)
LEMMA ServedStep ==
  ASSUME ServedInv, [Next]_vars
  PROVE  ServedInv'
<1>1. ASSUME UNCHANGED <<process, pc, req, cmd, ran, answer>>
      PROVE  ServedInv'
  <2>1. /\ up' = up /\ conf' = conf /\ secrets' = secrets /\ reg' = reg /\ pc' = pc
        /\ req' = req /\ cmd' = cmd /\ ran' = ran /\ answer' = answer
    BY <1>1 DEF process
  <2>2. \A w \in Worker : RequestInv(w)' /\ AnswerIsTrue(w)'
    BY <2>1 DEF ServedInv, RequestInv, AnswerIsTrue, LetIn
  <2>3. QED
    BY <2>1, <2>2 DEF ServedInv, VisibilityOf
<1>2. ASSUME NEW i \in Run, NEW kind \in Kind, GetUsage(i, kind) \/ PutUsage(i, kind)
      PROVE  ServedInv'
  BY <1>1, <1>2 DEF GetUsage, PutUsage
<1>3. CASE UNCHANGED vars
  BY <1>1, <1>3 DEF vars
<1>4. QED
  BY <1>2, <1>3, ProcessServes, ReceiveServes, UpdateServes, RunCronServes, AnsweredServes DEF Next

(* No request is under way at first. *)
LEMMA ServedInit == Init => ServedInv
<1>1. SUFFICES ASSUME Init PROVE ServedInv
  OBVIOUS
<1>2. /\ up = FALSE /\ conf = NoConfig /\ reg = NoRegistry
      /\ pc = [w \in Worker |-> "idle"] /\ req = [w \in Worker |-> NoRequest]
      /\ cmd = [w \in Worker |-> None] /\ ran = [w \in Worker |-> "no"]
      /\ answer = [w \in Worker |-> 0]
  BY <1>1 DEF Init
<1>3. \A n \in DOMAIN reg.commands : n \in DeclaredAs(reg.commands[n].visibility)
  BY <1>2 DEF NoRegistry
<1>4. \A w \in Worker : RequestInv(w) /\ AnswerIsTrue(w)
  BY <1>2 DEF RequestInv, AnswerIsTrue
<1>5. QED
  BY <1>2, <1>3, <1>4 DEF ServedInv, VisibilityOf, PC, Status

(* No command and no cron runs but for a request that carries the secret of *)
(* its route, and that is not the empty one.                                *)
THEOREM NothingRunsWithoutItsSecret == Spec => []NothingRunsUnasked
<1>1. ServedInv => NothingRunsUnasked
  BY DEF ServedInv, RequestInv, LetIn, NothingRunsUnasked
<1>2. QED
  BY <1>1, ServedInit, ServedStep, PTL DEF Spec

(* Every answer tells what happened to its request. *)
THEOREM AnswersTellTheTruth == Spec => []AnswersAreTrue
<1>1. ServedInv => AnswersAreTrue
  BY DEF ServedInv, AnswerIsTrue, AnswersAreTrue
<1>2. QED
  BY <1>1, ServedInit, ServedStep, PTL DEF Spec

----------------------------------------------------------------------------
(* The hooks. *)

(* The entries that a run's goroutines write are keys, one for each.        *)
LEMMA KeyOfRun ==
  ASSUME NEW run \in RunRecord, NEW kind \in KindsFor(run)
  PROVE  /\ KeyOf(run, kind) \in Key /\ KeyOf(run, kind) \in KeysOf(run)
         /\ KeyOf(run, kind)[1] = kind
<1>1. /\ run.cmd \in Command /\ kind \in {"count", "user", "pair"}
      /\ kind # "count" => run.from \in Sender
  BY ConstantsAssumption DEF RunRecord, KindsFor, Kind
<1>2. KeyOf(run, kind) \in KeysOf(run)
  BY DEF KeysOf
<1>3. CASE kind = "count"
  BY <1>1, <1>2, <1>3 DEF KeyOf, Key
<1>4. CASE kind = "user"
  BY <1>1, <1>2, <1>4 DEF KeyOf, Key
<1>5. CASE kind = "pair"
  BY <1>1, <1>2, <1>5 DEF KeyOf, Key
<1>6. QED
  BY <1>1, <1>3, <1>4, <1>5

(* An entry of a run is its goroutine's of one kind. *)
LEMMA KeyOfOneKind ==
  ASSUME NEW run \in RunRecord, NEW k \in KeysOf(run)
  PROVE  k[1] \in KindsFor(run) /\ k = KeyOf(run, k[1])
<1>1. PICK kind \in KindsFor(run) : k = KeyOf(run, kind)
  BY DEF KeysOf
<1>2. k[1] = kind
  BY <1>1, KeyOfRun
<1>3. QED
  BY <1>1, <1>2

(* Steps that start no hook, and in which none works. *)
LEMMA HooksSame ==
  ASSUME HooksInv, UNCHANGED hooks, up => up',
         Len(invoked) + Cardinality(Pending') <= MaxRuns
  PROVE  HooksInv'
<1>1. invoked' = invoked /\ task' = task /\ usage' = usage /\ disturbed' = disturbed
  BY DEF hooks
<1>2. QED
  BY <1>1 DEF HooksInv

(* Workers are finitely many, those that wait for a hook too. *)
LEMMA PendingFinite ==
  ASSUME pc \in [Worker -> PC]
  PROVE  /\ IsFiniteSet(Pending) /\ IsFiniteSet({v \in Worker : pc[v] # "idle"})
         /\ Cardinality(Pending) \in Nat /\ Cardinality({v \in Worker : pc[v] # "idle"}) \in Nat
<1>1. Pending \subseteq Worker /\ {v \in Worker : pc[v] # "idle"} \subseteq Worker
  BY DEF Pending
<1>2. IsFiniteSet(Worker)
  BY ConstantsAssumption
<1>3. IsFiniteSet(Pending) /\ IsFiniteSet({v \in Worker : pc[v] # "idle"})
  BY <1>1, <1>2, FS_Subset
<1>4. QED
  BY <1>3, FS_CardinalityType

(* The runs stay within their bound. *)
LEMMA RunsFit ==
  ASSUME HooksInv, pc \in [Worker -> PC]
  PROVE  Len(invoked) \in Nat /\ Len(invoked) <= MaxRuns
<1>1. Cardinality(Pending) \in Nat
  BY PendingFinite
<1>2. QED
  BY <1>1, ConstantsAssumption DEF HooksInv

(* Goroutines work on entries that there are. *)
LEMMA InWorkKeys ==
  ASSUME HooksInv, pc \in [Worker -> PC]
  PROVE  InWork \subseteq Key
<1>1. ASSUME NEW i \in 1 .. Len(invoked), NEW kind \in Kind, task[i][kind].at # "no"
      PROVE  KeyOf(invoked[i], kind) \in Key
  <2>1. i \in Run
    BY RunsFit, ConstantsAssumption DEF Run
  <2>2. invoked[i] \in RunRecord /\ kind \in KindsFor(invoked[i])
    BY <1>1, <2>1 DEF HooksInv
  <2>3. QED
    BY <2>2, KeyOfRun
<1>2. QED
  BY <1>1 DEF InWork

(* A step of a request that does not come to wait for a hook.               *)
LEMMA HooksRest ==
  ASSUME ServedInv, HooksInv, UNCHANGED hooks, up => up', Pending' \subseteq Pending
  PROVE  HooksInv'
<1>1. IsFiniteSet(Pending) /\ Cardinality(Pending) \in Nat
  BY PendingFinite DEF ServedInv
<1>2. Cardinality(Pending') <= Cardinality(Pending) /\ Cardinality(Pending') \in Nat
  BY <1>1, FS_Subset, FS_CardinalityType
<1>3. Len(invoked) \in Nat /\ Len(invoked) + Cardinality(Pending) <= MaxRuns /\ MaxRuns \in Nat
  BY ConstantsAssumption DEF HooksInv
<1>4. QED
  BY <1>1, <1>2, <1>3, HooksSame

(* A request is let in only while there is room for one more run. *)
LEMMA ReceiveHooks ==
  ASSUME ServedInv, HooksInv, NEW w \in Worker, NEW r \in Request, Receive(w, r)
  PROVE  HooksInv'
<1> DEFINE A == {v \in Worker : pc[v] # "idle"}
<1>1. pc \in [Worker -> PC]
  BY DEF ServedInv
<1>2. IsFiniteSet(A) /\ Cardinality(A) \in Nat
  BY <1>1, PendingFinite
<1>3. /\ pc[w] = "idle" /\ up' = up /\ UNCHANGED hooks
      /\ Len(invoked) + Cardinality(A) < MaxRuns
      /\ \A v \in Worker : v # w => pc'[v] = pc[v]
  BY <1>1 DEF Receive, Answer, Goto, process
<1>4. Pending' \subseteq A \cup {w} /\ w \notin A
  BY <1>3 DEF Pending
<1> HIDE DEF A
<1>5. IsFiniteSet(A \cup {w}) /\ Cardinality(A \cup {w}) = Cardinality(A) + 1
  BY <1>2, <1>4, FS_AddElement
<1>6. Cardinality(Pending') <= Cardinality(A \cup {w}) /\ Cardinality(Pending') \in Nat
  BY <1>4, <1>5, FS_Subset, FS_CardinalityType
<1>7. Len(invoked) + Cardinality(Pending') <= MaxRuns
  BY <1>2, <1>3, <1>5, <1>6, ConstantsAssumption DEF HooksInv
<1>8. QED
  BY <1>3, <1>7, HooksSame

(* Steps of a request that start no hook. *)
LEMMA RequestHooks ==
  ASSUME ServedInv, HooksInv, NEW w \in Worker,
         Ignore(w) \/ Dispatch(w) \/ RunHandler(w) \/ RunCron(w) \/ Answered(w)
  PROVE  HooksInv'
<1>1. pc \in [Worker -> PC]
  BY DEF ServedInv
<1>2. up' = up /\ UNCHANGED hooks
  BY DEF Ignore, Dispatch, RunHandler, RunCron, Answered, process
<1>3. /\ \A v \in Worker : v # w => pc'[v] = pc[v]
      /\ pc'[w] \in {"webhook", "cron", "hook"} => pc[w] \in {"webhook", "cron", "hook"}
  BY <1>1 DEF Ignore, Dispatch, RunHandler, RunCron, Answered, Answer, Goto
<1>4. Pending' \subseteq Pending
  BY <1>3 DEF Pending
<1>5. QED
  BY <1>2, <1>4, HooksRest

(* The end of the process ends its goroutines.                              *)
LEMMA ExitHooks ==
  ASSUME ServedInv, HooksInv, Exit
  PROVE  HooksInv'
<1>1. /\ invoked' = invoked /\ usage' = usage
      /\ task' = [i \in Run |-> [kind \in Kind |-> NoTask]]
      /\ disturbed' = disturbed \cup InWork
      /\ pc' = [w \in Worker |-> "idle"]
  BY DEF Exit
<1>2. InWork \subseteq Key
  BY InWorkKeys DEF ServedInv
<1>3. Pending' = {}
  BY <1>1 DEF Pending
<1>4. Cardinality(Pending') = 0 /\ Len(invoked) \in Nat /\ Len(invoked) <= MaxRuns
  BY <1>3, RunsFit, FS_EmptySet DEF ServedInv
<1>5. task' \in [Run -> [Kind -> [at : {"no", "get", "put"}, n : Nat]]]
  BY <1>1 DEF NoTask
<1>6. \A i \in Run : \A kind \in Kind : task'[i][kind] = NoTask
  BY <1>1
<1>7. Len(invoked') + Cardinality(Pending') <= MaxRuns
  BY <1>1, <1>4, ConstantsAssumption
<1>8. disturbed' \subseteq Key
  BY <1>1, <1>2 DEF HooksInv
<1>9. \A i \in Run : \A kind \in Kind :
        /\ task'[i][kind].at = "no" /\ task'[i][kind].n = 0
  BY <1>6 DEF NoTask
<1>10. QED
  BY <1>1, <1>5, <1>7, <1>8, <1>9 DEF HooksInv

(* A run counted here is one its sender was entitled to.                    *)
LEMMA StartedRun ==
  ASSUME ServedInv, HooksInv, NEW w \in Worker, StartHook(w),
         NEW run, run = [cmd |-> cmd[w], from |-> req[w].from, hooked |-> reg.hooks # <<>>],
         NEW i, i = Len(invoked) + 1
  PROVE  /\ run \in RunRecord /\ Entitled(run) /\ up
         /\ i \in Run /\ i \in Nat \ {0}
         /\ invoked' = Append(invoked, run) /\ invoked' \in Seq(RunRecord) /\ Len(invoked') = i
         /\ \A j \in 1 .. Len(invoked) : invoked'[j] = invoked[j]
         /\ invoked'[i] = run
         /\ Len(invoked') + Cardinality(Pending') <= MaxRuns
         /\ \A j \in 1 .. i : j \in 1 .. Len(invoked) \/ j = i
<1>1. /\ pc[w] = "hook" /\ invoked' = Append(invoked, run)
      /\ pc' = [pc EXCEPT ![w] = "handler"]
  BY DEF StartHook, Goto
<1>2. RequestInv(w) /\ pc \in [Worker -> PC] /\ invoked \in Seq(RunRecord)
  BY DEF ServedInv, HooksInv
<1>3. /\ up /\ req[w] \in Request /\ req[w].route = "webhook" /\ cmd[w] \in Command
      /\ \A h \in BOOLEAN : Entitled([cmd |-> cmd[w], from |-> req[w].from, hooked |-> h])
  BY <1>1, <1>2 DEF RequestInv
<1>4. req[w].from \in Sender \cup {None}
  BY <1>3, ConstantsAssumption
<1>5. (reg.hooks # <<>>) \in BOOLEAN
  OBVIOUS
<1>6. run \in RunRecord /\ Entitled(run)
  <2> DEFINE h == reg.hooks # <<>>
  <2>1. run = [cmd |-> cmd[w], from |-> req[w].from, hooked |-> h] /\ h \in BOOLEAN
    OBVIOUS
  <2> HIDE DEF h
  <2>2. QED
    BY <1>3, <1>4, <2>1 DEF RunRecord
<1>7. /\ i \in Nat \ {0} /\ invoked' \in Seq(RunRecord) /\ Len(invoked') = i
      /\ \A j \in 1 .. Len(invoked) : invoked'[j] = invoked[j]
      /\ invoked'[i] = run
      /\ \A j \in 1 .. i : j \in 1 .. Len(invoked) \/ j = i
  BY <1>1, <1>2, <1>6
<1>8. IsFiniteSet(Pending) /\ Cardinality(Pending) \in Nat
  BY <1>2, PendingFinite
<1>9. Pending' = Pending \ {w} /\ w \in Pending
  BY <1>1, <1>2 DEF Pending
<1>10. Cardinality(Pending') = Cardinality(Pending) - 1 /\ Cardinality(Pending') \in Nat
  BY <1>8, <1>9, FS_RemoveElement, FS_CardinalityType
<1>11. Len(invoked') + Cardinality(Pending') <= MaxRuns
  BY <1>2, <1>7, <1>8, <1>10, ConstantsAssumption DEF HooksInv
<1>12. i \in Run
  BY <1>7, <1>10, <1>11, ConstantsAssumption DEF Run
<1>13. QED
  BY <1>1, <1>3, <1>6, <1>7, <1>11, <1>12

(* A hook starts the goroutines of its run and no others. *)
LEMMA StartHookHooks ==
  ASSUME ServedInv, HooksInv, NEW w \in Worker, StartHook(w)
  PROVE  HooksInv'
<1> DEFINE run == [cmd |-> cmd[w], from |-> req[w].from, hooked |-> reg.hooks # <<>>]
           i == Len(invoked) + 1
<1>1. /\ run \in RunRecord /\ Entitled(run) /\ up
      /\ i \in Run /\ i \in Nat \ {0}
      /\ invoked' \in Seq(RunRecord) /\ Len(invoked') = i
      /\ \A j \in 1 .. Len(invoked) : invoked'[j] = invoked[j]
      /\ invoked'[i] = run
      /\ Len(invoked') + Cardinality(Pending') <= MaxRuns
      /\ \A j \in 1 .. i : j \in 1 .. Len(invoked) \/ j = i
  BY StartedRun
<1>2. /\ task' = [task EXCEPT ![i] = [kind \in Kind |->
                    IF kind \in KindsFor(run) THEN [at |-> "get", n |-> 0] ELSE @[kind]]]
      /\ disturbed' = disturbed \cup (KeysOf(run) \cap InWork)
      /\ usage' = usage /\ up' = up
  BY DEF StartHook, process
<1> HIDE DEF run
<1>3. i \notin 1 .. Len(invoked)
  OBVIOUS
<1>4. /\ task \in [Run -> [Kind -> [at : {"no", "get", "put"}, n : Nat]]]
      /\ \A kind \in Kind : task[i][kind].at = "no" /\ task[i][kind].n = 0
  BY <1>1, <1>3 DEF HooksInv
<1> HIDE DEF i
<1>5. /\ \A j \in Run : j # i => task'[j] = task[j]
      /\ \A kind \in Kind :
           task'[i][kind] =
             IF kind \in KindsFor(run) THEN [at |-> "get", n |-> 0] ELSE task[i][kind]
  BY <1>1, <1>2, <1>4
<1>6. task' \in [Run -> [Kind -> [at : {"no", "get", "put"}, n : Nat]]]
  <2> DEFINE t == [kind \in Kind |->
                     IF kind \in KindsFor(run) THEN [at |-> "get", n |-> 0] ELSE task[i][kind]]
  <2>1. task[i] \in [Kind -> [at : {"no", "get", "put"}, n : Nat]]
    BY <1>1, <1>4
  <2>2. t \in [Kind -> [at : {"no", "get", "put"}, n : Nat]]
    BY <2>1
  <2>3. task' = [task EXCEPT ![i] = t]
    BY <1>2
  <2> HIDE DEF t
  <2>4. QED
    BY <1>4, <2>2, <2>3
<1>7. ASSUME NEW j \in Run, NEW kind \in Kind
      PROVE  /\ task'[j][kind].at # "no" =>
                  up' /\ j \in 1 .. Len(invoked') /\ kind \in KindsFor(invoked'[j])
             /\ task'[j][kind].at # "put" => task'[j][kind].n = 0
  <2>1. CASE j = i
    BY <1>1, <1>2, <1>4, <1>5, <2>1
  <2>2. CASE j # i
    <3>1. task'[j][kind] = task[j][kind]
      BY <1>5, <2>2
    <3>2. /\ task[j][kind].at # "no" =>
               up /\ j \in 1 .. Len(invoked) /\ kind \in KindsFor(invoked[j])
          /\ task[j][kind].at # "put" => task[j][kind].n = 0
      BY DEF HooksInv
    <3>3. j \in 1 .. Len(invoked) => j \in 1 .. Len(invoked')
      BY <1>1 DEF i
    <3>4. QED
      BY <1>1, <1>2, <3>1, <3>2, <3>3
  <2>3. QED
    BY <2>1, <2>2
<1>8. disturbed' \subseteq Key
  BY <1>2, InWorkKeys DEF HooksInv, ServedInv
<1>9. \A j \in 1 .. Len(invoked') : Entitled(invoked'[j])
  BY <1>1 DEF HooksInv
<1>10. QED
  BY <1>1, <1>2, <1>6, <1>7, <1>8, <1>9 DEF HooksInv

(* A step of one goroutine, with an entry of its own.                       *)
TaskStep(i, kind, t) ==
  /\ task' = [task EXCEPT ![i][kind] = t]
  /\ UNCHANGED <<process, pc, invoked>>

(* It keeps what hooks keep. *)
LEMMA TaskHooks ==
  ASSUME ServedInv, HooksInv, NEW i \in Run, NEW kind \in Kind, task[i][kind].at # "no",
         NEW t \in [at : {"no", "get", "put"}, n : Nat], t.at # "put" => t.n = 0,
         TaskStep(i, kind, t), usage' \in [Key -> Nat], disturbed' \subseteq Key
  PROVE  HooksInv'
<1>1. /\ task \in [Run -> [Kind -> [at : {"no", "get", "put"}, n : Nat]]]
      /\ task' = [task EXCEPT ![i][kind] = t]
      /\ up' = up /\ pc' = pc /\ invoked' = invoked
  BY DEF HooksInv, TaskStep, process
<1>2. task' \in [Run -> [Kind -> [at : {"no", "get", "put"}, n : Nat]]]
  BY <1>1
<1>3. ASSUME NEW j \in Run, NEW d \in Kind
      PROVE  /\ task'[j][d].at # "no" =>
                  up /\ j \in 1 .. Len(invoked) /\ d \in KindsFor(invoked[j])
             /\ task'[j][d].at # "put" => task'[j][d].n = 0
  <2>1. task'[j][d] = IF j = i /\ d = kind THEN t ELSE task[j][d]
    BY <1>1
  <2>2. QED
    BY <2>1 DEF HooksInv
<1>4. Pending' = Pending
  BY <1>1 DEF Pending
<1>5. QED
  BY <1>1, <1>2, <1>3, <1>4 DEF HooksInv

----------------------------------------------------------------------------
(* The entries. *)

(* The runs an entry counts, each with one goroutine of the entry's kind. *)
LEMMA OverFinite ==
  ASSUME HooksInv, pc \in [Worker -> PC], NEW k \in Key
  PROVE  /\ Counting(k) \subseteq 1 .. Len(invoked) /\ Counting(k) \subseteq Run
         /\ Over(k) \subseteq Counting(k)
         /\ IsFiniteSet(Counting(k)) /\ Cardinality(Counting(k)) \in Nat
         /\ Cardinality(Counting(k)) <= MaxRuns
         /\ IsFiniteSet(Over(k)) /\ Cardinality(Over(k)) \in Nat
         /\ Cardinality(Over(k)) <= MaxRuns
         /\ \A i \in Counting(k) :
              /\ invoked[i] \in RunRecord /\ k[1] \in KindsFor(invoked[i])
              /\ k[1] \in Kind /\ k = KeyOf(invoked[i], k[1])
<1>1. Len(invoked) \in Nat /\ Len(invoked) <= MaxRuns /\ MaxRuns \in Nat
  BY RunsFit, ConstantsAssumption
<1>2. /\ Counting(k) \subseteq 1 .. Len(invoked) /\ Counting(k) \subseteq Run
      /\ Over(k) \subseteq Counting(k)
  BY <1>1 DEF Counting, Over, Run
<1>3. /\ IsFiniteSet(1 .. Len(invoked)) /\ Cardinality(1 .. Len(invoked)) = Len(invoked)
  <2> DEFINE n == Len(invoked)
  <2>1. 0 \in Int /\ 1 \in Int /\ n \in Int /\ n \in Nat
    BY <1>1
  <2> HIDE DEF n
  <2>2. IsFiniteSet(1 .. n) /\ Cardinality(1 .. n) = IF 1 > n THEN 0 ELSE n - 1 + 1
    BY <2>1, FS_Interval
  <2>3. QED
    BY <2>1, <2>2 DEF n
<1>4. /\ IsFiniteSet(Counting(k)) /\ Cardinality(Counting(k)) <= Len(invoked)
  BY <1>2, <1>3, FS_Subset
<1>5. IsFiniteSet(Over(k)) /\ Cardinality(Over(k)) <= Cardinality(Counting(k))
  BY <1>2, <1>4, FS_Subset
<1>6. Cardinality(Counting(k)) \in Nat /\ Cardinality(Over(k)) \in Nat
  BY <1>4, <1>5, FS_CardinalityType
<1>7. ASSUME NEW i \in Counting(k)
      PROVE  /\ invoked[i] \in RunRecord /\ k[1] \in KindsFor(invoked[i])
             /\ k[1] \in Kind /\ k = KeyOf(invoked[i], k[1])
  <2>1. invoked[i] \in RunRecord /\ k \in KeysOf(invoked[i])
    BY <1>2 DEF HooksInv, Counting
  <2>2. k[1] \in KindsFor(invoked[i]) /\ k = KeyOf(invoked[i], k[1])
    BY <2>1, KeyOfOneKind
  <2>3. QED
    BY <2>1, <2>2 DEF KindsFor
<1>8. QED
  BY <1>1, <1>2, <1>4, <1>5, <1>6, <1>7

(* An entry is at rest when no goroutine works on it.                       *)
LEMMA RestIsOver ==
  ASSUME HooksInv, pc \in [Worker -> PC], NEW k \in Key, k \notin InWork
  PROVE  Over(k) = Counting(k)
<1>1. ASSUME NEW i \in Counting(k), task[i][k[1]].at # "no"
      PROVE  FALSE
  <2>1. i \in 1 .. Len(invoked) /\ k[1] \in Kind /\ k = KeyOf(invoked[i], k[1])
    BY OverFinite
  <2>2. k \in InWork
    BY <1>1, <2>1 DEF InWork
  <2>3. QED
    BY <2>2
<1>2. QED
  BY <1>1 DEF Over

(* What CountersInv says of one entry. *)
EntryInv(k) == Counted(k) /\ (k \notin disturbed => Exact(k))

(* A step that leaves an entry and its goroutines alone.                    *)
LEMMA EntrySame ==
  ASSUME NEW k \in Key, EntryInv(k), usage'[k] = usage[k], Counting(k)' = Counting(k),
         \A i \in Counting(k) : task'[i][k[1]] = task[i][k[1]], disturbed \subseteq disturbed'
  PROVE  EntryInv(k)'
<1>1. Over(k)' = Over(k)
  BY DEF Over
<1>2. Counted(k)'
  BY <1>1 DEF EntryInv, Counted
<1>3. k \notin disturbed' => Exact(k)'
  BY <1>1 DEF EntryInv, Exact
<1>4. QED
  BY <1>2, <1>3 DEF EntryInv

(* The end of the process ends the goroutines, and disturbs their entries. *)
LEMMA ExitCounts ==
  ASSUME ServedInv, HooksInv, Exit, NEW k \in Key, EntryInv(k)
  PROVE  EntryInv(k)'
<1>1. /\ invoked' = invoked /\ usage' = usage
      /\ task' = [i \in Run |-> [kind \in Kind |-> NoTask]]
      /\ disturbed' = disturbed \cup InWork /\ pc \in [Worker -> PC]
  BY DEF Exit, ServedInv
<1>2. /\ Counting(k) \subseteq Run /\ Over(k) \subseteq Counting(k)
      /\ IsFiniteSet(Counting(k)) /\ Cardinality(Counting(k)) \in Nat
      /\ Cardinality(Over(k)) \in Nat /\ \A i \in Counting(k) : k[1] \in Kind
  BY <1>1, OverFinite
<1>3. Counting(k)' = Counting(k)
  BY <1>1 DEF Counting
<1>4. \A i \in Counting(k) : task'[i][k[1]] = NoTask
  BY <1>1, <1>2
<1>5. Over(k)' = Counting(k)
  BY <1>3, <1>4 DEF Over, NoTask
<1>6. Cardinality(Over(k)) <= Cardinality(Counting(k))
  BY <1>2, FS_Subset
<1>7. usage[k] \in Nat
  BY DEF HooksInv
<1>8. Counted(k)'
  BY <1>1, <1>2, <1>3, <1>4, <1>5, <1>6, <1>7 DEF EntryInv, Counted, NoTask
<1>9. k \notin disturbed' => Exact(k)'
  <2>1. SUFFICES ASSUME k \notin disturbed, k \notin InWork PROVE Exact(k)'
    BY <1>1
  <2>2. Over(k) = Counting(k) /\ Exact(k)
    BY <1>1, <2>1, RestIsOver DEF EntryInv
  <2>3. QED
    BY <1>1, <1>3, <1>4, <1>5, <2>2 DEF Exact, NoTask
<1>10. QED
  BY <1>8, <1>9 DEF EntryInv

(* A run that starts is not over: its entries are as they were. *)
LEMMA StartHookCounts ==
  ASSUME ServedInv, HooksInv, NEW w \in Worker, StartHook(w), NEW k \in Key, EntryInv(k)
  PROVE  EntryInv(k)'
<1> DEFINE run == [cmd |-> cmd[w], from |-> req[w].from, hooked |-> reg.hooks # <<>>]
           i == Len(invoked) + 1
<1>1. /\ run \in RunRecord /\ i \in Run /\ i \in Nat \ {0}
      /\ Len(invoked') = i /\ invoked'[i] = run
      /\ \A j \in 1 .. Len(invoked) : invoked'[j] = invoked[j]
      /\ \A j \in 1 .. i : j \in 1 .. Len(invoked) \/ j = i
  BY StartedRun
<1>2. /\ task' = [task EXCEPT ![i] = [kind \in Kind |->
                    IF kind \in KindsFor(run) THEN [at |-> "get", n |-> 0] ELSE @[kind]]]
      /\ disturbed' = disturbed \cup (KeysOf(run) \cap InWork)
      /\ usage' = usage /\ pc \in [Worker -> PC]
  BY DEF StartHook, ServedInv
<1>3. /\ i \notin 1 .. Len(invoked) /\ Counting(k) \subseteq 1 .. Len(invoked)
      /\ Counting(k) \subseteq Run
      /\ \A j \in Counting(k) : j \in 1 .. i
      /\ Over(k) \subseteq Counting(k) /\ Cardinality(Over(k)) \in Nat
  BY <1>1, <1>2, OverFinite
<1> HIDE DEF run
<1>4. /\ \A j \in Run : j # i => task'[j] = task[j]
      /\ \A kind \in KindsFor(run) : kind \in Kind => task'[i][kind] = [at |-> "get", n |-> 0]
  BY <1>1, <1>2 DEF HooksInv
<1>5. \A j \in Counting(k) : j # i /\ task'[j][k[1]] = task[j][k[1]]
  BY <1>3, <1>4
<1>6. CASE k \notin KeysOf(run)
  <2>1. Counting(k)' = Counting(k)
    BY <1>1, <1>3, <1>6 DEF Counting
  <2>2. QED
    BY <1>2, <1>5, <2>1, EntrySame
<1>7. CASE k \in KeysOf(run)
  <2>1. Counting(k)' = Counting(k) \cup {i}
    BY <1>1, <1>3, <1>7 DEF Counting
  <2>2. k[1] \in KindsFor(run) /\ k[1] \in Kind
    BY <1>1, <1>7, KeyOfOneKind DEF KindsFor
  <2>3. task'[i][k[1]] = [at |-> "get", n |-> 0]
    BY <1>4, <2>2
  <2>4. Over(k)' = Over(k)
    BY <1>5, <2>1, <2>3 DEF Over
  <2>5. Counted(k)'
    BY <1>2, <1>3, <1>5, <2>1, <2>3, <2>4 DEF EntryInv, Counted
  <2>6. k \notin disturbed' => Exact(k)'
    <3>1. SUFFICES ASSUME k \notin disturbed, k \notin InWork PROVE Exact(k)'
      BY <1>2, <1>7
    <3>2. Over(k) = Counting(k) /\ Exact(k)
      BY <1>2, <3>1, RestIsOver DEF EntryInv
    <3>3. QED
      BY <1>2, <1>5, <2>1, <2>3, <2>4, <3>2 DEF Exact
  <2>7. QED
    BY <2>5, <2>6 DEF EntryInv
<1>8. QED
  BY <1>6, <1>7

(* The goroutine at work: whose entry its step may change.                  *)
LEMMA TaskKey ==
  ASSUME ServedInv, HooksInv, NEW i \in Run, NEW kind \in Kind, task[i][kind].at # "no",
         NEW kk, kk = KeyOf(invoked[i], kind)
  PROVE  kk \in Key /\ kk[1] = kind /\ i \in Counting(kk) /\ i \notin Over(kk)
<1>1. i \in 1 .. Len(invoked) /\ invoked[i] \in RunRecord /\ kind \in KindsFor(invoked[i])
  BY DEF HooksInv
<1>2. kk \in Key /\ kk[1] = kind /\ kk \in KeysOf(invoked[i])
  BY <1>1, KeyOfRun
<1>3. QED
  BY <1>1, <1>2 DEF Counting, Over

(* Entries of other goroutines. *)
LEMMA OtherCounts ==
  ASSUME ServedInv, HooksInv, NEW i \in Run, NEW kind \in Kind, task[i][kind].at # "no",
         NEW t, TaskStep(i, kind, t), NEW k \in Key, k # KeyOf(invoked[i], kind),
         usage'[k] = usage[k], disturbed \subseteq disturbed', EntryInv(k)
  PROVE  EntryInv(k)'
<1>1. /\ task \in [Run -> [Kind -> [at : {"no", "get", "put"}, n : Nat]]]
      /\ task' = [task EXCEPT ![i][kind] = t] /\ invoked' = invoked /\ pc \in [Worker -> PC]
  BY DEF HooksInv, TaskStep, ServedInv
<1>2. Counting(k)' = Counting(k)
  BY <1>1 DEF Counting
<1>3. ASSUME NEW j \in Counting(k)
      PROVE  task'[j][k[1]] = task[j][k[1]]
  <2>1. j \in Run /\ k[1] \in Kind /\ k = KeyOf(invoked[j], k[1])
    BY <1>1, OverFinite
  <2>2. ~(j = i /\ k[1] = kind)
    BY <2>1
  <2>3. QED
    BY <1>1, <2>1, <2>2
<1>4. QED
  BY <1>2, <1>3, EntrySame

(* The entry that a goroutine has read.                                     *)
LEMMA GotCounts ==
  ASSUME ServedInv, HooksInv, NEW i \in Run, NEW kind \in Kind, task[i][kind].at # "no",
         NEW k, k = KeyOf(invoked[i], kind),
         TaskStep(i, kind, [at |-> "put", n |-> usage[k]]),
         usage' = usage, disturbed \subseteq disturbed', EntryInv(k)
  PROVE  EntryInv(k)'
<1>1. /\ task \in [Run -> [Kind -> [at : {"no", "get", "put"}, n : Nat]]]
      /\ task' = [task EXCEPT ![i][kind] = [at |-> "put", n |-> usage[k]]]
      /\ invoked' = invoked /\ pc \in [Worker -> PC]
  BY DEF HooksInv, TaskStep, ServedInv
<1>2. k \in Key /\ k[1] = kind /\ i \in Counting(k) /\ i \notin Over(k)
  BY TaskKey
<1>3. Counting(k)' = Counting(k) /\ Counting(k) \subseteq Run
  BY <1>1, <1>2, OverFinite DEF Counting
<1>4. \A j \in Counting(k) :
        task'[j][k[1]] = IF j = i THEN [at |-> "put", n |-> usage[k]] ELSE task[j][k[1]]
  BY <1>1, <1>2, <1>3
<1>5. Over(k)' = Over(k)
  BY <1>2, <1>3, <1>4 DEF Over
<1>6. Counted(k)'
  BY <1>3, <1>4, <1>5 DEF EntryInv, Counted
<1>7. k \notin disturbed' => Exact(k)'
  BY <1>3, <1>4, <1>5 DEF EntryInv, Exact
<1>8. QED
  BY <1>6, <1>7 DEF EntryInv

(* The entry that a goroutine leaves, written or not.                       *)
LEMMA LeftCounts ==
  ASSUME ServedInv, HooksInv, NEW i \in Run, NEW kind \in Kind, task[i][kind].at # "no",
         NEW k, k = KeyOf(invoked[i], kind), TaskStep(i, kind, NoTask),
         usage'[k] \in {usage[k], task[i][kind].n + 1}, disturbed \subseteq disturbed',
         \/ k \in disturbed'
         \/ task[i][kind].at = "put" /\ usage'[k] = task[i][kind].n + 1,
         EntryInv(k)
  PROVE  EntryInv(k)'
<1>1. /\ task \in [Run -> [Kind -> [at : {"no", "get", "put"}, n : Nat]]]
      /\ task' = [task EXCEPT ![i][kind] = NoTask]
      /\ invoked' = invoked /\ pc \in [Worker -> PC] /\ usage \in [Key -> Nat]
  BY DEF HooksInv, TaskStep, ServedInv
<1>2. k \in Key /\ k[1] = kind /\ i \in Counting(k) /\ i \notin Over(k)
  BY TaskKey
<1>3. Counting(k)' = Counting(k)
  BY <1>1 DEF Counting
<1>4. /\ Counting(k) \subseteq Run /\ IsFiniteSet(Over(k)) /\ Cardinality(Over(k)) \in Nat
  BY <1>1, <1>2, OverFinite
<1>5. \A j \in Counting(k) :
        /\ task'[j][k[1]] = IF j = i THEN NoTask ELSE task[j][k[1]]
        /\ task[j][k[1]].n \in Nat
  BY <1>1, <1>2, <1>4
<1>6. Over(k)' = Over(k) \cup {i}
  BY <1>2, <1>3, <1>5 DEF Over, NoTask
<1>7. Cardinality(Over(k)') = Cardinality(Over(k)) + 1
  <2> DEFINE S == Over(k)
  <2>1. IsFiniteSet(S) /\ i \notin S
    BY <1>2, <1>4
  <2> HIDE DEF S
  <2>2. Cardinality(S \cup {i}) = Cardinality(S) + 1
    BY <2>1, FS_AddElement
  <2>3. QED
    BY <1>6, <2>2 DEF S
<1>8. Counted(k)'
  <2>1. usage[k] \in Nat /\ usage[k] <= Cardinality(Over(k))
    BY <1>1, <1>2 DEF EntryInv, Counted
  <2>2. \A j \in Counting(k) : task[j][k[1]].n <= Cardinality(Over(k))
    BY DEF EntryInv, Counted
  <2>3. usage'[k] <= Cardinality(Over(k)')
    BY <1>2, <1>4, <1>5, <1>7, <2>1, <2>2
  <2>4. \A j \in Counting(k) : task'[j][k[1]].n <= Cardinality(Over(k)')
    BY <1>4, <1>5, <1>7, <2>2 DEF NoTask
  <2>5. QED
    BY <1>3, <2>3, <2>4 DEF Counted
<1>9. ASSUME k \notin disturbed'
      PROVE  Exact(k)'
  <2>1. Exact(k) /\ task[i][kind].at = "put" /\ usage'[k] = task[i][kind].n + 1
    BY <1>9 DEF EntryInv
  <2>2. usage'[k] = Cardinality(Over(k)')
    BY <1>2, <1>7, <2>1 DEF Exact
  <2>3. \A j \in Counting(k) \ Over(k) : j = i
    BY <1>2, <2>1 DEF Exact
  <2>4. \A j \in Counting(k) : task'[j][k[1]].at = "no"
    BY <1>5, <2>3 DEF Over, NoTask
  <2>5. Counting(k)' \ Over(k)' = {}
    BY <1>2, <1>3, <1>6, <2>3
  <2>6. QED
    BY <1>3, <2>2, <2>4, <2>5 DEF Exact
<1>10. QED
  BY <1>8, <1>9 DEF EntryInv

(* A goroutine's Get or Put.                                                *)
LEMMA TaskCounts ==
  ASSUME ServedInv, HooksInv, CountersInv, NEW i \in Run, NEW kind \in Kind,
         GetUsage(i, kind) \/ PutUsage(i, kind)
  PROVE  HooksInv' /\ CountersInv'
<1> DEFINE k == KeyOf(invoked[i], kind)
<1>1. task[i][kind].at # "no" /\ UNCHANGED <<process, pc, invoked>>
  BY DEF GetUsage, PutUsage
<1>2. k \in Key
  BY <1>1, TaskKey
<1>3. usage \in [Key -> Nat] /\ disturbed \subseteq Key /\ task[i][kind].n \in Nat
  BY DEF HooksInv
<1>4. PICK t \in [at : {"no", "get", "put"}, n : Nat] :
        /\ TaskStep(i, kind, t) /\ (t.at # "put" => t.n = 0)
        /\ disturbed' \in {disturbed, disturbed \cup {k}}
        /\ usage' \in {usage, [usage EXCEPT ![k] = task[i][kind].n + 1]}
        /\ \/ t = [at |-> "put", n |-> usage[k]] /\ usage' = usage
           \/ /\ t = NoTask
              /\ \/ k \in disturbed'
                 \/ task[i][kind].at = "put" /\ usage'[k] = task[i][kind].n + 1
  <2>1. CASE GetUsage(i, kind)
    <3>1. CASE SetTask(i, kind, [at |-> "put", n |-> usage[k]]) /\ disturbed' = disturbed
      <4>1. usage' = usage
        BY <2>1 DEF GetUsage
      <4>2. [at |-> "put", n |-> usage[k]] \in [at : {"no", "get", "put"}, n : Nat]
        BY <1>2, <1>3
      <4>3. TaskStep(i, kind, [at |-> "put", n |-> usage[k]])
        BY <1>1, <3>1 DEF SetTask, TaskStep
      <4>4. QED
        BY <3>1, <4>1, <4>2, <4>3
    <3>2. CASE SetTask(i, kind, NoTask) /\ Disturb(i, kind)
      <4>1. usage' = usage /\ NoTask \in [at : {"no", "get", "put"}, n : Nat] /\ NoTask.n = 0
        BY <2>1 DEF GetUsage, NoTask
      <4>2. TaskStep(i, kind, NoTask) /\ disturbed' = disturbed \cup {k}
        BY <1>1, <3>2 DEF SetTask, TaskStep, Disturb
      <4>3. QED
        BY <4>1, <4>2
    <3>3. QED
      BY <2>1, <3>1, <3>2 DEF GetUsage
  <2>2. CASE PutUsage(i, kind)
    <3> DEFINE put == [usage EXCEPT ![k] = task[i][kind].n + 1]
    <3>1. NoTask \in [at : {"no", "get", "put"}, n : Nat] /\ NoTask.n = 0
      BY DEF NoTask
    <3>2. TaskStep(i, kind, NoTask) /\ task[i][kind].at = "put"
      BY <1>1, <2>2 DEF PutUsage, SetTask, TaskStep, AfterFailedPut, GivesUp
    <3>3. \/ usage' = put /\ disturbed' = disturbed
          \/ usage' \in {usage, put} /\ disturbed' = disturbed \cup {k}
      BY <2>2 DEF PutUsage, Written, OneMore, Disturb
    <3>4. usage' = put => usage'[k] = task[i][kind].n + 1
      BY <1>2, <1>3
    <3>5. QED
      BY <3>1, <3>2, <3>3, <3>4
  <2>3. QED
    BY <2>1, <2>2
<1> HIDE DEF k
<1>5. /\ disturbed \subseteq disturbed' /\ disturbed' \subseteq Key
      /\ usage' \in [Key -> Nat]
      /\ usage'[k] \in {usage[k], task[i][kind].n + 1}
      /\ \A x \in Key : x # k => usage'[x] = usage[x]
  BY <1>2, <1>3, <1>4
<1>6. HooksInv'
  BY <1>1, <1>4, <1>5, TaskHooks
<1>7. ASSUME NEW x \in Key
      PROVE  EntryInv(x)'
  <2>1. EntryInv(x)
    BY DEF CountersInv, EntryInv
  <2>2. CASE x # k
    BY <1>1, <1>4, <1>5, <2>1, <2>2, OtherCounts DEF k
  <2>3. CASE x = k /\ t = [at |-> "put", n |-> usage[k]] /\ usage' = usage
    BY <1>1, <1>4, <1>5, <2>1, <2>3, GotCounts DEF k
  <2>4. CASE /\ x = k /\ t = NoTask
             /\ \/ k \in disturbed'
                \/ task[i][kind].at = "put" /\ usage'[k] = task[i][kind].n + 1
    BY <1>1, <1>4, <1>5, <2>1, <2>4, LeftCounts DEF k
  <2>5. QED
    BY <1>4, <2>2, <2>3, <2>4
<1>8. QED
  BY <1>6, <1>7 DEF CountersInv, EntryInv

(* Every step keeps what hooks and entries keep. *)
LEMMA HooksStep ==
  ASSUME DispatcherIInv, [Next]_vars
  PROVE  HooksInv' /\ CountersInv'
<1>1. ServedInv /\ HooksInv /\ CountersInv /\ \A k \in Key : EntryInv(k)
  BY DEF DispatcherIInv, CountersInv, EntryInv
<1>2. ASSUME UNCHANGED hooks
      PROVE  CountersInv'
  <2>1. ASSUME NEW k \in Key
        PROVE  EntryInv(k)'
    <3>1. /\ usage' = usage /\ task' = task /\ disturbed' = disturbed
          /\ Counting(k)' = Counting(k)
      BY <1>2 DEF hooks, Counting
    <3>2. QED
      BY <1>1, <3>1, EntrySame
  <2>2. QED
    BY <2>1 DEF CountersInv, EntryInv
<1>3. ASSUME NEW c \in Config, Boot(c)
      PROVE  HooksInv' /\ CountersInv'
  <2>1. UNCHANGED hooks /\ pc' = pc /\ up'
    BY <1>3 DEF Boot
  <2>2. Pending' \subseteq Pending
    BY <2>1 DEF Pending
  <2>3. QED
    BY <1>1, <1>2, <2>1, <2>2, HooksRest
<1>4. CASE Exit
  BY <1>1, <1>4, ExitHooks, ExitCounts DEF CountersInv, EntryInv
<1>5. ASSUME NEW w \in Worker, NEW r \in Request, Receive(w, r)
      PROVE  HooksInv' /\ CountersInv'
  <2>1. UNCHANGED hooks
    BY <1>5 DEF Receive
  <2>2. QED
    BY <1>1, <1>2, <1>5, <2>1, ReceiveHooks
<1>6. ASSUME NEW w \in Worker,
             Ignore(w) \/ Dispatch(w) \/ RunHandler(w) \/ RunCron(w) \/ Answered(w)
      PROVE  HooksInv' /\ CountersInv'
  <2>1. UNCHANGED hooks
    BY <1>6 DEF Ignore, Dispatch, RunHandler, RunCron, Answered
  <2>2. QED
    BY <1>1, <1>2, <1>6, <2>1, RequestHooks
<1>7. ASSUME NEW w \in Worker, StartHook(w)
      PROVE  HooksInv' /\ CountersInv'
  BY <1>1, <1>7, StartHookHooks, StartHookCounts DEF CountersInv, EntryInv
<1>8. CASE UNCHANGED vars
  <2>1. UNCHANGED hooks /\ pc' = pc /\ up' = up
    BY <1>8 DEF vars, process
  <2>2. Pending' \subseteq Pending
    BY <2>1 DEF Pending
  <2>3. QED
    BY <1>1, <1>2, <2>1, <2>2, HooksRest
<1>9. QED
  BY <1>1, <1>3, <1>4, <1>5, <1>6, <1>7, <1>8, TaskCounts DEF Next

(* Nothing has run at first. *)
LEMMA DispatcherInit == Init => DispatcherIInv
<1>1. SUFFICES ASSUME Init PROVE HooksInv /\ CountersInv
  BY ServedInit DEF DispatcherIInv
<1>2. /\ invoked = <<>> /\ usage = [k \in Key |-> 0] /\ disturbed = {}
      /\ task = [i \in Run |-> [kind \in Kind |-> NoTask]]
      /\ pc = [w \in Worker |-> "idle"]
  BY <1>1 DEF Init
<1>3. Pending = {}
  BY <1>2 DEF Pending
<1>4. Cardinality(Pending) = 0
  BY <1>3, FS_EmptySet
<1>5. task \in [Run -> [Kind -> [at : {"no", "get", "put"}, n : Nat]]]
  BY <1>2 DEF NoTask
<1>6. \A i \in Run : \A kind \in Kind : task[i][kind].at = "no" /\ task[i][kind].n = 0
  BY <1>2 DEF NoTask
<1>7. invoked \in Seq(RunRecord) /\ Len(invoked) = 0
  BY <1>2
<1>8. HooksInv
  BY <1>2, <1>4, <1>5, <1>6, <1>7, ConstantsAssumption DEF HooksInv
<1>9. ASSUME NEW k \in Key
      PROVE  Counted(k) /\ Exact(k)
  <2>1. Counting(k) = {} /\ Over(k) = {}
    BY <1>7 DEF Counting, Over
  <2>2. Cardinality(Over(k)) = 0
    BY <2>1, FS_EmptySet
  <2>3. QED
    BY <1>2, <2>1, <2>2 DEF Counted, Exact
<1>10. QED
  BY <1>8, <1>9 DEF CountersInv

(* The invariant is inductive. *)
LEMMA DispatcherStep == DispatcherIInv /\ [Next]_vars => DispatcherIInv'
BY ServedStep, HooksStep DEF DispatcherIInv

(* It implies the types; what a goroutine read fits, since no entry overcounts. *)
LEMMA IInvTypes ==
  ASSUME DispatcherIInv
  PROVE  TypeOK
<1>1. ServedInv /\ HooksInv /\ CountersInv
  BY DEF DispatcherIInv
<1>2. /\ up \in BOOLEAN /\ conf \in Config \cup {NoConfig} /\ pc \in [Worker -> PC]
      /\ req \in [Worker -> Request \cup {NoRequest}]
      /\ cmd \in [Worker -> Command \cup {None}] /\ ran \in [Worker -> Outcome \cup {"no"}]
      /\ answer \in [Worker -> Status]
  BY <1>1 DEF ServedInv
<1>3. DOMAIN reg.commands \subseteq Command
  BY <1>1, DeclaredIsCommand DEF ServedInv
<1>4. Len(invoked) <= MaxRuns
  BY <1>1, <1>2, RunsFit
<1>5. ASSUME NEW i \in Run, NEW kind \in Kind
      PROVE  task[i][kind].n \in 0 .. MaxRuns
  <2>1. task[i][kind].n \in Nat /\ MaxRuns \in Nat
    BY <1>1, ConstantsAssumption DEF HooksInv
  <2>2. CASE task[i][kind].at = "no"
    <3>1. task[i][kind].n = 0
      BY <1>1, <2>2 DEF HooksInv
    <3>2. QED
      BY <2>1, <3>1
  <2>3. CASE task[i][kind].at # "no"
    <3> DEFINE k == KeyOf(invoked[i], kind)
    <3>1. k \in Key /\ k[1] = kind /\ i \in Counting(k)
      BY <1>1, <2>3, TaskKey
    <3> HIDE DEF k
    <3>2. Cardinality(Over(k)) \in Nat /\ Cardinality(Over(k)) <= MaxRuns
      BY <1>1, <1>2, <3>1, OverFinite
    <3>3. task[i][kind].n <= Cardinality(Over(k))
      BY <1>1, <3>1 DEF CountersInv, Counted
    <3>4. QED
      BY <2>1, <3>2, <3>3
  <2>4. QED
    BY <2>2, <2>3
<1>6. task \in [Run -> [Kind -> [at : {"no", "get", "put"}, n : 0 .. MaxRuns]]]
  <2> DEFINE T == [at : {"no", "get", "put"}, n : Nat]
             B == [at : {"no", "get", "put"}, n : 0 .. MaxRuns]
  <2>1. task \in [Run -> [Kind -> T]]
    BY <1>1 DEF HooksInv
  <2>2. ASSUME NEW t \in T, t.n \in 0 .. MaxRuns
        PROVE  t \in B
    BY <2>2
  <2>3. \A i \in Run : \A kind \in Kind : task[i][kind] \in T
    BY <2>1
  <2>4. \A i \in Run : \A kind \in Kind : task[i][kind] \in B
    BY <1>5, <2>2, <2>3
  <2> HIDE DEF T, B
  <2>5. \A i \in Run : task[i] \in [Kind -> B]
    BY <2>1, <2>4
  <2>6. task \in [Run -> [Kind -> B]]
    BY <2>1, <2>5
  <2>7. QED
    BY <2>6 DEF B
<1>7. invoked \in Seq([cmd : Command, from : Sender \cup {None}, hooked : BOOLEAN])
  BY <1>1 DEF HooksInv, RunRecord
<1>8. \A i \in Run, kind \in Kind : task[i][kind].at # "no" => i <= Len(invoked)
  BY <1>1, <1>2, RunsFit DEF HooksInv
<1>9. ASSUME ~up
      PROVE  InWork = {} /\ \A w \in Worker : pc[w] = "idle"
  <2>1. \A i \in Run : \A kind \in Kind : task[i][kind].at = "no"
    BY <1>1, <1>9 DEF HooksInv
  <2>2. \A i \in 1 .. Len(invoked) : i \in Run
    BY <1>1, <1>2, RunsFit, ConstantsAssumption DEF Run
  <2>3. \A w \in Worker : pc[w] = "idle"
    BY <1>1, <1>9 DEF ServedInv, RequestInv
  <2>4. QED
    BY <2>1, <2>2, <2>3 DEF InWork
<1>10. usage \in [Key -> Nat] /\ disturbed \subseteq Key
  BY <1>1 DEF HooksInv
<1>11. QED
  BY <1>2, <1>3, <1>4, <1>6, <1>7, <1>8, <1>9, <1>10 DEF TypeOK, PC, Status

(* The runs an entry counts are those of senders entitled to them.          *)
LEMMA EntitledCounts ==
  ASSUME DispatcherIInv, NEW k \in Key
  PROVE  EntitledRuns(k) = Cardinality(Counting(k))
<1>1. \A i \in 1 .. Len(invoked) : Entitled(invoked[i])
  BY DEF DispatcherIInv, HooksInv
<1>2. {i \in 1 .. Len(invoked) : Entitled(invoked[i]) /\ k \in KeysOf(invoked[i])} = Counting(k)
  BY <1>1 DEF Counting
<1>3. QED
  BY <1>2 DEF EntitledRuns

(* The types, and that no entry counts more runs than were made of it by    *)
(* senders entitled to them, for any number of hooks, requests and restarts.*)
THEOREM UsageCountsNoneTooMany == Spec => []DispatcherInv
<1>1. DispatcherIInv => DispatcherInv
  <2>1. ASSUME DispatcherIInv, NEW k \in Key
        PROVE  usage[k] <= EntitledRuns(k)
    <3>1. /\ HooksInv /\ pc \in [Worker -> PC] /\ Counted(k)
          /\ usage[k] \in Nat
      BY <2>1 DEF DispatcherIInv, ServedInv, CountersInv, HooksInv
    <3>2. /\ Over(k) \subseteq Counting(k) /\ IsFiniteSet(Counting(k))
          /\ Cardinality(Counting(k)) \in Nat /\ Cardinality(Over(k)) \in Nat
      BY <3>1, OverFinite
    <3>3. Cardinality(Over(k)) <= Cardinality(Counting(k))
      BY <3>2, FS_Subset
    <3>4. usage[k] <= Cardinality(Over(k))
      BY <3>1 DEF Counted
    <3>5. QED
      BY <2>1, <3>1, <3>2, <3>3, <3>4, EntitledCounts
  <2>2. QED
    BY <2>1, IInvTypes DEF DispatcherInv, UsageNeverOvercounts
<1>2. QED
  BY <1>1, DispatcherInit, DispatcherStep, PTL DEF Spec

(* An entry that no two hooks wrote at once and none failed to write is     *)
(* exact when no hook works on it.                                          *)
THEOREM SparedUsageIsExact == Spec => []UndisturbedUsageIsExact
<1>1. DispatcherIInv => UndisturbedUsageIsExact
  <2>1. ASSUME DispatcherIInv, NEW k \in Key \ (disturbed \cup InWork)
        PROVE  usage[k] = EntitledRuns(k)
    <3>1. HooksInv /\ pc \in [Worker -> PC] /\ Exact(k)
      BY <2>1 DEF DispatcherIInv, ServedInv, CountersInv
    <3>2. Over(k) = Counting(k)
      BY <3>1, RestIsOver
    <3>3. QED
      BY <2>1, <3>1, <3>2, EntitledCounts DEF Exact
  <2>2. QED
    BY <2>1 DEF UndisturbedUsageIsExact
<1>2. QED
  BY <1>1, DispatcherInit, DispatcherStep, PTL DEF Spec

=============================================================================
