------------------------------ MODULE Registry ------------------------------
(***************************************************************************)
(* How a process starts: modules.Build turns the names in MODULES and the  *)
(* catalogue of factories (cmd/server/main.go) into the registry of        *)
(* commands, crons and hooks, or refuses; main resolves the secrets, picks *)
(* a store and exits if anything it needs is missing.                      *)
(***************************************************************************)
EXTENDS Naturals, Sequences, SequencesExt, FiniteSets

CONSTANTS ModuleName,  \* the names moduleNameRe matches
          CommandName, \* the names commandNameRe matches
          Factory,     \* factories(): what each module's New returns
          Parameters,  \* the parameter store: its names and values
          None         \* an empty string, a user id not set

Visibility == {"public", "protected", "private"}

Secret == {"token", "webhook", "cron"}

ASSUME CatalogueAssumption ==
  \A m \in DOMAIN Factory :
    /\ DOMAIN Factory[m] = {"name", "hook", "commands", "crons"}
    /\ Factory[m].hook \in BOOLEAN
    /\ Factory[m].commands \in Seq(ToSet(Factory[m].commands))
    /\ Factory[m].crons \in Seq(ToSet(Factory[m].crons))

----------------------------------------------------------------------------
(* Build. *)

validateCommand(c) ==
  /\ c.name \in CommandName
  /\ c.visibility \in Visibility
  /\ c.described /\ c.handled

validateCron(c) == c.name # None /\ c.handled

(* failed stands for the error returned. *)
NoRegistry ==
  [modules |-> <<>>, commands |-> <<>>, crons |-> <<>>, hooks |-> <<>>,
   seen |-> {}, unknown |-> FALSE, failed |-> FALSE]

Refused(reg) == [reg EXCEPT !.failed = TRUE]

(* owners and cronOwners keep every name of the modules before. *)
TakenByAny(names, n, m) == n \in DOMAIN names

(* Each module's names compared with one another only. *)
TakenByItself(names, n, m) == n \in DOMAIN names /\ names[n].module = m

Taken(names, n, m) == TakenByAny(names, n, m)

Registered(entries, n, entry) ==
  [x \in DOMAIN entries \cup {n} |-> IF x = n THEN entry ELSE entries[x]]

AddCommand(reg, m, c) ==
  IF reg.failed \/ ~validateCommand(c) \/ Taken(reg.commands, c.name, m)
  THEN Refused(reg)
  ELSE [reg EXCEPT !.commands =
          Registered(@, c.name, [module |-> m, visibility |-> c.visibility])]

(* The cron's Deps are those of the module that registers it. *)
AddCron(reg, m, c) ==
  IF reg.failed \/ ~validateCron(c) \/ Taken(reg.crons, c.name, m)
  THEN Refused(reg)
  ELSE [reg EXCEPT !.crons = Registered(@, c.name, [module |-> m])]

AddCommands(reg, m, cs) == FoldLeft(LAMBDA r, c : AddCommand(r, m, c), reg, cs)
AddCrons(reg, m, cs) == FoldLeft(LAMBDA r, c : AddCron(r, m, c), reg, cs)

AddModule(reg, m) ==
  LET mod == Factory[m]
      hooked == [reg EXCEPT !.hooks = IF mod.hook THEN Append(@, m) ELSE @]
      scheduled == AddCrons(AddCommands(hooked, m, mod.commands), m, mod.crons)
  IN  IF mod.name \notin {None, m} THEN Refused(reg)
      ELSE [scheduled EXCEPT !.modules = Append(@, m)]

(* An unknown name is only reported after the loop. *)
LoadModule(reg, m) ==
  IF reg.failed THEN reg
  ELSE IF m \notin ModuleName \/ m \in reg.seen THEN Refused(reg)
  ELSE IF m \notin DOMAIN Factory THEN [reg EXCEPT !.seen = @ \cup {m}, !.unknown = TRUE]
  ELSE AddModule([reg EXCEPT !.seen = @ \cup {m}], m)

LoadModules(enabled) == FoldLeft(LoadModule, NoRegistry, enabled)

Build(enabled) ==
  LET reg == LoadModules(enabled)
  IN  IF reg.unknown THEN Refused(reg) ELSE reg

----------------------------------------------------------------------------
(* /help (internal/modules/util/help.go). *)

(* The first module that declares a command, None if none does. *)
ownerOf(reg, n) ==
  LET i == SelectInSeq(reg.modules, LAMBDA m : \E c \in ToSet(Factory[m].commands) : c.name = n)
  IN  IF i = 0 THEN None ELSE reg.modules[i]

Shown(reg, m, v) ==
  {n \in DOMAIN reg.commands : reg.commands[n].visibility = v /\ ownerOf(reg, n) = m}

(* A module's commands come sorted by name, the public ones before the     *)
(* others.                                                                 *)
Section(reg, m) ==
  [module |-> m, public |-> Shown(reg, m, "public"), protected |-> Shown(reg, m, "protected")]

Omitted(section) == section.public \cup section.protected = {}

AddSection(reg, page, m) ==
  IF Omitted(Section(reg, m)) THEN page ELSE Append(page, Section(reg, m))

(* A section for each module with commands to show, in their order. *)
RenderHelp(reg) == FoldLeft(LAMBDA page, m : AddSection(reg, page, m), <<>>, reg.modules)

----------------------------------------------------------------------------
(* main. *)

(* The secrets that are looked up: a value given outright wins. *)
LookedUp(c) == {s \in Secret : c.param[s] # None /\ c.env[s] = None}

SecretsResolve(c) == \A s \in LookedUp(c) : c.param[s] \in DOMAIN Parameters

resolveSSMSecrets(c) ==
  [s \in Secret |-> IF s \in LookedUp(c) THEN Parameters[c.param[s]] ELSE c.env[s]]

ChosenBackend(c) ==
  CASE c.kv # None -> c.kv
    [] c.kv = None /\ c.lambda -> "dynamodb"
    [] c.kv = None /\ ~c.lambda /\ c.firestore -> "firestore"
    [] OTHER -> "memory"

(* Firestore asks for a project, or an emulator, which needs no true one;   *)
(* DynamoDB for a table.                                                    *)
ProviderBuilt(c) ==
  \/ ChosenBackend(c) = "memory"
  \/ ChosenBackend(c) = "firestore" /\ c.firestore
  \/ ChosenBackend(c) = "dynamodb" /\ c.table

(* A bot token and a secret for the webhook are required, the others not.  *)
RequiresBoth(secrets) == secrets["token"] # None /\ secrets["webhook"] # None

(* The webhook's secret taken for optional, like the cron's. *)
RequiresToken(secrets) == secrets["token"] # None

HasRequired(secrets) == RequiresBoth(secrets)

Starts(c) ==
  /\ SecretsResolve(c)
  /\ HasRequired(resolveSSMSecrets(c))
  /\ ProviderBuilt(c)
  /\ ~Build(c.enabled).failed

----------------------------------------------------------------------------
(* What Build promises, without its loops. *)

(* A list of modules is faultless. *)
Faultless(enabled) ==
  LET Entries(field) ==
        UNION {{<<i, j>> : j \in DOMAIN Factory[enabled[i]][field]} : i \in DOMAIN enabled}
      At(field, x) == Factory[enabled[x[1]]][field][x[2]]
  IN  /\ IsInjective(enabled)
      /\ \A i \in DOMAIN enabled :
           /\ enabled[i] \in ModuleName \cap DOMAIN Factory
           /\ Factory[enabled[i]].name \in {None, enabled[i]}
      /\ \A x \in Entries("commands") : validateCommand(At("commands", x))
      /\ \A x \in Entries("crons") : validateCron(At("crons", x))
      /\ \A field \in {"commands", "crons"} : \A x, y \in Entries(field) :
           At(field, x).name = At(field, y).name => x = y

(* A registry has the commands, the crons, each with its own module, and   *)
(* the hooks that the modules declare, and no others.                      *)
Declares(enabled, reg) ==
  LET Declarers(field, n) == {m \in ToSet(enabled) : \E c \in ToSet(Factory[m][field]) : c.name = n}
  IN  /\ reg.modules = enabled
      /\ \A m \in ToSet(enabled) :
           /\ \A c \in ToSet(Factory[m].commands) :
                c.name \in DOMAIN reg.commands
                  /\ reg.commands[c.name] = [module |-> m, visibility |-> c.visibility]
           /\ \A c \in ToSet(Factory[m].crons) :
                c.name \in DOMAIN reg.crons /\ reg.crons[c.name].module = m
      /\ \A n \in DOMAIN reg.commands : Declarers("commands", n) # {}
      /\ \A n \in DOMAIN reg.crons : Declarers("crons", n) # {}
      /\ ToSet(reg.hooks) = {m \in ToSet(enabled) : Factory[m].hook}

(* /help lists every command that is not private, once, as the kind it is  *)
(* and under the module that serves it, in the order of the list.          *)
HelpIsTrue(enabled, reg) ==
  LET page == RenderHelp(reg)
      Place(s) == CHOOSE k \in DOMAIN enabled : enabled[k] = s.module
      Listed(m, v) == {n \in DOMAIN reg.commands :
                         reg.commands[n] = [module |-> m, visibility |-> v]}
  IN  /\ \A i \in DOMAIN page :
           /\ page[i].public = Listed(page[i].module, "public")
           /\ page[i].protected = Listed(page[i].module, "protected")
      /\ \A i, j \in DOMAIN page : i < j => Place(page[i]) < Place(page[j])
      /\ \A n \in DOMAIN reg.commands :
           reg.commands[n].visibility = "private"
             \/ \E i \in DOMAIN page : page[i].module = reg.commands[n].module
=============================================================================
