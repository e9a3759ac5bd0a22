----------------------------- MODULE Dispatcher -----------------------------
(***************************************************************************)
(* A process that serves: it starts with a registry and its secrets        *)
(* (Registry), the router (internal/server) and the webhook                *)
(* (internal/telegram) let requests in or refuse them, the webhook hands   *)
(* an update to at most one command (internal/modules/dispatcher), and the *)
(* cron route runs one cron.  A command's run starts a hook, goroutines    *)
(* that outlive the request and count the run in the store by a Get and a  *)
(* Put with no lock (internal/modules/stats).                              *)
(*                                                                         *)
(* What a command or cron itself does is the subject of the other modules, *)
(* and the metrics of Metrics: here it runs and comes back, with an error  *)
(* or a panic perhaps.                                                     *)
(***************************************************************************)
EXTENDS Registry

CONSTANTS Worker,
          Sender, Named,   \* users; those with a username
          Owner, Admin,    \* BOT_OWNER_ID, None if unset; ADMIN_USER_IDS
          Config,          \* environments a process may be started in
          Request,         \* what Telegram, the scheduler and others send
          MaxRuns          \* bound on the commands run

Command == {c.name : c \in UNION {ToSet(Factory[m].commands) : m \in DOMAIN Factory}}

ASSUME ConstantsAssumption ==
  /\ Named \subseteq Sender /\ None \notin Sender \cup Command
  /\ Owner \in Sender \cup {None} /\ Admin \subseteq Sender
  /\ \A r \in Request :
       /\ r.route \in {"webhook", "cron"}
       /\ r.route = "webhook" => r.from \in Sender \cup {None}
  /\ \A c \in Config : c.enabled \in Seq(ToSet(c.enabled))
  /\ IsFiniteSet(Worker) /\ MaxRuns \in Nat

VARIABLES
  up,       \* main has not exited
  conf,     \* the environment it was started in, NoConfig while there is none
  secrets,  \* the secrets resolved
  reg,      \* the registry
  pc,       \* per worker: the next call of the request's handler
  req,      \* per worker: the request
  cmd,      \* per worker: cmdCopy
  ran,      \* per worker: how the command or cron it ran came back
  answer,   \* per worker: the status of its answer
  invoked,  \* history: the command and sender of each run, and if a hook runs
  task,     \* the goroutines of each run's hook
  usage,    \* store, "count:", "user:" and "pair:" entries
  disturbed \* history: entries two hooks wrote at once, or one failed to

process == <<up, conf, secrets, reg>>
hooks == <<invoked, task, usage, disturbed>>
vars == <<process, pc, req, cmd, ran, answer, hooks>>

Kind == {"count", "user", "pair"}
Run == 1 .. MaxRuns

Key == ({"count"} \X Command) \cup ({"user"} \X Sender)
       \cup ({"pair"} \X Command \X Sender)

(* countKey, userKey, pairKey. *)
KeyOf(run, kind) ==
  CASE kind = "count" -> <<"count", run.cmd>>
    [] kind = "user" -> <<"user", run.from>>
    [] OTHER -> <<"pair", run.cmd, run.from>>

(* The goroutines of Inc: all three for a sender with a username; none if  *)
(* no module has a hook.                                                   *)
KindsFor(run) ==
  {kind \in Kind : run.hooked /\ (kind = "count" \/ run.from \in Named)}

KeysOf(run) == {KeyOf(run, kind) : kind \in KindsFor(run)}

NoTask == [at |-> "no", n |-> 0]
NoConfig == [enabled |-> <<>>]
NoRequest == [route |-> "none", header |-> None]

Init ==
  /\ up = FALSE
  /\ conf = NoConfig
  /\ secrets = [s \in Secret |-> None]
  /\ reg = NoRegistry
  /\ pc = [w \in Worker |-> "idle"]
  /\ req = [w \in Worker |-> NoRequest]
  /\ cmd = [w \in Worker |-> None]
  /\ ran = [w \in Worker |-> "no"]
  /\ answer = [w \in Worker |-> 0]
  /\ invoked = <<>>
  /\ task = [i \in Run |-> [kind \in Kind |-> NoTask]]
  /\ usage = [k \in Key |-> 0]
  /\ disturbed = {}

(* The entries the hooks still work on. *)
InWork ==
  UNION {{KeyOf(invoked[i], kind) : kind \in {d \in Kind : task[i][d].at # "no"}} :
           i \in 1 .. Len(invoked)}

----------------------------------------------------------------------------
(* The process. *)

(* main up to ListenAndServe.  In an environment that lacks something it   *)
(* exits, and so it does when the parameter store fails: nothing changes.  *)
Boot(c) ==
  /\ ~up /\ Starts(c)
  /\ up' = TRUE
  /\ conf' = c
  /\ secrets' = resolveSSMSecrets(c)
  /\ reg' = Build(c.enabled)
  /\ UNCHANGED <<pc, req, cmd, ran, answer, hooks>>

(* The process dies or exits, which does not wait for hooks; the next one  *)
(* may be another deployment.                                              *)
Exit ==
  /\ up' = FALSE
  /\ conf' = NoConfig
  /\ secrets' = [s \in Secret |-> None]
  /\ reg' = NoRegistry
  /\ pc' = [w \in Worker |-> "idle"]
  /\ req' = [w \in Worker |-> NoRequest]
  /\ cmd' = [w \in Worker |-> None]
  /\ ran' = [w \in Worker |-> "no"]
  /\ answer' = [w \in Worker |-> 0]
  /\ task' = [i \in Run |-> [kind \in Kind |-> NoTask]]
  /\ disturbed' = disturbed \cup InWork
  /\ UNCHANGED <<invoked, usage>>

----------------------------------------------------------------------------
(* The router: what is refused, in the order of the checks, 0 if nothing.  *)

WebhookRefusal(r) ==
  IF ~r.post THEN 405
  ELSE IF r.header # secrets["webhook"] THEN 401
  ELSE IF r.body = "large" THEN 413
  ELSE IF r.body = "malformed" THEN 400
  ELSE 0

(* An empty secret disables the route. *)
EmptyDisables == secrets["cron"] = None

(* It is compared like any other: a request without the header has it.     *)
EmptyCompares == FALSE

cronDisabled == EmptyDisables

CronRefusal(r) ==
  IF cronDisabled THEN 404
  ELSE IF ~r.post THEN 405
  ELSE IF r.header # secrets["cron"] THEN 401
  ELSE IF r.name \notin CommandName THEN 404
  ELSE 0

Refusal(r) == IF r.route = "webhook" THEN WebhookRefusal(r) ELSE CronRefusal(r)

Goto(w, label) == pc' = [pc EXCEPT ![w] = label]

(* The handler of the request is done, and net/http answers. *)
Answer(w, status) ==
  /\ answer' = [answer EXCEPT ![w] = status]
  /\ Goto(w, "answered")

Receive(w, r) ==
  /\ up /\ pc[w] = "idle"
  /\ Len(invoked) + Cardinality({v \in Worker : pc[v] # "idle"}) < MaxRuns
  /\ req' = [req EXCEPT ![w] = r]
  /\ IF Refusal(r) # 0 THEN Answer(w, Refusal(r))
     ELSE Goto(w, r.route) /\ UNCHANGED answer
  /\ UNCHANGED <<process, cmd, ran, hooks>>

Answered(w) ==
  /\ pc[w] = "answered"
  /\ Goto(w, "idle")
  /\ req' = [req EXCEPT ![w] = NoRequest]
  /\ cmd' = [cmd EXCEPT ![w] = None]
  /\ ran' = [ran EXCEPT ![w] = "no"]
  /\ answer' = [answer EXCEPT ![w] = 0]
  /\ UNCHANGED <<process, hooks>>

Outcome == {"done", "error", "panic"}

(* A panic is recovered, and an error of its own. *)
PanicIsError(outcome) == IF outcome = "done" THEN 200 ELSE 500

(* Recovered, and forgotten. *)
PanicIsForgotten(outcome) == IF outcome = "error" THEN 500 ELSE 200

CronStatus(outcome) == PanicIsError(outcome)

(* DispatchScheduled; a handler whose 60 seconds are over returns an error.*)
RunCron(w) ==
  /\ pc[w] = "cron"
  /\ IF req[w].name \in DOMAIN reg.crons
     THEN \E outcome \in Outcome :
            /\ ran' = [ran EXCEPT ![w] = outcome]
            /\ Answer(w, CronStatus(outcome))
     ELSE Answer(w, 404) /\ UNCHANGED ran
  /\ UNCHANGED <<process, req, cmd, hooks>>

----------------------------------------------------------------------------
(* An update. *)

VisibilityOf(c) == reg.commands[c].visibility

(* Auth.Permits. *)
PermitsByVisibility(v, from) ==
  \/ v = "public"
  \/ from # None /\ from = Owner
  \/ v = "protected" /\ from \in Admin

(* An administrator taken for the owner. *)
PermitsAdminsAll(v, from) ==
  v = "public" \/ (from # None /\ from = Owner) \/ from \in Admin

Permits(v, from) == PermitsByVisibility(v, from)

(* The registered commands whose matchCommand finds them in the text. *)
Matching(w) == req[w].cmds \cap DOMAIN reg.commands

(* No command of ours in the text, or one the sender may not run: silence.  *)
(* Of several commands in a text the handler that was registered first is   *)
(* run, and Install registers them in the order of a map: it may be any.    *)
Ignore(w) ==
  /\ pc[w] = "webhook"
  /\ \/ Matching(w) = {}
     \/ \E c \in Matching(w) : ~Permits(VisibilityOf(c), req[w].from)
  /\ Answer(w, 200)
  /\ UNCHANGED <<process, req, cmd, ran, hooks>>

Dispatch(w) ==
  /\ pc[w] = "webhook"
  /\ \E c \in Matching(w) :
       /\ Permits(VisibilityOf(c), req[w].from)
       /\ cmd' = [cmd EXCEPT ![w] = c]
  /\ Goto(w, "hook")
  /\ UNCHANGED <<process, req, ran, answer, hooks>>

(* RunCommandHooks in a goroutine of its own, which starts three more. *)
StartHook(w) ==
  LET run == [cmd |-> cmd[w], from |-> req[w].from, hooked |-> reg.hooks # <<>>]
      i == Len(invoked) + 1
  IN  /\ pc[w] = "hook"
      /\ invoked' = Append(invoked, run)
      /\ task' = [task EXCEPT ![i] = [kind \in Kind |->
                    IF kind \in KindsFor(run) THEN [at |-> "get", n |-> 0] ELSE @[kind]]]
      /\ disturbed' = disturbed \cup (KeysOf(run) \cap InWork)
      /\ Goto(w, "handler")
      /\ UNCHANGED <<process, req, cmd, ran, answer, usage>>

(* The command's handler returns, fails or panics: the webhook logs it,    *)
(* recovers, and writes no status after a panic, which net/http takes for  *)
(* a 200 as well.  It is the same to everyone.                             *)
RunHandler(w) ==
  /\ pc[w] = "handler"
  /\ ran' = [ran EXCEPT ![w] = "done"]
  /\ Answer(w, 200)
  /\ UNCHANGED <<process, req, cmd, hooks>>

----------------------------------------------------------------------------
(* incCount, incUser and incPair. *)

SetTask(i, kind, t) == task' = [task EXCEPT ![i][kind] = t]

Disturb(i, kind) == disturbed' = disturbed \cup {KeyOf(invoked[i], kind)}

GetUsage(i, kind) ==
  /\ task[i][kind].at = "get"
  /\ \/ /\ SetTask(i, kind, [at |-> "put", n |-> usage[KeyOf(invoked[i], kind)]])
        /\ UNCHANGED disturbed
     \/ SetTask(i, kind, NoTask) /\ Disturb(i, kind)
  /\ UNCHANGED <<process, pc, req, cmd, ran, answer, invoked, usage>>

GivesUp == NoTask

(* A failed Put tried again from the Get. *)
TriesAgain == [at |-> "get", n |-> 0]

AfterFailedPut == GivesUp

(* The entry read plus one. *)
OneMore(n) == n + 1

(* The entry started over by every hook. *)
StartedOver(n) == 1

Written(n) == OneMore(n)

(* A Put that reports an error, or is cut off after the hook's two seconds, *)
(* may have been applied.                                                   *)
PutUsage(i, kind) ==
  LET put == [usage EXCEPT ![KeyOf(invoked[i], kind)] = Written(task[i][kind].n)]
  IN  /\ task[i][kind].at = "put"
      /\ \/ usage' = put /\ SetTask(i, kind, NoTask) /\ UNCHANGED disturbed
         \/ /\ usage' \in {usage, put}
            /\ SetTask(i, kind, AfterFailedPut)
            /\ Disturb(i, kind)
      /\ UNCHANGED <<process, pc, req, cmd, ran, answer, invoked>>

Next ==
  \/ \E c \in Config : Boot(c)
  \/ Exit
  \/ \E w \in Worker : \E r \in Request : Receive(w, r)
  \/ \E w \in Worker : Ignore(w) \/ Dispatch(w) \/ StartHook(w) \/ RunHandler(w)
                       \/ RunCron(w) \/ Answered(w)
  \/ \E i \in Run, kind \in Kind : GetUsage(i, kind) \/ PutUsage(i, kind)

Spec == Init /\ [][Next]_vars

----------------------------------------------------------------------------

(* The values the variables take; a hook's goroutine belongs to a run, and *)
(* nothing is under way in a process that has exited.                      *)
TypeOK ==
  /\ up \in BOOLEAN /\ conf \in Config \cup {NoConfig}
  /\ DOMAIN reg.commands \subseteq Command
  /\ pc \in [Worker -> {"idle", "webhook", "cron", "hook", "handler", "answered"}]
  /\ req \in [Worker -> Request \cup {NoRequest}]
  /\ cmd \in [Worker -> Command \cup {None}]
  /\ ran \in [Worker -> Outcome \cup {"no"}]
  /\ answer \in [Worker -> {0, 200, 400, 401, 404, 405, 413, 500}]
  /\ invoked \in Seq([cmd : Command, from : Sender \cup {None}, hooked : BOOLEAN])
  /\ Len(invoked) <= MaxRuns
  /\ task \in [Run -> [Kind -> [at : {"no", "get", "put"}, n : 0 .. MaxRuns]]]
  /\ usage \in [Key -> Nat]
  /\ disturbed \subseteq Key
  /\ \A i \in Run, kind \in Kind : task[i][kind].at # "no" => i <= Len(invoked)
  /\ ~up => InWork = {} /\ \A w \in Worker : pc[w] = "idle"

(* A process starts with exactly the commands, crons and hooks that the    *)
(* modules it was told to load declare, each command in its visibility and *)
(* each cron with the store of its own module, and /help tells of them;    *)
(* with a list that has a fault anywhere it does not start, and no         *)
(* faultless list is refused.                                              *)
FaultlessIsBuilt == \A c \in Config : Faultless(c.enabled) => ~Build(c.enabled).failed

ServesWhatIsDeclared ==
  FaultlessIsBuilt
    /\ [][~up /\ up' =>
           /\ Faultless(conf'.enabled)
           /\ Declares(conf'.enabled, reg') /\ HelpIsTrue(conf'.enabled, reg')]_vars

(* No command and no cron runs unless the request carries the secret that  *)
(* route was configured with, and it is not the empty one: neither an      *)
(* absent header nor a secret left out lets a request through.             *)
NothingRunsUnasked ==
  \A w \in Worker :
    pc[w] \in {"hook", "handler"} \/ ran[w] # "no" =>
      /\ req[w].header # None
      /\ req[w].header = resolveSSMSecrets(conf)[req[w].route]

(* Answers tell what happened: the scheduler reads 200 only if its cron    *)
(* came back without an error or a panic, and 500 only if it ran and did   *)
(* not; every other refusal means that nothing has run; and Telegram,      *)
(* which would send a failed update again, reads 200 for each one that was *)
(* taken in, however its command came back.                                *)
AnswersAreTrue ==
  \A w \in Worker :
    pc[w] = "answered" =>
      /\ req[w].route = "cron" => (answer[w] = 200 <=> ran[w] = "done")
      /\ answer[w] = 500 => req[w].route = "cron" /\ ran[w] \in {"error", "panic"}
      /\ answer[w] \notin {200, 500} => ran[w] = "no"

(* Who may run what, as internal/modules/module.go:13-16 words it: anyone  *)
(* a public command, administrators and the owner a protected one, the     *)
(* owner a private one.                                                    *)
DeclaredAs(v) ==
  {c.name : c \in {d \in UNION {ToSet(Factory[m].commands) : m \in DOMAIN Factory} :
                     d.visibility = v}}

Open == DeclaredAs("public")
Gated == DeclaredAs("protected")

Entitled(run) ==
  \/ run.cmd \in Open
  \/ run.cmd \in Gated /\ run.from \in (Admin \cup {Owner}) \ {None}
  \/ run.from # None /\ run.from = Owner

EntitledRuns(k) ==
  Cardinality({i \in 1 .. Len(invoked) :
                 Entitled(invoked[i]) /\ k \in KeysOf(invoked[i])})

(* The counters are best effort and may lose runs to each other, to        *)
(* failures and restarts, but no entry ever counts more runs than were     *)
(* made of it by senders entitled to it, however hooks and requests meet.  *)
UsageNeverOvercounts == \A k \in Key : usage[k] <= EntitledRuns(k)

(* What every state satisfies: the types, and the counters. *)
DispatcherInv == TypeOK /\ UsageNeverOvercounts

(* Nothing else makes them lose a run: "concurrent invocations of the same *)
(* (cmd, user) may lose updates" (stats.go:54), and failures; an entry     *)
(* they have spared is exact once its hooks have returned.                 *)
UndisturbedUsageIsExact ==
  \A k \in Key \ (disturbed \cup InWork) : usage[k] = EntitledRuns(k)

============================================================================
