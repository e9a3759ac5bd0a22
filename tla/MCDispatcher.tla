---------------------------- MODULE MCDispatcher ----------------------------
(* Model values for Dispatcher: two workers, a public, a protected and a     *)
(* private command, the owner, an administrator, a user with a username,     *)
(* updates of theirs and of a sender unknown, and calls of crons;            *)
(* environments that are sound, and one with each fault.                     *)
EXTENDS Dispatcher

CONSTANTS w1, w2, owner, admin, player

MCWorker == {w1, w2}
MCSender == {owner, admin, player}
MCNamed == {player}
MCAdmin == {admin}

Cmd(n, v) == [name |-> n, visibility |-> v, described |-> TRUE, handled |-> TRUE]
Scheduled(n) == [name |-> n, handled |-> TRUE]
Mod(cmds, crons) == [name |-> None, hook |-> FALSE, commands |-> cmds, crons |-> crons]

MCModuleName ==
  {"wordle", "util", "stats", "lolschedule", "misnamed", "bare", "twice", "again", "unhandled",
   "cronless", "unknown"}
MCCommandName == {"wordle", "info", "stickerid", "daily"}
MCFactory ==
  [wordle |-> Mod(<<Cmd("wordle", "public")>>, <<>>),
   util |-> Mod(<<Cmd("info", "protected"), Cmd("stickerid", "private")>>, <<>>),
   stats |-> [Mod(<<>>, <<>>) EXCEPT !.hook = TRUE, !.name = "stats"],
   lolschedule |-> Mod(<<>>, <<Scheduled("daily")>>),
   misnamed |-> [Mod(<<>>, <<>>) EXCEPT !.name = "stats"],
   bare |-> Mod(<<[Cmd("info", "protected") EXCEPT !.described = FALSE]>>, <<>>),
   twice |-> Mod(<<Cmd("wordle", "public")>>, <<>>),
   again |-> Mod(<<>>, <<Scheduled("daily")>>),
   unhandled |-> Mod(<<Cmd("Info", "public")>>, <<>>),
   cronless |-> Mod(<<>>, <<[Scheduled("daily") EXCEPT !.handled = FALSE]>>)]

Bare(l) ==
  [enabled |-> l, env |-> [token |-> "t", webhook |-> "s", cron |-> None],
   param |-> [token |-> None, webhook |-> None, cron |-> None],
   kv |-> None, lambda |-> TRUE, firestore |-> FALSE, table |-> TRUE]
Full == Bare(<<"wordle", "util", "stats", "lolschedule">>)

MCParameters == [p |-> "c"]
MCConfig ==
  {[Full EXCEPT !.param.cron = "p"],
   Bare(<<"lolschedule", "wordle">>),
   [Full EXCEPT !.env.webhook = None], [Full EXCEPT !.param.cron = "q"],
   [Full EXCEPT !.kv = "redis"], [Full EXCEPT !.kv = "firestore"],
   [Full EXCEPT !.table = FALSE]}
  \cup {Bare(l) : l \in {<<"wordle", "unknown">>, <<"wordle", "wordle">>, <<"Wordle">>,
                         <<"stats", "misnamed">>, <<"bare">>, <<"wordle", "twice">>,
                         <<"lolschedule", "again">>, <<"unhandled">>, <<"cronless">>}}

Upd(cs, f) ==
  [route |-> "webhook", post |-> TRUE, header |-> "s", body |-> "update", cmds |-> cs, from |-> f]
Call(h, n) == [route |-> "cron", post |-> TRUE, header |-> h, name |-> n]
MCRequest ==
  {Upd({"wordle", "stickerid"}, player), Upd({"info", "stickerid"}, admin),
   Upd({"stickerid"}, owner), Upd({"info", "wordle"}, None), [Upd({"wordle"}, player) EXCEPT !.header = None],
   [Upd({}, None) EXCEPT !.body = "large"], [Upd({}, None) EXCEPT !.body = "malformed"],
   Call("c", "daily"), Call(None, "daily"), Call("c", "info"), Call("c", "d%"),
   [Call("c", "daily") EXCEPT !.post = FALSE]}

(* What a cron and a refused request read does not change while the process  *)
(* lives: they come while nothing else is under way.                         *)
CronsComeAlone ==
  \A w \in Worker :
    req[w].route = "cron" \/ answer[w] \notin {0, 200} =>
      InWork = {} /\ \A v \in Worker \ {w} : pc[v] = "idle"
=============================================================================
