----------------------------- MODULE StatsViews -----------------------------
(***************************************************************************)
(* The /stats command (internal/modules/stats/views.go) over one of the    *)
(* three back ends of internal/storage, while the hooks of other commands  *)
(* write the entries it reads and other modules write theirs.              *)
(*                                                                         *)
(* A view lists keys, page by page on DynamoDB, whose queries are          *)
(* eventually consistent, and then reads every entry listed, in parallel,  *)
(* each read a step of its own.  A hook counts in one step: what its races *)
(* lose is the subject of Dispatcher.  Two views share nothing, so there   *)
(* is one.  The reply's wording is left out, and so is its cut at 4000 bytes, *)
(* which 20 rows do not reach.                                             *)
(***************************************************************************)
EXTENDS Storage, FiniteSets

CONSTANTS Command,   \* names of commands, each the sequence of its bytes
          Mistyped,  \* what else /stats cmd is asked about
          UserId,    \* user ids in decimal
          Username,
          Foreign,   \* other modules' entries: pairs of a module and a key
          Stored,    \* what the stats may hold before: functions from keys
          MaxCount,  \* bound on the counts
          MaxWrites, \* bound on the writes of hooks and other modules
          TopK       \* 20 in the code

stats == <<115, 116, 97, 116, 115>>
countPrefix == <<99, 111, 117, 110, 116, Colon>>
userPrefix == <<117, 115, 101, 114, Colon>>
pairPrefix == <<112, 97, 105, 114, Colon>>

(* No user found for a name. *)
Unknown == <<>>

countKey(c) == countPrefix \o c
userKey(id) == userPrefix \o id
pairKey(c, id) == pairPrefix \o c \o <<Colon>> \o id

CountKeys == {countKey(c) : c \in Command}
UserKeys == {userKey(id) : id \in UserId}
PairKeys == {pairKey(c, id) : c \in Command, id \in UserId}
StatKey == CountKeys \cup UserKeys \cup PairKeys

Module == {stats} \cup {f[1] : f \in Foreign}

(* countEntry and userEntry: a count's username is empty. *)
NamesIn(k) == IF k \in UserKeys THEN Username ELSE {<<>>}

EntryOf(k) == [n : 1 .. MaxCount, username : NamesIn(k)]

Entry == [n : 1 .. MaxCount, username : Username \cup {<<>>}]

ASSUME ViewsAssumption ==
  /\ Command \cup UserId \cup Username \subseteq Seq(Byte) \ {<<>>}
  /\ Mistyped \subseteq Seq(Byte)
  /\ \A id \in UserId : \A i \in DOMAIN id : id[i] \in Digits
  /\ \A c \in Command : \A i \in DOMAIN c : c[i] \in Lower \cup Digits \cup {Underscore}
  /\ \A f \in Foreign :
       f[1] \in ModuleNames \ {stats} /\ f[2] \in Seq(Byte) /\ ValidKey(f[2])
  /\ \A s \in Stored : \A k \in DOMAIN s : k \in StatKey /\ s[k] \in EntryOf(k)
  /\ MaxCount \in Nat \ {0} /\ MaxWrites \in Nat /\ TopK \in Nat \ {0}

VARIABLES
  backend, \* the back end buildProvider chose
  base,    \* what it stores, by address
  lag,     \* DynamoDB: keys put that queries may still miss
  writes,  \* the writes so far
  call,    \* the view's next call
  view,    \* its subcommand and argument
  prefix,  \* the List under way: what it lists,
  cursor,  \*   the last key of the pages read,
  keys,    \*   and their keys
  todo,    \* keys of the entries it still reads
  got,     \* the entries it has read
  who,     \* the user a name was resolved to
  answer,  \* the rows of its reply
  before,  \* history: entries settled when the view began
  since,   \* history: per key, what it has held since then
  failed   \* history: a read failed

viewsVars ==
  <<backend, base, lag, writes, call, view, prefix, cursor, keys, todo, got, who,
    answer, before, since, failed>>

storeVars == <<backend, base, lag, writes>>
history == <<before, since>>

View ==
  [form : {"commands", "users"}]
  \cup [form : {"user"}, arg : Username]
  \cup [form : {"cmd"}, arg : Command \cup Mistyped]

NoView == [form |-> "none"]

Empty == [k \in {} |-> {}]

Held(k) == {base[a] : a \in {Address(backend, stats, k)} \cap DOMAIN base}

ViewsInit ==
  /\ backend \in Backend
  /\ \E s \in Stored :
       base = [a \in {Address(backend, stats, k) : k \in DOMAIN s} |->
                 s[CHOOSE k \in DOMAIN s : Address(backend, stats, k) = a]]
  /\ lag = {}
  /\ writes = 0
  /\ call = "idle"
  /\ view = NoView
  /\ prefix = <<>>
  /\ cursor = <<>>
  /\ keys = {}
  /\ todo = {}
  /\ got = Empty
  /\ who = Unknown
  /\ answer = <<>>
  /\ before = {}
  /\ since = [k \in StatKey |-> {}]
  /\ failed = FALSE

----------------------------------------------------------------------------
(* The writers. *)

(* A hook's Put, which may fail, or be done and reported failed.  A new    *)
(* entry of DynamoDB takes time to reach the replicas queries read.        *)
Hook(k, username) ==
  LET a == Address(backend, stats, k)
      e == [n |-> 1 + (IF a \in DOMAIN base THEN base[a].n ELSE 0), username |-> username]
  IN  /\ writes < MaxWrites /\ e.n <= MaxCount
      /\ writes' = writes + 1
      /\ base' \in Put(backend, base, stats, k, e)
      /\ lag' = IF backend = "dynamodb" /\ a \in DOMAIN base' \ DOMAIN base
                THEN lag \cup {k} ELSE lag
      /\ since' = [since EXCEPT ![k] = IF call = "idle" THEN {}
                                       ELSE @ \cup {base'[b] : b \in {a} \cap DOMAIN base'}]
      /\ UNCHANGED <<backend, call, view, prefix, cursor, keys, todo, got, who, answer,
                     before, failed>>

Replicate ==
  /\ lag # {}
  /\ \E k \in lag : lag' = lag \ {k}
  /\ UNCHANGED <<backend, base, writes, call, view, prefix, cursor, keys, todo, got,
                 who, answer, before, since, failed>>

(* Another module puts or deletes an entry of its own. *)
ForeignWrite(f) ==
  /\ writes < MaxWrites
  /\ writes' = writes + 1
  /\ base' \in Put(backend, base, f[1], f[2], [n |-> 1, username |-> <<>>])
               \cup Delete(backend, base, f[1], f[2])
  /\ UNCHANGED <<backend, lag, call, view, prefix, cursor, keys, todo, got, who,
                 answer, before, since, failed>>

----------------------------------------------------------------------------
(* The view. *)

StartList(p) ==
  /\ prefix' = p
  /\ cursor' = <<>>
  /\ keys' = {}
  /\ call' = "list"

ListPrefix(v) ==
  CASE v.form = "commands" -> countPrefix
    [] v.form \in {"users", "user"} -> userPrefix
    [] OTHER -> pairPrefix \o v.arg \o <<Colon>>

Begin(v) ==
  /\ call = "idle"
  /\ view' = v
  /\ StartList(ListPrefix(v))
  /\ before' = List(backend, base, stats, <<>>) \ lag
  /\ since' = [k \in StatKey |-> Held(k)]
  /\ UNCHANGED <<storeVars, todo, got, who, answer, failed>>

Reply(rows) ==
  /\ answer' = rows
  /\ call' = "answered"

(* The order of sortRows; rows that are the same may change places.        *)
Above(row, j, k) ==
  \/ row[j].n > row[k].n
  \/ row[j].n = row[k].n /\ Less(row[j].display, row[k].display)
  \/ row[j] = row[k] /\ Less(j, k)

(* The first TopK of the rows, in that order. *)
Ranked(row) ==
  LET Place(k) == 1 + Cardinality({j \in DOMAIN row : Above(row, j, k)})
      n == Cardinality(DOMAIN row)
  IN  [i \in 1 .. IF n < TopK THEN n ELSE TopK |->
         row[CHOOSE k \in DOMAIN row : Place(k) = i]]

(* The users read whose name is the one asked for. *)
Namesakes == {id \in UserId : userKey(id) \in DOMAIN got /\ got[userKey(id)].username = view.arg}

ByDelimitedId(k, id) == IsSuffix(<<Colon>> \o id, k)

(* User 12's entries taken for user 2's. *)
ByBareId(k, id) == IsSuffix(id, k)

IsPairOf(k, id) == ByDelimitedId(k, id)

(* The keys of the last page are in: what is read next. *)
Listed(all) ==
  todo' = IF view.form = "user" /\ prefix = pairPrefix
          THEN {k \in all : IsPairOf(k, who)}
          ELSE all

(* Every page the paginator has. *)
UntilNoMore(page, rest) == page = rest

(* The first page taken for all of them. *)
FirstPageOnly(page, rest) == TRUE

LastPage(page, rest) == UntilNoMore(page, rest)

(* What is not yet listed of the keys a query sees, in one piece or, on    *)
(* DynamoDB, cut anywhere.                                                 *)
NextPage ==
  /\ call = "list"
  /\ Accepts(backend, prefix)
  /\ \E missed \in SUBSET lag :
       LET rest == {k \in List(backend, base, stats, prefix) \ missed : Less(cursor, k)}
           pages == IF backend = "dynamodb"
                    THEN {{k \in rest : ~Less(b, k)} : b \in rest} \cup {rest} ELSE {rest}
       IN  \E page \in pages :
             /\ keys' = keys \cup page
             /\ IF LastPage(page, rest)
                THEN call' = "get" /\ Listed(keys') /\ UNCHANGED cursor
                ELSE /\ cursor' = CHOOSE b \in page : \A k \in page : ~Less(b, k)
                     /\ UNCHANGED <<call, todo>>
  /\ UNCHANGED <<storeVars, view, prefix, got, who, answer, history, failed>>

(* The views of users go on as if there were none; the others say so.      *)
ListFails ==
  /\ call = "list"
  /\ backend # "memory" \/ ~Accepts(backend, prefix)
  /\ failed' = TRUE
  /\ keys' = {}
  /\ IF prefix = userPrefix THEN call' = "get" ELSE call' = "answered"
  /\ UNCHANGED <<storeVars, view, prefix, cursor, todo, got, who, answer, history>>

(* One of the goroutines that read the entries.  For each pair of /stats   *)
(* cmd the user is read as well, after it.                                 *)
GetEntry(k) ==
  LET users == {userKey(id) : id \in {d \in UserId : view.form = "cmd" /\ k = pairKey(view.arg, d)}}
  IN  /\ call = "get" /\ k \in todo
      /\ \E found \in Get(backend, base, stats, k) :
           IF found = {}
           THEN /\ todo' = todo \ {k}
                /\ failed' = TRUE
                /\ UNCHANGED got
           ELSE /\ todo' = (todo \ {k}) \cup users
                /\ got' = [x \in DOMAIN got \cup {k} |-> IF x = k THEN CHOOSE e \in found : TRUE
                                                         ELSE got[x]]
                /\ UNCHANGED failed
      /\ UNCHANGED <<storeVars, call, view, prefix, cursor, keys, who, answer, history>>

(* Each row of what was read for its own key. *)
OwnEntry(k) == got[k]

(* The loop's last key in every goroutine. *)
LastEntry(k) == got[CHOOSE j \in DOMAIN got : \A i \in DOMAIN got : ~Less(j, i)]

EntryRead(k) == OwnEntry(k)

RowOf(k) ==
  CASE view.form = "commands" ->
         [display |-> TrimPrefix(k, countPrefix), n |-> EntryRead(k).n]
    [] view.form = "users" -> [display |-> EntryRead(k).username, n |-> EntryRead(k).n]
    [] view.form = "cmd" ->
         [display |-> EntryRead(userPrefix \o TrimPrefix(k, prefix)).username,
          n |-> EntryRead(k).n]
    [] OTHER ->
         LET rest == TrimPrefix(k, pairPrefix)
             colon == CHOOSE i \in DOMAIN rest :
                        rest[i] = Colon /\ \A j \in i + 1 .. Len(rest) : rest[j] # Colon
         IN  [display |-> SubSeq(rest, 1, colon - 1), n |-> EntryRead(k).n]

(* The keys that make a row: those of the view, if all it needs was read.  *)
RowKeys ==
  CASE view.form = "commands" -> DOMAIN got
    [] view.form = "users" -> {k \in DOMAIN got : got[k].username # <<>>}
    [] view.form = "cmd" -> {k \in DOMAIN got \cap keys :
                               userPrefix \o TrimPrefix(k, prefix) \in DOMAIN got}
    [] OTHER -> DOMAIN got \cap keys

(* All reads have returned. *)
AllRead ==
  /\ call = "get" /\ todo = {}
  /\ IF view.form = "user" /\ prefix = userPrefix
     THEN /\ IF Namesakes = {} THEN Reply(<<>>) /\ UNCHANGED <<prefix, cursor, keys, who>>
             ELSE who' \in Namesakes /\ StartList(pairPrefix) /\ UNCHANGED answer
          /\ got' = Empty
     ELSE /\ Reply(Ranked([k \in RowKeys |-> RowOf(k)]))
          /\ UNCHANGED <<prefix, cursor, keys, who, got>>
  /\ UNCHANGED <<storeVars, view, todo, history, failed>>

Replied ==
  /\ call = "answered"
  /\ call' = "idle"
  /\ view' = NoView
  /\ prefix' = <<>>
  /\ cursor' = <<>>
  /\ keys' = {}
  /\ todo' = {}
  /\ got' = Empty
  /\ who' = Unknown
  /\ answer' = <<>>
  /\ before' = {}
  /\ since' = [k \in StatKey |-> {}]
  /\ failed' = FALSE
  /\ UNCHANGED storeVars

ViewsNext ==
  \/ \E k \in StatKey : \E username \in NamesIn(k) : Hook(k, username)
  \/ Replicate
  \/ \E f \in Foreign : ForeignWrite(f)
  \/ \E v \in View : Begin(v)
  \/ NextPage \/ ListFails \/ AllRead \/ Replied
  \/ \E k \in StatKey : GetEntry(k)

ViewsSpec == ViewsInit /\ [][ViewsNext]_viewsVars

----------------------------------------------------------------------------
(* What a reply may say. *)

ViewsTypeOK ==
  /\ backend \in Backend
  /\ \A a \in DOMAIN base : base[a] \in Entry
  /\ lag \subseteq StatKey
  /\ writes \in 0 .. MaxWrites
  /\ call \in {"idle", "list", "get", "answered"}
  /\ view \in View \cup {NoView}
  /\ keys \cup todo \cup DOMAIN got \cup before \subseteq StatKey
  /\ \A k \in DOMAIN got : got[k] \in EntryOf(k)
  /\ who \in UserId \cup {Unknown}
  /\ Len(answer) <= TopK
  /\ since \in [StatKey -> SUBSET Entry]
  /\ failed \in BOOLEAN

(* The names user id has had since the view began. *)
NamesOf(id) == {e.username : e \in since[userKey(id)]}

CountsOf(k) == {e.n : e \in since[k]}

Rows == {answer[i] : i \in DOMAIN answer}

(* Every row of a reply tells one entry's name and a count that entry held *)
(* at some moment of the view, and no command is told twice, although the  *)
(* entries are read by goroutines while hooks write them.                  *)
RowsAreReal ==
  /\ \A r \in Rows :
       CASE view.form = "commands" ->
              \E c \in Command : r.display = c /\ r.n \in CountsOf(countKey(c))
         [] view.form = "users" ->
              \E id \in UserId : r.display \in NamesOf(id) /\ r.n \in CountsOf(userKey(id))
         [] view.form = "cmd" ->
              \E id \in UserId : /\ r.display \in NamesOf(id)
                                 /\ r.n \in CountsOf(pairKey(view.arg, id))
         [] OTHER -> \E c \in Command : r.display = c
  /\ view.form \in {"commands", "user"} =>
       \A i, j \in DOMAIN answer : answer[i].display = answer[j].display => i = j

(* What every state satisfies: the types, and that rows are real. *)
StatsViewsInv == ViewsTypeOK /\ RowsAreReal

(* All rows of /stats user <name> are of one user, who had that name at    *)
(* some moment of the view: not of two users of one name, nor of a user    *)
(* whose id ends in another's.                                             *)
OneUserPerView ==
  view.form = "user" /\ answer # <<>> =>
    \E id \in UserId :
      /\ view.arg \in NamesOf(id)
      /\ \A r \in Rows : r.n \in CountsOf(pairKey(r.display, id))

(* What the row of entry k would say, of one of the moments of the view. *)
Displays(k) ==
  CASE view.form = "commands" -> {c \in Command : k = countKey(c)}
    [] view.form = "users" -> UNION {NamesOf(id) : id \in {d \in UserId : k = userKey(d)}}
    [] view.form = "cmd" -> UNION {NamesOf(id) : id \in {d \in UserId : k = pairKey(view.arg, d)}}
    [] OTHER -> {c \in Command : k = pairKey(c, who)}

(* The entries a view is about. *)
Due ==
  CASE view.form = "commands" -> CountKeys \cap before
    [] view.form = "users" -> UserKeys \cap before
    [] view.form = "cmd" -> {pairKey(view.arg, id) : id \in {d \in UserId : userKey(d) \in before}}
                              \cap before
    [] OTHER -> {pairKey(c, who) : c \in Command} \cap before

(* What was stored, and replicated, before the view began is in the reply  *)
(* or is outranked by TopK rows that are, and a user is not found only if  *)
(* none had the name throughout, as long as no read failed: however the    *)
(* pages were cut and whatever hooks wrote.                                *)
NothingSettledIsMissing ==
  call = "answered" /\ ~failed =>
    /\ \A k \in Due :
         \/ \E r \in Rows : r.display \in Displays(k) /\ r.n \in CountsOf(k)
         \/ Len(answer) = TopK /\ \A r \in Rows : \E n \in CountsOf(k) : r.n >= n
    /\ view.form = "user" /\ who = Unknown =>
         \A id \in UserId : userKey(id) \in before => NamesOf(id) # {view.arg}

(* Each module's entries are its own, on every back end: a module writes   *)
(* and deletes, and every other module's store is as it was, even where    *)
(* one's name begins another's.                                            *)
Abstract == INSTANCE Stores WITH
  view <- [m \in Module |-> [k \in List(backend, base, m, <<>>) |-> base[Address(backend, m, k)]]]

ImplementsStores == Abstract!StoresSpec
=============================================================================
