------------------------------ MODULE Schedule ------------------------------
(***************************************************************************)
(* The match lookup of lolschedule (api_client.go): an answer comes from   *)
(* the store while it is fresh, else from a walk over the pages of the     *)
(* lolesports schedule, else, if that fails, from the store again unless   *)
(* it is too old.  Lookups of the three /lolschedule commands and of the   *)
(* daily push run concurrently, without a lock, while the clock goes on.   *)
(*                                                                         *)
(* The pages are numbered from the oldest, 0 stands for no cursor, and an  *)
(* event for what the pages say of it, "show" segments left out.  That     *)
(* they are ascending and disjoint is what the walk takes for granted.     *)
(***************************************************************************)
EXTENDS Lolschedule

CONSTANTS Window,      \* [from, to): the days and weeks commands ask for
          Event,       \* of the upstream schedule
          Start,       \* of each event; Unparsed if it is no time
          Page,        \* the upstream schedule
          Home,        \* pages the upstream may take for the current one
          MaxPages,    \* 3
          CacheTTL, StaleMaxAge,  \* in ticks
          MaxTime,     \* bound on the ticks
          Unparsed

PagesAscend ==
  \A p, q \in DOMAIN Page : \A e \in ToSet(Page[p]) : \A f \in ToSet(Page[q]) :
    p < q /\ Start[e] # Unparsed /\ Start[f] # Unparsed => Start[e] <= Start[f]

ASSUME ScheduleAssumption ==
  /\ Window \subseteq [from : Nat, to : Nat]
  /\ Start \in [Event -> Nat \cup {Unparsed}]
  /\ Unparsed \notin Nat /\ None \notin Window \cup Nat
  /\ Page \in Seq(Seq(Event)) /\ Event = UNION {ToSet(Page[p]) : p \in DOMAIN Page}
  /\ PagesAscend
  /\ Home # {} /\ Home \subseteq 1 .. Len(Page)
  /\ MaxPages \in Nat \ {0}
  /\ CacheTTL \in Nat \ {0} /\ StaleMaxAge \in Nat /\ MaxTime \in Nat

VARIABLES
  cache,   \* store, "matches:<from>:<to>"
  now,     \* the clock
  range,   \* per worker: from, to
  began,   \* per worker: now, as read at the beginning
  cached,  \* per worker: the record it looked up
  walk,    \* per worker: collected, the cursors, the pages fetched
  answer   \* per worker: what it returns

locals == <<range, began, cached, walk, answer>>
scheduleVars == <<cache, now, pc, locals>>

(* History: when the first of the events' pages was fetched, and how many. *)
Answer == [events : Seq(Event), asOf : Nat, pages : Nat, stale : BOOLEAN]

NoWalk == [events |-> <<>>, older |-> 0, newer |-> 0, pages |-> 0, asOf |-> 0]

ScheduleInit ==
  /\ cache = [r \in Window |-> None]
  /\ now = 0
  /\ pc = [w \in Worker |-> "idle"]
  /\ range = [w \in Worker |-> None]
  /\ began = [w \in Worker |-> 0]
  /\ cached = [w \in Worker |-> None]
  /\ walk = [w \in Worker |-> NoWalk]
  /\ answer = [w \in Worker |-> None]

----------------------------------------------------------------------------

Lookup(w, r) ==
  /\ pc[w] = "idle"
  /\ range' = [range EXCEPT ![w] = r]
  /\ began' = [began EXCEPT ![w] = now]
  /\ Goto(w, "get")
  /\ UNCHANGED <<cache, now, cached, walk, answer>>

Returns(w, a) ==
  /\ answer' = [answer EXCEPT ![w] = a]
  /\ cached' = [cached EXCEPT ![w] = None]
  /\ walk' = [walk EXCEPT ![w] = NoWalk]
  /\ Goto(w, "return")

AnswerOf(rec, stale) ==
  [events |-> rec.events, asOf |-> rec.asOf, pages |-> rec.pages, stale |-> stale]

(* The Get; a failed one counts as none. *)
GetCached(w) ==
  LET rec == cache[range[w]]
  IN  /\ pc[w] = "get"
      /\ \/ /\ rec # None /\ began[w] < rec.ts + CacheTTL
            /\ Returns(w, AnswerOf(rec, FALSE))
         \/ /\ rec # None /\ began[w] >= rec.ts + CacheTTL
            /\ cached' = [cached EXCEPT ![w] = rec]
            /\ Goto(w, "first")
            /\ UNCHANGED <<walk, answer>>
         \/ Goto(w, "first") /\ UNCHANGED <<cached, walk, answer>>
      /\ UNCHANGED <<cache, now, range, began>>

Timed == {e \in Event : Start[e] # Unparsed}

(* earliestStart and latestStart: of the first and the last event whose     *)
(* time parses.                                                            *)
Earliest(events, e) ==
  \E i \in DOMAIN events :
    events[i] = e /\ e \in Timed /\ \A j \in 1 .. i - 1 : events[j] \notin Timed
Latest(events, e) ==
  \E i \in DOMAIN events :
    events[i] = e /\ e \in Timed /\ \A j \in i + 1 .. Len(events) : events[j] \notin Timed

(* earliestStart(collected) is not after from; latestStart not before to.  *)
ReachesBack(k, r) == \E e \in Event : Earliest(k.events, e) /\ Start[e] <= r.from
ReachesAhead(k, r) == \E e \in Event : Latest(k.events, e) /\ Start[e] >= r.to

UnderBudget(k) == k.pages < MaxPages

(* One page more. *)
AtBudget(k) == k.pages <= MaxPages

MayFetch(k) == UnderBudget(k)

WalksBack(k, r) == MayFetch(k) /\ k.older # 0 /\ ~ReachesBack(k, r)
WalksOn(k, r) == MayFetch(k) /\ k.newer # 0 /\ ~ReachesAhead(k, r)

(* The loop that walks back, and after it the one that walks on. *)
NextPage(w, k) ==
  IF pc[w] # "newer" /\ WalksBack(k, range[w]) THEN "older"
  ELSE IF WalksOn(k, range[w]) THEN "newer" ELSE "put"

Fetched(w, k) ==
  /\ walk' = [walk EXCEPT ![w] = k]
  /\ Goto(w, NextPage(w, k))
  /\ UNCHANGED <<cached, answer>>

(* A fetch that fails ends the walk: the record looked up before answers   *)
(* if it is recent enough, or nothing does.                                *)
FetchFails(w) ==
  Returns(w, IF cached[w] # None /\ began[w] < cached[w].ts + StaleMaxAge
             THEN AnswerOf(cached[w], TRUE) ELSE None)

(* The cursors of a page: the one before it, and the one after it. *)
Older(p) == p - 1
Newer(p) == IF p < Len(Page) THEN p + 1 ELSE 0

FetchFirst(w) ==
  /\ pc[w] = "first"
  /\ \/ \E p \in Home :
          Fetched(w, [events |-> Page[p], older |-> Older(p), newer |-> Newer(p),
                      pages |-> 1, asOf |-> now])
     \/ FetchFails(w)
  /\ UNCHANGED <<cache, now, range, began>>

(* append(olderEvents, collected...) *)
Prepended(k, p) == Page[p] \o k.events

(* Older pages appended as newer ones are. *)
AppendedOlder(k, p) == k.events \o Page[p]

WithOlder(k, p) == Prepended(k, p)

FetchOlder(w) ==
  LET k == walk[w]
  IN  /\ pc[w] = "older"
      /\ \/ Fetched(w, [k EXCEPT !.events = WithOlder(k, k.older),
                                 !.older = Older(k.older), !.pages = @ + 1])
         \/ FetchFails(w)
      /\ UNCHANGED <<cache, now, range, began>>

FetchNewer(w) ==
  LET k == walk[w]
  IN  /\ pc[w] = "newer"
      /\ \/ Fetched(w, [k EXCEPT !.events = @ \o Page[k.newer],
                                 !.newer = Newer(k.newer), !.pages = @ + 1])
         \/ FetchFails(w)
      /\ UNCHANGED <<cache, now, range, began>>

InRange(r) == {e \in Timed : r.from <= Start[e] /\ Start[e] < r.to}

(* The record is as old as the request that fetched it. *)
StampedAtStart(w) == began[w]

(* As old as its Put, after minutes of fetching. *)
StampedAtPut(w) == now

Stamp(w) == StampedAtStart(w)

(* A Put that fails is logged; it may have been applied. *)
PutCached(w) ==
  LET r == range[w]
      events == Keeping(walk[w].events, InRange(r))
      rec == [ts |-> Stamp(w), events |-> events,
              asOf |-> walk[w].asOf, pages |-> walk[w].pages]
  IN  /\ pc[w] = "put"
      /\ cache' \in {cache, [cache EXCEPT ![r] = rec]}
      /\ Returns(w, AnswerOf(rec, FALSE))
      /\ UNCHANGED <<now, range, began>>

Leave(w) ==
  /\ pc[w] = "return"
  /\ Goto(w, "idle")
  /\ range' = [range EXCEPT ![w] = None]
  /\ began' = [began EXCEPT ![w] = 0]
  /\ answer' = [answer EXCEPT ![w] = None]
  /\ UNCHANGED <<cache, now, cached, walk>>

GetEventsCached(w) ==
  \/ GetCached(w) \/ FetchFirst(w) \/ FetchOlder(w) \/ FetchNewer(w)
  \/ PutCached(w) \/ Leave(w)

Tick ==
  /\ now < MaxTime
  /\ now' = now + 1
  /\ UNCHANGED <<cache, pc, locals>>

(* The process ends and another starts. *)
Restart ==
  /\ pc' = [w \in Worker |-> "idle"]
  /\ range' = [w \in Worker |-> None]
  /\ began' = [w \in Worker |-> 0]
  /\ cached' = [w \in Worker |-> None]
  /\ walk' = [w \in Worker |-> NoWalk]
  /\ answer' = [w \in Worker |-> None]
  /\ UNCHANGED <<cache, now>>

ScheduleNext ==
  \/ \E w \in Worker : \E r \in Window : Lookup(w, r)
  \/ \E w \in Worker : GetEventsCached(w)
  \/ Tick \/ Restart

ScheduleSpec == ScheduleInit /\ [][ScheduleNext]_scheduleVars

----------------------------------------------------------------------------

Record == [ts : Nat, events : Seq(Event), asOf : Nat, pages : Nat]

(* The values the variables take; the page budget is kept, and a walk asks *)
(* only for pages there are.                                               *)
ScheduleTypeOK ==
  /\ cache \in [Window -> Record \cup {None}]
  /\ now \in 0 .. MaxTime
  /\ pc \in [Worker -> {"idle", "get", "first", "older", "newer", "put", "return"}]
  /\ range \in [Worker -> Window \cup {None}]
  /\ began \in [Worker -> 0 .. MaxTime]
  /\ cached \in [Worker -> Record \cup {None}]
  /\ walk \in [Worker -> [events : Seq(Event), older : 0 .. Len(Page),
                          newer : 0 .. Len(Page), pages : 0 .. MaxPages,
                          asOf : 0 .. MaxTime]]
  /\ answer \in [Worker -> Answer \cup {None}]
  /\ \A w \in Worker :
       pc[w] \in {"older", "newer"} => walk[w].pages < MaxPages

(* "Returns fresh cache within cacheTTL, else fetches upstream [...], else *)
(* falls back to stale cache (within staleMaxAge)" (api_client.go:274):    *)
(* what a lookup answers was upstream's schedule less than cacheTTL before *)
(* it began or later, and less than staleMaxAge if upstream failed it,     *)
(* however long the fetches of lookups that overwrite each other took.     *)
AnswersAreRecent ==
  \A w \in Worker :
    answer[w] # None =>
      began[w] < answer[w].asOf + (IF answer[w].stale THEN StaleMaxAge ELSE CacheTTL)

(* The events of the pages a .. b, as the upstream lists them. *)
Listed(a, b) == FlattenSeq(SubSeq(Page, a, b))

(* What an answer, or a record, has of a range: what the adjacent pages that *)
(* were walked list of it, in the upstream's order.                        *)
Follows(rec, r) ==
  \E a \in 1 .. Len(Page) : \E b \in a .. Len(Page) :
    /\ b - a + 1 = rec.pages
    /\ Selects(rec.events, Listed(a, b), InRange(r))
    /\ \/ rec.pages = MaxPages
       \/ \A e \in InRange(r) : Start[e] # r.from => e \in ToSet(rec.events)

(* An answer lists, in the upstream's order, what the pages walked have of *)
(* the range.  It misses events of the range only if the page budget was   *)
(* spent, or at the very beginning of the range, when a page begins with   *)
(* another such event.                                                     *)
AnswersFollowSchedule ==
  \A w \in Worker : answer[w] # None => Follows(answer[w], range[w])

(* The named invariant with the types. *)
ScheduleInv == ScheduleTypeOK /\ AnswersAreRecent

============================================================================
