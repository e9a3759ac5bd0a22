--------------------------- MODULE SubscriberSet ---------------------------
(* What the daily digest's subscriber list promises (internal/modules/      *)
(* lolschedule/subscribers.go): a set of topics of chats that changes by    *)
(* one whole request at a time, so that no request undoes another.          *)
CONSTANTS Chat, Thread,
          Sub  \* the topics there are: a subset of Chat \X Thread

VARIABLE members

Init == members = {}

Subscribe(s) == members' = members \cup {s}

Unsubscribe(s) == members' = members \ {s}

(* Every topic of a chat that cannot be reached any more. *)
DropChat(c) == members' = {s \in members : s[1] # c}

Next ==
  \/ \E s \in Sub : Subscribe(s) \/ Unsubscribe(s)
  \/ \E c \in Chat : DropChat(c)

Spec == Init /\ [][Next]_members

============================================================================
