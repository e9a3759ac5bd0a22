------------------------------ MODULE Storage -------------------------------
(***************************************************************************)
(* The addressing of the key-value stores (internal/storage).  A module    *)
(* works on keys of its own; the memory back end keeps all modules in one  *)
(* map and tells them apart by a prefix, DynamoDB by the partition and     *)
(* Firestore by the collection.  A key is the sequence of its bytes, and a *)
(* store the function from its addresses to what is stored there.          *)
(***************************************************************************)
EXTENDS Naturals, Sequences, SequencesExt

Byte == 0 .. 255

Dash == 45
Dot == 46
Slash == 47
Digits == 48 .. 57
Colon == 58
Underscore == 95
Lower == 97 .. 122

(* moduleNameRe and collectionNameRe. *)
ModuleNames ==
  {name \in Seq(Lower \cup Digits \cup {Dash, Underscore}) : Len(name) \in 1 .. 32}

Backend == {"memory", "dynamodb", "firestore"}

----------------------------------------------------------------------------

WithDelimiter(prefix, key) == prefix \o <<Colon>> \o key

(* Two names of one beginning share keys. *)
WithoutDelimiter(prefix, key) == prefix \o key

(* prefixedStore.k. *)
Prefixed(prefix, key) == WithDelimiter(prefix, key)

Address(backend, module, key) ==
  IF backend = "memory" THEN Prefixed(module, key) ELSE <<module, key>>

(* Both remote back ends validate a key as a Firestore document id; the    *)
(* limit of 1500 bytes is beyond every key here.                           *)
ValidKey(key) ==
  /\ key # <<>>
  /\ \A i \in DOMAIN key : key[i] # Slash
  /\ key \notin {<<Dot>>, <<Dot, Dot>>}
  /\ ~ /\ IsPrefix(<<Underscore, Underscore>>, key)
       /\ IsSuffix(<<Underscore, Underscore>>, key)

Accepts(backend, prefix) ==
  backend = "memory" \/ prefix = <<>> \/ ValidKey(prefix)

----------------------------------------------------------------------------

(* The order of bytes, in which all three back ends list. *)
Less(s, t) ==
  \E i \in 1 .. Len(t) :
    /\ \A j \in 1 .. i - 1 : j <= Len(s) /\ s[j] = t[j]
    /\ i <= Len(s) => s[i] < t[i]

(* The last byte that can be incremented, 0 if there is none. *)
LastBelowTop(prefix) ==
  CHOOSE i \in 0 .. Len(prefix) :
    /\ i # 0 => prefix[i] # 255
    /\ \A j \in i + 1 .. Len(prefix) : prefix[j] = 255

(* Incremented and cut there, or unchanged. *)
IncrementLast(prefix) ==
  LET i == LastBelowTop(prefix)
  IN  IF i = 0 THEN prefix
      ELSE [j \in 1 .. i |-> IF j = i THEN prefix[i] + 1 ELSE prefix[j]]

(* Incremented, but not cut. *)
IncrementUncut(prefix) ==
  LET i == LastBelowTop(prefix)
  IN  IF i = 0 THEN prefix ELSE [prefix EXCEPT ![i] = @ + 1]

prefixSuccessor(prefix) == IncrementLast(prefix)

InRange(prefix, key) ==
  prefix = <<>> \/ (~Less(key, prefix) /\ Less(key, prefixSuccessor(prefix)))

----------------------------------------------------------------------------

PutAt(store, address, value) ==
  [a \in DOMAIN store \cup {address} |-> IF a = address THEN value ELSE store[a]]

DeleteAt(store, address) == [a \in DOMAIN store \ {address} |-> store[a]]

TrimPrefix(key, prefix) ==
  IF IsPrefix(prefix, key) THEN SubSeq(key, Len(prefix) + 1, Len(key)) ELSE key

(* Each operation as the set of its outcomes: of a Get, the entry found or *)
(* none, which is an error; of a Put or a Delete, the store it leaves,     *)
(* whether or not it reports success; of a List, the keys.                 *)

MemoryGet(store, module, key) ==
  {{store[a] : a \in {Prefixed(module, key)} \cap DOMAIN store}}

MemoryPut(store, module, key, value) == {PutAt(store, Prefixed(module, key), value)}

MemoryDelete(store, module, key) == {DeleteAt(store, Prefixed(module, key))}

MemoryList(store, module, prefix) ==
  {TrimPrefix(a, Prefixed(module, <<>>)) :
     a \in {b \in DOMAIN store : IsPrefix(Prefixed(module, prefix), b)}}

(* The items of a partition, pk being the module and sk the key. *)
DynamoGet(store, module, key) ==
  {{}} \cup IF ValidKey(key) THEN {{store[a] : a \in {<<module, key>>} \cap DOMAIN store}} ELSE {}

DynamoPut(store, module, key, value) ==
  {store} \cup IF ValidKey(key) THEN {PutAt(store, <<module, key>>, value)} ELSE {}

DynamoDelete(store, module, key) ==
  {store} \cup IF ValidKey(key) THEN {DeleteAt(store, <<module, key>>)} ELSE {}

DynamoQuery(store, module, prefix) ==
  {a[2] : a \in {b \in DOMAIN store : b[1] = module /\ IsPrefix(prefix, b[2])}}

(* The documents of a collection; a List is a range scan of their ids. *)
doc(collection, key) == <<collection, key>>

FirestoreGet(store, module, key) ==
  {{}} \cup IF ValidKey(key) THEN {{store[a] : a \in {doc(module, key)} \cap DOMAIN store}} ELSE {}

FirestorePut(store, module, key, value) ==
  {store} \cup IF ValidKey(key) THEN {PutAt(store, doc(module, key), value)} ELSE {}

FirestoreDelete(store, module, key) ==
  {store} \cup IF ValidKey(key) THEN {DeleteAt(store, doc(module, key))} ELSE {}

FirestoreScan(store, module, prefix) ==
  {a[2] : a \in {b \in DOMAIN store : b[1] = module /\ InRange(prefix, b[2])}}

----------------------------------------------------------------------------
(* The back end a module's store was made with. *)

Get(backend, store, module, key) ==
  CASE backend = "memory" -> MemoryGet(store, module, key)
    [] backend = "dynamodb" -> DynamoGet(store, module, key)
    [] OTHER -> FirestoreGet(store, module, key)

Put(backend, store, module, key, value) ==
  CASE backend = "memory" -> MemoryPut(store, module, key, value)
    [] backend = "dynamodb" -> DynamoPut(store, module, key, value)
    [] OTHER -> FirestorePut(store, module, key, value)

Delete(backend, store, module, key) ==
  CASE backend = "memory" -> MemoryDelete(store, module, key)
    [] backend = "dynamodb" -> DynamoDelete(store, module, key)
    [] OTHER -> FirestoreDelete(store, module, key)

List(backend, store, module, prefix) ==
  CASE backend = "memory" -> MemoryList(store, module, prefix)
    [] backend = "dynamodb" -> DynamoQuery(store, module, prefix)
    [] OTHER -> FirestoreScan(store, module, prefix)
=============================================================================
