-------------------------- MODULE ChampionCompare --------------------------
(***************************************************************************)
(* Champions by name and by attribute (internal/modules/loldle/lookup.go   *)
(* and compare.go): which champion a text names, and the board of          *)
(* attributes a guess is answered with.  Pure functions; a text is a       *)
(* sequence of characters.                                                 *)
(***************************************************************************)
EXTENDS Integers, Sequences, SequencesExt, FiniteSets

CONSTANTS Alphanumeric,  \* a-z0-9
          LowerCase,     \* strings.ToLower, on characters; it maps " " to itself
          DigitValue,    \* 0 .. 9, of the characters that are digits
          Pool,          \* the champion list: a sequence of records, see below
          Input,         \* bound: the texts users name a champion by
          Text, Texts,   \* bounds: values of an attribute, lists of values
          Date           \* bound: release dates

Char == DOMAIN LowerCase

ASSUME CompareAssumption ==
  /\ \A c \in Char : LowerCase[c] = " " <=> c = " "
  /\ \A c \in DOMAIN DigitValue : DigitValue[c] \in 0 .. 9
  /\ \A c, d \in DOMAIN DigitValue : DigitValue[c] = DigitValue[d] => c = d
  /\ Pool \in Seq({Pool[i] : i \in DOMAIN Pool})
  /\ Texts \subseteq Seq(Seq(Char)) /\ Date \subseteq Seq(Char)

(* A champion has a championName, a text for each attribute of type exact  *)
(* and for its release_date, and a list of texts for each of type multi.   *)
classicAttributes ==
  <<[key |-> "gender",       type |-> "exact"], [key |-> "species",   type |-> "multi"],
    [key |-> "range_type",   type |-> "multi"], [key |-> "resource",  type |-> "exact"],
    [key |-> "regions",      type |-> "multi"], [key |-> "positions", type |-> "multi"],
    [key |-> "release_date", type |-> "year"]>>

Lower(text) == [i \in DOMAIN text |-> LowerCase[text[i]]]

----------------------------------------------------------------------------

normalizeName(text) == SelectSeq(Lower(text), LAMBDA c : c \in Alphanumeric)

(* The normalised name of the champion at a place in the list.             *)
PoolName(i) == normalizeName(Pool[i].championName)

Unambiguous(hits) == Cardinality(hits) = 1

(* The first of several that fit. *)
FirstOfMany(hits) == hits # {}

Identifies(hits) == Unambiguous(hits)

First(hits) == CHOOSE i \in hits : \A j \in hits : i <= j

(* The place of the champion named, or 0: the first one named exactly, or  *)
(* the only one whose name begins so.                                      *)
findChampion(input) ==
  LET q == normalizeName(input)
      exact == {i \in DOMAIN Pool : PoolName(i) = q}
      prefixed == {i \in DOMAIN Pool : IsPrefix(q, PoolName(i))}
  IN  IF q = <<>> THEN 0
      ELSE IF exact # {} THEN First(exact)
      ELSE IF Identifies(prefixed) THEN First(prefixed) ELSE 0

----------------------------------------------------------------------------

compareExact(g, t) == [result |-> IF Lower(g) = Lower(t) THEN "correct" ELSE "wrong",
                       direction |-> ""]

TrimSpace(text) ==
  LET solid == {i \in DOMAIN text : text[i] # " "}
  IN  IF solid = {} THEN <<>>
      ELSE SubSeq(text, First(solid), CHOOSE i \in solid : \A j \in solid : i >= j)

toLowerSet(texts) == {TrimSpace(Lower(t)) : t \in ToSet(texts)} \ {<<>>}

compareMultiValue(guess, target) ==
  LET g == toLowerSet(guess)
      t == toLowerSet(target)
  IN  [result |-> IF g = t THEN "correct"
                  ELSE IF g \cap t # {} THEN "partial" ELSE "wrong",
       direction |-> ""]

(* The year a date begins with, 0 if it does not begin with four digits.   *)
parseYear(date) ==
  IF Len(date) < 4 \/ \E i \in 1 .. 4 : date[i] \notin DOMAIN DigitValue THEN 0
  ELSE 1000 * DigitValue[date[1]] + 100 * DigitValue[date[2]]
         + 10 * DigitValue[date[3]] + DigitValue[date[4]]

Hint(g, t) == IF g < t THEN "up" ELSE "down"

compareYear(g, t) ==
  IF g = 0 \/ t = 0 THEN [result |-> "wrong", direction |-> ""]
  ELSE IF g = t THEN [result |-> "correct", direction |-> ""]
  ELSE [result |-> "wrong", direction |-> Hint(g, t)]

compareAttribute(type, g, t) ==
  CASE type = "exact" -> compareExact(g, t)
    [] type = "multi" -> compareMultiValue(g, t)
    [] type = "year"  -> compareYear(parseYear(g), parseYear(t))

CompareChampions(guess, target) ==
  [i \in DOMAIN classicAttributes |->
     compareAttribute(classicAttributes[i].type, guess[classicAttributes[i].key],
                      target[classicAttributes[i].key])]

----------------------------------------------------------------------------

(* Every champion can be named: its own name, in any case and with any     *)
(* punctuation, names it even where it begins another's.  A text that      *)
(* names a champion without being its name names no other: whichever       *)
(* champions are added to the list, it was meant for this one ("prevents   *)
(* "Ka" silently routing", lookup.go:27).                                  *)
NamesFindTheirChampion ==
  \A input \in Input :
    LET q == normalizeName(input)
        Meant == {i \in DOMAIN Pool : IsPrefix(q, normalizeName(Pool[i].championName))}
        hit == findChampion(input)
    IN  /\ \A i \in DOMAIN Pool :
             q # <<>> /\ q = normalizeName(Pool[i].championName) =>
               hit # 0 /\ normalizeName(Pool[hit].championName) = q
        /\ hit # 0 /\ q # normalizeName(Pool[hit].championName) => Meant = {hit}
        /\ hit = 0 => q = <<>> \/ Cardinality(Meant) # 1

(* The board depends on the two champions alone, not on which was guessed: *)
(* swapped, it shows the same marks and the opposite hints.                *)
Opposite(direction) == CASE direction = "up" -> "down" [] direction = "down" -> "up"
                         [] OTHER -> ""

Mirrored(row) == [row EXCEPT !.direction = Opposite(@)]

BoardsAreMirrored ==
  /\ \A g, t \in Text : compareAttribute("exact", g, t) = Mirrored(compareAttribute("exact", t, g))
  /\ \A g, t \in Texts : compareAttribute("multi", g, t) = Mirrored(compareAttribute("multi", t, g))
  /\ \A g, t \in Date : compareAttribute("year", g, t) = Mirrored(compareAttribute("year", t, g))

(* The hints lead to the year: of dates that can be read, the one "up"     *)
(* from another is the later, whatever follows the year; and a list says   *)
(* "partial" exactly if one of its values, case, order and repetition      *)
(* apart, is shared and another is not.                                    *)
HintsLeadToTheTarget ==
  /\ \A g, m, t \in Date :
       LET up(a, b) == compareYear(parseYear(a), parseYear(b)).direction = "up"
       IN  up(g, m) /\ up(m, t) => up(g, t)
  /\ \A g, t \in Date :
       parseYear(g) # 0 /\ parseYear(t) # 0 =>
         (compareYear(parseYear(g), parseYear(t)).result = "correct"
            <=> SubSeq(g, 1, 4) = SubSeq(t, 1, 4))
  /\ \A g, t \in Texts :
       LET Shares(a, b, i) == \E j \in DOMAIN b : TrimSpace(Lower(a[i])) = TrimSpace(Lower(b[j]))
           Blank(a, i) == TrimSpace(a[i]) = <<>>
           both == {<<g, t>>, <<t, g>>}
           some == \E i \in DOMAIN g : ~Blank(g, i) /\ Shares(g, t, i)
           all == \A p \in both : \A i \in DOMAIN p[1] :
                    Blank(p[1], i) \/ Shares(p[1], p[2], i)
       IN  compareMultiValue(g, t).result =
             IF all THEN "correct" ELSE IF some THEN "partial" ELSE "wrong"

(* The target itself is answered with a board all correct, unless its      *)
(* release year cannot be read; another champion may be, and still be wrong. *)
TargetMatchesItself ==
  \A i \in DOMAIN Pool :
    parseYear(Pool[i].release_date) # 0 =>
      \A k \in DOMAIN classicAttributes : CompareChampions(Pool[i], Pool[i])[k].result = "correct"

============================================================================
