---------------------------- MODULE ModelAnswer ----------------------------
(***************************************************************************)
(* What the twentyq module makes of text: of a user's question             *)
(* (validate.go) and of the upstream model's answer, which it does not     *)
(* trust (parser.go).  Pure functions.  A text is a sequence of            *)
(* characters, some of which have names here: quote, escape, fence (three  *)
(* back-quotes, "json" after them included) and redacted ("(redacted)").   *)
(***************************************************************************)
EXTENDS Lists, Integers, Sequences, SequencesExt, FiniteSets

CONSTANTS WordChar,        \* the characters of words: 0-9A-Za-z_
          OtherChar,       \* the rest: braces, quote, escape, fence, redacted
          LowerCase,       \* strings.ToLower, on characters
          MinLen, MaxLen,  \* 3 and 200
          Interrogative,   \* what, how, why, ...
          Text,            \* bound: the texts of users and hints
          Secret,          \* bound: the targets
          Payload,         \* bound: what json.Unmarshal makes of an answer
          MaxTokens        \* bound: the length of the JSON objects, in tokens

Char == WordChar \cup OtherChar

(* An answer without an object is <<>>; a field of an object is            *)
(* <<"bool", b>>, <<"string", text>> or <<"other">>, an absent one included. *)
Field == {"is_guess", "answer", "hint"}
Value == ({"bool"} \X BOOLEAN) \cup ({"string"} \X Seq(Char)) \cup {<<"other">>}

(* "(redacted)" is a mark of the code's; seeds are single words.           *)
ASSUME AnswerAssumption ==
  /\ LowerCase \in [Char -> Char]
  /\ \A c \in Char : /\ c \in WordChar <=> LowerCase[c] \in WordChar
                     /\ c = " " <=> LowerCase[c] = " "
  /\ {"{", "}", "quote", "escape", "fence", " ", "redacted"} \subseteq OtherChar
  /\ WordChar \cap OtherChar = {}
  /\ MinLen \in Nat /\ MaxLen \in Nat /\ MaxTokens \in Nat
  /\ Text \subseteq Seq(Char \ {"redacted"}) /\ Secret \subseteq Seq(WordChar) \ {<<>>}
  /\ Payload \subseteq {<<>>} \cup [Field -> Value]

Lower(text) == [i \in DOMAIN text |-> LowerCase[text[i]]]

(* The characters at the given positions, in order. *)
Picked(text, positions) ==
  LET chosen == Keeping([i \in DOMAIN text |-> i], positions)
  IN  [k \in DOMAIN chosen |-> text[chosen[k]]]

----------------------------------------------------------------------------

Scanning == [depth |-> 0, inString |-> FALSE, escaped |-> FALSE, end |-> 0]

InString(state, ch) ==
  IF state.escaped THEN [state EXCEPT !.escaped = FALSE]
  ELSE IF ch = "escape" THEN [state EXCEPT !.escaped = TRUE]
  ELSE [state EXCEPT !.inString = ch # "quote"]

(* An escaped quote taken for the end of the string. *)
InStringUnescaped(state, ch) == [state EXCEPT !.inString = ch # "quote"]

WithinString(state, ch) == InString(state, ch)

Scan(state, ch, i) ==
  IF state.end # 0 THEN state
  ELSE IF state.inString THEN WithinString(state, ch)
  ELSE CASE ch = "quote" -> [state EXCEPT !.inString = TRUE]
         [] ch = "{" -> [state EXCEPT !.depth = @ + 1]
         [] ch = "}" -> [state EXCEPT !.depth = @ - 1,
                                      !.end = IF state.depth = 1 THEN i ELSE 0]
         [] OTHER -> state

(* parseJSON: the text from the first brace to the one that balances it,   *)
(* braces within strings not counted and fences cut out before; <<>> if    *)
(* there is none.  What json.Unmarshal makes of it is left out.            *)
parseJSON(text) ==
  LET unfenced == Keeping(text, ToSet(text) \ {"fence"})
      start == SelectInSeq(unfenced, LAMBDA c : c = "{")
      rest == SubSeq(unfenced, start, Len(unfenced))
      state[i \in 0 .. Len(rest)] ==
        IF i = 0 THEN Scanning ELSE Scan(state[i - 1], rest[i], i)
  IN  IF start = 0 THEN <<>> ELSE SubSeq(rest, 1, state[Len(rest)].end)

----------------------------------------------------------------------------

Trim(text) ==
  Picked(text, {i \in DOMAIN text :
                  /\ \E j \in 1 .. i : text[j] # " "
                  /\ \E j \in i .. Len(text) : text[j] # " "})

defaultHint == <<"try a clear yes/no question">>

normalizeJudgement(payload) ==
  LET Is(field, kind) == payload # <<>> /\ payload[field][1] = kind
      hint == IF Is("hint", "string") THEN Trim(payload["hint"][2]) ELSE <<>>
  IN  [isGuess |-> Is("is_guess", "bool") /\ payload["is_guess"][2],
       answer  |-> IF Is("answer", "string") /\ Lower(payload["answer"][2]) = <<"y", "e", "s">>
                   THEN "yes" ELSE "no",
       hint    |-> IF hint = <<>> THEN defaultHint ELSE hint]

(* submitTurn: the judgement that solves the round. *)
Wins(payload) ==
  normalizeJudgement(payload).isGuess /\ normalizeJudgement(payload).answer = "yes"

----------------------------------------------------------------------------

(* \b before the i-th character: one of it and its predecessor belongs to  *)
(* a word.                                                                 *)
InWord(text, i) == i \in DOMAIN text /\ text[i] \in WordChar
Boundary(text, i) == InWord(text, i - 1) # InWord(text, i)

MatchAt(text, target, i) ==
  LET after == i + Len(target)
  IN  /\ after - 1 <= Len(text)
      /\ Lower(SubSeq(text, i, after - 1)) = Lower(target)
      /\ Boundary(text, i) /\ Boundary(text, after)

(* redactSecret: each match of the whole word is replaced, left to right.  *)
redactSecret(hint, target) ==
  LET Step(acc, i) ==
        IF acc.skip > 0 THEN [acc EXCEPT !.skip = @ - 1]
        ELSE IF MatchAt(hint, target, i)
        THEN [out |-> Append(acc.out, "redacted"), skip |-> Len(target) - 1]
        ELSE [acc EXCEPT !.out = Append(@, hint[i])]
      done[i \in 0 .. Len(hint)] ==
        IF i = 0 THEN [out |-> <<>>, skip |-> 0] ELSE Step(done[i - 1], i)
  IN  done[Len(hint)].out

----------------------------------------------------------------------------

Solid(text) == {i \in DOMAIN text : text[i] # " "}

(* strings.Join(strings.Fields(raw), " "): of a run of blanks between two  *)
(* words the first is kept.                                                *)
Collapsed(raw) ==
  Picked(raw, {i \in DOMAIN raw :
                 \/ raw[i] # " "
                 \/ i - 1 \in Solid(raw) /\ \E j \in Solid(raw) : i < j})

OpenEnded(text) ==
  \E word \in Interrogative :
    IsPrefix(word, Lower(text)) /\ Boundary(text, Len(word) + 1)

validateQuestion(raw) ==
  LET collapsed == Collapsed(raw)
  IN  [ok |-> /\ Len(collapsed) \in MinLen .. MaxLen
              /\ ~OpenEnded(collapsed),
       text |-> collapsed]

(* submitTurn's test for a question asked before. *)
SameQuestion(a, b) ==
  Lower(validateQuestion(a).text) = Lower(validateQuestion(b).text)

----------------------------------------------------------------------------

(* JSON objects as tokens: braces, a member, strings that hold a brace, an *)
(* escaped quote and a brace, an escaped escape.                           *)
Token == {<<"{">>, <<"}">>, <<"y">>} \cup
         {<<"quote">> \o s \o <<"quote">> :
            s \in {<<"{">>, <<"}">>, <<"escape", "quote", "}">>, <<"escape", "escape">>}}

Depth(tokens, n) ==
  Cardinality({i \in 1 .. n : tokens[i] = <<"{">>})
    - Cardinality({i \in 1 .. n : tokens[i] = <<"}">>})

Objects ==
  {FlattenSeq(tokens) : tokens \in
     {ts \in UNION {[1 .. n -> Token] : n \in 2 .. MaxTokens} :
        /\ ts[1] = <<"{">>
        /\ Depth(ts, Len(ts)) = 0
        /\ \A n \in 1 .. Len(ts) - 1 : Depth(ts, n) > 0}}

(* The object of an answer is found whole whatever prose and fences the    *)
(* model puts around it ("the first balanced {...} JSON object found",     *)
(* parser.go:28): braces and quotes within its strings do not end it early *)
(* or carry the scan into the prose.                                       *)
ObjectsAreFound ==
  \A object \in Objects :
    \A before \in {<<>>, <<"fence">>, <<"y", "quote", "}">>} :
      \A after \in {<<>>, <<"fence", "}">>, <<"quote", "{", "y">>} :
        parseJSON(before \o object \o after) = object

(* The word the i-th character belongs to, as its positions. *)
WordAt(text, i) ==
  {j \in DOMAIN text : \A k \in DOMAIN text :
      (i <= k /\ k <= j) \/ (j <= k /\ k <= i) => InWord(text, k)}

(* A hint names the secret nowhere, in whatever case, and loses nothing    *)
(* but the words that do ("blanks any whole-word case-insensitive match",  *)
(* parser.go:99).                                                          *)
HintsAreRedacted ==
  \A hint \in Text, target \in Secret :
    LET shown == redactSecret(hint, target)
        Named(i) == \E j \in DOMAIN hint :
                      /\ WordAt(hint, i) = j .. j + Len(target) - 1
                      /\ Lower(SubSeq(hint, j, j + Len(target) - 1)) = Lower(target)
        kept == Picked(hint, {i \in DOMAIN hint : ~Named(i)})
    IN  /\ \A i \in DOMAIN shown : ~MatchAt(shown, target, i)
        /\ Keeping(shown, ToSet(shown) \ {"redacted"}) = kept

(* Texts of the same words are one question, texts of different words are  *)
(* two: neither case nor spacing buys a question asked before once more.   *)
SameWords(a, b) ==
  LET Words(text) == Picked([i \in DOMAIN text |->
                               <<LowerCase[text[i]], i - 1 \in Solid(text)>>], Solid(text))
      Letters(text) == [k \in DOMAIN Words(text) |->
                          <<Words(text)[k][1], k = 1 \/ Words(text)[k][2]>>]
  IN  Letters(a) = Letters(b)

RepeatsAreSeen ==
  \A a, b \in Text : SameQuestion(a, b) <=> SameWords(a, b)

(* No round is won by an answer without an object, or by one whose         *)
(* is_guess is anything but true: garbage is a "no" ("safe defaults",      *)
(* parser.go:77).                                                          *)
GarbageWinsNothing ==
  \A payload \in Payload :
    Wins(payload) => payload # <<>> /\ payload["is_guess"] = <<"bool", TRUE>>

============================================================================
