----------------------------- MODULE NameScore -----------------------------
(***************************************************************************)
(* matcherbaseline: how alike two names are, in basis points.              *)
(*                                                                         *)
(* A name is a sequence of tokens and a token a sequence of letters.       *)
(* Letters 1 to 4 are Latin ones (A, B, C and K, of which C and K sound    *)
(* alike), 5 is a letter without a Latin form, a letter plus ten is its    *)
(* accented form and one plus twenty its lower-case form.  Three more are  *)
(* no letters: Override opens a span that is shown in reverse and Pop      *)
(* closes it; Connector is a period, an apostrophe or an invisible mark.   *)
(***************************************************************************)
EXTENDS Integers, Sequences, FiniteSets, FiniteSetsExt, SequencesExt, TLC

CONSTANTS Nicknames,          \* a function from tokens to the tokens they stand for
          CorporateSuffixes,  \* legal forms
          PersonHonorifics    \* courtesy titles

Override == 6
Pop == 7
Connector == 9
Marks == {Override, Pop, Connector}

\* the text of a name, with a space between two tokens, which is zero
Text(name) == FoldLeft(LAMBDA text, t : IF text = <<>> THEN t ELSE text \o <<0>> \o t, <<>>, name)

\* strings.Fields: the tokens of a text
Fields(text) ==
    SelectSeq(FoldLeft(LAMBDA ts, l : IF l = 0 THEN Append(ts, <<>>) ELSE [ts EXCEPT ![Len(ts)] = Append(@, l)], <<<<>>>>, text),
              LAMBDA t : t # <<>>)

\* the spans opened by an override are turned round, up to the pop or the end
resolveBidiOverrides(text) ==
    LET Next(a, l) ==
            IF ~a.open THEN IF l = Override THEN [a EXCEPT !.open = TRUE] ELSE [a EXCEPT !.out = Append(@, l)]
            ELSE IF l = Pop THEN [open |-> FALSE, out |-> a.out \o a.span, span |-> <<>>]
            ELSE [a EXCEPT !.span = <<l>> \o @]
        end == FoldLeft(Next, [open |-> FALSE, out |-> <<>>, span |-> <<>>], text)
    IN  end.out \o end.span

\* accents and case aside; what is no letter is deleted, so that the letters around it become neighbours
fold(name) ==
    LET text == SelectSeq(resolveBidiOverrides(Text(name)), LAMBDA l : l \notin Marks)
    IN  Fields([i \in DOMAIN text |-> text[i] % 10])

\* the case of letters aside
normalize(name) == [i \in DOMAIN name |-> [j \in DOMAIN name[i] |-> name[i][j] % 20]]

canonicalizeToken(t) == IF t \in DOMAIN Nicknames THEN Nicknames[t] ELSE t

\* the tokens that are not noise, or all of them when nothing else is left
Without(ts, noise) ==
    LET kept == SelectSeq(ts, LAMBDA t : t \notin noise) IN IF kept = <<>> THEN ts ELSE kept

tokens(name) ==
    Without(Without([i \in DOMAIN name |-> canonicalizeToken(name[i])], CorporateSuffixes), PersonHonorifics)

----------------------------------------------------------------------------

Longer(l, r) == IF Len(l) > Len(r) THEN Len(l) ELSE Len(r)

Upto(s) == [j \in DOMAIN s |-> j]

\* the next row of the table of distances, of which prev is the row before letter x
NextRow(prev, x, right) ==
    FoldLeft(LAMBDA cur, j : Append(cur, Min({cur[j] + 1, prev[j + 1] + 1, prev[j] + (IF x = right[j] THEN 0 ELSE 1)})),
             <<prev[1] + 1>>, Upto(right))

levenshtein(left, right) ==
    Last(FoldLeft(LAMBDA prev, x : NextRow(prev, x, right), [j \in 1 .. Len(right) + 1 |-> j - 1], left))

editSimilarity(left, right) ==
    LET m == Longer(left, right) IN IF m = 0 THEN 10000 ELSE ((m - levenshtein(left, right)) * 10000) \div m

\* the order of texts
TextBefore(s, t) ==
    \/ IsStrictPrefix(s, t)
    \/ \E i \in DOMAIN s \cap DOMAIN t : s[i] < t[i] /\ SubSeq(s, 1, i - 1) = SubSeq(t, 1, i - 1)

\* mutant: the best of two renderings is not taken, the raw text alone is compared
bestEditSimilarity_Raw(query, candidate, qt, ct) == editSimilarity(Text(query), Text(candidate))

\* the raw texts, or the texts with their tokens sorted
bestEditSimilarity(query, candidate, qt, ct) ==
    LET raw == editSimilarity(Text(query), Text(candidate))
        sorted == editSimilarity(Text(SortSeq(qt, TextBefore)), Text(SortSeq(ct, TextBefore)))
    IN  IF Len(qt) < 2 /\ Len(ct) < 2 THEN raw ELSE Max({raw, sorted})

lengthSimilarity(query, candidate) ==
    LET a == Len(Text(query))
        b == Len(Text(candidate))
    IN  IF a = 0 /\ b = 0 THEN 10000 ELSE (Min({a, b}) * 10000) \div Max({a, b})

directedTokenScore(source, target) ==
    MapThenSumSet(LAMBDA i : Max({editSimilarity(source[i], target[j]) : j \in DOMAIN target}), DOMAIN source) \div Len(source)

tokenAlignmentSimilarity(left, right) ==
    IF left = <<>> /\ right = <<>> THEN 10000
    ELSE IF left = <<>> \/ right = <<>> THEN 0
    ELSE (directedTokenScore(left, right) + directedTokenScore(right, left)) \div 2

\* the tokens that match in the same order: a row of the table per token of left
orderedTokenSimilarity(left, right) ==
    LET Row(prev, t) ==
            FoldLeft(LAMBDA cur, j : Append(cur, IF editSimilarity(t, right[j]) >= 7000 THEN prev[j] + 1 ELSE Max({prev[j + 1], cur[j]})),
                     <<0>>, Upto(right))
    IN  IF left = <<>> /\ right = <<>> THEN 10000
        ELSE (Last(FoldLeft(Row, [j \in 1 .. Len(right) + 1 |-> 0], left)) * 10000) \div Longer(left, right)

soundexDigit(letter) == <<0, 1, 2, 2>>[letter]

\* the first Latin letter and at most three digits, a digit not repeated; the zeros that fill a code up are left out
soundex(token) ==
    LET latin == SelectSeq(token, LAMBDA l : l <= 4)
        Code(a, l) ==
            LET d == soundexDigit(l)
            IN  IF Len(a.out) = 4 THEN a
                ELSE [out |-> IF d # 0 /\ d # a.prev THEN Append(a.out, d) ELSE a.out, prev |-> d]
    IN  IF latin = <<>> THEN <<>>
        ELSE FoldLeft(Code, [out |-> <<Head(latin)>>, prev |-> soundexDigit(Head(latin))], Tail(latin)).out

\* the codes both sides have, each used once
phoneticSimilarity(left, right) ==
    LET Count(ts, c) == Cardinality({i \in DOMAIN ts : soundex(ts[i]) = c})
        codes == {soundex(t) : t \in Range(left)} \ {<<>>}
    IN  IF left = <<>> /\ right = <<>> THEN 10000
        ELSE (MapThenSumSet(LAMBDA c : Min({Count(left, c), Count(right, c)}), codes) * 10000) \div Longer(left, right)

\* a profile is [threshold, floor, weights, single, weak], the weights by feature
Features(query, candidate) ==
    LET qt == tokens(query)
        ct == tokens(candidate)
    IN  [edit |-> bestEditSimilarity(query, candidate, qt, ct), length |-> lengthSimilarity(query, candidate),
         ordered |-> orderedTokenSimilarity(qt, ct), phonetic |-> phoneticSimilarity(qt, ct),
         alignment |-> tokenAlignmentSimilarity(qt, ct)]

Contributions(features, weights) == MapThenSumSet(LAMBDA f : (features[f] * weights[f]) \div 10000, DOMAIN weights)

scoreName(query, candidate, profile) ==
    LET features == Features(query, candidate)
        penalty == IF query # candidate /\ (Len(tokens(query)) = 1 \/ Len(tokens(candidate)) = 1) THEN profile.single ELSE 0
    IN  [score |-> Max({0, Contributions(features, profile.weights) - penalty}), features |-> features, penalty |-> penalty]

ValidateProfile(p) ==
    /\ 0 <= p.floor /\ p.floor <= p.threshold /\ p.threshold <= 10000
    /\ \A f \in DOMAIN p.weights : p.weights[f] \in 0 .. 10000
    /\ MapThenSumSet(LAMBDA f : p.weights[f], DOMAIN p.weights) = 10000
    /\ p.single \in 0 .. 10000 /\ p.weak \in 0 .. 10000
=============================================================================
