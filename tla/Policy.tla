--------------------------------- MODULE Policy ---------------------------------
(***************************************************************************)
(* The forbidden-identifier check of policy.rs.  A source is a sequence of *)
(* characters; a directive that takes a header or a module by name is one  *)
(* of them here, and so is a forbidden word.                               *)
(***************************************************************************)
EXTENDS Integers, SequencesExt

Newline == "n"
Blank == "blank"
Quotes == {"q", "a"} \* the double quote and the apostrophe
Backslash == "b"
Slash == "slash"
Star == "star"
Hash == "hash"
Word == "w"
Directive == "i"

At(source, k, char) == k \in DOMAIN source /\ source[k] = char
Triple(source, k, quote) == \A d \in 0..2 : At(source, k + d, quote)

(* What a scan is in: code, a comment of one kind or the other, or a       *)
(* literal, for which it is the quotes that close it, one or three.        *)
Thrice == [q |-> "qqq", a |-> "aaa"]
Modes == {"code", "line", "block", "q", "a", "qqq", "aaa"}

(* Blanks rather than nothing, and every line break kept.                  *)
Blanked(char) == IF char = Newline THEN Newline ELSE Blank

StartsLineComment(python, source, i) ==
    IF python THEN At(source, i, Hash) ELSE At(source, i, Slash) /\ At(source, i + 1, Slash)
StartsBlockComment(python, source, i) ==
    ~python /\ At(source, i, Slash) /\ At(source, i + 1, Star)
EndsBlockComment(source, i) == At(source, i, Star) /\ At(source, i + 1, Slash)

(* Triple quotes are one literal in Python, not three empty ones.          *)
StartsTriple(python, source, i) ==
    python /\ source[i] \in Quotes /\ Triple(source, i, source[i])

(* Mutant of Closes: a literal ends at a quote of either kind.             *)
ClosesOnAny(source, in, i) == in \in Quotes /\ source[i] \in Quotes

(* A literal ends at the quote it began with, and a triple at three of it. *)
Closes(source, in, i) == in \in Quotes /\ source[i] = in
ClosesTriple(source, in, i) ==
    \E quote \in Quotes : in = Thrice[quote] /\ Triple(source, i, quote)

(* One character further: `in` is what it is read in, `skip` how many that *)
(* follow belong to what was recognized.                                   *)
Step(python, source, scan, i) ==
    LET keep == [scan EXCEPT !.out = Append(@, source[i])]
        blank(in, skip) == [in |-> in, skip |-> skip, out |-> Append(scan.out, Blanked(source[i]))]
    IN IF scan.skip > 0 THEN blank(scan.in, scan.skip - 1)
       ELSE CASE scan.in = "code" ->
                   IF StartsLineComment(python, source, i) THEN blank("line", 0)
                   ELSE IF StartsBlockComment(python, source, i) THEN blank("block", 0)
                   ELSE IF StartsTriple(python, source, i) THEN blank(Thrice[source[i]], 2)
                   ELSE IF source[i] \in Quotes THEN blank(source[i], 0)
                   ELSE keep
              [] scan.in = "line" ->
                   IF At(source, i, Newline) THEN [keep EXCEPT !.in = "code"] ELSE blank("line", 0)
              [] scan.in = "block" ->
                   IF EndsBlockComment(source, i) THEN blank("code", 1) ELSE blank("block", 0)
              [] scan.in \in Modes \ {"code", "line", "block"} ->
                   IF At(source, i, Backslash) THEN blank(scan.in, 1)
                   ELSE IF ClosesTriple(source, scan.in, i) THEN blank("code", 2)
                   ELSE IF Closes(source, scan.in, i) THEN blank("code", 0)
                   ELSE blank(scan.in, 0)

Strip(python, source) ==
    FoldLeft(LAMBDA scan, i : Step(python, source, scan, i),
             [in |-> "code", skip |-> 0, out |-> <<>>], [i \in DOMAIN source |-> i]).out

(* A directive is matched from the start of a line, through whatever white *)
(* space comes before it: the match of the one at k begins here.           *)
BeginsAt(text, k) ==
    {p \in 1..k : /\ p = 1 \/ At(text, p - 1, Newline)
                  /\ \A q \in p..k - 1 : text[q] \in {Blank, Newline}}
Directives(text) == {k \in DOMAIN text : text[k] = Directive /\ BeginsAt(text, k) # {}}
MatchOf(text, k) == Min(BeginsAt(text, k))


(* Blanks where the directives were, every character of a match.           *)
WithoutIncludes(text) ==
    [p \in DOMAIN text |->
        IF \E k \in Directives(text) : p \in MatchOf(text, k)..k THEN Blank ELSE text[p]]

LineOf(text, p) == Cardinality({q \in 1..p - 1 : text[q] = Newline}) + 1

(* What is reported: a directive where its match begins; a word where it is*)
(* in the text it is searched in.                                          *)
Check(python, source) ==
    LET text == Strip(python, source)
        searched == IF python THEN text ELSE WithoutIncludes(text)
    IN {[at |-> k, line |-> LineOf(text, MatchOf(text, k))] : k \in Directives(text)}
         \cup {[at |-> k, line |-> LineOf(searched, k)] : k \in {p \in DOMAIN text : searched[p] = Word}}

-----------------------------------------------------------------------------
(* Where what begins at i ends: a line comment before the next line, a     *)
(* block comment at the first star and slash after its own, a literal at   *)
(* the first of its own quotes that no backslash escapes, on whatever line *)
(* that is; or with the source.                                            *)
EndOf(python, source, i) ==
    LET n == Len(source)
        first(S) == Min(S \cup {n})
        escaped(j) == \E from \in i + 1..j - 1 :
            /\ \A k \in from..j - 1 : source[k] = Backslash
            /\ ~At(source, from - 1, Backslash)
            /\ (j - from) % 2 = 1
    IN IF StartsLineComment(python, source, i)
       THEN first({j \in i..n - 1 : source[j + 1] = Newline})
       ELSE IF StartsBlockComment(python, source, i)
       THEN first({j \in i + 3..n : EndsBlockComment(source, j - 1)})
       ELSE IF StartsTriple(python, source, i)
       THEN first({j + 2 : j \in {m \in i + 3..n - 2 : Triple(source, m, source[i]) /\ ~escaped(m)}})
       ELSE IF source[i] \in Quotes
       THEN first({j \in i + 1..n : source[j] = source[i] /\ ~escaped(j)})
       ELSE i

(* Nothing moves: the text keeps its length and its lines, and stripping   *)
(* it again changes nothing; and what is blanked is the comments and the   *)
(* literals that begin outside one another, each from where it begins to   *)
(* where it ends, and nothing else.  For the last, a comment that begins   *)
(* with slash, star, slash is left out: the code takes its second character*)
(* for the first of its end.  A language may read more into a source than  *)
(* this (a raw string, a quote between digits, a line that ends a literal),*)
(* which the code does not, and neither does this.                         *)
InPlace(python, source) ==
    LET text == Strip(python, source)
        n == Len(source)
        starts == FoldLeft(LAMBDA S, i : IF i \in S THEN S \cup {EndOf(python, source, i) + 1} ELSE S,
                           {1}, [i \in 1..n |-> i])
        hidden == UNION {i..EndOf(python, source, i) :
                           i \in {j \in starts : j <= n /\ \/ StartsLineComment(python, source, j)
                                                            \/ StartsBlockComment(python, source, j)
                                                            \/ \E quote \in Quotes : At(source, j, quote)}}
    IN /\ Len(text) = n
       /\ \A i \in 1..n : LineOf(text, i) = LineOf(source, i)
       /\ Strip(python, text) = text
       /\ (\A i \in 1..n : ~(StartsBlockComment(python, source, i) /\ At(source, i + 2, Slash))) =>
            \A i \in 1..n : text[i] = IF i \in hidden THEN Blanked(source[i]) ELSE source[i]

(* A violation is reported on the line the participant wrote it on, but    *)
(* where a directive's match takes in the empty lines before it: that      *)
(* directive is reported on the first of those, and what is searched for   *)
(* without the directives may be reported too early, never too late, from  *)
(* there on.                                                               *)
OnItsLine(python, source) ==
    LET text == Strip(python, source)
        strays == {k \in Directives(text) : LineOf(text, MatchOf(text, k)) # LineOf(text, k)}
    IN \A violation \in Check(python, source) :
         LET k == violation.at
             own == LineOf(source, k)
         IN /\ violation.line <= own
            /\ (\A s \in strays : s > k) \/ (python /\ text[k] = Word) => violation.line = own
            /\ text[k] = Directive =>
                 \A p \in 1..k - 1 : LineOf(text, p) >= violation.line => text[p] \in {Blank, Newline}
================================================================================
