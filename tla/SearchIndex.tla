----------------------------- MODULE SearchIndex -----------------------------
(***************************************************************************)
(* What searchtools.js of the documentation computes from a query and the  *)
(* index: the words of the query, their Porter stems, the objects and the  *)
(* pages that match, and the excerpt that is shown of a page.              *)
(*                                                                         *)
(* Words and queries are strings of ASCII characters.  An entry of the     *)
(* index is the set of pages a stem occurs in, empty when there is none.   *)
(***************************************************************************)
EXTENDS Underscore

LOCAL INSTANCE SequencesExt
LOCAL INSTANCE FiniteSetsExt
LOCAL INSTANCE Functions

CONSTANTS
  Alphabet,   \* the letters words are spelled with
  MaxWord,    \* bound: the length of words and queries
  Tokens,     \* the words longer queries are put together from
  Files,      \* the pages of the index
  Stems       \* the stems of the index

(***************************************************************************)
(* The Porter stemmer.  A regular expression is the set of positions where *)
(* a match of it may end, started from a set of positions.                 *)
(***************************************************************************)

char(w, i) == SubSeq(w, i, i)

vowels == {"a", "e", "i", "o", "u"}

(* C = c[^aeiouy]* and V = v[aeiou]* *)
C(w, starts) ==
  UNION {{j \in i + 1 .. Len(w) : /\ char(w, i + 1) \notin vowels
                                  /\ \A k \in i + 2 .. j : char(w, k) \notin vowels \cup {"y"}} : i \in starts}

V(w, starts) ==
  UNION {{j \in i + 1 .. Len(w) : /\ char(w, i + 1) \in vowels \cup {"y"}
                                  /\ \A k \in i + 2 .. j : char(w, k) \in vowels} : i \in starts}

optC(w) == {0} \cup C(w, {0})

mgr0(w) == C(w, V(w, optC(w))) # {}

meq1(w) == LET vc == C(w, V(w, optC(w))) IN Len(w) \in vc \cup V(w, vc)

mgr1(w) == C(w, V(w, C(w, V(w, optC(w))))) # {}

s_v(w) == \E i \in optC(w) : i < Len(w) /\ char(w, i + 1) \in vowels \cup {"y"}

(* "^" + C + v + "[^aeiouwxy]$" *)
cvc(w) ==
  \E i \in C(w, {0}) : /\ i + 2 = Len(w)
                       /\ char(w, i + 1) \in vowels \cup {"y"}
                       /\ char(w, i + 2) \notin vowels \cup {"w", "x", "y"}

chop(w, n) == SubSeq(w, 1, Len(w) - n)

endsWith(w, suffix) == Len(w) >= Len(suffix) /\ SubSeq(w, Len(w) - Len(suffix) + 1, Len(w)) = suffix

(* ^(.+?)suffix$ *)
hasSuffix(w, suffix) == Len(w) > Len(suffix) /\ endsWith(w, suffix)

(* ^(.+?)(a|b|...)$: the lazy stem leaves the longest suffix *)
suffixOf(w, suffixes) ==
  LET found == {s \in suffixes : hasSuffix(w, s)}
  IN IF found = {} THEN "" ELSE CHOOSE s \in found : \A t \in found : Len(t) <= Len(s)

step1a(w) ==
  CASE hasSuffix(w, "sses") \/ hasSuffix(w, "ies") -> chop(w, 2)
    [] ~(hasSuffix(w, "sses") \/ hasSuffix(w, "ies")) /\ Len(w) >= 3 /\ endsWith(w, "s") /\ ~endsWith(w, "ss")
         -> chop(w, 1)
    [] OTHER -> w

(* What step 1b does to a stem that lost its ed or ing. *)
restore(w) ==
  LET double == /\ Len(w) >= 2 /\ char(w, Len(w)) = char(w, Len(w) - 1)
                /\ char(w, Len(w)) \notin vowels \cup {"y", "l", "s", "z"}
  IN CASE \E s \in {"at", "bl", "iz"} : endsWith(w, s) -> w \o "e"
       [] (\A s \in {"at", "bl", "iz"} : ~endsWith(w, s)) /\ double -> chop(w, 1)
       [] (\A s \in {"at", "bl", "iz"} : ~endsWith(w, s)) /\ ~double /\ cvc(w) -> w \o "e"
       [] OTHER -> w

step1b(w) ==
  IF hasSuffix(w, "eed")
  THEN IF mgr0(chop(w, 3)) THEN chop(w, 1) ELSE w
  ELSE LET stem == chop(w, Len(suffixOf(w, {"ed", "ing"})))
       IN IF stem # w /\ s_v(stem) THEN restore(stem) ELSE w

step1c(w) == IF hasSuffix(w, "y") /\ s_v(chop(w, 1)) THEN chop(w, 1) \o "i" ELSE w

step2list ==
  [ational |-> "ate", tional |-> "tion", enci |-> "ence", anci |-> "ance", izer |-> "ize",
   bli |-> "ble", alli |-> "al", entli |-> "ent", eli |-> "e", ousli |-> "ous",
   ization |-> "ize", ation |-> "ate", ator |-> "ate", alism |-> "al", iveness |-> "ive",
   fulness |-> "ful", ousness |-> "ous", aliti |-> "al", iviti |-> "ive", biliti |-> "ble",
   logi |-> "log"]

step3list ==
  [icate |-> "ic", ative |-> "", alize |-> "al", iciti |-> "ic", ical |-> "ic", ful |-> "", ness |-> ""]

(* Steps 2 and 3: a suffix is replaced when the stem has a measure. *)
replaceSuffix(w, list) ==
  LET suffix == suffixOf(w, DOMAIN list)
      stem == chop(w, Len(suffix))
  IN IF suffix # "" /\ mgr0(stem) THEN stem \o list[suffix] ELSE w

step4(w) ==
  LET suffix == suffixOf(w, {"al", "ance", "ence", "er", "ic", "able", "ible", "ant", "ement",
                             "ment", "ent", "ou", "ism", "ate", "iti", "ous", "ive", "ize"})
      stem == chop(w, Len(IF suffix # "" THEN suffix
                          ELSE IF suffixOf(w, {"sion", "tion"}) # "" THEN "ion" ELSE ""))
  IN IF mgr1(stem) THEN stem ELSE w

step5(w) ==
  LET stem == chop(w, 1)
      u == IF hasSuffix(w, "e") /\ (mgr1(stem) \/ (meq1(stem) /\ ~cvc(stem))) THEN stem ELSE w
  IN IF endsWith(u, "ll") /\ mgr1(u) THEN chop(u, 1) ELSE u

stemWord(w) ==
  LET upper == IF char(w, 1) = "y" THEN "Y" \o SubSeq(w, 2, Len(w)) ELSE w
      LowerY(stem) == IF char(w, 1) = "y" THEN "y" \o SubSeq(stem, 2, Len(stem)) ELSE stem
  IN IF Len(w) < 3 THEN w
     ELSE LowerY(step5(step4(replaceSuffix(replaceSuffix(step1c(step1b(step1a(upper))), step2list), step3list))))

(***************************************************************************)
(* Queries                                                                 *)
(***************************************************************************)

(* splitChars, the printable ASCII part of it: all but letters, digits and *)
(* the underscore (code 95) split.  The grave accent (96), which splits as *)
(* well, has no TLA+ string.                                               *)
splitChars == {" ", "!", "\"", "#", "$", "%", "&", "'", "(", ")", "*", "+", ",", "-", ".", "/",
               ":", ";", "<", "=", ">", "?", "@", "[", "\\", "]", "^", "{", "|", "}", "~"}

(* The loop of splitQuery: start is where the current word began, -1       *)
(* between words.                                                          *)
splitQuery(query) ==
  LET step(loop, i) ==
        IF char(query, i) \in splitChars
        THEN IF loop.start = -1 THEN loop
             ELSE [start |-> -1, result |-> Append(loop.result, SubSeq(query, loop.start, i - 1))]
        ELSE IF loop.start = -1 THEN [loop EXCEPT !.start = i] ELSE loop
      done == FoldLeft(step, [start |-> -1, result |-> <<>>], [i \in 1 .. Len(query) |-> i])
  IN IF done.start = -1 THEN done.result ELSE Append(done.result, SubSeq(query, done.start, Len(query)))

capitals == "ABCDEFGHIJKLMNOPQRSTUVWXYZ"

smalls == "abcdefghijklmnopqrstuvwxyz"

toLowerCase(s) ==
  join(map(chars(s), LAMBDA c : IF \E i \in 1 .. 26 : char(capitals, i) = c
                                THEN char(smalls, CHOOSE i \in 1 .. 26 : char(capitals, i) = c) ELSE c))

stopwords == {"a", "and", "are", "as", "at", "be", "but", "by", "for", "if", "in", "into", "is", "it", "near",
              "no", "not", "of", "on", "or", "such", "that", "the", "their", "then", "there", "these", "they",
              "this", "to", "was", "will", "with"}

isNumber(s) == s # "" /\ ToSet(chars(s)) \subseteq {"0", "1", "2", "3", "4", "5", "6", "7", "8", "9"}

addTerm(list, word) == IF contains(list, word) THEN list ELSE Append(list, word)

(* The first loop of query: the words to look up as objects, the stems     *)
(* that are required or excluded, and the words to highlight.              *)
queryTerms(query) ==
  LET Looked(t, lower) == [t EXCEPT !.objectterms = Append(@, lower)]
      Sorted(t, lower, word) ==
        IF char(word, 1) = "-" THEN [t EXCEPT !.excluded = addTerm(@, SubSeq(word, 2, Len(word)))]
        ELSE [t EXCEPT !.searchterms = addTerm(@, word), !.hlterms = Append(@, lower)]
      Term(t, w, lower) ==
        IF lower \in stopwords \/ isNumber(w) THEN Looked(t, lower)
        ELSE Sorted(Looked(t, lower), lower, stemWord(lower))
  IN each(splitQuery(query), LAMBDA t, w : Term(t, w, toLowerCase(w)),
          [objectterms |-> <<>>, searchterms |-> <<>>, excluded |-> <<>>, hlterms |-> <<>>])

(***************************************************************************)
(* Lookups                                                                 *)
(***************************************************************************)

ScorerTerm == 5

ScorerTitle == 15

(* Variant: a page needs one of the words only. *)
performTermsSearchAny(searchterms, excluded, terms, titleterms) ==
  LET found(w) == terms[w] \cup titleterms[w]
  IN [file \in UNION {found(searchterms[i]) : i \in DOMAIN searchterms} |-> ScorerTerm]

(* performTermsSearch: the score of each page in the result.  Words are    *)
(* looked up to the first that is in no page; fileMap holds a word twice   *)
(* for a page that has it in its text and in its title.  An excluded stem  *)
(* is compared with the page's number only when it is in one page, since   *)
(* the keys of fileMap are strings and contains compares with ===.         *)
performTermsSearch(searchterms, excluded, terms, titleterms) ==
  LET missing == {i \in DOMAIN searchterms : terms[searchterms[i]] = {} /\ titleterms[searchterms[i]] = {}}
      words == IF missing = {} THEN searchterms ELSE SubSeq(searchterms, 1, Min(missing) - 1)
      in(file, index) == {i \in DOMAIN words : file \in index[words[i]]}
      fileMapLength(file) == Cardinality(in(file, terms)) + Cardinality(in(file, titleterms))
      valid(file) == \A i \in DOMAIN excluded : {file} \notin {terms[excluded[i]], titleterms[excluded[i]]}
      mapped == UNION {terms[words[i]] \cup titleterms[words[i]] : i \in DOMAIN words}
  IN [file \in {f \in mapped : fileMapLength(f) = Len(searchterms) /\ valid(f)} |->
        IF in(file, titleterms) # {} THEN ScorerTitle ELSE ScorerTerm]

(* String.indexOf > -1 *)
occurs(s, t) == \E i \in 1 .. Len(t) - Len(s) + 1 : SubSeq(t, i, i + Len(s) - 1) = s

objNameMatch == 11

objPartialMatch == 6

objPrio(prio) == CASE prio = 0 -> 15 [] prio = 1 -> 5 [] prio = 2 -> -5 [] OTHER -> 0

(* performObjectSearch: the objects whose name contains the word, with     *)
(* their scores, when the other words occur in name, type or title.  An    *)
(* object is [prefix, name, type, title, prio].                            *)
performObjectSearch(object_, otherterms, objects) ==
  LET fullname(o) == IF o.prefix = "" THEN o.name ELSE o.prefix \o "." \o o.name
      haystack(o) == toLowerCase(o.prefix \o " " \o o.name \o " " \o o.type \o " " \o o.title)
      matching == {o \in objects : /\ occurs(object_, toLowerCase(fullname(o)))
                                   /\ \A i \in DOMAIN otherterms : occurs(otherterms[i], haystack(o))}
      score(o) == CASE object_ \in {fullname(o), o.name} -> objNameMatch
                    [] object_ \notin {fullname(o), o.name} /\ occurs(object_, o.name) -> objPartialMatch
                    [] OTHER -> 0
  IN {<<o, score(o) + objPrio(o.prio)>> : o \in matching}

(* The second loop of query: each word looked up as an object, the other   *)
(* words required; the results are put together one after the other.       *)
objectResults(objectterms, objects) ==
  [i \in DOMAIN objectterms |-> performObjectSearch(objectterms[i], RemoveAt(objectterms, i), objects)]

(* makeSearchSummary: where the excerpt starts and whether text before and *)
(* after it is announced with dots; found[k] is the position of keyword k  *)
(* in a text of the given length, or -1.                                   *)
makeSearchSummary(length, found) ==
  LET hit == FoldLeft(LAMBDA start, i : IF i > -1 THEN i ELSE start, 0, found)
      start == Max({hit - 120, 0})
  IN [start |-> start, end |-> Min({start + 240, length}), before |-> start > 0, after |-> start + 240 # length]

(***************************************************************************)
(* Calls                                                                   *)
(***************************************************************************)

Spelled(n) == {join(w) : w \in UNION {[1 .. k -> Alphabet] : k \in 0 .. n}}

CallStemWord == \E w \in Spelled(MaxWord) \cup Tokens : Call([fn |-> "stemWord", word |-> w])

CallSplitQuery ==
  \E q \in {join(s) : s \in UNION {[1 .. k -> {"a", "-", " ", "7"}] : k \in 0 .. MaxWord}} :
    Call([fn |-> "splitQuery", query |-> q])

CallQuery ==
  \E words \in UNION {[1 .. k -> Tokens] : k \in 1 .. 2}, mark \in {" ", " -", "."} :
    Call([fn |-> "query", query |-> join(FlattenSeq([i \in DOMAIN words |-> <<mark, words[i]>>]))])

CallTermsSearch ==
  \E terms, titleterms \in [Stems -> SUBSET Files],
     searchterms \in {<<>>} \cup {s \in UNION {[1 .. k -> Stems] : k \in 1 .. Cardinality(Stems)} : IsInjective(s)},
     excluded \in {<<>>} \cup {<<s>> : s \in Stems} :
    Call([fn |-> "performTermsSearch", terms |-> terms, titleterms |-> titleterms,
          searchterms |-> searchterms, excluded |-> excluded])

(* Positions of two keywords in texts around the sizes the excerpt cuts at. *)
CallSummary ==
  \E length \in {1, 120, 239, 240, 241, 400}, k1, k2 \in {-1, 0, 119, 120, 121, 238, 239, 240, 399} :
    k1 < length /\ k2 < length /\ Call([fn |-> "summary", length |-> length, found |-> <<k1, k2>>])

SearchNext == CallStemWord \/ CallSplitQuery \/ CallQuery \/ CallTermsSearch \/ CallSummary

SearchSpec == call = Idle /\ [][SearchNext]_call

(***************************************************************************)
(* Properties                                                              *)
(***************************************************************************)

(* Porter's definitions: a y after a consonant is a vowel, and the measure *)
(* of a word is the number of vowel sequences followed by a consonant.     *)
IsVowel(w) ==
  LET vowel[i \in 0 .. Len(w)] ==
        i > 0 /\ (char(w, i) \in vowels \/ (char(w, i) = "y" /\ i > 1 /\ ~vowel[i - 1]))
  IN vowel

Measure(w) == Cardinality({i \in 1 .. Len(w) - 1 : IsVowel(w)[i] /\ ~IsVowel(w)[i + 1]})

(* The regular expressions the stemmer tests a stem with are Porter's      *)
(* conditions on the measure, for the words it meets them with: an initial *)
(* y has been replaced by Y.                                               *)
MeasureIsPorters ==
  call.fn = "stemWord" /\ call.word # "" /\ char(call.word, 1) # "y" =>
    LET w == call.word
    IN /\ mgr0(w) <=> Measure(w) > 0
       /\ meq1(w) <=> Measure(w) = 1
       /\ mgr1(w) <=> Measure(w) > 1
       /\ s_v(w) <=> \E i \in 1 .. Len(w) : IsVowel(w)[i]

(* stemWord keeps a beginning of the word: a stem is not empty, is not     *)
(* longer than the word, and starts with the word's first letter.          *)
StemKeepsBeginning ==
  call.fn = "stemWord" /\ call.word # "" =>
    LET stem == stemWord(call.word)
    IN Len(stem) \in 1 .. Len(call.word) /\ char(stem, 1) = char(call.word, 1)

(* splitQuery returns the maximal runs of word characters, in order.       *)
SplitIsMaximal ==
  call.fn = "splitQuery" =>
    LET q == call.query
        word(i, j) == \A k \in i .. j : char(q, k) \notin splitChars
        runs == {r \in (1 .. Len(q)) \X (1 .. Len(q)) :
                   /\ r[1] <= r[2] /\ word(r[1], r[2])
                   /\ (r[1] = 1 \/ char(q, r[1] - 1) \in splitChars)
                   /\ (r[2] = Len(q) \/ char(q, r[2] + 1) \in splitChars)}
    IN splitQuery(q) = map(SetToSortSeq(runs, LAMBDA r, s : r[1] < s[1]), LAMBDA r : SubSeq(q, r[1], r[2]))

(* The required stems are distinct, and they are the stems of the words    *)
(* that are highlighted.  (A word with a leading hyphen is required like   *)
(* the others: the hyphen separates words before query looks for it.)      *)
RequiredAreHighlighted ==
  call.fn = "query" =>
    LET Agree(t) == /\ IsInjective(t.searchterms)
                    /\ ToSet(t.searchterms) = {stemWord(w) : w \in ToSet(t.hlterms)}
    IN Agree(queryTerms(call.query))

(* An object with every word of the query in its name, type and title is   *)
(* listed once for each word that occurs in its full name (a query of two  *)
(* such words lists and counts it twice), and no other object is listed.   *)
ObjectListedPerWord ==
  call.fn = "query" =>
    LET objects == {[prefix |-> p, name |-> n, type |-> "class", title |-> "The api", prio |-> 1] :
                      p \in {"", "api"}, n \in Tokens}
        Names(words, lower) ==
          {i \in DOMAIN words : /\ occurs(words[i], lower)
                               /\ \A j \in DOMAIN words : occurs(words[j], lower \o " class the api")}
        Listed(results, o) == {i \in DOMAIN results : \E result \in results[i] : result[1] = o}
        ForEach(words, results) ==
          \A o \in objects : Listed(results, o) = Names(words, toLowerCase(o.prefix \o " " \o o.name))
        Looked(words) == ForEach(words, objectResults(words, objects))
    IN Looked(queryTerms(call.query).objectterms)

(* The pages that have every required stem and none that is excluded. *)
PagesAskedFor(terms, titleterms, required, excluded) ==
  LET has(f, s) == f \in terms[s] \cup titleterms[s]
  IN {f \in Files : /\ required # {}
                    /\ \A s \in required : has(f, s)
                    /\ \A s \in excluded : ~has(f, s)}

(* When no page has a stem both in its text and in its title, and an       *)
(* excluded stem is in one text and one title at most, the result is       *)
(* exactly the pages asked for, and a page whose title has a required stem *)
(* ranks above a page that has them in the text only.                      *)
FoundHasAllTerms ==
  /\ call.fn = "performTermsSearch"
  /\ \A s \in Stems : call.terms[s] \cap call.titleterms[s] = {}
  /\ \A s \in ToSet(call.excluded) : Cardinality(call.terms[s]) <= 1 /\ Cardinality(call.titleterms[s]) <= 1
  => LET result == performTermsSearch(call.searchterms, call.excluded, call.terms, call.titleterms)
         required == ToSet(call.searchterms)
     IN /\ DOMAIN result = PagesAskedFor(call.terms, call.titleterms, required, ToSet(call.excluded))
        /\ \A f \in DOMAIN result : result[f] = ScorerTitle <=> \E s \in required : f \in call.titleterms[s]

(***************************************************************************)
(* The comment in performTermsSearch: "check if all requirements are       *)
(* matched".  A page is in the result when it has every required stem.  It *)
(* does not hold: a page with a stem in its text and in its title counts   *)
(* it twice, so that it is not found for that stem alone, and is found for *)
(* two stems although it has only one.                                     *)
(***************************************************************************)
RequirementsMatched ==
  call.fn = "performTermsSearch" /\ call.excluded = <<>> =>
    DOMAIN performTermsSearch(call.searchterms, <<>>, call.terms, call.titleterms) =
      PagesAskedFor(call.terms, call.titleterms, ToSet(call.searchterms), {})

(* The excerpt shows the beginning of the last keyword that was found, is  *)
(* never empty, and says truly whether text was left out before it.  (The  *)
(* dots behind it also appear where the text has ended.)                   *)
SummaryShowsKeyword ==
  call.fn = "summary" =>
    LET s == makeSearchSummary(call.length, call.found)
        hits == {k \in 1 .. 2 : call.found[k] > -1}
    IN /\ s.start < s.end /\ s.end <= call.length
       /\ s.before <=> s.start > 0
       /\ s.end < call.length => s.after
       /\ hits # {} => call.found[Max(hits)] \in s.start .. s.end - 1

(* A search returns what it should of the index, from the query's text to  *)
(* the excerpt: words are split and stemmed as Porter says, the objects    *)
(* found and, where no page counts a word twice, the pages are those that  *)
(* have every word, and the excerpt shows one.                             *)
SearchExact ==
  /\ MeasureIsPorters
  /\ StemKeepsBeginning
  /\ SplitIsMaximal
  /\ RequiredAreHighlighted
  /\ ObjectListedPerWord
  /\ FoundHasAllTerms
  /\ SummaryShowsKeyword
=============================================================================
