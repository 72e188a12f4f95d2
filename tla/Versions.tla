------------------------------ MODULE Versions ------------------------------
(***************************************************************************)
(* version_compare (bls_parse.rs), the comparison that orders kernels in   *)
(* the menu: the code's loop over two byte strings, one action for each    *)
(* way round the loop, and the order it is meant to compute, defined on    *)
(* the words of a version string.                                          *)
(***************************************************************************)
EXTENDS Integers, Sequences, TLC

CONSTANT VersionStrings  \* the version strings compared

VARIABLES
  a, b,    \* the two strings, sequences of one-character strings
  ai, bi,  \* the positions reached, from 1
  verdict  \* unknown, Less, Equal, Greater

versionVars == <<a, b, ai, bi, verdict>>

Digits == {"0", "1", "2", "3", "4", "5", "6", "7", "8", "9"}
Letters == {"A", "B", "a", "b"}  \* bound: the letters used
Rank == [A |-> 1, B |-> 2, a |-> 3, b |-> 4]
Value ==
  [c \in Digits |-> CHOOSE n \in 0 .. 9 :
     c = <<"0", "1", "2", "3", "4", "5", "6", "7", "8", "9">>[n + 1]]

\* is_version_char.
IsVersionChar(c) == c \in Digits \cup Letters \cup {"~", "^", "-", "."}

\* The first position from i on whose character fails the test, or the end.
SkipWhile(s, i, Test(_)) ==
  CHOOSE j \in i .. Len(s) + 1 :
    /\ \A k \in i .. j - 1 : Test(s[k])
    /\ j <= Len(s) => ~Test(s[j])

IsDigit(c) == c \in Digits
IsLetter(c) == c \in Letters
IsZero(c) == c = "0"
NotVersionChar(c) == ~IsVersionChar(c)

VersionInit ==
  /\ a \in VersionStrings /\ b \in VersionStrings
  /\ ai = 1 /\ bi = 1 /\ verdict = "unknown"

\* Where the loop body looks after skipping the separators that do not count.
AtA == SkipWhile(a, ai, NotVersionChar)
AtB == SkipWhile(b, bi, NotVersionChar)
EndA == AtA > Len(a)
EndB == AtB > Len(b)
HereA(c) == ~EndA /\ a[AtA] = c
HereB(c) == ~EndB /\ b[AtB] = c

Return(v) == verdict' = v /\ UNCHANGED <<a, b, ai, bi>>
GoOn(i, j) == ai' = i /\ bi' = j /\ UNCHANGED <<a, b, verdict>>

\* Seeded defect: two equal marks are not passed.
MarkStays(c) ==
  /\ HereA(c) \/ HereB(c)
  /\ IF ~HereA(c) THEN Return("Greater")
     ELSE IF ~HereB(c) THEN Return("Less")
     ELSE GoOn(AtA, AtB)

\* A mark that sorts below whatever else stands there.
Mark(c) ==
  /\ HereA(c) \/ HereB(c)
  /\ IF ~HereA(c) THEN Return("Greater")
     ELSE IF ~HereB(c) THEN Return("Less")
     ELSE GoOn(AtA + 1, AtB + 1)

Tilde == verdict = "unknown" /\ Mark("~")

NoTilde == verdict = "unknown" /\ ~HereA("~") /\ ~HereB("~")

End ==
  /\ NoTilde /\ (EndA \/ EndB)
  /\ Return(IF EndA /\ EndB THEN "Equal" ELSE IF EndA THEN "Less" ELSE "Greater")

\* Between two words: neither string is at its end.
Between == NoTilde /\ ~EndA /\ ~EndB

Dash == Between /\ Mark("-")
Caret == Between /\ ~HereA("-") /\ ~HereB("-") /\ Mark("^")
Dot ==
  /\ Between /\ \A c \in {"-", "^"} : ~HereA(c) /\ ~HereB(c)
  /\ Mark(".")

Word == Between /\ \A c \in {"-", "^", "."} : ~HereA(c) /\ ~HereB(c)

CompareLengths(m, n) == IF m < n THEN "Less" ELSE "Greater"

\* Compares two spans of the same length at their first difference.
FirstDifference(i, j, len, Order) ==
  LET d == CHOOSE k \in 0 .. len - 1 :
             /\ a[i + k] # b[j + k]
             /\ \A m \in 0 .. k - 1 : a[i + m] = b[j + m]
  IN  IF Order[a[i + d]] < Order[b[j + d]] THEN "Less" ELSE "Greater"

\* Seeded defect: leading zeros are counted.
NumericZeros ==
  LET m == SkipWhile(a, AtA, IsDigit)
      n == SkipWhile(b, AtB, IsDigit)
  IN  /\ Word /\ (IsDigit(a[AtA]) \/ IsDigit(b[AtB]))
      /\ IF m - AtA # n - AtB THEN Return(CompareLengths(m - AtA, n - AtB))
         ELSE IF \E k \in 0 .. m - AtA - 1 : a[AtA + k] # b[AtB + k]
              THEN Return(FirstDifference(AtA, AtB, m - AtA, Value))
              ELSE GoOn(m, n)

\* Leading zeros do not count, the longer number is the larger, numbers of a
\* length differ at their first different digit.  Against a letter, a number is
\* compared with no digits at all.
Numeric ==
  LET i == SkipWhile(a, AtA, IsZero)
      j == SkipWhile(b, AtB, IsZero)
      m == SkipWhile(a, i, IsDigit)
      n == SkipWhile(b, j, IsDigit)
  IN  /\ Word /\ (IsDigit(a[AtA]) \/ IsDigit(b[AtB]))
      /\ IF m - i # n - j THEN Return(CompareLengths(m - i, n - j))
         ELSE IF \E k \in 0 .. m - i - 1 : a[i + k] # b[j + k]
              THEN Return(FirstDifference(i, j, m - i, Value))
              ELSE GoOn(m, n)

\* Spans of letters, compared as byte slices: a prefix sorts first.
Alphabetic ==
  LET m == SkipWhile(a, AtA, IsLetter)
      n == SkipWhile(b, AtB, IsLetter)
      len == IF m - AtA < n - AtB THEN m - AtA ELSE n - AtB
  IN  /\ Word /\ ~IsDigit(a[AtA]) /\ ~IsDigit(b[AtB])
      /\ IF \E k \in 0 .. len - 1 : a[AtA + k] # b[AtB + k]
         THEN Return(FirstDifference(AtA, AtB, len, Rank))
         ELSE IF m - AtA # n - AtB THEN Return(CompareLengths(m - AtA, n - AtB))
              ELSE GoOn(m, n)

VersionNext == Tilde \/ End \/ Dash \/ Caret \/ Dot \/ Numeric \/ Alphabetic

\* The loop runs until it returns.
VersionFairness == WF_versionVars(VersionNext)
-----------------------------------------------------------------------------
(* The order meant *)

\* The words of a version: a mark, a number without leading zeros, or a span of
\* letters.  The number 0 counts for nothing in front of letters.
RECURSIVE Words(_, _)
Words(s, i) ==
  LET p == SkipWhile(s, i, NotVersionChar)
  IN  IF p > Len(s) THEN <<>>
      ELSE IF IsDigit(s[p])
           THEN LET q == SkipWhile(s, p, IsDigit)
                    z == SkipWhile(s, p, IsZero)
                    rest == Words(s, q)
                IN  IF z = q /\ rest # <<>> /\ Head(rest).kind = "letters"
                    THEN rest
                    ELSE <<[kind |-> IF z = q THEN "zero" ELSE "number",
                            text |-> SubSeq(s, z, q - 1)]>> \o rest
      ELSE IF IsLetter(s[p])
           THEN LET q == SkipWhile(s, p, IsLetter)
                IN  <<[kind |-> "letters", text |-> SubSeq(s, p, q - 1)]>> \o Words(s, q)
      ELSE <<[kind |-> s[p], text |-> <<>>]>> \o Words(s, p + 1)

\* What sorts below what, at one place of two versions.
KindRank ==
  ("~" :> 0) @@ ("end" :> 1) @@ ("-" :> 2) @@ ("^" :> 3) @@ ("." :> 4)
  @@ ("zero" :> 5) @@ ("letters" :> 6) @@ ("number" :> 7)

RECURSIVE TextBefore(_, _, _)
TextBefore(s, t, Order) ==
  IF s = <<>> \/ t = <<>> THEN s = <<>> /\ t # <<>>
  ELSE IF Head(s) = Head(t) THEN TextBefore(Tail(s), Tail(t), Order)
  ELSE Order[Head(s)] < Order[Head(t)]

WordBefore(v, w) ==
  \/ KindRank[v.kind] < KindRank[w.kind]
  \/ v.kind = "letters" /\ w.kind = "letters" /\ TextBefore(v.text, w.text, Rank)
  \/ /\ v.kind = "number" /\ w.kind = "number"
     /\ \/ Len(v.text) < Len(w.text)
        \/ Len(v.text) = Len(w.text) /\ TextBefore(v.text, w.text, Value)

\* Lexicographic, with a word for the end of each version; a zero is passed
\* over against letters.
RECURSIVE Before(_, _)
Before(v, w) ==
  LET first(x) == IF x = <<>> THEN [kind |-> "end", text |-> <<>>] ELSE Head(x)
  IN  IF v = <<>> /\ w = <<>> THEN FALSE
      ELSE IF first(v) = first(w) THEN Before(Tail(v), Tail(w))
      ELSE IF first(v).kind = "zero" /\ first(w).kind = "letters" THEN Before(Tail(v), w)
      ELSE IF first(v).kind = "letters" /\ first(w).kind = "zero" THEN Before(v, Tail(w))
      ELSE WordBefore(first(v), first(w))
-----------------------------------------------------------------------------
(* Properties *)

\* version_compare returns the order of the versions' words, for every pair of
\* strings, whichever way round the loop the two take.
ComparesWords ==
  LET v == Words(a, 1)
      w == Words(b, 1)
  IN  verdict # "unknown" =>
        verdict = IF Before(v, w) THEN "Less" ELSE IF Before(w, v) THEN "Greater" ELSE "Equal"

\* The verdicts form an order, as sorting by version needs: what is newer than
\* the newer of two versions is newer than the older one, and versions that
\* compare equal compare alike with every third one.  Numbers against letters,
\* and zeros, make this doubtful.
VersionsOrdered ==
  \A c \in VersionStrings :
    LET v == Words(a, 1)
        w == Words(b, 1)
        x == Words(c, 1)
    IN  /\ verdict = "Less" /\ ~Before(x, w) => Before(v, x)
        /\ verdict = "Equal" => (Before(v, x) <=> Before(w, x))

\* Sorting by version_compare is sorting by version: the verdict is that of the
\* order meant, and it is an order.
VersionOrder == ComparesWords /\ VersionsOrdered

\* The loop ends, whatever the strings: each time round takes at least one byte
\* of one of them, so that a malformed version cannot hang the boot.
ComparisonEnds == <>(verdict # "unknown")
=============================================================================
