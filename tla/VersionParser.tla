---------------------------- MODULE VersionParser ----------------------------
(***************************************************************************)
(* GRAM5Packet.__parse_version: field D matched against version_re,        *)
(*                                                                         *)
(*   ([0-9]+)\.([0-9]+) \(([^,]{0,}), ([0-9]+)-([0-9]+)\)( \[([^\]]{0,})\])? *)
(*                                                                         *)
(* with re.match, i.e. anchored at the start and not at the end.  A string *)
(* is a sequence of one-character strings.  Each group of the expression   *)
(* has only one way to match: a digit run is followed by a non-digit, and  *)
(* [^,] and [^\]] runs stop at the first , and ], so the scan below, which *)
(* takes every run as far as it goes, finds the match the regex finds.    *)
(***************************************************************************)
EXTENDS Integers, Sequences

CONSTANT None

DigitChars == <<"0", "1", "2", "3", "4", "5", "6", "7", "8", "9">>
Digits == {DigitChars[i] : i \in 1..10}

\* The value of a digit character.
DigitValue(c) == CHOOSE d \in 0..9 : DigitChars[d + 1] = c

\* The least element of a non-empty set of positions.
First(I) == CHOOSE i \in I : \A j \in I : i =< j

\* The literal lit occurs in s at position p.
Lit(s, p, lit) ==
    /\ p >= 1 /\ p + Len(lit) - 1 =< Len(s)
    /\ SubSeq(s, p, p + Len(lit) - 1) = lit

\* A digit run from p: the first position at or after p that is not a digit.
DigitsEnd(s, p) ==
    LET I == {i \in p..Len(s) : s[i] \notin Digits}
    IN IF I = {} THEN Len(s) + 1 ELSE First(I)

\* A run of characters other than c from p, ended by c: the position of
\* the first c at or after p, 0 if there is none.
UntilChar(s, p, c) ==
    LET I == {i \in p..Len(s) : s[i] = c}
    IN IF I = {} THEN 0 ELSE First(I)

RECURSIVE Number(_)
\* int() of a digit run.
Number(ds) ==
    IF ds = <<>> THEN 0
    ELSE 10 * Number(SubSeq(ds, 1, Len(ds) - 1)) + DigitValue(ds[Len(ds)])

(***************************************************************************)
(* Where the groups of version_re end when s matches: e1 ends group 1, e2  *)
(* group 2, c is the ',' after group 3, e4 and e5 end groups 4 and 5, and  *)
(* b is the ']' that closes the optional group 7.                          *)
(***************************************************************************)
Scan(s) ==
    LET e1 == DigitsEnd(s, 1)
        e2 == DigitsEnd(s, e1 + 1)
        c  == UntilChar(s, e2 + 2, ",")
        e4 == DigitsEnd(s, c + 2)
        e5 == DigitsEnd(s, e4 + 1)
    IN [e1 |-> e1, e2 |-> e2, c |-> c, e4 |-> e4, e5 |-> e5,
        b |-> UntilChar(s, e5 + 3, "]")]

\* Mutant: the expression lacks the \) after the branch.
MatchesNoClose(s, g) ==
    /\ g.e1 > 1 /\ Lit(s, g.e1, <<".">>)
    /\ g.e2 > g.e1 + 1 /\ Lit(s, g.e2, <<" ", "(">>)
    /\ g.c # 0 /\ Lit(s, g.c, <<",", " ">>)
    /\ g.e4 > g.c + 2 /\ Lit(s, g.e4, <<"-">>)
    /\ g.e5 > g.e4 + 1

\* version_re.match(s) is not None: every mandatory part is where it must
\* be, and every digit group is non-empty.
Matches(s, g) ==
    /\ g.e1 > 1 /\ Lit(s, g.e1, <<".">>)
    /\ g.e2 > g.e1 + 1 /\ Lit(s, g.e2, <<" ", "(">>)
    /\ g.c # 0 /\ Lit(s, g.c, <<",", " ">>)
    /\ g.e4 > g.c + 2 /\ Lit(s, g.e4, <<"-">>)
    /\ g.e5 > g.e4 + 1 /\ Lit(s, g.e5, <<")">>)

\* Mutant: the distro is taken from group 6, brackets included.
DistroGroup6(s, g) ==
    IF Lit(s, g.e5 + 1, <<" ", "[">>) /\ g.b # 0
    THEN SubSeq(s, g.e5 + 1, g.b) ELSE None

\* matches.group(7): None unless " [" follows and a ']' closes it.
Distro(s, g) ==
    IF Lit(s, g.e5 + 1, <<" ", "[">>) /\ g.b # 0
    THEN SubSeq(s, g.e5 + 3, g.b - 1) ELSE None

\* The version tuple (major, minor, flavor, dirt_timestamp, dirt_branch,
\* distro_string), or None when field D is absent or does not match.
ParseVersion(s) ==
    IF s = None THEN None
    ELSE LET g == Scan(s) IN
         IF ~Matches(s, g) THEN None
         ELSE <<Number(SubSeq(s, 1, g.e1 - 1)),
                Number(SubSeq(s, g.e1 + 1, g.e2 - 1)),
                SubSeq(s, g.e2 + 2, g.c - 1),
                Number(SubSeq(s, g.c + 2, g.e4 - 1)),
                Number(SubSeq(s, g.e4 + 1, g.e5 - 1)),
                Distro(s, g)>>

=============================================================================
