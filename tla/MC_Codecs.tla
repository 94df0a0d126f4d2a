------------------------------ MODULE MC_Codecs ------------------------------
(***************************************************************************)
(* The two conversions of a packet's fields, checked against reference     *)
(* definitions over bounded inputs:                                        *)
(*  - the RSL bitfield codec of RslBitfield, against arithmetic, over every *)
(*    standard bitfield of four bits and every list of at most three names  *)
(*    (repeated and standard names included: field 4 is whatever the job   *)
(*    manager sent);                                                       *)
(*  - __parse_version of VersionParser, against the grammar of the version  *)
(*    field written as a formatter, over a set of version tuples whose      *)
(*    flavors and distros use the characters the expression treats         *)
(*    specially, each followed by one of a few suffixes.                   *)
(* The input is chosen in the initial state and never changes.             *)
(***************************************************************************)
EXTENDS RslBitfield, VersionParser, FiniteSets, TLC
LOCAL INSTANCE FiniteSetsExt
LOCAL INSTANCE SequencesExt

\* The attribute dictionary: name -> id (bit position).
Index == ("count" :> 0) @@ ("queue" :> 1) @@ ("ext1" :> 2) @@ ("ext2" :> 3)

MaxNames == 3

RslInputs == [base : 0..15,
              names : UNION {[1..l -> DOMAIN Index] : l \in 0..MaxNames}]

Texts == {<<>>, <<"g">>, <<"g", " ", "(">>, <<"4", ".", "2">>, <<")", "[">>}

\* Version tuples whose flavor has no ',' and whose distro has no ']'.
Versions == {0, 3, 14} \X {2, 40} \X Texts \X {7, 1222134484} \X {78}
                \X (Texts \cup {None})

\* What may follow the version in field D.
Trailers == {<<>>, <<"x">>, <<" ", "[", "G">>}

VersionInputs == [v : Versions, suffix : Trailers]

VARIABLE in

Init == in \in RslInputs \cup VersionInputs

Spec == Init /\ [][UNCHANGED in]_in

IsRsl == "base" \in DOMAIN in

-----------------------------------------------------------------------------
(* The RSL bitfield codec                                                  *)

\* Bit i of v, by division.
BitSet(v, i) == (v \div 2^i) % 2 = 1

\* The reference encoding: the bits of the extension names that the standard
\* bitfield does not have yet, each added once.
EncodeRef(b, ns, index) ==
    b + SumSet({2^i : i \in {index[n] : n \in ToSet(ns)} \ {j \in 0..3 : BitSet(b, j)}})

(***************************************************************************)
(* The bitfield get_rsl_bitfield builds is the standard bitfield with the   *)
(* bit of every extension name set, whatever the order of the names, and    *)
(* however often a name, or a standard attribute, is repeated in field 4.  *)
(***************************************************************************)
EncodeCorrect ==
    IsRsl => Encode(in.base, in.names, Index) = EncodeRef(in.base, in.names, Index)

(***************************************************************************)
(* Decoding the bitfield get_rsl_bitfield builds gives back exactly the     *)
(* standard attributes of field 1 and the extension names of field 4: the   *)
(* stored attribute list of the group is the list the job manager sent     *)
(* (spec, section 8, bitfield canonicalization).                           *)
(***************************************************************************)
DecodeRoundTrip ==
    IsRsl =>
        BitfieldNames(Encode(in.base, in.names, Index), Index)
            = {n \in DOMAIN Index : BitSet(in.base, Index[n])} \cup ToSet(in.names)

-----------------------------------------------------------------------------
(* The version parser                                                      *)

RECURSIVE Decimal(_)
\* The decimal digits of n, as str(n) writes them.
Decimal(n) ==
    LET d == DigitChars[(n % 10) + 1]
    IN IF n < 10 THEN <<d>> ELSE Decimal(n \div 10) \o <<d>>

\* The version string of a version tuple, as the grammar gives it.
Format(t) ==
    Decimal(t[1]) \o <<".">> \o Decimal(t[2]) \o <<" ", "(">> \o t[3]
    \o <<",", " ">> \o Decimal(t[4]) \o <<"-">> \o Decimal(t[5]) \o <<")">>
    \o (IF t[6] = None THEN <<>> ELSE <<" ", "[">> \o t[6] \o <<"]">>)

(***************************************************************************)
(* Version parse round trip (spec, section 8): parsing a well-formed       *)
(* version string gives back its tuple, with the distro absent exactly     *)
(* when the bracket is.                                                    *)
(***************************************************************************)
ParseRoundTrip == ~IsRsl => ParseVersion(Format(in.v)) = in.v

(***************************************************************************)
(* A mismatch gives absent, never a partial parse (spec, section 4.2):     *)
(* every string cut off before the ')' that closes the flavor, timestamp  *)
(* and branch parses to None.                                             *)
(***************************************************************************)
TruncatedAbsent ==
    ~IsRsl =>
        LET m == Format([in.v EXCEPT ![6] = None])
        IN \A n \in 0..Len(m) - 1 : ParseVersion(SubSeq(m, 1, n)) = None

(***************************************************************************)
(* Either the whole field is a version string or the result is absent      *)
(* (spec, section 4.2: no partial parse): a parsed string is exactly the   *)
(* format of what it parsed to.                                            *)
(***************************************************************************)
ParseWholeOrAbsent ==
    ~IsRsl =>
        LET s == Format(in.v) \o in.suffix
        IN ParseVersion(s) # None => Format(ParseVersion(s)) = s

=============================================================================
