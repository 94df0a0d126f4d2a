----------------------------- MODULE RslBitfield -----------------------------
(***************************************************************************)
(* The RSL attribute bitfield codec of GRAM5JobPacket.get_rsl_bitfield, as *)
(* pure operators.  An attribute's id in gram5_rsl_attributes is its bit   *)
(* position.  A bitfield is built from the job manager's standard bitfield  *)
(* (field 1) by OR-ing in 2**id of every extension name of field 4, and is  *)
(* decoded into the names whose bit is set, over the attribute dictionary.  *)
(***************************************************************************)
EXTENDS Integers, Sequences, Bitwise
LOCAL INSTANCE SequencesExt

\* Mutant: the bit is added instead of OR-ed in.
AddBitPlus(b, id) == b + 2^id

\* bitfield = bitfield | (2**attr_index)
AddBit(b, id) == b | 2^id

\* The loop over the extension names: each name's id comes from the
\* attribute dictionary index (get_rsl_attribute_index).
Encode(b, names, index) ==
    FoldLeft(LAMBDA acc, n : AddBit(acc, index[n]), b, names)

\* Mutant: the bit of an attribute is tested as bitfield & id.
BitfieldNamesNoPow(b, attrs) == {n \in DOMAIN attrs : (b & attrs[n]) # 0}

\* The names of every attribute in the dictionary whose bit is set.
BitfieldNames(b, attrs) ==
    {n \in DOMAIN attrs : (b & 2^attrs[n]) # 0}

=============================================================================
