------------------------------- MODULE Addresses -------------------------------
(* Extents and address slices (inc/extent.h, inc/address.h, inc/msl/bits.h),  *)
(* and the places of DRAM made of them (DRAM_ADDRESS_MAPPING): a word is the  *)
(* set of its bits that are 1, so that & is \cap and | is \cup.  Extents of   *)
(* static and dynamic size are the same here: what one refuses at compile     *)
(* time the other refuses by an exception, in a state that is never reached.  *)
EXTENDS Integers, FiniteSets, FiniteSetsExt

CONSTANTS
  bits,                      \* of the underlying type (64 in the code)
  Other,                     \* the slices that are spliced with
  channel_bytes, channels, bankgroups, banks, columns, ranks, rows, pref_size

VARIABLE slice               \* an address slice, after any operations

Bit == 0..bits - 1
Extent == {e \in [upper : 0..bits, lower : 0..bits] : e.lower <= e.upper}
Full == [upper |-> bits, lower |-> 0]

size(ext) == ext.upper - ext.lower

(* The shifts of a word; what leaves it is lost. *)
ShiftLeft(word, n) == {b + n : b \in word} \cap Bit
ShiftRight(word, n) == {b - n : b \in word} \cap Bit

bitmask(begin, end) == end .. begin - 1

(* lg2: the position of the highest bit, 0 of 0: the powers of 2 up to n. *)
lg2(n) == Cardinality({k \in 1..n : 2^k <= n})

splice_bits(upper, lower, bits_upper, bits_lower) ==
  (upper \ bitmask(bits_upper, bits_lower)) \cup (lower \cap bitmask(bits_upper, bits_lower))

extent_union(lhs, rhs) ==
  [upper |-> Max({lhs.upper, rhs.upper}), lower |-> Min({lhs.lower, rhs.lower})]

(* What reaches out of the superextent is cut off. *)
relative_extent_absolute(superextent, subextent) ==               \* mutant
  [upper |-> Min({subextent.upper, superextent.upper}),
   lower |-> Min({subextent.lower, superextent.upper})]
relative_extent(superextent, subextent) ==
  [upper |-> superextent.lower + Min({subextent.upper, size(superextent)}),
   lower |-> superextent.lower + Min({subextent.lower, size(superextent)})]

translate(value, from, to) ==
  IF from.lower <= to.lower THEN ShiftRight(value, to.lower - from.lower)
                            ELSE ShiftLeft(value, from.lower - to.lower)

Down(ext, shamt) == [upper |-> ext.upper - shamt, lower |-> ext.lower - shamt]

-----------------------------------------------------------------------------
(* address_slice *)

Make(ext, value) == [extent |-> ext, value |-> value \cap bitmask(size(ext), 0)]

(* The constructor from a slice of another extent. *)
Convert(ext, val) ==
  [extent |-> ext,
   value |-> ShiftRight(ShiftLeft(val.value, val.extent.lower)
                          \cap bitmask(ext.upper, ext.lower), ext.lower)]

(* slice, with slice_upper and slice_lower, the halves of split. *)
Slice(s, subextent) ==
  Make(relative_extent(s.extent, subextent), ShiftRight(s.value, subextent.lower))

slice_upper(s, new_lower) == Slice(s, [upper |-> bits, lower |-> new_lower])
slice_lower(s, new_upper) == Slice(s, [upper |-> new_upper, lower |-> 0])

(* operator+=, in the domain of the slice and modulo its size. *)
Number(word) == FoldSet(LAMBDA b, n : n + 2^b, 0, word)
Plus(s, delta) ==
  LET sum == (Number(s.value) + delta) % 2^bits
  IN Make(s.extent, {b \in Bit : (sum \div 2^b) % 2 = 1})

(* splice of two (splice_fold_wrapper::operator+): the later of two slices    *)
(* on top of the earlier.                                                  *)
Splice(lhs, rhs) ==
  LET extent == extent_union(lhs.extent, rhs.extent)
      window == Down(rhs.extent, extent.lower)
  IN Make(extent, splice_bits(translate(lhs.value, lhs.extent, extent),
                              translate(rhs.value, rhs.extent, extent),
                              window.upper, window.lower))

-----------------------------------------------------------------------------
(* DRAM_ADDRESS_MAPPING *)

(* make_slicer with make_contiguous_extent_set: the fields of an address, the *)
(* offset lowest, each as wide as it takes and above the one before it.    *)
Widths == [offset |-> lg2(channel_bytes * pref_size), channel |-> lg2(channels),
           bankgroup |-> lg2(bankgroups), bank |-> lg2(banks),
           column |-> lg2(columns \div pref_size), rank |-> lg2(ranks), row |-> lg2(rows)]
address_slicer ==
  LET Above(ext, width) == [upper |-> ext.upper + width, lower |-> ext.upper]
      offset == [upper |-> Widths.offset, lower |-> 0]
      channel == Above(offset, Widths.channel)
      bankgroup == Above(channel, Widths.bankgroup)
      bank == Above(bankgroup, Widths.bank)
      column == Above(bank, Widths.column)
      rank == Above(column, Widths.rank)
  IN [offset |-> offset, channel |-> channel, bankgroup |-> bankgroup, bank |-> bank,
      column |-> column, rank |-> rank, row |-> Above(rank, Widths.row)]

Field(f, address) == Convert(address_slicer[f], Make(Full, address)).value

swizzle_bits_over(address, segment_size, segment_offset, field, field_bits) == \* mutant
  LET row == Convert(address_slicer["row"], Make(Full, address))
  IN Slice(row, [upper |-> segment_offset + field_bits, lower |-> segment_offset]).value

(* swizzle_bits: the segments of the row are xor'd into the field.  With a    *)
(* segment of no bits the loop of the code does not end.                   *)
swizzle_bits(address, segment_size, segment_offset, field, field_bits) ==
  LET row == Convert(address_slicer["row"], Make(Full, address))
      Segment(low) == Slice(Slice(row, [upper |-> low + segment_size, lower |-> low]),
                            [upper |-> segment_offset + field_bits, lower |-> segment_offset])
      lows == {low \in 0..bits : /\ low % segment_size = 0
                                 /\ low + segment_size <= row.extent.upper}
      Times(b) == Cardinality({low \in lows : b \in Segment(low).value})
                    + (IF b \in field THEN 1 ELSE 0)
  IN {b \in Bit : Times(b) % 2 = 1}

get_channel(address) ==
  swizzle_bits(address, 1, 0, Field("channel", address), Widths.channel)
get_bankgroup(address) ==
  swizzle_bits(address, Widths.bankgroup + Widths.bank, 0, Field("bankgroup", address),
               Widths.bankgroup)
get_bank(address) ==
  swizzle_bits(address, Widths.bankgroup + Widths.bank, Widths.bankgroup,
               Field("bank", address), Widths.bank)

(* Where the memory controller and its channels take a block to be. *)
Place == [address \in SUBSET Bit |->
            <<get_channel(address), get_bankgroup(address), get_bank(address),
              Field("column", address), Field("rank", address), Field("row", address)>>]

-----------------------------------------------------------------------------
Init == \E value \in SUBSET Bit : slice = Make(Full, value)

Converted == \E ext \in Extent : slice' = Convert(ext, slice)
Sliced == \E sub \in Extent : slice' = Slice(slice, sub)
Split == \E loc \in 0..bits : slice' \in {slice_upper(slice, loc), slice_lower(slice, loc)}
Spliced == \E other \in Other : slice' = Splice(slice, other)
Stepped == \E delta \in {1, -1} : slice' = Plus(slice, delta)

Next == Converted \/ Sliced \/ Split \/ Spliced \/ Stepped

Spec == Init /\ [][Next]_slice

-----------------------------------------------------------------------------
(* The bits of a slice where they stand in the address. *)
At(s) == ShiftLeft(s.value, s.extent.lower)

(* Whatever is done to a slice, it is a window on the bits of an address     *)
(* (address.h: "a generalization of a subset of address bits"): no operation *)
(* moves a bit, lets one from outside in, or loses one that is inside.     *)
View == INSTANCE AddressWindow WITH
  Laid <- {[upper |-> s.extent.upper, lower |-> s.extent.lower, ones |-> At(s)] : s \in Other},
  upper <- slice.extent.upper, lower <- slice.extent.lower, ones <- At(slice)
WindowSpec == View!Spec

(* DRAM_ADDRESS_MAPPING hashes channels and banks with the row: no two       *)
(* blocks come to the same place of the memory.                            *)
BlocksApart ==
  slice.extent = Full =>
    \A address \in SUBSET Bit :
      Place[address] = Place[slice.value] =>
        address \ bitmask(address_slicer["offset"].upper, 0)
          = slice.value \ bitmask(address_slicer["offset"].upper, 0)
=============================================================================
