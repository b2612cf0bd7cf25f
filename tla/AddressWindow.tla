----------------------------- MODULE AddressWindow -----------------------------
(* What an address slice is (inc/address.h): a window on the bits of an       *)
(* address.  The bits in it stand where they stand in the address; a bit that *)
(* the window has been without is 0.  Slicing and converting move the window, *)
(* splicing lays another window over it.                                      *)
EXTENDS Integers

CONSTANTS bits,   \* the width of an address
          Laid    \* the windows that may be laid over this one

VARIABLES upper, lower, \* the places it covers: from lower on, below upper
          ones          \* those of them where the bit is 1

Places(up, low) == low .. up - 1
Window == Places(upper, lower)

Init == upper = bits /\ lower = 0 /\ ones \in SUBSET Window

(* To anywhere else on the same bits: a conversion, or a part (slice). *)
Move ==
  \E up, low \in 0..bits :
    /\ low <= up /\ upper' = up /\ lower' = low
    /\ ones' = ones \cap Places(up, low)

(* The bits of the other come on top; the result reaches over both. *)
Lay ==
  \E other \in Laid :
    /\ upper' = IF upper < other.upper THEN other.upper ELSE upper
    /\ lower' = IF lower < other.lower THEN lower ELSE other.lower
    /\ ones' = (ones \ Places(other.upper, other.lower)) \cup other.ones

(* To the next number: the lowest 0 becomes 1 and the ones below it 0; after *)
(* the last comes the first.                                               *)
Successor(from, to) ==
  \/ \E p \in Window \ from : /\ \A q \in Window : q < p => q \in from
                              /\ to = {q \in from : p < q} \cup {p}
  \/ from = Window /\ to = {}

Count ==
  /\ UNCHANGED <<upper, lower>>
  /\ ones' \in SUBSET Window
  /\ Successor(ones, ones') \/ Successor(ones', ones)

Next == Move \/ Lay \/ Count

Spec == Init /\ [][Next]_<<upper, lower, ones>>
=============================================================================
