----------------------------- MODULE SynCookie -----------------------------
(***************************************************************************)
(* The SYN cookie both tiers compile from blackwall-cookie.  The keyed hash *)
(* of the connection, the slot and the MSS index is modelled as injective: *)
(* a cookie is the record of what it was made from.                        *)
(***************************************************************************)
EXTENDS Integers, Sequences

CONSTANTS Slot,        \* ticks in one slot of the cookie clock (64 s)
          MssTable     \* MSS_TABLE, smallest first

ASSUME CookieAssumption == Slot \in Nat \ {0}

SlotOf(now) == now \div Slot

\* The largest table entry not above the client's MSS, else the smallest.
mss_index_for(client_mss) ==
    LET fit == {i \in DOMAIN MssTable : MssTable[i] <= client_mss}
    IN  IF fit = {} THEN 1 ELSE CHOOSE i \in fit : \A j \in fit : i >= j

cookie_for_slot(key, tuple, mss, t) == [key |-> key, tuple |-> tuple, mss |-> mss, slot |-> t]

make_cookie(key, tuple, client_mss, now) ==
    cookie_for_slot(key, tuple, mss_index_for(client_mss), SlotOf(now))

\* The cookie of the current slot or of the one before.
check_cookie(key, tuple, cookie, now) ==
    \E t \in {SlotOf(now), SlotOf(now) - 1} :
        cookie = cookie_for_slot(key, tuple, cookie.mss, t)
=============================================================================
