--------------------------- MODULE MCWireFormat ---------------------------
(***************************************************************************)
(* Messages for TLC: the program's own, in small, and those at the edges:  *)
(* empty lists, empty names, zero, numbers with their top bit set.         *)
(***************************************************************************)
EXTENDS WireFormat

List(n) == [names |-> n, letters |-> 3 * n, empty |-> FALSE]
OneEmptyName == [names |-> 1, letters |-> 0, empty |-> TRUE]
LastNameEmpty == [names |-> 2, letters |-> 3, empty |-> TRUE]

\* KEXINIT with list k in the first or the last place.
Lists == {List(0), List(2), OneEmptyName, LastNameEmpty}
MCKexInit ==
  {<<0, 0>> \o <<a>> \o [k \in 1 .. 8 |-> List(k % 2)] \o <<b>> \o <<0, 0>> : a \in Lists, b \in Lists}

Numbers == {[bytes |-> 0, high |-> FALSE], [bytes |-> 1, high |-> FALSE],
            [bytes |-> 1, high |-> TRUE], [bytes |-> 4, high |-> TRUE]}
Strings == {0, 1, 5}

MCSamples ==
  [KEXINIT     |-> MCKexInit,
   NEWKEYS     |-> {<<0>>},
   DISCONNECT  |-> {<<0, 0, a, b>> : a \in Strings, b \in Strings},
   KEXDH_INIT  |-> {<<0, e>> : e \in Numbers},
   KEXDH_REPLY |-> {<<0, k, f, s>> : k \in Strings, f \in Numbers, s \in Strings},
   KEY_BLOB    |-> {<<11, 32>>},
   SIGNATURE_BLOB |-> {<<11, 64>>}]
=============================================================================
