------------------------------- MODULE MCPmm -------------------------------
EXTENDS PmmRefinement, TLC

CONSTANTS c1, c2

MCClients == {c1, c2}

Symmetric == Permutations(MCClients)

Ram(base, len) == [base |-> base, length |-> len, mem_type |-> 1]
Firmware(base, len, type) == [base |-> base, length |-> len, mem_type |-> type]

\* Four frames of two bytes in two bitmap words.  Entries that overlap, that
\* start or end inside a frame, that straddle the top of the map or lie above
\* it, and entries of every kind pmm::init tells apart.
SmallMaps == {
  <<Ram(2, 6)>>,
  <<Ram(1, 6), Firmware(7, 2, 4), Ram(9, 3)>>,
  <<Ram(0, 5), Ram(1, 5), Firmware(6, 0, 2), Ram(7, 4)>>}

SmallRanges == {<<0, 1>>, <<3, 5>>, <<4, 4>>}

\* Six frames of one byte: room for runs on both sides of the cursor.
FlatMap == {<<Ram(0, 6)>>}

============================================================================
