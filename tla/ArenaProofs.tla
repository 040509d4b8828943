----------------------------- MODULE ArenaProofs -----------------------------
(***************************************************************************)
(* Proofs that the arena of generated values is safe for every size of     *)
(* memory, every set of roots and every number of side tables: its tables  *)
(* stay exact over any resets, no pointer dangles, and a reset keeps       *)
(* exactly what the roots reach.                                           *)
(***************************************************************************)
EXTENDS Arena, FiniteSetTheorems, SequenceTheorems, WellFoundedInduction, TLAPS

-----------------------------------------------------------------------------
(* Types.  TypeOK says of the generations that they are numbered from 0 to *)
(* Current, which is itself defined from them; that there is a last one is *)
(* what carries over.                                                      *)

BumpTypes == \E n \in Nat : bumps \in [0..n -> SUBSET Addr]

Phases == [at : {"no", "mark", "hook", "drop", "callback"}, hook : 0..NumTables + 1]

MemTypes ==
    /\ tracing \in BOOLEAN /\ serial \in 0..MaxSerial
    /\ table \in [Addr -> Record \cup {NoRecord}]
    /\ live \subseteq Addr /\ reclaimed \subseteq Addr \X Nat

GraphTypes ==
    /\ mem \in [Addr -> Node] /\ global \in [Slots -> Node]
    /\ roots \subseteq Slots /\ pinned \in [Node -> Nat]
    /\ refs \in [Node -> Seq(Node)] /\ allocRefs \in [Serial -> [Addr -> Seq(Node)]]

SideTypes ==
    /\ lengths \in [Addr -> {0} \cup Serial]
    /\ side \in [Table -> [Addr -> {0} \cup Serial]]
    /\ dead \subseteq Addr \X Serial

PhaseTypes ==
    /\ reset \in Phases
    /\ pending \subseteq Node /\ owners \subseteq Node
    /\ budget \in 0..MaxOps

\* Where a reset can be among the release hooks.
HooksInTurn ==
    /\ reset.at = "hook" => reset.hook \in 1..NumTables + 1
    /\ reset.at \in {"drop", "callback"} => reset.hook \in Table

Recorded(b) == b \in Addr /\ table[b] # NoRecord

\* Nothing is recorded before tracing is enabled, and a reset scans recorded
\* allocations only.
RecordsAreTraced ==
    /\ ~tracing => \A b \in Addr : ~Recorded(b)
    /\ \A b \in live : Recorded(b)

MemInv == BumpTypes /\ MemTypes /\ RecordsAreTraced /\ GenerationsBackRecords

LEMMA Constants ==
    /\ MaxAddr \in Nat /\ NumTables \in Nat /\ MaxSerial \in Nat /\ MaxOps \in Nat
    /\ \A size \in Sizes : size \in Nat \ {0}
    /\ \A p \in Slots \cup Boxes : p \in Nat /\ p > MaxAddr
    /\ Addr \subseteq Node /\ Node \subseteq Nat
  <1>1. /\ MaxAddr \in Nat /\ NumTables \in Nat /\ MaxSerial \in Nat /\ MaxOps \in Nat
        /\ \A size \in Sizes : size \in Nat \ {0}
    BY ArenaAssumption
  <1>2. \A p \in Slots \cup Boxes : p \in Nat /\ p > MaxAddr
    BY <1>1, ArenaAssumption
  <1> QED
    BY <1>1, <1>2 DEF Addr, Node, Null

\* The current generation is the last one.
LEMMA CurrentIsLast ==
    ASSUME NEW n \in Nat, bumps \in [0..n -> SUBSET Addr]
    PROVE  Current = n
  <1>1. DOMAIN bumps = 0..n
    OBVIOUS
  <1>2. Cardinality(0..n) = n + 1
    <2>1. 0 \in Int /\ n \in Int
      OBVIOUS
    <2>2. Cardinality(0..n) = IF 0 > n THEN 0 ELSE n - 0 + 1
      BY <2>1, FS_Interval
    <2> QED
      BY <2>2
  <1> QED
    BY <1>1, <1>2 DEF Current

LEMMA TypesOfParts ==
    ASSUME BumpTypes, MemTypes, GraphTypes, SideTypes, PhaseTypes
    PROVE  TypeOK
  <1>1. PICK n \in Nat : bumps \in [0..n -> SUBSET Addr]
    BY DEF BumpTypes
  <1>2. Current = n
    BY <1>1, CurrentIsLast
  <1> QED
    BY <1>1, <1>2
    DEF TypeOK, MemTypes, GraphTypes, SideTypes, PhaseTypes, Phases

-----------------------------------------------------------------------------
(* Addresses and records.                                                  *)

LEMMA RecordOf ==
    ASSUME MemTypes, NEW b, Recorded(b)
    PROVE  /\ b \in Nat /\ b >= 1 /\ b <= MaxAddr
           /\ table[b] \in Record
           /\ table[b].size \in Nat \ {0} /\ table[b].gen \in Nat
           /\ table[b].serial \in Serial
           /\ b \in Span(b)
           /\ \A p \in Nat : p \in Span(b) <=> b <= p /\ p - b < table[b].size
  <1>1. b \in Nat /\ b >= 1 /\ b <= MaxAddr
    BY Constants DEF Recorded, Addr
  <1>2. table[b] \in Record
    BY DEF Recorded, MemTypes
  <1>3. /\ table[b].size \in Nat \ {0} /\ table[b].gen \in Nat
        /\ table[b].serial \in Serial
    BY <1>2 DEF Record
  <1>4. /\ b \in Span(b)
        /\ \A p \in Nat : p \in Span(b) <=> b <= p /\ p - b < table[b].size
    BY <1>1, <1>3 DEF Span
  <1> QED
    BY <1>1, <1>2, <1>3, <1>4

\* A pointer lies within a recorded allocation exactly if it is in its words.
LEMMA WithinIsSpan ==
    ASSUME MemInv, NEW b \in Addr, NEW p \in Nat
    PROVE  Within(b, p) <=> Recorded(b) /\ p \in Span(b)
  <1>1. ASSUME Within(b, p)
        PROVE  Recorded(b) /\ p \in Span(b)
    <2>1. Recorded(b) /\ b <= p /\ p - b < table[b].size
      BY <1>1 DEF Within, Nearest, Recorded
    <2> QED
      BY <2>1, RecordOf DEF MemInv
  <1>2. ASSUME Recorded(b), p \in Span(b)
        PROVE  Within(b, p)
    <2>1. b <= p /\ p - b < table[b].size
      BY <1>2, RecordOf DEF MemInv
    <2>2. ASSUME NEW c \in Addr, table[c] # NoRecord, c <= p, ~(c <= b)
          PROVE  FALSE
      <3>1. /\ b \in Nat /\ c \in Nat /\ table[b].size \in Nat
            /\ c \in Span(c)
            /\ \A q \in Nat : q \in Span(b) <=> b <= q /\ q - b < table[b].size
        BY <1>2, <2>2, RecordOf DEF MemInv, Recorded
      <3>2. c \in Span(b)
        BY <2>1, <2>2, <3>1
      <3>3. Span(b) \cap Span(c) = {}
        BY <1>2, <2>2, <3>1 DEF MemInv, GenerationsBackRecords, Recorded
      <3> QED
        BY <3>1, <3>2, <3>3
    <2> QED
      BY <1>2, <2>1, <2>2 DEF Within, Nearest, Recorded
  <1> QED
    BY <1>1, <1>2

\* An allocation's words are words of the memory, and those of two
\* allocations do not meet.
LEMMA SpanFacts ==
    ASSUME MemInv, NEW b, Recorded(b)
    PROVE  /\ Span(b) \subseteq Addr
           /\ table[b].gen \in DOMAIN bumps
           /\ Span(b) \subseteq bumps[table[b].gen]
           /\ \A c : Recorded(c) /\ b # c => Span(b) \cap Span(c) = {}
  <1>1. /\ table[b].gen \in DOMAIN bumps
        /\ Span(b) \subseteq bumps[table[b].gen]
        /\ \A c : Recorded(c) /\ b # c => Span(b) \cap Span(c) = {}
    BY DEF MemInv, GenerationsBackRecords, Recorded
  <1>2. \A g \in DOMAIN bumps : bumps[g] \subseteq Addr
    BY DEF MemInv, BumpTypes
  <1> QED
    BY <1>1, <1>2

LEMMA WithinIsUnique ==
    ASSUME MemInv, NEW b \in Addr, NEW c \in Addr, NEW p \in Nat,
           Within(b, p), Within(c, p)
    PROVE  b = c
  BY WithinIsSpan, SpanFacts

LEMMA SerialOfWithin ==
    ASSUME MemInv, NEW b \in Addr, NEW p \in Nat, Within(b, p)
    PROVE  p \in Covered /\ SerialOf(p) = table[b].serial
  <1>1. p \in Covered
    BY WithinIsSpan, SpanFacts DEF Covered
  <1>2. (CHOOSE c \in Addr : Within(c, p)) = b
    BY WithinIsUnique
  <1> QED
    BY <1>1, <1>2 DEF SerialOf

\* An allocation that starts at p is the one p points into.
LEMMA SerialOfBase ==
    ASSUME MemInv, NEW p, Recorded(p)
    PROVE  SerialOf(p) = table[p].serial
  <1>1. p \in Addr /\ p \in Nat /\ p \in Span(p)
    BY RecordOf DEF MemInv, Recorded
  <1> QED
    BY <1>1, WithinIsSpan, SerialOfWithin

-----------------------------------------------------------------------------
(* The memory under the records.                                           *)

LEMMA MemInit == Init => MemInv
  <1> SUFFICES ASSUME Init PROVE MemInv
    OBVIOUS
  <1>1. BumpTypes
    <2>1. bumps \in [0..0 -> SUBSET Addr]
      BY DEF Init
    <2> QED
      BY <2>1 DEF BumpTypes
  <1>2. MemTypes
    <2>1. table \in [Addr -> Record \cup {NoRecord}]
      BY DEF Init
    <2>2. serial \in 0..MaxSerial
      BY Constants DEF Init
    <2> QED
      BY <2>1, <2>2 DEF Init, MemTypes
  <1>3. RecordsAreTraced /\ GenerationsBackRecords
    BY DEF Init, RecordsAreTraced, Recorded, GenerationsBackRecords
  <1> QED
    BY <1>1, <1>2, <1>3 DEF MemInv

\* A step that leaves the records and the generations alone.
LEMMA MemUntouched ==
    ASSUME MemInv, UNCHANGED <<bumps, table, serial, reclaimed>>,
           tracing' = tracing \/ tracing' = TRUE,
           live' \subseteq Addr, \A b \in live' : Recorded(b)
    PROVE  MemInv'
  <1>1. MemTypes'
    BY DEF MemInv, MemTypes
  <1>2. RecordsAreTraced'
    BY DEF MemInv, RecordsAreTraced, Recorded
  <1>3. BumpTypes' /\ GenerationsBackRecords'
    BY DEF MemInv, BumpTypes, GenerationsBackRecords, Span
  <1> QED
    BY <1>1, <1>2, <1>3 DEF MemInv

\* What a traced allocation of the words from b on does.
LEMMA TracedAlloc ==
    ASSUME MemInv, NEW b \in Addr, NEW size \in Sizes, Alloc(b, size), tracing
    PROVE  LET words == b .. b + size - 1 IN
           /\ b \in words /\ words \subseteq Unused
           /\ serial' = serial + 1 /\ serial' \in Serial
           /\ table' = [table EXCEPT ![b] =
                          [size |-> size, gen |-> Current, serial |-> serial + 1]]
           /\ mem' = [w \in Addr |-> IF w \in words THEN Null ELSE mem[w]]
           /\ ~Recorded(b)
           /\ Recorded(b)' /\ Span(b)' = words
           /\ \A c : c # b => (Recorded(c)' <=> Recorded(c)) /\ table'[c] = table[c]
                              /\ Span(c)' = Span(c)
           /\ \A c : Recorded(c) => Span(c) \cap words = {}
  <1> DEFINE words == b .. b + size - 1
  <1>1. size \in Nat \ {0} /\ b \in Nat /\ MaxSerial \in Nat
    BY Constants DEF Addr
  <1>2. b \in words /\ words \subseteq Unused
    BY <1>1 DEF Alloc
  <1>3. /\ serial < MaxSerial /\ serial' = serial + 1
        /\ table' = [table EXCEPT ![b] =
                       [size |-> size, gen |-> Current, serial |-> serial + 1]]
        /\ mem' = [w \in Addr |-> IF w \in words THEN Null ELSE mem[w]]
    BY DEF Alloc
  <1>4. serial' \in Serial
    BY <1>1, <1>3 DEF MemInv, MemTypes, Serial
  <1>5. \A c : Recorded(c) => Span(c) \cap words = {}
    BY <1>2, SpanFacts DEF Unused
  <1>6. ~Recorded(b)
    BY <1>2, <1>5, RecordOf DEF MemInv
  <1>7. table'[b] = [size |-> size, gen |-> Current, serial |-> serial + 1]
    BY <1>3 DEF MemInv, MemTypes
  <1>8. Recorded(b)' /\ Span(b)' = words
    BY <1>1, <1>7 DEF Recorded, NoRecord, Span
  <1>9. \A c : c # b => table'[c] = table[c]
    BY <1>3 DEF MemInv, MemTypes
  <1>10. \A c : c # b => (Recorded(c)' <=> Recorded(c)) /\ Span(c)' = Span(c)
    BY <1>9 DEF Recorded, Span
  <1> QED
    BY <1>2, <1>3, <1>4, <1>5, <1>6, <1>8, <1>9, <1>10

LEMMA MemAlloc ==
    ASSUME MemInv, NEW b \in Addr, NEW size \in Sizes, Alloc(b, size)
    PROVE  MemInv'
  <1> DEFINE words == b .. b + size - 1
  <1>1. PICK n \in Nat : bumps \in [0..n -> SUBSET Addr]
    BY DEF MemInv, BumpTypes
  <1>2. Current = n /\ n \in 0..n
    BY <1>1, CurrentIsLast
  <1>3. /\ words \subseteq Addr
        /\ bumps' = [bumps EXCEPT ![n] = @ \cup words]
        /\ UNCHANGED <<tracing, live, reclaimed>>
    BY <1>2 DEF Alloc, Unused, marking
  <1>4. bumps' \in [0..n -> SUBSET Addr]
    BY <1>1, <1>2, <1>3
  <1>5. /\ \A g \in 0..n : bumps[g] \subseteq bumps'[g]
        /\ words \subseteq bumps'[n]
        /\ DOMAIN bumps = 0..n /\ DOMAIN bumps' = 0..n
    BY <1>1, <1>2, <1>3
  <1>6. CASE ~tracing
    <2>1. UNCHANGED <<table, serial>>
      BY <1>6 DEF Alloc
    <2>2. MemTypes' /\ RecordsAreTraced'
      BY <1>3, <2>1 DEF MemInv, MemTypes, RecordsAreTraced, Recorded
    <2>3. GenerationsBackRecords'
      BY <1>6, <2>1 DEF MemInv, RecordsAreTraced, Recorded, GenerationsBackRecords
    <2> QED
      BY <1>4, <2>2, <2>3 DEF MemInv, BumpTypes
  <1>7. CASE tracing
    <2>1. /\ words \subseteq Unused
          /\ serial' = serial + 1 /\ serial' \in Serial
          /\ table' = [table EXCEPT ![b] =
                         [size |-> size, gen |-> Current, serial |-> serial + 1]]
          /\ ~Recorded(b) /\ Recorded(b)' /\ Span(b)' = words
          /\ \A c : c # b => (Recorded(c)' <=> Recorded(c)) /\ table'[c] = table[c]
                             /\ Span(c)' = Span(c)
          /\ \A c : Recorded(c) => Span(c) \cap words = {}
      BY <1>7, TracedAlloc
    <2>2. [size |-> size, gen |-> Current, serial |-> serial + 1] \in Record
      BY <1>2, <2>1, Constants DEF Record
    <2>3. MemTypes'
      <3>1. table' \in [Addr -> Record \cup {NoRecord}]
        BY <2>1, <2>2 DEF MemInv, MemTypes
      <3>2. serial' \in 0..MaxSerial
        BY <2>1 DEF Serial
      <3> QED
        BY <1>3, <3>1, <3>2 DEF MemInv, MemTypes
    <2>4. RecordsAreTraced'
      <3>1. \A c \in live : Recorded(c)'
        BY <2>1 DEF MemInv, RecordsAreTraced
      <3> QED
        BY <1>3, <1>7, <3>1 DEF RecordsAreTraced
    <2>5. GenerationsBackRecords'
      <3> SUFFICES ASSUME NEW c, Recorded(c)'
                   PROVE  /\ table'[c].gen \in DOMAIN bumps'
                          /\ Span(c)' \subseteq bumps'[table'[c].gen]
                          /\ \A d : Recorded(d)' /\ c # d =>
                                Span(c)' \cap Span(d)' = {}
        BY DEF GenerationsBackRecords, Recorded
      <3>1. CASE c = b
        <4>1. table'[b].gen = n
          BY <1>2, <2>1 DEF MemInv, MemTypes
        <4>2. \A d : Recorded(d)' /\ b # d => Span(b)' \cap Span(d)' = {}
          BY <2>1
        <4> QED
          BY <1>2, <1>5, <2>1, <3>1, <4>1, <4>2
      <3>2. CASE c # b
        <4>1. Recorded(c) /\ table'[c] = table[c] /\ Span(c)' = Span(c)
          BY <2>1, <3>2
        <4>2. /\ table[c].gen \in DOMAIN bumps
              /\ Span(c) \subseteq bumps[table[c].gen]
              /\ \A d : Recorded(d) /\ c # d => Span(c) \cap Span(d) = {}
          BY <4>1, SpanFacts
        <4>3. \A d : Recorded(d)' /\ c # d => Span(c)' \cap Span(d)' = {}
          BY <2>1, <4>1, <4>2
        <4> QED
          BY <1>5, <4>1, <4>2, <4>3
      <3> QED
        BY <3>1, <3>2
    <2> QED
      BY <1>4, <2>3, <2>4, <2>5 DEF MemInv, BumpTypes
  <1> QED
    BY <1>6, <1>7

\* The records a sweep keeps, and the generations it keeps under them.
LEMMA SweepRecords ==
    ASSUME MemInv, Sweep
    PROVE  /\ \E n \in Nat : bumps' \in [0..n -> SUBSET Addr]
           /\ \A b : Recorded(b)' <=> b \in live
           /\ \A b \in live :
                 /\ table'[b].size = table[b].size
                 /\ table'[b].serial = table[b].serial
                 /\ table'[b].gen \in Nat
                 /\ Span(b)' = Span(b)
                 /\ table'[b].gen \in DOMAIN bumps'
                 /\ Span(b) \subseteq bumps'[table'[b].gen]
           /\ \A b \in Addr \ live : table'[b] = NoRecord
           /\ table' \in [Addr -> Record \cup {NoRecord}]
  <1>1. PICK n \in Nat : bumps \in [0..n -> SUBSET Addr]
    BY DEF MemInv, BumpTypes
  <1>2. Generations \subseteq 0..n /\ \A b \in live : table[b].gen \in Generations
    BY <1>1, SpanFacts DEF Generations, MemInv, RecordsAreTraced
  <1>3. IsFiniteSet(Generations)
    <2>1. IsFiniteSet(0..n)
      BY FS_Interval
    <2> QED
      BY <1>2, <2>1, FS_Subset
  <1> DEFINE k == Cardinality(Generations)
  <1>4. k \in Nat
    BY <1>3, FS_CardinalityType
  <1>5. PICK m \in [Generations -> 0..k - 1] : Keep(m)
    BY DEF Sweep
  <1> HIDE DEF k
  <1>6. bumps' = [i \in 0..k |-> UNION {bumps[g] : g \in {h \in Generations : m[h] = i}}]
    BY <1>5 DEF Keep, k
  <1>7. bumps' \in [0..k -> SUBSET Addr]
    <2>1. \A g \in Generations : bumps[g] \subseteq Addr
      BY <1>1, <1>2
    <2>2. \A i \in 0..k : UNION {bumps[g] : g \in {h \in Generations : m[h] = i}} \subseteq Addr
      BY <2>1
    <2> QED
      BY <1>6, <2>2
  <1>8. \A g \in Generations : m[g] \in 0..k /\ m[g] \in Nat /\ bumps[g] \subseteq bumps'[m[g]]
    <2> TAKE g \in Generations
    <2>1. m[g] \in 0..k /\ m[g] \in Nat
      BY <1>4, <1>5
    <2>2. bumps'[m[g]] = UNION {bumps[h] : h \in {h \in Generations : m[h] = m[g]}}
      BY <1>6, <2>1
    <2> QED
      BY <2>1, <2>2
  <1>9. table' = [b \in Addr |-> IF b \in live
                                  THEN [table[b] EXCEPT !.gen = m[table[b].gen]]
                                  ELSE NoRecord]
    BY <1>5 DEF Keep
  <1>10. \A b \in live : b \in Addr /\ Recorded(b) /\ table[b] \in Record
    BY RecordOf DEF MemInv, MemTypes, RecordsAreTraced
  <1>11. \A b \in live :
            /\ table'[b] \in Record
            /\ table'[b].size = table[b].size
            /\ table'[b].serial = table[b].serial
            /\ table'[b].gen = m[table[b].gen]
    <2> TAKE b \in live
    <2>1. table'[b] = [table[b] EXCEPT !.gen = m[table[b].gen]]
      BY <1>9, <1>10
    <2>2. table[b] \in Record /\ m[table[b].gen] \in Nat
      BY <1>2, <1>8, <1>10
    <2> QED
      BY <2>1, <2>2 DEF Record
  <1>12. \A b \in Addr \ live : table'[b] = NoRecord
    BY <1>9
  <1>13. table' \in [Addr -> Record \cup {NoRecord}]
    BY <1>9, <1>11, <1>12
  <1>14. \A b : Recorded(b)' <=> b \in live
    BY <1>10, <1>11, <1>12 DEF Recorded, Record, NoRecord
  <1>15. \A b \in live : /\ Span(b)' = Span(b)
                         /\ table'[b].gen \in DOMAIN bumps'
                         /\ Span(b) \subseteq bumps'[table'[b].gen]
                         /\ table'[b].gen \in Nat
    <2> TAKE b \in live
    <2>1. Span(b)' = Span(b)
      BY <1>11 DEF Span
    <2>2. table[b].gen \in Generations /\ Span(b) \subseteq bumps[table[b].gen]
      BY <1>2, <1>10, SpanFacts
    <2> QED
      BY <1>7, <1>8, <1>11, <2>1, <2>2
  <1> QED
    BY <1>4, <1>7, <1>11, <1>12, <1>13, <1>14, <1>15

LEMMA MemSweep ==
    ASSUME MemInv, Sweep
    PROVE  MemInv'
  <1>1. /\ \A b : Recorded(b)' <=> b \in live
        /\ \A b \in live : /\ Span(b)' = Span(b)
                           /\ table'[b].gen \in DOMAIN bumps'
                           /\ Span(b) \subseteq bumps'[table'[b].gen]
        /\ table' \in [Addr -> Record \cup {NoRecord}]
        /\ BumpTypes'
    BY SweepRecords DEF BumpTypes
  <1>2. /\ live' = {} /\ UNCHANGED <<tracing, serial>>
        /\ reclaimed' = {<<b, table[b].size>> : b \in Bases \ live}
    BY DEF Sweep
  <1>3. \A b \in live : Recorded(b)
    BY DEF MemInv, RecordsAreTraced
  <1>4. reclaimed' \subseteq Addr \X Nat
    <2>1. \A b \in Bases : b \in Addr /\ table[b].size \in Nat
      BY RecordOf DEF Bases, MemInv, Recorded
    <2> QED
      BY <1>2, <2>1
  <1>5. MemTypes'
    BY <1>1, <1>2, <1>4 DEF MemInv, MemTypes
  <1>6. RecordsAreTraced'
    <2>1. ~tracing => live = {}
      BY <1>3 DEF MemInv, RecordsAreTraced, Recorded
    <2> QED
      BY <1>1, <1>2, <2>1 DEF RecordsAreTraced
  <1>7. GenerationsBackRecords'
    <2> SUFFICES ASSUME NEW c, Recorded(c)'
                 PROVE  /\ table'[c].gen \in DOMAIN bumps'
                        /\ Span(c)' \subseteq bumps'[table'[c].gen]
                        /\ \A d : Recorded(d)' /\ c # d =>
                              Span(c)' \cap Span(d)' = {}
      BY DEF GenerationsBackRecords, Recorded
    <2>1. c \in live /\ Recorded(c)
      BY <1>1, <1>3
    <2>2. \A d : Recorded(d)' /\ c # d => Span(c)' \cap Span(d)' = {}
      BY <1>1, <1>3, <2>1, SpanFacts
    <2> QED
      BY <1>1, <2>1, <2>2
  <1> QED
    BY <1>1, <1>5, <1>6, <1>7 DEF MemInv

LEMMA MemNext == MemInv /\ [Next]_vars => MemInv'
  <1> SUFFICES ASSUME MemInv, [Next]_vars PROVE MemInv'
    OBVIOUS
  <1>1. /\ live \subseteq Addr
        /\ \A b \in live : Recorded(b)
    BY DEF MemInv, MemTypes, RecordsAreTraced
  <1>2. ASSUME UNCHANGED <<tracing, bumps, table, serial, live, reclaimed>>
        PROVE  MemInv'
    BY <1>1, <1>2, MemUntouched
  <1>3. CASE EnableTracing
    BY <1>1, <1>3, MemUntouched DEF EnableTracing, marking
  <1>4. ASSUME NEW b \in Addr, NEW size \in Sizes, Alloc(b, size)
        PROVE  MemInv'
    BY <1>4, MemAlloc
  <1>5. CASE Mutate
    BY <1>2, <1>5 DEF Mutate, Store, StoreGlobal, Unregister, Pin,
       ReplaceReference, ReplaceAllocationReference, Measure, marking
  <1>6. CASE ResetUntraced
    <2>1. \A b : ~Recorded(b)
      BY <1>6 DEF ResetUntraced, MemInv, RecordsAreTraced, Recorded
    <2>2. bumps' \in [0..0 -> SUBSET Addr]
      BY <1>6 DEF ResetUntraced
    <2>3. BumpTypes'
      BY <2>2 DEF BumpTypes
    <2>4. UNCHANGED <<tracing, table, serial, live, reclaimed>>
      BY <1>6 DEF ResetUntraced, marking
    <2>5. MemTypes' /\ RecordsAreTraced' /\ GenerationsBackRecords'
      BY <2>1, <2>4 DEF MemInv, MemTypes, RecordsAreTraced, Recorded,
         GenerationsBackRecords
    <2> QED
      BY <2>3, <2>5 DEF MemInv
  <1>7. CASE ResetBegin
    <2>1. live' = {} /\ UNCHANGED <<tracing, bumps, table, serial, reclaimed>>
      BY <1>7 DEF ResetBegin
    <2> QED
      BY <2>1, MemUntouched
  <1>8. ASSUME NEW p \in pending, MarkStep(p)
        PROVE  MemInv'
    <2>1. live' = live \cup Unscanned(p)
      BY <1>8 DEF MarkStep
    <2>2. \A b \in Unscanned(p) : b \in Addr /\ Recorded(b)
      BY DEF Unscanned, Within, Nearest, Recorded
    <2>3. UNCHANGED <<tracing, bumps, table, serial, reclaimed>>
      BY <1>8 DEF MarkStep
    <2> QED
      BY <1>1, <2>1, <2>2, <2>3, MemUntouched
  <1>9. CASE Sweep
    BY <1>9, MemSweep
  <1> QED
    BY <1>2, <1>3, <1>4, <1>5, <1>6, <1>7, <1>8, <1>9
    DEF Next, vars, marking, Unpin, Track, Untrack, HookBegin, HookDrop,
        CallbackReturns, HookEnd, ResetEnd

-----------------------------------------------------------------------------
(* The graph: words, globals, pins and side references.                    *)

\* A nonempty set of naturals has a least element.
LEMMA LeastNatural ==
    ASSUME NEW T, T \subseteq Nat, T # {}
    PROVE  \E k \in T : \A l \in T : k <= l
  <1> DEFINE R == {ss \in Nat \X Nat : ss[1] < ss[2]}
  <1>1. IsWellFoundedOn(R, Nat)
    BY NatLessThanWellFounded DEF OpToRel
  <1> HIDE DEF R
  <1>2. PICK k \in T : \A l \in T : ~(<<l, k>> \in R)
    BY <1>1, WFMin
  <1>3. ASSUME NEW l \in T PROVE k <= l
    <2>1. k \in Nat /\ l \in Nat
      OBVIOUS
    <2>2. <<l, k>> \in Nat \X Nat /\ <<l, k>>[1] = l /\ <<l, k>>[2] = k
      BY <2>1
    <2>3. ~(l < k)
      BY <1>2, <2>2 DEF R
    <2> QED
      BY <2>1, <2>3
  <1> QED
    BY <1>3

LEMMA ReplacedType ==
    ASSUME NEW children \in Seq(Node), NEW old, NEW new \in Node
    PROVE  Replaced(children, old, new) \in Seq(Node)
  <1> DEFINE at == {i \in 1..Len(children) : children[i] = old}
             i == CHOOSE k \in at : \A l \in at : k <= l
             rest == IF at = {} THEN children
                     ELSE SubSeq(children, 1, i - 1) \o SubSeq(children, i + 1, Len(children))
  <1>1. rest \in Seq(Node)
    <2>1. CASE at = {}
      BY <2>1
    <2>2. CASE at # {}
      <3>1. at \subseteq Nat
        OBVIOUS
      <3>2. i \in at
        <4>1. \E k \in at : \A l \in at : k <= l
          BY <2>2, <3>1, LeastNatural
        <4> QED
          BY <4>1
      <3> HIDE DEF i
      <3>3. /\ i \in 1..Len(children) /\ Len(children) \in Nat
            /\ i \in Nat /\ i - 1 \in Int /\ i + 1 \in Int /\ i - 1 <= Len(children)
        BY <3>2
      <3>4. \A k \in 1..Len(children) : children[k] \in Node
        BY ElementOfSeq
      <3>5. SubSeq(children, 1, i - 1) \in Seq(Node)
        <4>1. \A k \in 1..i - 1 : children[k] \in Node
          BY <3>3, <3>4
        <4> QED
          BY <3>3, <4>1, SubSeqProperties
      <3>6. SubSeq(children, i + 1, Len(children)) \in Seq(Node)
        <4>1. \A k \in i + 1..Len(children) : children[k] \in Node
          BY <3>3, <3>4
        <4> QED
          BY <3>3, <4>1, SubSeqProperties
      <3>7. SubSeq(children, 1, i - 1) \o SubSeq(children, i + 1, Len(children)) \in Seq(Node)
        BY <3>5, <3>6, ConcatProperties
      <3> QED
        BY <2>2, <3>7
    <2> QED
      BY <2>1, <2>2
  <1>2. Replaced(children, old, new) = IF new = Null THEN rest ELSE Append(rest, new)
    BY DEF Replaced
  <1> HIDE DEF rest
  <1>3. Append(rest, new) \in Seq(Node)
    BY <1>1, AppendProperties
  <1> QED
    BY <1>1, <1>2, <1>3

LEMMA PointersAreNodes ==
    /\ Values \subseteq Node /\ Objects \subseteq Node
    /\ Bases \subseteq Node /\ Covered \subseteq Node
    /\ Null \in Node /\ Null \notin Addr \cup Slots \cup Boxes
  <1>1. Bases \subseteq Addr /\ Covered \subseteq Addr
    BY DEF Bases, Covered
  <1>2. Null \notin Addr \cup Slots \cup Boxes
    BY Constants DEF Null, Addr
  <1> QED
    BY <1>1, <1>2 DEF Values, Objects, Node

GraphInv == GraphTypes /\ refs[Null] = <<>>

LEMMA GraphInit == Init => GraphInv
  <1> SUFFICES ASSUME Init PROVE GraphInv
    OBVIOUS
  <1>1. <<>> \in Seq(Node) /\ Null \in Node
    BY PointersAreNodes
  <1>2. mem \in [Addr -> Node] /\ global \in [Slots -> Node] /\ roots \subseteq Slots
    BY <1>1 DEF Init
  <1>3. pinned \in [Node -> Nat] /\ refs \in [Node -> Seq(Node)] /\ refs[Null] = <<>>
    BY <1>1 DEF Init
  <1>4. allocRefs \in [Serial -> [Addr -> Seq(Node)]]
    BY <1>1 DEF Init
  <1> QED
    BY <1>2, <1>3, <1>4 DEF GraphInv, GraphTypes

LEMMA GraphMutate ==
    ASSUME MemInv, GraphInv, Mutate
    PROVE  GraphInv'
  <1> USE DEF GraphInv, GraphTypes
  <1>1. Null \in Node /\ Values \subseteq Node /\ Covered \subseteq Addr
    BY PointersAreNodes DEF Covered
  <1>2. ASSUME NEW w \in Covered, NEW v \in Values, Store(w, v)
        PROVE  GraphInv'
    <2>1. mem' \in [Addr -> Node]
      BY <1>1, <1>2 DEF Store
    <2> QED
      BY <1>2, <2>1 DEF Store
  <1>3. ASSUME NEW s \in Slots, NEW v \in Values, StoreGlobal(s, v)
        PROVE  GraphInv'
    <2>1. global' \in [Slots -> Node] /\ roots' \subseteq Slots
      BY <1>1, <1>3 DEF StoreGlobal
    <2> QED
      BY <1>3, <2>1 DEF StoreGlobal
  <1>4. ASSUME NEW s \in Slots, Unregister(s)
        PROVE  GraphInv'
    <2>1. global' \in [Slots -> Node] /\ roots' \subseteq Slots
      BY <1>1, <1>4 DEF Unregister
    <2>2. /\ refs' \in [Node -> Seq(Node)]
          /\ refs'[Null] = <<>>
      <3>1. s \in Node /\ s # Null /\ <<>> \in Seq(Node)
        BY PointersAreNodes DEF Node
      <3> QED
        BY <1>1, <1>4, <3>1 DEF Unregister
    <2> QED
      BY <1>4, <2>1, <2>2 DEF Unregister
  <1>5. ASSUME NEW p \in Values, Pin(p)
        PROVE  GraphInv'
    <2>1. pinned' \in [Node -> Nat]
      BY <1>1, <1>5 DEF Pin
    <2> QED
      BY <1>5, <2>1 DEF Pin
  <1>6. ASSUME NEW o \in Node, NEW new \in Objects, NEW old, ReplaceReference(o, old, new)
        PROVE  GraphInv'
    <2>1. Replaced(refs[o], old, new) \in Seq(Node)
      BY PointersAreNodes, ReplacedType
    <2>2. o # Null
      <3>1. o \in Slots \cup Boxes \cup Addr
        BY <1>6 DEF ReplaceReference, Bases
      <3> QED
        BY <3>1, PointersAreNodes
    <2>3. refs' = [refs EXCEPT ![o] = Replaced(refs[o], old, new)]
      BY <1>6 DEF ReplaceReference
    <2>4. refs' \in [Node -> Seq(Node)] /\ refs'[Null] = <<>>
      BY <1>1, <2>1, <2>2, <2>3
    <2> QED
      BY <1>6, <2>4 DEF ReplaceReference
  <1>7. ASSUME NEW o \in Node, NEW new \in Objects, NEW id \in Serial, NEW old,
               ReplaceAllocationReference(id, o, old, new)
        PROVE  GraphInv'
    <2>1. o \in Addr /\ allocRefs[id] \in [Addr -> Seq(Node)]
      BY <1>7 DEF ReplaceAllocationReference, Bases
    <2>2. Replaced(allocRefs[id][o], old, new) \in Seq(Node)
      BY <2>1, PointersAreNodes, ReplacedType
    <2>3. allocRefs' = [allocRefs EXCEPT ![id] =
                          [allocRefs[id] EXCEPT ![o] = Replaced(allocRefs[id][o], old, new)]]
      BY <1>7 DEF ReplaceAllocationReference
    <2>4. [allocRefs[id] EXCEPT ![o] = Replaced(allocRefs[id][o], old, new)]
            \in [Addr -> Seq(Node)]
      BY <2>1, <2>2
    <2>5. allocRefs' \in [Serial -> [Addr -> Seq(Node)]]
      BY <2>3, <2>4
    <2> QED
      BY <1>7, <2>5 DEF ReplaceAllocationReference
  <1>8. ASSUME NEW p \in Bases, Measure(p)
        PROVE  GraphInv'
    BY <1>8 DEF Measure, graph
  <1> QED
    BY <1>2, <1>3, <1>4, <1>5, <1>6, <1>7, <1>8 DEF Mutate

LEMMA GraphNext == MemInv /\ GraphInv /\ [Next]_vars => GraphInv'
  <1> SUFFICES ASSUME MemInv, GraphInv, [Next]_vars PROVE GraphInv'
    OBVIOUS
  <1>1. ASSUME UNCHANGED graph PROVE GraphInv'
    BY <1>1 DEF GraphInv, GraphTypes, graph
  <1>2. ASSUME NEW b \in Addr, NEW size \in Sizes, Alloc(b, size)
        PROVE  GraphInv'
    <2>1. mem' \in [Addr -> Node]
      <3>1. CASE tracing
        BY <1>2, <3>1, PointersAreNodes DEF Alloc, GraphInv, GraphTypes
      <3>2. CASE ~tracing
        BY <1>2, <3>2 DEF Alloc, GraphInv, GraphTypes
      <3> QED
        BY <3>1, <3>2
    <2> QED
      BY <1>2, <2>1 DEF Alloc, GraphInv, GraphTypes
  <1>3. ASSUME NEW p \in Node, Unpin(p)
        PROVE  GraphInv'
    <2>1. pinned' \in [Node -> Nat]
      BY <1>3 DEF Unpin, GraphInv, GraphTypes
    <2> QED
      BY <1>3, <2>1 DEF Unpin, GraphInv, GraphTypes
  <1>4. CASE Sweep
    <2>1. <<>> \in Seq(Node) /\ Null \in Node
      BY PointersAreNodes
    <2>2. refs' \in [Node -> Seq(Node)] /\ refs'[Null] = <<>>
      BY <1>4, <2>1 DEF Sweep, GraphInv, GraphTypes
    <2>3. allocRefs' \in [Serial -> [Addr -> Seq(Node)]]
      BY <1>4, <2>1 DEF Sweep, GraphInv, GraphTypes
    <2> QED
      BY <1>4, <2>2, <2>3 DEF Sweep, GraphInv, GraphTypes
  <1> QED
    BY <1>1, <1>2, <1>3, <1>4, GraphMutate
    DEF Next, vars, EnableTracing, Track, Untrack, ResetUntraced, ResetBegin,
        MarkStep, HookBegin, HookDrop, CallbackReturns, HookEnd, ResetEnd

-----------------------------------------------------------------------------
(* Where a reset is.                                                       *)

\* The children of a node and the contents of an allocation are nodes.
LEMMA ReachesNodes ==
    ASSUME MemInv, GraphInv
    PROVE  /\ \A p \in Node : Children(p) \subseteq Node
           /\ \A b : Recorded(b) => Contents(b) \subseteq Node
           /\ Roots \subseteq Node
  <1>1. ASSUME NEW s \in Seq(Node) PROVE Elements(s) \subseteq Node
    BY ElementOfSeq DEF Elements
  <1>2. ASSUME NEW p \in Node PROVE Children(p) \subseteq Node
    <2>1. Elements(refs[p]) \subseteq Node
      BY <1>1 DEF GraphInv, GraphTypes
    <2>2. ASSUME p \in Covered
          PROVE  Elements(allocRefs[SerialOf(p)][p]) \subseteq Node
      <3>1. PICK b \in Addr : p \in Addr /\ Within(b, p)
        BY <2>2 DEF Covered
      <3>2. SerialOf(p) = table[b].serial /\ Recorded(b)
        <4>1. p \in Nat
          BY Constants
        <4> QED
          BY <3>1, <4>1, SerialOfWithin, WithinIsSpan
      <3>3. SerialOf(p) \in Serial
        BY <3>2, RecordOf DEF MemInv
      <3>4. allocRefs[SerialOf(p)][p] \in Seq(Node)
        BY <3>1, <3>3 DEF GraphInv, GraphTypes
      <3> QED
        BY <1>1, <3>4
    <2> QED
      BY <2>1, <2>2 DEF Children
  <1>3. ASSUME NEW b, Recorded(b) PROVE Contents(b) \subseteq Node
    BY <1>3, SpanFacts DEF Contents, GraphInv, GraphTypes
  <1>4. Roots \subseteq Node
    BY DEF Roots, GraphInv, GraphTypes, Node
  <1> QED
    BY <1>2, <1>3, <1>4

PhaseInv == PhaseTypes /\ HooksInTurn

LEMMA PhaseInit == Init => PhaseInv
  <1> SUFFICES ASSUME Init PROVE PhaseInv
    OBVIOUS
  <1>1. reset \in Phases /\ budget \in 0..MaxOps
    BY Constants DEF Init, Idle, Phases
  <1> QED
    BY <1>1 DEF Init, PhaseInv, PhaseTypes, HooksInTurn, Idle

LEMMA PhaseNext == MemInv /\ GraphInv /\ PhaseInv /\ [Next]_vars => PhaseInv'
  <1> SUFFICES ASSUME MemInv, GraphInv, PhaseInv, [Next]_vars PROVE PhaseInv'
    OBVIOUS
  <1>0. MaxOps \in Nat /\ NumTables \in Nat
    BY Constants
  <1>1. ASSUME UNCHANGED <<reset, marking>>,
               budget' = budget \/ (budget > 0 /\ budget' = budget - 1)
        PROVE  PhaseInv'
    <2>1. budget' \in 0..MaxOps
      BY <1>0, <1>1 DEF PhaseInv, PhaseTypes
    <2> QED
      BY <1>1, <2>1 DEF PhaseInv, PhaseTypes, HooksInTurn, marking
  <1>2. CASE Mutate
    <2>1. UNCHANGED <<reset, marking>> /\ budget > 0 /\ budget' = budget - 1
      BY <1>2 DEF Mutate, Running, Spend, Store, StoreGlobal, Unregister, Pin,
         ReplaceReference, ReplaceAllocationReference, Measure, marking
    <2> QED
      BY <1>1, <2>1
  <1>3. ASSUME NEW t \in Table, NEW p \in Addr, Track(t, p) \/ Untrack(t, p)
        PROVE  PhaseInv'
    BY <1>1, <1>3 DEF Track, Untrack, Spend
  <1>4. ASSUME pending' \subseteq Node, owners' \subseteq Node, budget' = budget,
               NEW at \in {"no", "mark", "hook", "drop", "callback"},
               NEW hook \in 0..NumTables + 1,
               reset' = [at |-> at, hook |-> hook],
               at = "hook" => hook \in 1..NumTables + 1,
               at \in {"drop", "callback"} => hook \in Table
        PROVE  PhaseInv'
    <2>1. reset' \in Phases
      BY <1>4 DEF Phases
    <2>2. budget' \in 0..MaxOps
      BY <1>4 DEF PhaseInv, PhaseTypes
    <2> QED
      BY <1>4, <2>1, <2>2 DEF PhaseInv, PhaseTypes, HooksInTurn
  <1>5. CASE ResetBegin
    <2>1. pending' \subseteq Node /\ owners' \subseteq Node
      BY <1>5, ReachesNodes DEF ResetBegin
    <2>2. budget' = budget /\ reset' = [at |-> "mark", hook |-> 0]
      BY <1>5 DEF ResetBegin
    <2>3. 0 \in 0..NumTables + 1
      BY <1>0
    <2> QED
      BY <1>4, <2>1, <2>2, <2>3
  <1>6. ASSUME NEW p \in pending, MarkStep(p)
        PROVE  PhaseInv'
    <2>1. p \in Node /\ Children(p) \subseteq Node
      BY ReachesNodes DEF PhaseInv, PhaseTypes
    <2>2. UNION {Contents(b) : b \in Unscanned(p)} \subseteq Node
      <3>1. \A b \in Unscanned(p) : Recorded(b)
        BY DEF Unscanned, Within, Nearest, Recorded
      <3> QED
        BY <3>1, ReachesNodes
    <2>3. owners' = owners \cup {p}
          /\ pending' = (pending \ {p})
                  \cup (IF p \in owners THEN {} ELSE Children(p))
                  \cup ((UNION {Contents(b) : b \in Unscanned(p)}) \ {Null})
      BY <1>6 DEF MarkStep
    <2>4. pending' \subseteq Node /\ owners' \subseteq Node
      BY <2>1, <2>2, <2>3 DEF PhaseInv, PhaseTypes
    <2>5. reset' = reset /\ budget' = budget
      BY <1>6 DEF MarkStep
    <2> QED
      BY <2>4, <2>5 DEF PhaseInv, PhaseTypes, HooksInTurn
  <1>7. CASE Sweep
    <2>1. /\ pending' = {} /\ owners' = {} /\ budget' = budget
          /\ reset' = [at |-> "hook", hook |-> 1]
      BY <1>7 DEF Sweep
    <2>2. 1 \in 0..NumTables + 1 /\ 1 \in 1..NumTables + 1
      BY <1>0
    <2> QED
      BY <1>4, <2>1, <2>2
  <1>8. /\ reset.hook \in 0..NumTables + 1
        /\ \A at : [reset EXCEPT !.at = at] = [at |-> at, hook |-> reset.hook]
    BY DEF PhaseInv, PhaseTypes, Phases
  <1>9. CASE HookBegin
    BY <1>4, <1>8, <1>9 DEF HookBegin, marking, PhaseInv, PhaseTypes
  <1>10. ASSUME NEW entry \in dead, HookDrop(entry[1], entry[2])
         PROVE  PhaseInv'
    <2>1. CASE reset' = reset
      BY <1>1, <1>10, <2>1 DEF HookDrop
    <2>2. CASE reset' # reset
      <3>1. reset.hook \in Table
        BY <1>10 DEF HookDrop, PhaseInv, HooksInTurn
      <3>2. reset' = [at |-> "callback", hook |-> reset.hook]
        BY <1>8, <1>10, <2>2 DEF HookDrop
      <3> QED
        BY <1>4, <1>8, <1>10, <3>1, <3>2 DEF HookDrop, marking, PhaseInv, PhaseTypes
    <2> QED
      BY <2>1, <2>2
  <1>11. CASE CallbackReturns
    <2>1. reset.hook \in Table
      BY <1>11 DEF CallbackReturns, PhaseInv, HooksInTurn
    <2> QED
      BY <1>4, <1>8, <1>11, <2>1
      DEF CallbackReturns, marking, PhaseInv, PhaseTypes
  <1>12. CASE HookEnd
    <2>1. reset.hook \in 1..NumTables
      BY <1>12 DEF HookEnd, PhaseInv, HooksInTurn, Table
    <2>2. /\ reset.hook + 1 \in 0..NumTables + 1
          /\ reset.hook + 1 \in 1..NumTables + 1
      BY <1>0, <2>1
    <2> QED
      BY <1>4, <1>12, <2>2 DEF HookEnd, marking, PhaseInv, PhaseTypes
  <1>13. CASE ResetEnd
    <2>1. 0 \in 0..NumTables + 1
      BY <1>0
    <2> QED
      BY <1>4, <1>13, <2>1 DEF ResetEnd, Idle, marking, PhaseInv, PhaseTypes
  <1> QED
    BY <1>1, <1>2, <1>3, <1>5, <1>6, <1>7, <1>9, <1>10, <1>11, <1>12, <1>13
    DEF Next, vars, EnableTracing, Alloc, Unpin, ResetUntraced

-----------------------------------------------------------------------------
(* Side tables.  Between two resets every entry is for the allocation that *)
(* starts at its address.  While release hooks run, an entry may also be   *)
(* doomed: its address was reclaimed, and the hook of its table has not    *)
(* begun, or has it still to drop.                                         *)

Exact(id, p) == Recorded(p) /\ table[p].serial = id

Doomed(t, p) ==
    /\ reset.at \in {"hook", "drop", "callback"}
    /\ WasReclaimed(reclaimed, p)
    /\ t >= reset.hook
    /\ t = reset.hook /\ reset.at # "hook" => <<p, side[t][p]>> \in dead

SideInv ==
    /\ SideTypes
    /\ \A p \in Addr : lengths[p] # 0 => Exact(lengths[p], p)
    /\ \A t \in Table, p \in Addr :
          side[t][p] # 0 => Exact(side[t][p], p) \/ Doomed(t, p)

LEMMA SideInit == Init => SideInv
  <1> SUFFICES ASSUME Init PROVE SideInv
    OBVIOUS
  <1>1. lengths \in [Addr -> {0} \cup Serial] /\ \A p \in Addr : lengths[p] = 0
    BY DEF Init
  <1>2. /\ side \in [Table -> [Addr -> {0} \cup Serial]]
        /\ \A t \in Table, p \in Addr : side[t][p] = 0
    BY DEF Init
  <1>3. dead = {}
    BY DEF Init
  <1> QED
    BY <1>1, <1>2, <1>3 DEF SideInv, SideTypes

\* A recorded allocation stays what it is unless it is swept.
LEMMA ExactStays ==
    ASSUME MemInv, [Next]_vars, ~Sweep, NEW p, NEW id, Exact(id, p)
    PROVE  Exact(id, p)'
  <1>1. ASSUME NEW b \in Addr, NEW size \in Sizes, Alloc(b, size)
        PROVE  Exact(id, p)'
    <2>1. CASE tracing
      BY <1>1, <2>1, TracedAlloc DEF Exact
    <2>2. CASE ~tracing
      BY <1>1, <2>2 DEF Alloc, Exact, Recorded
    <2> QED
      BY <2>1, <2>2
  <1>2. ASSUME UNCHANGED table PROVE Exact(id, p)'
    BY <1>2 DEF Exact, Recorded
  <1> QED
    BY <1>1, <1>2
    DEF Next, vars, EnableTracing, Mutate, Store, StoreGlobal, Unregister, Pin,
        Unpin, ReplaceReference, ReplaceAllocationReference, Measure, Track,
        Untrack, ResetUntraced, ResetBegin, MarkStep, HookBegin, HookDrop,
        CallbackReturns, HookEnd, ResetEnd

LEMMA SideNext == MemInv /\ PhaseInv /\ SideInv /\ [Next]_vars => SideInv'
  <1> SUFFICES ASSUME MemInv, PhaseInv, SideInv, [Next]_vars PROVE SideInv'
    OBVIOUS
  <1>0. /\ SideTypes
        /\ \A p \in Addr : lengths[p] # 0 => Exact(lengths[p], p)
        /\ \A t \in Table, p \in Addr :
              side[t][p] # 0 => Exact(side[t][p], p) \/ Doomed(t, p)
    BY DEF SideInv
  <1>1. ASSUME ~Sweep, UNCHANGED <<lengths, side, dead, reclaimed, reset>>
        PROVE  SideInv'
    <2>1. \A p \in Addr : lengths'[p] # 0 => Exact(lengths[p], p)'
      BY <1>0, <1>1, ExactStays
    <2>2. \A t \in Table, p \in Addr :
             side[t][p] # 0 => Exact(side[t][p], p)' \/ Doomed(t, p)
      BY <1>0, <1>1, ExactStays
    <2>3. \A t \in Table, p \in Addr : Doomed(t, p) => Doomed(t, p)'
      BY <1>1 DEF Doomed
    <2>4. SideTypes'
      BY <1>0, <1>1 DEF SideTypes
    <2>5. \A p \in Addr : lengths'[p] # 0 =>
             Recorded(p)' /\ table'[p].serial = lengths'[p]
      BY <1>1, <2>1 DEF Exact
    <2>6. \A t \in Table, p \in Addr : side'[t][p] # 0 =>
             (Recorded(p)' /\ table'[p].serial = side'[t][p]) \/ Doomed(t, p)'
      BY <1>1, <2>2, <2>3 DEF Exact
    <2> QED
      BY <2>4, <2>5, <2>6 DEF SideInv, Exact
  \* A step that leaves the records alone, and makes or drops exact entries.
  <1>2. ASSUME UNCHANGED table, SideTypes',
               \A p \in Addr : lengths'[p] # 0 => lengths'[p] = lengths[p]
                                                  \/ Exact(lengths'[p], p),
               \A t \in Table, p \in Addr : side'[t][p] # 0 =>
                   \/ Exact(side'[t][p], p)
                   \/ side'[t][p] = side[t][p] /\ (Doomed(t, p) => Doomed(t, p)')
        PROVE  SideInv'
    <2>2. \A p \in Addr : lengths'[p] # 0 => Exact(lengths'[p], p)
      BY <1>0, <1>2
    <2>3. \A t \in Table, p \in Addr :
             side'[t][p] # 0 => Exact(side'[t][p], p) \/ Doomed(t, p)'
      BY <1>0, <1>2
    <2>5. \A p \in Addr : lengths'[p] # 0 =>
             table'[p] # NoRecord /\ table'[p].serial = lengths'[p]
      BY <1>2, <2>2 DEF Exact, Recorded
    <2>6. \A t \in Table, p \in Addr : side'[t][p] # 0 =>
             (table'[p] # NoRecord /\ table'[p].serial = side'[t][p]) \/ Doomed(t, p)'
      BY <1>2, <2>3 DEF Exact, Recorded
    <2> QED
      BY <1>2, <2>5, <2>6 DEF SideInv, Exact, Recorded
  <1>3. ASSUME NEW p \in Bases, Measure(p)
        PROVE  SideInv'
    <2>1. SerialOf(p) = table[p].serial /\ Exact(table[p].serial, p) /\ p \in Addr
      BY SerialOfBase DEF Bases, Recorded, Exact
    <2>2. table[p].serial \in Serial
      BY <2>1, RecordOf DEF Exact, MemInv
    <2>3. lengths' = [lengths EXCEPT ![p] = table[p].serial]
      BY <1>3, <2>1 DEF Measure
    <2>4. SideTypes'
      BY <1>0, <1>3, <2>1, <2>2, <2>3 DEF Measure, SideTypes
    <2>5. \A q \in Addr : lengths'[q] # 0 => lengths'[q] = lengths[q]
                                             \/ Exact(lengths'[q], q)
      BY <1>0, <2>1, <2>3 DEF SideTypes
    <2>6. UNCHANGED <<table, side, reset, reclaimed, dead>>
      BY <1>3 DEF Measure
    <2>7. \A t \in Table, q \in Addr : Doomed(t, q) => Doomed(t, q)'
      BY <2>6 DEF Doomed
    <2> QED
      BY <1>2, <2>4, <2>5, <2>6, <2>7
  <1>4. ASSUME NEW t \in Table, NEW p \in Addr, Track(t, p)
        PROVE  SideInv'
    <2>1. SerialOf(p) = table[p].serial /\ Exact(table[p].serial, p)
      BY <1>4, SerialOfBase DEF Track, Bases, Recorded, Exact
    <2>2. table[p].serial \in Serial
      BY <2>1, RecordOf DEF Exact, MemInv
    <2>3. side' = [side EXCEPT ![t] = [side[t] EXCEPT ![p] = table[p].serial]]
      BY <1>4, <2>1 DEF Track
    <2>4. /\ side' \in [Table -> [Addr -> {0} \cup Serial]]
          /\ side'[t][p] = table[p].serial
          /\ \A u \in Table, q \in Addr : u # t \/ q # p => side'[u][q] = side[u][q]
      BY <1>0, <2>2, <2>3 DEF SideTypes
    <2>5. UNCHANGED <<table, lengths, reset, reclaimed, dead>>
      BY <1>4 DEF Track
    <2>6. SideTypes'
      BY <1>0, <2>4, <2>5 DEF SideTypes
    <2>7. \A u \in Table, q \in Addr :
             \/ Exact(side'[u][q], q)
             \/ side'[u][q] = side[u][q] /\ (Doomed(u, q) => Doomed(u, q)')
      BY <2>1, <2>4, <2>5 DEF Doomed
    <2> QED
      BY <1>2, <2>5, <2>6, <2>7
  \* Dropping the entry of p from table t.
  <1>5. ASSUME NEW t \in Table, NEW p \in Addr,
               side' = [side EXCEPT ![t][p] = 0]
        PROVE  /\ side' \in [Table -> [Addr -> {0} \cup Serial]]
               /\ side'[t][p] = 0
               /\ \A u \in Table, q \in Addr : u # t \/ q # p => side'[u][q] = side[u][q]
    <2>1. side' = [side EXCEPT ![t] = [side[t] EXCEPT ![p] = 0]]
      BY <1>5
    <2> QED
      BY <1>0, <2>1 DEF SideTypes
  <1>6. ASSUME NEW t \in Table, NEW p \in Addr, Untrack(t, p)
        PROVE  SideInv'
    <2>1. UNCHANGED <<table, lengths, reset, reclaimed, dead>>
      BY <1>6 DEF Untrack
    <2>2. /\ side' \in [Table -> [Addr -> {0} \cup Serial]]
          /\ side'[t][p] = 0
          /\ \A u \in Table, q \in Addr : u # t \/ q # p => side'[u][q] = side[u][q]
      BY <1>5, <1>6 DEF Untrack
    <2>3. SideTypes'
      BY <1>0, <2>1, <2>2 DEF SideTypes
    <2>4. \A u \in Table, q \in Addr : side'[u][q] # 0 =>
             side'[u][q] = side[u][q] /\ (Doomed(u, q) => Doomed(u, q)')
      BY <2>1, <2>2 DEF Doomed
    <2> QED
      BY <1>2, <2>1, <2>3, <2>4
  <1>7. CASE Sweep
    <2>1. /\ \A b \in live : /\ Recorded(b)'
                             /\ table'[b].serial = table[b].serial
          /\ UNCHANGED <<side, dead>>
          /\ reset' = [at |-> "hook", hook |-> 1]
          /\ reclaimed' = {<<b, table[b].size>> : b \in Bases \ live}
          /\ lengths' = [p \in Addr |-> IF WasReclaimed(reclaimed', p) THEN 0 ELSE lengths[p]]
      BY <1>7, SweepRecords DEF Sweep
    <2>2. ASSUME NEW p, Recorded(p), p \notin live
          PROVE  WasReclaimed(reclaimed', p)
      <3>1. p \in Bases /\ p \in Nat /\ table[p].size \in Nat \ {0}
        BY <2>2, RecordOf DEF MemInv, Bases, Recorded
      <3>2. <<p, table[p].size>> \in reclaimed'
        BY <2>1, <2>2, <3>1
      <3>3. p <= p /\ p < p + table[p].size
        BY <3>1
      <3> QED
        BY <3>2, <3>3 DEF WasReclaimed
    <2>3. \A p, id : Exact(id, p) => \/ p \in live /\ Recorded(p)' /\ table'[p].serial = id
                                     \/ WasReclaimed(reclaimed', p)
      BY <2>1, <2>2 DEF Exact
    <2>4. SideTypes'
      BY <1>0, <2>1 DEF SideTypes
    <2>5. \A p \in Addr : lengths'[p] # 0 => Recorded(p)' /\ table'[p].serial = lengths'[p]
      BY <1>0, <2>1, <2>3 DEF SideTypes
    <2>6. \A t \in Table, p \in Addr : side[t][p] # 0 => Exact(side[t][p], p)
      BY <1>0, <1>7 DEF Sweep, Doomed
    <2>7. \A t \in Table, p \in Addr : WasReclaimed(reclaimed', p) => Doomed(t, p)'
      BY <2>1, Constants DEF Doomed, Table
    <2>8. \A t \in Table, p \in Addr : side'[t][p] # 0 =>
             (Recorded(p)' /\ table'[p].serial = side'[t][p]) \/ Doomed(t, p)'
      BY <2>1, <2>3, <2>6, <2>7
    <2> QED
      BY <2>4, <2>5, <2>8 DEF SideInv, Exact
  <1>8. CASE ResetBegin
    <2>1. UNCHANGED <<table, lengths, side, reclaimed, dead>> /\ reset = Idle
      BY <1>8 DEF ResetBegin
    <2>2. SideTypes' /\ \A t \in Table, p \in Addr : ~Doomed(t, p)
      BY <1>0, <2>1 DEF SideTypes, Doomed, Idle
    <2> QED
      BY <1>2, <2>1, <2>2
  <1>9. CASE HookBegin
    <2>1. /\ reset.at = "hook" /\ reset' = [reset EXCEPT !.at = "drop"]
          /\ dead' = {<<p, side[reset.hook][p]>> : p \in
                  {q \in Addr : side[reset.hook][q] # 0 /\ WasReclaimed(reclaimed, q)}}
          /\ UNCHANGED <<table, lengths, side, reclaimed>>
          /\ reset.hook \in Table
      BY <1>9 DEF HookBegin
    <2>2. reset'.at = "drop" /\ reset'.hook = reset.hook
      BY <2>1 DEF PhaseInv, PhaseTypes, Phases
    <2>3. SideTypes'
      <3>1. side[reset.hook] \in [Addr -> {0} \cup Serial]
        BY <1>0, <2>1 DEF SideTypes
      <3>2. dead' \subseteq Addr \X Serial
        BY <2>1, <3>1
      <3> QED
        BY <1>0, <2>1, <3>2 DEF SideTypes
    <2>4. \A t \in Table, p \in Addr : side[t][p] # 0 /\ Doomed(t, p) => Doomed(t, p)'
      BY <2>1, <2>2 DEF Doomed
    <2> QED
      BY <1>2, <2>1, <2>3, <2>4
  <1>10. ASSUME NEW entry \in dead, HookDrop(entry[1], entry[2])
         PROVE  SideInv'
    <2> DEFINE p == entry[1]
               id == entry[2]
    <2>1. p \in Addr /\ id \in Serial /\ entry = <<p, id>>
      BY <1>0 DEF SideTypes
    <2>2. reset.hook \in Table /\ reset.at = "drop"
      BY <1>10 DEF HookDrop, PhaseInv, HooksInTurn
    <2>3. /\ UNCHANGED <<table, lengths, reclaimed>>
          /\ dead' = dead \ {<<p, id>>}
      BY <1>10 DEF HookDrop
    <2>4. CASE side[reset.hook][p] = id
      <3>1. side' = [side EXCEPT ![reset.hook][p] = 0]
        BY <1>10, <2>4 DEF HookDrop
      <3>2. /\ side' \in [Table -> [Addr -> {0} \cup Serial]]
            /\ side'[reset.hook][p] = 0
            /\ \A u \in Table, q \in Addr :
                  u # reset.hook \/ q # p => side'[u][q] = side[u][q]
        BY <1>5, <2>1, <2>2, <3>1
      <3>3. reset'.at = "callback" /\ reset'.hook = reset.hook
        BY <1>10, <2>4 DEF HookDrop, PhaseInv, PhaseTypes, Phases
      <3>4. SideTypes'
        BY <1>0, <2>3, <3>2 DEF SideTypes
      <3>5. \A u \in Table, q \in Addr : side'[u][q] # 0 =>
               side'[u][q] = side[u][q] /\ (Doomed(u, q) => Doomed(u, q)')
        BY <2>1, <2>2, <2>3, <3>2, <3>3 DEF Doomed
      <3> QED
        BY <1>2, <2>3, <3>4, <3>5
    <2>5. CASE side[reset.hook][p] # id
      <3>1. UNCHANGED <<side, reset>>
        BY <1>10, <2>5 DEF HookDrop
      <3>2. SideTypes'
        BY <1>0, <2>3, <3>1 DEF SideTypes
      <3>3. \A u \in Table, q \in Addr : Doomed(u, q) => Doomed(u, q)'
        BY <2>3, <2>5, <3>1 DEF Doomed
      <3> QED
        BY <1>2, <2>3, <3>1, <3>2, <3>3
    <2> QED
      BY <2>4, <2>5
  <1>11. CASE CallbackReturns
    <2>1. /\ reset.at = "callback" /\ reset'.at = "drop" /\ reset'.hook = reset.hook
          /\ UNCHANGED <<table, lengths, side, reclaimed, dead>>
      BY <1>11 DEF CallbackReturns, PhaseInv, PhaseTypes, Phases
    <2>2. \A t \in Table, p \in Addr : Doomed(t, p) => Doomed(t, p)'
      BY <2>1 DEF Doomed
    <2>3. SideTypes'
      BY <1>0, <2>1 DEF SideTypes
    <2> QED
      BY <1>2, <2>1, <2>2, <2>3
  <1>12. CASE HookEnd
    <2>1. /\ reset.at = "drop" /\ dead = {}
          /\ reset' = [at |-> "hook", hook |-> reset.hook + 1]
          /\ UNCHANGED <<table, lengths, side, reclaimed, dead>>
      BY <1>12 DEF HookEnd
    <2>2. reset.hook \in Nat /\ Table \subseteq Nat
      BY Constants DEF PhaseInv, PhaseTypes, Phases, Table
    <2>3. \A t \in Table, p \in Addr : Doomed(t, p) => Doomed(t, p)'
      BY <2>1, <2>2 DEF Doomed
    <2>4. SideTypes'
      BY <1>0, <2>1 DEF SideTypes
    <2> QED
      BY <1>2, <2>1, <2>3, <2>4
  <1>13. CASE ResetEnd
    <2>1. /\ reset.at = "hook" /\ reset.hook \notin Table
          /\ UNCHANGED <<table, lengths, side, reclaimed, dead>>
      BY <1>13 DEF ResetEnd
    <2>2. \A t \in Table, p \in Addr : ~Doomed(t, p)
      BY <2>1, Constants DEF PhaseInv, HooksInTurn, Table, Doomed
    <2>3. SideTypes'
      BY <1>0, <2>1 DEF SideTypes
    <2> QED
      BY <1>2, <2>1, <2>2, <2>3
  <1>14. ASSUME UNCHANGED <<lengths, side, dead, reclaimed, reset>>
         PROVE  SideInv'
    BY <1>1, <1>7, <1>14
  <1> QED
    BY <1>3, <1>4, <1>6, <1>7, <1>8, <1>9, <1>10, <1>11, <1>12, <1>13, <1>14
    DEF Next, vars, EnableTracing, Alloc, Mutate, Store, StoreGlobal, Unregister,
        Pin, Unpin, ReplaceReference, ReplaceAllocationReference, ResetUntraced,
        MarkStep

\* Everything about the arena that does not speak of reachability.
TableInv == MemInv /\ GraphInv /\ PhaseInv /\ SideInv

LEMMA TableInvAlways == Spec => []TableInv
  <1>1. Init => TableInv
    BY MemInit, GraphInit, PhaseInit, SideInit DEF TableInv
  <1>2. TableInv /\ [Next]_vars => TableInv'
    BY MemNext, GraphNext, PhaseNext, SideNext DEF TableInv
  <1> QED
    BY <1>1, <1>2, PTL DEF Spec

(* Every variable of the arena keeps its type: no count of pins goes below *)
(* zero, and no generation has a number out of order.                      *)
THEOREM ArenaTypes == Spec => []TypeOK
  <1>1. TableInv => TypeOK
    BY TypesOfParts DEF TableInv, MemInv, GraphInv, PhaseInv, SideInv
  <1> QED
    BY <1>1, TableInvAlways, PTL

(* The tables that describe the arena's memory are exact after any resets: *)
(* every record is backed by memory of its own, and between resets no side *)
(* table takes a recycled address for the allocation that is gone.         *)
THEOREM TablesStayExact == Spec => []TablesAreExact
  <1>1. TableInv => TablesAreExact
    <2> SUFFICES ASSUME TableInv PROVE GenerationsBackRecords /\ SideTablesExact
      BY DEF TablesAreExact
    <2>1. GenerationsBackRecords
      BY DEF TableInv, MemInv
    <2>2. \A p, id : Exact(id, p) => id = SerialOf(p)
      BY SerialOfBase DEF TableInv, Exact
    <2>3. reset.at = "no" => \A t, p : ~Doomed(t, p)
      BY DEF Doomed
    <2>4. SideTablesExact
      BY <2>2, <2>3 DEF TableInv, SideInv, SideTablesExact
    <2> QED
      BY <2>1, <2>4
  <1> QED
    BY <1>1, TableInvAlways, PTL

-----------------------------------------------------------------------------
(* Marking.  What the marking loop has seen or has still to see contains   *)
(* the roots, is closed but for what is pending, and is contained in every *)
(* set that contains the roots and is closed: the last part is what makes  *)
(* a reset exact, the others are what makes it safe.                       *)

Held(p) ==
    Children(p) \cup UNION {Contents(b) : b \in {c \in Addr : Within(c, p)}}

Closed(S) == S \subseteq Node /\ Roots \subseteq S /\ \A p \in S : Held(p) \subseteq S

Seen == owners \cup pending

MarkInv ==
    reset.at = "mark" =>
        /\ Roots \ {Null} \subseteq Seen
        /\ \A p \in owners : Children(p) \subseteq Seen
        /\ \A p \in owners, b \in Addr : Within(b, p) => b \in live
        /\ \A b \in live : Contents(b) \ {Null} \subseteq Seen
        /\ \A b \in live : \E p \in owners : Within(b, p)
        /\ \A S : Closed(S) => Seen \subseteq S

LEMMA ReachedIsLeast == Reached = {n \in Node : \A S : Closed(S) => n \in S}
  <1> DEFINE held == [p \in Node |-> Children(p) \cup
                        UNION {Contents(b) : b \in {c \in Addr : Within(c, p)}}]
             closed == {S \in SUBSET Node : Roots \subseteq S
                                            /\ \A p \in S : held[p] \subseteq S}
  <1>1. \A p \in Node : held[p] = Held(p)
    BY DEF Held
  <1>2. Reached = {n \in Node : \A S \in closed : n \in S}
    BY DEF Reached
  <1> HIDE DEF held
  <1>3. \A S : S \in closed <=> Closed(S)
    BY <1>1 DEF Closed
  <1> HIDE DEF closed
  <1> QED
    BY <1>2, <1>3

\* A step that leaves the records and the graph alone leaves alone what a node
\* leads to.
LEMMA SameGraph ==
    ASSUME UNCHANGED <<table, graph>>
    PROVE  /\ \A b, p : Within(b, p)' <=> Within(b, p)
           /\ \A b : Contents(b)' = Contents(b)
           /\ Covered' = Covered /\ Values' = Values
           /\ \A p : Children(p)' = Children(p)
           /\ Roots' = Roots
  <1>1. table' = table /\ mem' = mem /\ refs' = refs /\ allocRefs' = allocRefs
        /\ roots' = roots /\ global' = global /\ pinned' = pinned
    BY DEF graph
  <1>2. \A b, p : Within(b, p)' <=> Within(b, p)
    BY <1>1 DEF Within, Nearest
  <1>3. \A b : Contents(b)' = Contents(b)
    BY <1>1 DEF Contents, Span
  <1>4. Covered' = Covered /\ Values' = Values
    BY <1>1 DEF Covered, Values, Within, Nearest
  <1>5. \A p : SerialOf(p)' = SerialOf(p)
    BY <1>1 DEF SerialOf, Covered, Within, Nearest
  <1>6. \A p : Children(p)' = Children(p)
    BY <1>1, <1>4, <1>5 DEF Children
  <1>7. Roots' = Roots
    BY <1>1 DEF Roots
  <1> QED
    BY <1>2, <1>3, <1>4, <1>6, <1>7

LEMMA MarkNext == TableInv /\ MarkInv /\ [Next]_vars => MarkInv'
  <1> SUFFICES ASSUME TableInv, MarkInv, [Next]_vars, reset'.at = "mark"
               PROVE  MarkInv'
    BY DEF MarkInv
  <1>1. UNCHANGED <<table, graph, reset, marking>> \/ ResetBegin
        \/ \E p \in pending : MarkStep(p)
    <2>1. \A at : [reset EXCEPT !.at = at].at = at
      BY DEF TableInv, PhaseInv, PhaseTypes, Phases
    <2>2. ASSUME reset' = reset PROVE reset.at = "mark"
      BY <2>2
    <2>3. ~EnableTracing /\ ~ResetUntraced
      BY <2>2 DEF EnableTracing, ResetUntraced, Idle
    <2>4. ~Mutate
      <3>1. Mutate => reset' = reset /\ reset.at = "no"
        BY DEF Mutate, Running, Store, StoreGlobal, Unregister, Pin,
           ReplaceReference, ReplaceAllocationReference, Measure
      <3> QED
        BY <2>2, <3>1
    <2>5. \A b \in Addr, size \in Sizes : ~Alloc(b, size)
      BY <2>2 DEF Alloc, Active
    <2>6. \A t \in Table, p \in Addr : ~Track(t, p) /\ ~Untrack(t, p)
      BY <2>2 DEF Track, Untrack, Active
    <2>7. \A p \in Node : ~Unpin(p)
      BY <2>2 DEF Unpin
    <2>8. ~HookBegin /\ ~CallbackReturns
      BY <2>1 DEF HookBegin, CallbackReturns
    <2>9. \A entry \in dead : ~HookDrop(entry[1], entry[2])
      BY <2>1, <2>2 DEF HookDrop
    <2>10. ~HookEnd /\ ~ResetEnd /\ ~Sweep
      BY DEF HookEnd, ResetEnd, Sweep, Idle
    <2> QED
      BY <2>3, <2>4, <2>5, <2>6, <2>7, <2>8, <2>9, <2>10 DEF Next, vars
  <1>2. /\ \A b, p : Within(b, p)' <=> Within(b, p)
        /\ \A b : Contents(b)' = Contents(b)
        /\ \A p : Children(p)' = Children(p)
        /\ Roots' = Roots
    <2>1. UNCHANGED <<table, graph>>
      BY <1>1 DEF ResetBegin, MarkStep
    <2> QED
      BY <2>1, SameGraph
  <1>3. \A S : Closed(S)' <=> Closed(S)
    BY <1>2 DEF Closed, Held
  <1>4. CASE UNCHANGED <<table, graph, reset, marking>>
    <2>1. /\ reset' = reset /\ owners' = owners /\ live' = live /\ Seen' = Seen
      BY <1>4 DEF marking, Seen
    <2> QED
      BY <1>2, <1>3, <2>1 DEF MarkInv
  <1>5. CASE ResetBegin
    <2>1. Seen' = Roots \ {Null} /\ owners' = {} /\ live' = {}
      BY <1>5 DEF ResetBegin, Seen
    <2>2. \A S : Closed(S) => Roots \subseteq S
      BY DEF Closed
    <2> QED
      BY <1>2, <1>3, <2>1, <2>2 DEF MarkInv
  <1>6. ASSUME NEW p \in pending, MarkStep(p)
        PROVE  MarkInv'
    <2> DEFINE found == (UNION {Contents(b) : b \in Unscanned(p)}) \ {Null}
    <2>1. /\ reset.at = "mark" /\ owners' = owners \cup {p}
          /\ live' = live \cup Unscanned(p)
          /\ pending' = (pending \ {p})
                        \cup (IF p \in owners THEN {} ELSE Children(p)) \cup found
      BY <1>6 DEF MarkStep
    <2>2. /\ Roots \ {Null} \subseteq Seen
          /\ \A q \in owners : Children(q) \subseteq Seen
          /\ \A q \in owners, b \in Addr : Within(b, q) => b \in live
          /\ \A b \in live : Contents(b) \ {Null} \subseteq Seen
          /\ \A b \in live : \E q \in owners : Within(b, q)
          /\ \A S : Closed(S) => Seen \subseteq S
      BY <2>1 DEF MarkInv
    <2>3. Seen \subseteq Seen' /\ found \subseteq Seen' /\ owners \subseteq owners'
          /\ Seen' \subseteq Seen \cup Children(p) \cup found
          /\ p \in Seen /\ p \in owners'
      BY <2>1 DEF Seen
    <2>4. \A q \in owners' : Children(q) \subseteq Seen'
      BY <2>1, <2>2, <2>3 DEF Seen
    <2>5. \A q \in owners', b \in Addr : Within(b, q) => b \in live'
      BY <2>1, <2>2 DEF Unscanned
    <2>6. \A b \in live' : Contents(b) \ {Null} \subseteq Seen'
      <3>1. ASSUME NEW b \in Unscanned(p), NEW x \in Contents(b), x # Null
            PROVE  x \in found
        BY <3>1
      <3> HIDE DEF found
      <3> QED
        BY <2>1, <2>2, <2>3, <3>1
    <2>7. \A b \in live' : \E q \in owners' : Within(b, q)
      BY <2>1, <2>2, <2>3 DEF Unscanned
    <2>8. ASSUME NEW S, Closed(S) PROVE Seen' \subseteq S
      <3>1. Seen \subseteq S /\ p \in S /\ Held(p) \subseteq S
        BY <2>2, <2>3, <2>8 DEF Closed
      <3>2. Children(p) \subseteq Held(p) /\ found \subseteq Held(p)
        BY DEF Held, Unscanned
      <3> QED
        BY <2>3, <3>1, <3>2
    <2>9. Roots \ {Null} \subseteq Seen'
      BY <2>2, <2>3
    <2>10. /\ \A q \in owners' : Children(q)' \subseteq Seen'
           /\ \A q \in owners', b \in Addr : Within(b, q)' => b \in live'
           /\ \A b \in live' : Contents(b)' \ {Null} \subseteq Seen'
           /\ \A b \in live' : \E q \in owners' : Within(b, q)'
           /\ \A S : Closed(S)' => Seen' \subseteq S
           /\ Roots' \ {Null} \subseteq Seen'
      BY <1>2, <1>3, <2>4, <2>5, <2>6, <2>7, <2>8, <2>9
    <2> QED
      BY <2>10 DEF MarkInv
  <1> QED
    BY <1>1, <1>4, <1>5, <1>6

-----------------------------------------------------------------------------
(* Pointers.                                                               *)

SpansCovered == \A p : p \in Covered <=> \E b : Recorded(b) /\ p \in Span(b)

LEMMA CoveredIsSpans == MemInv => SpansCovered
  <1> SUFFICES ASSUME MemInv, NEW p
               PROVE  p \in Covered <=> \E b : Recorded(b) /\ p \in Span(b)
    BY DEF SpansCovered
  <1>1. ASSUME p \in Covered PROVE \E b : Recorded(b) /\ p \in Span(b)
    <2>1. PICK b \in Addr : p \in Addr /\ Within(b, p)
      BY <1>1 DEF Covered
    <2>2. p \in Nat
      BY <2>1, Constants
    <2> QED
      BY <2>1, <2>2, WithinIsSpan
  <1>2. ASSUME NEW b, Recorded(b), p \in Span(b) PROVE p \in Covered
    <2>1. p \in Addr /\ b \in Addr
      BY <1>2, SpanFacts DEF Recorded
    <2>2. p \in Nat
      BY <2>1, Constants
    <2> QED
      BY <1>2, <2>1, <2>2, WithinIsSpan DEF Covered
  <1> QED
    BY <1>1, <1>2

PointerInv == PointersStayValid /\ MarkInv

LEMMA PointerInit == Init => PointerInv
  <1> SUFFICES ASSUME Init PROVE PointerInv
    OBVIOUS
  <1>1. MarkInv
    BY DEF Init, Idle, MarkInv
  <1>2. PointersStayValid
    BY DEF Init, PointersStayValid
  <1> QED
    BY <1>1, <1>2 DEF PointerInv

\* What is reached from the roots survives the sweep.
LEMMA SweepKeeps ==
    ASSUME TableInv, TableInv', MarkInv, Sweep
    PROVE  /\ Roots \ {Null} \subseteq owners
           /\ \A p \in owners : Children(p) \subseteq owners
           /\ \A p \in owners, b \in Addr : Within(b, p) => b \in live
           /\ \A b \in live : Contents(b) \ {Null} \subseteq owners
           /\ \A b \in live : \E p \in owners : Within(b, p)
           /\ \A S : Closed(S) => owners \subseteq S
           /\ owners \subseteq Node
           /\ \A b : Recorded(b)' <=> b \in live
           /\ \A p : p \in Covered' <=> \E b \in live : p \in Span(b)
           /\ \A p \in owners : p \in Values => p \in Values'
  <1>1. reset.at = "mark" /\ pending = {}
    BY DEF Sweep
  <1>2. /\ Roots \ {Null} \subseteq owners
        /\ \A p \in owners : Children(p) \subseteq owners
        /\ \A p \in owners, b \in Addr : Within(b, p) => b \in live
        /\ \A b \in live : Contents(b) \ {Null} \subseteq owners
        /\ \A b \in live : \E p \in owners : Within(b, p)
        /\ \A S : Closed(S) => owners \subseteq S
    BY <1>1 DEF MarkInv, Seen
  <1>3. owners \subseteq Node
    BY DEF TableInv, PhaseInv, PhaseTypes
  <1>4. /\ \A b : Recorded(b)' <=> b \in live
        /\ \A b \in live : Span(b)' = Span(b)
    BY SweepRecords DEF TableInv
  <1>5. MemInv' => SpansCovered'
    BY CoveredIsSpans, PTL
  <1>6. \A p : p \in Covered' <=> \E b \in live : p \in Span(b)
    BY <1>4, <1>5 DEF TableInv, SpansCovered
  <1>7. ASSUME NEW p \in owners, p \in Values PROVE p \in Values'
    <2>1. CASE p \in Covered
      <3>1. PICK b \in Addr : p \in Addr /\ Within(b, p)
        BY <2>1 DEF Covered
      <3>2. b \in live /\ p \in Nat
        BY <1>2, <1>7, <3>1, Constants
      <3>3. p \in Span(b)
        BY <3>1, <3>2, WithinIsSpan DEF TableInv
      <3>4. p \in Covered'
        BY <1>6, <3>2, <3>3
      <3> QED
        BY <3>4 DEF Values
    <2>2. CASE p \notin Covered
      BY <1>7, <2>2 DEF Values
    <2> QED
      BY <2>1, <2>2
  <1> QED
    BY <1>2, <1>3, <1>4, <1>6, <1>7

LEMMA PointersSweep ==
    ASSUME TableInv, TableInv', PointerInv, Sweep
    PROVE  PointersStayValid'
  <1>1. /\ Roots \ {Null} \subseteq owners
        /\ \A b \in live : Contents(b) \ {Null} \subseteq owners
        /\ \A b : Recorded(b)' <=> b \in live
        /\ \A p \in owners : p \in Values => p \in Values'
    BY SweepKeeps DEF PointerInv
  <1>2. /\ \A s \in roots : global[s] \in Values
        /\ \A p \in Node : pinned[p] > 0 => p \in Values
        /\ \A b \in Addr : table[b] # NoRecord => Contents(b) \subseteq Values
    BY DEF PointerInv, PointersStayValid
  <1>3. Null \in Values'
    BY DEF Values
  <1>4. UNCHANGED <<mem, roots, global, pinned>>
    BY DEF Sweep
  <1>5. \A s \in roots' : global'[s] \in Values'
    BY <1>1, <1>2, <1>3, <1>4 DEF Roots
  <1>6. \A p \in Node : pinned'[p] > 0 => p \in Values'
    <2> SUFFICES ASSUME NEW p \in Node, pinned[p] > 0 PROVE p \in Values'
      BY <1>4
    <2>1. p \in Roots /\ p \in Values
      BY <1>2 DEF Roots
    <2> QED
      BY <1>1, <1>3, <2>1
  <1>7. ASSUME NEW b \in Addr, table'[b] # NoRecord
        PROVE  Contents(b)' \subseteq Values'
    <2>1. b \in live /\ Recorded(b)
      BY <1>1, <1>7 DEF Recorded, TableInv, MemInv, RecordsAreTraced
    <2>2. Span(b)' = Span(b)
      BY <2>1, SweepRecords DEF TableInv
    <2>3. Contents(b)' = Contents(b)
      BY <1>4, <2>2 DEF Contents
    <2>4. Contents(b) \subseteq Values /\ Contents(b) \ {Null} \subseteq owners
      BY <1>1, <1>2, <2>1 DEF Recorded
    <2> QED
      BY <1>1, <1>3, <2>3, <2>4
  <1> QED
    BY <1>5, <1>6, <1>7 DEF PointersStayValid

LEMMA PointersAlloc ==
    ASSUME TableInv, TableInv', PointerInv,
           NEW b \in Addr, NEW size \in Sizes, Alloc(b, size)
    PROVE  PointersStayValid'
  <1>0. UNCHANGED <<roots, global, pinned>>
    BY DEF Alloc
  <1>1. /\ \A s \in roots : global[s] \in Values
        /\ \A p \in Node : pinned[p] > 0 => p \in Values
        /\ \A c \in Addr : table[c] # NoRecord => Contents(c) \subseteq Values
    BY DEF PointerInv, PointersStayValid
  <1>2. CASE ~tracing
    <2>1. UNCHANGED <<table, mem>>
      BY <1>2 DEF Alloc
    <2>2. Values' = Values /\ \A c : Contents(c)' = Contents(c)
      BY <2>1 DEF Values, Covered, Within, Nearest, Contents, Span
    <2> QED
      BY <1>0, <1>1, <2>1, <2>2 DEF PointersStayValid
  <1>3. CASE tracing
    <2> DEFINE words == b .. b + size - 1
    <2>1. /\ mem' = [w \in Addr |-> IF w \in words THEN Null ELSE mem[w]]
          /\ Recorded(b)' /\ Span(b)' = words /\ words \subseteq Unused
          /\ \A c : c # b => (Recorded(c)' <=> Recorded(c)) /\ Span(c)' = Span(c)
          /\ \A c : Recorded(c) => Span(c) \cap words = {}
          /\ ~Recorded(b)
      BY <1>3, TracedAlloc DEF TableInv
    <2> HIDE DEF words
    <2>2. MemInv' => SpansCovered'
      BY CoveredIsSpans, PTL
    <2>3. Covered \subseteq Covered'
      BY <2>1, <2>2, CoveredIsSpans DEF TableInv, SpansCovered
    <2>4. Values \subseteq Values' /\ Null \in Values'
      BY <2>3 DEF Values
    <2>5. ASSUME NEW c \in Addr, table'[c] # NoRecord
          PROVE  Contents(c)' \subseteq Values'
      <3>1. Recorded(c)'
        BY <2>5 DEF Recorded
      <3>2. CASE c = b
        <4>1. \A w \in words : w \in Addr /\ mem'[w] = Null
          BY <2>1 DEF Unused
        <4> QED
          BY <2>1, <2>4, <3>2, <4>1 DEF Contents
      <3>3. CASE c # b
        <4>1. Recorded(c) /\ Span(c)' = Span(c) /\ Span(c) \cap words = {}
          BY <2>1, <3>1, <3>3
        <4>2. Span(c) \subseteq Addr
          BY <4>1, SpanFacts DEF TableInv
        <4>3. \A w \in Span(c) : mem'[w] = mem[w]
          BY <2>1, <4>1, <4>2
        <4>4. Contents(c)' = Contents(c)
          BY <4>1, <4>3 DEF Contents
        <4> QED
          BY <1>1, <2>4, <4>1, <4>4 DEF Recorded
      <3> QED
        BY <3>2, <3>3
    <2> QED
      BY <1>0, <1>1, <2>4, <2>5 DEF PointersStayValid
  <1> QED
    BY <1>2, <1>3

\* Steps that leave the records alone.
LEMMA PointersMutate ==
    ASSUME TableInv, PointerInv, UNCHANGED table,
           \A s \in roots' : \/ s \in roots /\ global'[s] = global[s]
                            \/ global'[s] \in Values,
           \A p \in Node : pinned'[p] > 0 => pinned[p] > 0 \/ p \in Values,
           \A w \in Addr : mem'[w] = mem[w] \/ mem'[w] \in Values
    PROVE  PointersStayValid'
  <1>1. Values' = Values /\ \A b : Span(b)' = Span(b)
    BY DEF Values, Covered, Within, Nearest, Span
  <1>2. /\ \A s \in roots : global[s] \in Values
        /\ \A p \in Node : pinned[p] > 0 => p \in Values
        /\ \A c \in Addr : table[c] # NoRecord => Contents(c) \subseteq Values
    BY DEF PointerInv, PointersStayValid
  <1>3. ASSUME NEW b \in Addr, table'[b] # NoRecord
        PROVE  Contents(b)' \subseteq Values'
    <2>1. Recorded(b) /\ Contents(b) \subseteq Values
      BY <1>2, <1>3 DEF Recorded
    <2>2. Span(b) \subseteq Addr
      BY <2>1, SpanFacts DEF TableInv
    <2>3. \A w \in Span(b) : mem[w] \in Values
      BY <2>1 DEF Contents
    <2>4. \A w \in Span(b) : mem'[w] \in Values
      BY <2>2, <2>3
    <2> QED
      BY <1>1, <2>4 DEF Contents
  <1>4. /\ \A s \in roots' : global'[s] \in Values'
        /\ \A p \in Node : pinned'[p] > 0 => p \in Values'
    BY <1>1, <1>2
  <1> QED
    BY <1>3, <1>4 DEF PointersStayValid

LEMMA PointersNext ==
    TableInv /\ TableInv' /\ PointerInv /\ [Next]_vars => PointersStayValid'
  <1> SUFFICES ASSUME TableInv, TableInv', PointerInv, [Next]_vars
               PROVE  PointersStayValid'
    OBVIOUS
  <1>0. /\ mem \in [Addr -> Node] /\ global \in [Slots -> Node]
        /\ roots \subseteq Slots /\ pinned \in [Node -> Nat]
        /\ Null \in Values /\ Values \subseteq Node
    BY PointersAreNodes DEF TableInv, GraphInv, GraphTypes, Values
  <1>1. ASSUME UNCHANGED <<table, mem, roots, global, pinned>>
        PROVE  PointersStayValid'
    BY <1>1, PointersMutate
  <1>2. ASSUME NEW w \in Covered, NEW v \in Values, Store(w, v)
        PROVE  PointersStayValid'
    <2>1. /\ UNCHANGED <<table, roots, global, pinned>>
          /\ mem' = [mem EXCEPT ![w] = v]
      BY <1>2 DEF Store
    <2>2. \A u \in Addr : mem'[u] = mem[u] \/ mem'[u] \in Values
      BY <1>0, <2>1
    <2> QED
      BY <2>1, <2>2, PointersMutate
  <1>3. ASSUME NEW s \in Slots, NEW v \in Values, StoreGlobal(s, v)
        PROVE  PointersStayValid'
    <2>1. /\ UNCHANGED <<table, mem, pinned>>
          /\ roots' = roots \cup {s} /\ global' = [global EXCEPT ![s] = v]
      BY <1>3 DEF StoreGlobal
    <2>2. \A r \in roots' : \/ r \in roots /\ global'[r] = global[r]
                            \/ global'[r] \in Values
      BY <1>0, <2>1
    <2> QED
      BY <2>1, <2>2, PointersMutate
  <1>4. ASSUME NEW s \in Slots, Unregister(s)
        PROVE  PointersStayValid'
    <2>1. /\ UNCHANGED <<table, mem, pinned>>
          /\ roots' = roots \ {s} /\ global' = [global EXCEPT ![s] = Null]
      BY <1>4 DEF Unregister
    <2>2. \A r \in roots' : r \in roots /\ global'[r] = global[r]
      BY <1>0, <2>1
    <2> QED
      BY <2>1, <2>2, PointersMutate
  <1>5. ASSUME NEW p \in Values, Pin(p)
        PROVE  PointersStayValid'
    <2>1. /\ UNCHANGED <<table, mem, roots, global>>
          /\ pinned' = [pinned EXCEPT ![p] = @ + 1]
      BY <1>5 DEF Pin
    <2>2. \A q \in Node : pinned'[q] > 0 => pinned[q] > 0 \/ q \in Values
      BY <1>0, <2>1
    <2> QED
      BY <2>1, <2>2, PointersMutate
  <1>6. ASSUME NEW p \in Node, Unpin(p)
        PROVE  PointersStayValid'
    <2>1. /\ UNCHANGED <<table, mem, roots, global>>
          /\ pinned' = [pinned EXCEPT ![p] = @ - 1] /\ pinned[p] > 0
      BY <1>6 DEF Unpin
    <2>2. \A q \in Node : pinned'[q] > 0 => pinned[q] > 0
      BY <1>0, <2>1
    <2> QED
      BY <2>1, <2>2, PointersMutate
  <1>7. ASSUME NEW b \in Addr, NEW size \in Sizes, Alloc(b, size)
        PROVE  PointersStayValid'
    BY <1>7, PointersAlloc
  <1>8. CASE Sweep
    BY <1>8, PointersSweep
  <1>9. CASE Mutate
    BY <1>1, <1>2, <1>3, <1>4, <1>5, <1>9
    DEF Mutate, ReplaceReference, ReplaceAllocationReference, Measure, graph
  <1> QED
    BY <1>1, <1>6, <1>7, <1>8, <1>9
    DEF Next, vars, graph, EnableTracing, Track, Untrack, ResetUntraced, ResetBegin,
        MarkStep, HookBegin, HookDrop, CallbackReturns, HookEnd, ResetEnd

LEMMA PointerInvAlways == Spec => [](TableInv /\ PointerInv)
  <1>1. TableInv /\ TableInv' /\ PointerInv /\ [Next]_vars => PointerInv'
    BY MarkNext, PointersNext DEF PointerInv
  <1> QED
    BY <1>1, TableInvAlways, PointerInit, PTL DEF Spec

(* No pointer dangles: globals, pins and words of recorded allocations     *)
(* point into recorded allocations, whatever a reset has freed.            *)
THEOREM NothingDangles == Spec => []PointersStayValid
  <1>1. PointerInv => PointersStayValid
    BY DEF PointerInv
  <1> QED
    BY <1>1, PointerInvAlways, PTL

(* A reset keeps exactly the allocations the roots reach, and the side     *)
(* references of everything they reach.                                    *)
THEOREM ResetKeepsReached == Spec => ResetIsExact
  <1> DEFINE KeepsReached ==
        LET reached == Reached
        IN  /\ Covered' = UNION {Span(b) : b \in {c \in Addr : \E p \in reached : Within(c, p)}}
            /\ \A p \in reached : refs'[p] = refs[p]
  <1>1. TableInv /\ TableInv' /\ MarkInv /\ Sweep => KeepsReached
    <2> SUFFICES ASSUME TableInv, TableInv', MarkInv, Sweep PROVE KeepsReached
      OBVIOUS
    <2>1. /\ Roots \ {Null} \subseteq owners
          /\ \A p \in owners : Children(p) \subseteq owners
          /\ \A p \in owners, b \in Addr : Within(b, p) => b \in live
          /\ \A b \in live : Contents(b) \ {Null} \subseteq owners
          /\ \A b \in live : \E p \in owners : Within(b, p)
          /\ \A S : Closed(S) => owners \subseteq S
          /\ owners \subseteq Node
          /\ \A p : p \in Covered' <=> \E b \in live : p \in Span(b)
      BY SweepKeeps
    <2>2. owners \subseteq Reached
      BY <2>1, ReachedIsLeast
    <2>3. /\ Children(Null) = {}
          /\ \A b \in Addr : ~Within(b, Null)
      <3>1. \A b \in Addr : ~(b <= Null)
        BY Constants DEF Addr, Null
      <3>2. \A b \in Addr : ~Within(b, Null)
        BY <3>1 DEF Within, Nearest
      <3>3. refs[Null] = <<>> /\ Null \notin Covered
        BY <3>2 DEF TableInv, GraphInv, Covered
      <3>4. Elements(refs[Null]) = {}
        BY <3>3 DEF Elements
      <3> QED
        BY <3>2, <3>3, <3>4 DEF Children
    <2>4. Closed(owners \cup {Null})
      <3>1. owners \cup {Null} \subseteq Node
        BY <2>1, PointersAreNodes
      <3>2. ASSUME NEW p \in owners PROVE Held(p) \subseteq owners \cup {Null}
        <4>1. \A b \in {c \in Addr : Within(c, p)} : Contents(b) \subseteq owners \cup {Null}
          BY <2>1, <3>2
        <4> QED
          BY <2>1, <3>2, <4>1 DEF Held
      <3>3. Held(Null) = {}
        BY <2>3 DEF Held
      <3> QED
        BY <2>1, <3>1, <3>2, <3>3 DEF Closed
    <2>5. Reached \subseteq owners \cup {Null}
      BY <2>4, ReachedIsLeast
    <2>6. \A b : b \in live <=> b \in Addr /\ \E p \in Reached : Within(b, p)
      <3>1. \A b \in live : b \in Addr
        BY DEF TableInv, MemInv, MemTypes
      <3> QED
        BY <2>1, <2>2, <2>3, <2>5, <3>1
    <2>7. Covered' = UNION {Span(b) : b \in {c \in Addr : \E p \in Reached : Within(c, p)}}
      <3>1. {c \in Addr : \E p \in Reached : Within(c, p)} = live
        BY <2>6
      <3>2. \A p : p \in UNION {Span(b) : b \in live} <=> \E b \in live : p \in Span(b)
        OBVIOUS
      <3> QED
        BY <2>1, <3>1, <3>2
    <2>8. \A p \in Reached : refs'[p] = refs[p]
      <3>1. Reached \subseteq Node
        BY DEF Reached
      <3>2. \A p \in Node : p \in owners => refs'[p] = refs[p]
        BY DEF Sweep
      <3>3. refs'[Null] = refs[Null]
        BY DEF TableInv, GraphInv
      <3> QED
        BY <2>5, <3>1, <3>2, <3>3
    <2> QED
      BY <2>7, <2>8
  <1>2. TableInv /\ TableInv' /\ PointerInv /\ [Next]_vars => [Sweep => KeepsReached]_vars
    BY <1>1 DEF PointerInv
  <1> QED
    BY <1>2, PointerInvAlways, PTL DEF Spec, ResetIsExact
=============================================================================
