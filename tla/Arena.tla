-------------------------------- MODULE Arena --------------------------------
(***************************************************************************)
(* The arena of generated values (thaw-arena): bump generations, the table *)
(* of traced allocations, the marking reset that keeps what the roots      *)
(* reach, and the side tables other crates key by arena address and clean  *)
(* in reset hooks.  One thread; the reset is split into steps because its  *)
(* release hooks run foreign code that allocates again.                    *)
(*                                                                         *)
(* Memory is a row of words.  Root slots and boxes are addresses outside   *)
(* of it; a box stands for whatever non-arena object owns side references. *)
(***************************************************************************)
EXTENDS Naturals, Sequences, FiniteSets

CONSTANTS MaxAddr,    \* bound: words of memory
          Slots,      \* module globals that may be registered as roots
          Boxes,      \* addresses of objects outside the arena
          Sizes,      \* sizes the program allocates, in words
          NumTables,  \* side tables cleaned by release hooks, in hook order
          MaxSerial,  \* bound: traced allocations ever made
          MaxOps      \* bound: stores, pins and side references made

ASSUME ArenaAssumption ==
    /\ {MaxAddr, NumTables, MaxSerial, MaxOps} \subseteq Nat
    /\ Sizes \subseteq Nat \ {0}
    /\ Slots \cup Boxes \subseteq Nat \ (0..MaxAddr)

Addr    == 1..MaxAddr
Null    == 0
Serial  == 1..MaxSerial
Node    == {Null} \cup Addr \cup Slots \cup Boxes
Table   == 1..NumTables

VARIABLES
    tracing,    \* TRACING
    bumps,      \* RETAINED and, last, ARENA: the words each generation handed out
    table,      \* ALLOCATIONS and PENDING_ALLOCATIONS, by base address
    serial,     \* NEXT_ALLOCATION_ID
    mem,        \* the contents of the words
    roots,      \* ROOTS
    global,     \* the contents of the root slots
    pinned,     \* PINNED
    refs,       \* REFERENCES
    allocRefs,  \* ALLOCATION_REFERENCES
    lengths,    \* a table cleaned before the release hooks: serial by address
    side,       \* the tables of the release hooks: serial by address
    reset,      \* where the running thaw_arena_reset is
    pending, owners, live,   \* the locals of its marking loop
    reclaimed,  \* RECLAIMED, ranges of base and size
    dead,       \* the entries the running release hook has still to drop
    budget      \* what remains of MaxOps

graph   == <<mem, roots, global, pinned, refs, allocRefs>>
marking == <<pending, owners, live>>
vars == <<tracing, bumps, table, serial, graph, lengths, side, reset, marking,
          reclaimed, dead, budget>>

Record   == [size : Nat \ {0}, gen : Nat, serial : Serial]
NoRecord == [size |-> 0]

Elements(s) == {s[i] : i \in 1..Len(s)}

Current == Cardinality(DOMAIN bumps) - 1

Span(b) == b .. b + table[b].size - 1

\* nearest_allocation: the recorded base next below p.
Nearest(b, p) ==
    /\ table[b] # NoRecord /\ b <= p
    /\ \A c \in Addr : table[c] # NoRecord /\ c <= p => c <= b

\* locate_allocation.
Within(b, p) == Nearest(b, p) /\ p - b < table[b].size

Covered == {p \in Addr : \E b \in Addr : Within(b, p)}

\* allocation_identity.
SerialOf(p) == IF p \in Covered THEN table[CHOOSE b \in Addr : Within(b, p)].serial ELSE 0

\* Words no generation has handed out.
Unused == Addr \ UNION {bumps[g] : g \in DOMAIN bumps}

\* The allocations themselves, as side tables name them.
Bases == {b \in Addr : table[b] # NoRecord}
Objects == {Null} \cup Bases \cup Boxes

\* Pointers the program can lay its hands on.
Values == {Null} \cup Covered \cup Boxes

Running == reset.at = "no" /\ budget > 0 /\ tracing

\* Foreign code runs: the program, or a callback of a release hook.
Active == reset.at \in {"no", "callback"}

Spend == budget' = budget - 1

-----------------------------------------------------------------------------
(* What compiled code and the runtime call.                                *)

\* thaw_arena_enable_tracing, before anything is allocated.
EnableTracing ==
    /\ ~tracing /\ reset.at = "no"
    /\ \A g \in DOMAIN bumps : bumps[g] = {}
    /\ tracing' = TRUE
    /\ UNCHANGED <<bumps, table, serial, graph, lengths, side, reset, marking,
                   reclaimed, dead, budget>>

\* thaw_arena_alloc, at any place the bump allocator may choose.
Alloc(b, size) ==
    LET words == b .. b + size - 1
    IN  /\ Active /\ words \subseteq Unused
        /\ bumps' = [bumps EXCEPT ![Current] = @ \cup words]
        /\ IF tracing
           THEN /\ serial < MaxSerial /\ serial' = serial + 1
                /\ mem' = [w \in Addr |-> IF w \in words THEN Null ELSE mem[w]]
                /\ table' = [table EXCEPT ![b] =
                               [size |-> size, gen |-> Current, serial |-> serial + 1]]
           ELSE UNCHANGED <<serial, mem, table>>
        /\ UNCHANGED <<tracing, roots, global, pinned, refs, allocRefs, lengths,
                       side, reset, marking, reclaimed, dead, budget>>

Store(w, v) ==
    /\ Running /\ Spend
    /\ w \in Covered /\ v \in Values /\ v # mem[w]
    /\ mem' = [mem EXCEPT ![w] = v]
    /\ UNCHANGED <<tracing, bumps, table, serial, roots, global, pinned, refs,
                   allocRefs, lengths, side, reset, marking, reclaimed, dead>>

\* A store to a module global, which thaw_arena_register_root registers first.
StoreGlobal(s, v) ==
    /\ Running /\ Spend
    /\ v \in Values /\ (v # global[s] \/ s \notin roots)
    /\ roots' = roots \cup {s}
    /\ global' = [global EXCEPT ![s] = v]
    /\ UNCHANGED <<tracing, bumps, table, serial, mem, pinned, refs, allocRefs,
                   lengths, side, reset, marking, reclaimed, dead>>

\* thaw_arena_unregister_root; the caller has cleared the slot.
Unregister(s) ==
    /\ Running /\ Spend
    /\ s \in roots
    /\ roots' = roots \ {s}
    /\ global' = [global EXCEPT ![s] = Null]
    /\ refs' = [refs EXCEPT ![s] = <<>>]
    /\ UNCHANGED <<tracing, bumps, table, serial, mem, pinned, allocRefs,
                   lengths, side, reset, marking, reclaimed, dead>>

\* ArenaRoot::new and its Drop.
Pin(p) ==
    /\ Running /\ Spend
    /\ p \in Values \ {Null}
    /\ pinned' = [pinned EXCEPT ![p] = @ + 1]
    /\ UNCHANGED <<tracing, bumps, table, serial, mem, roots, global, refs,
                   allocRefs, lengths, side, reset, marking, reclaimed, dead>>

\* Drops a count that is not there.
UnpinUnchecked(p) ==
    /\ reset.at = "no" /\ tracing
    /\ pinned' = [pinned EXCEPT ![p] = @ - 1]
    /\ UNCHANGED <<tracing, bumps, table, serial, mem, roots, global, refs,
                   allocRefs, lengths, side, reset, marking, reclaimed, dead, budget>>

Unpin(p) ==
    /\ reset.at = "no" /\ pinned[p] > 0
    /\ pinned' = [pinned EXCEPT ![p] = @ - 1]
    /\ UNCHANGED <<tracing, bumps, table, serial, mem, roots, global, refs,
                   allocRefs, lengths, side, reset, marking, reclaimed, dead, budget>>

\* The children without the first occurrence of old, and with new at the end.
Replaced(children, old, new) ==
    LET at   == {i \in 1..Len(children) : children[i] = old}
        i    == CHOOSE k \in at : \A l \in at : k <= l
        rest == IF at = {} THEN children
                ELSE SubSeq(children, 1, i - 1) \o SubSeq(children, i + 1, Len(children))
    IN  IF new = Null THEN rest ELSE Append(rest, new)

\* replace_reference: the owner is a global, a box or the base of an allocation.
ReplaceReference(o, old, new) ==
    /\ Running /\ Spend
    /\ o \in roots \cup Boxes \cup Bases
    /\ new \in Objects /\ old \in {Null} \cup Elements(refs[o])
    /\ <<old, new>> # <<Null, Null>>
    /\ refs' = [refs EXCEPT ![o] = Replaced(@, old, new)]
    /\ UNCHANGED <<tracing, bumps, table, serial, mem, roots, global, pinned,
                   allocRefs, lengths, side, reset, marking, reclaimed, dead>>

\* replace_allocation_reference: refused unless id is the owner's allocation.
ReplaceAllocationReference(id, o, old, new) ==
    /\ Running /\ Spend
    /\ o \in Bases /\ SerialOf(o) = id
    /\ new \in Objects /\ old \in {Null} \cup Elements(allocRefs[id][o])
    /\ <<old, new>> # <<Null, Null>>
    /\ allocRefs' = [allocRefs EXCEPT ![id][o] = Replaced(@, old, new)]
    /\ UNCHANGED <<tracing, bumps, table, serial, mem, roots, global, pinned,
                   refs, lengths, side, reset, marking, reclaimed, dead>>

-----------------------------------------------------------------------------
(* Side tables.                                                            *)

\* String lengths, closure aliases, Json binding owners.
Measure(p) ==
    /\ Running /\ Spend
    /\ p \in Bases /\ lengths[p] = 0
    /\ lengths' = [lengths EXCEPT ![p] = SerialOf(p)]
    /\ UNCHANGED <<tracing, bumps, table, serial, graph, side, reset, marking,
                   reclaimed, dead>>

\* Callback origins, arena-owned Json roots, promise cells; also from a
\* callback of a release hook.  An address that has an entry is refused.
Track(t, p) ==
    /\ Active /\ tracing /\ budget > 0 /\ Spend
    /\ p \in Bases /\ side[t][p] = 0
    /\ side' = [side EXCEPT ![t][p] = SerialOf(p)]
    /\ UNCHANGED <<tracing, bumps, table, serial, graph, lengths, reset, marking,
                   reclaimed, dead>>

\* The owner of an entry gives it up, which a callback may do for an entry that
\* the hook is about to drop.
Untrack(t, p) ==
    /\ Active
    /\ side[t][p] # 0
    /\ side' = [side EXCEPT ![t][p] = 0]
    /\ UNCHANGED <<tracing, bumps, table, serial, graph, lengths, reset, marking,
                   reclaimed, dead, budget>>

-----------------------------------------------------------------------------
(* thaw_arena_reset.  A reset inside a reset is ignored.                   *)

\* The pins are no roots.
RootsUnpinned == {global[s] : s \in roots} \cup roots

Roots == {global[s] : s \in roots} \cup roots \cup {p \in Node : pinned[p] > 0}

Idle == [at |-> "no", hook |-> 0]

\* Without tracing nothing is kept.
ResetUntraced ==
    /\ ~tracing /\ reset = Idle
    /\ bumps' = [g \in {0} |-> {}]
    /\ UNCHANGED <<tracing, table, serial, graph, lengths, side, reset, marking,
                   reclaimed, dead, budget>>

\* Also thaw_arena_reset_if_grown, past its threshold.
ResetBegin ==
    /\ tracing /\ reset = Idle
    /\ reset' = [at |-> "mark", hook |-> 0]
    /\ pending' = Roots \ {Null}
    /\ owners' = {} /\ live' = {}
    /\ UNCHANGED <<tracing, bumps, table, serial, graph, lengths, side,
                   reclaimed, dead, budget>>

\* The side references of node p.
Children(p) ==
    Elements(refs[p]) \cup
    (IF p \in Covered THEN Elements(allocRefs[SerialOf(p)][p]) ELSE {})

\* Only pointers to the start of an allocation keep it.
UnscannedExact(p) == {b \in Bases \ live : b = p}

\* The allocation p points into, unless it was scanned before.
Unscanned(p) == {b \in Addr \ live : Within(b, p)}

Contents(b) == {mem[w] : w \in Span(b)}

MarkStep(p) ==
    /\ reset.at = "mark" /\ p \in pending
    /\ owners' = owners \cup {p}
    /\ live' = live \cup Unscanned(p)
    /\ pending' = (pending \ {p})
                  \cup (IF p \in owners THEN {} ELSE Children(p))
                  \cup ((UNION {Contents(b) : b \in Unscanned(p)}) \ {Null})
    /\ UNCHANGED <<tracing, bumps, table, serial, graph, lengths, side, reset,
                   reclaimed, dead, budget>>

\* was_reclaimed.
WasReclaimed(ranges, p) == \E r \in ranges : r[1] <= p /\ p < r[1] + r[2]

Generations == {table[b].gen : b \in live}

\* The new numbers of the generations that are kept, in their old order.
Renumbering(m) ==
    \A g, h \in Generations : g < h => m[g] < m[h]

\* Records keep the number of a generation that has moved.
KeepOldNumbers(m) ==
    /\ bumps' = [n \in 0..Cardinality(Generations) |->
                   UNION {bumps[g] : g \in {h \in Generations : m[h] = n}}]
    /\ table' = [b \in Addr |-> IF b \in live THEN table[b] ELSE NoRecord]

\* The generations with live allocations stay, and the current one starts empty.
Keep(m) ==
    /\ bumps' = [n \in 0..Cardinality(Generations) |->
                   UNION {bumps[g] : g \in {h \in Generations : m[h] = n}}]
    /\ table' = [b \in Addr |-> IF b \in live
                                 THEN [table[b] EXCEPT !.gen = m[table[b].gen]]
                                 ELSE NoRecord]

Sweep ==
    /\ reset.at = "mark" /\ pending = {}
    /\ \E m \in [Generations -> 0..Cardinality(Generations) - 1] : Renumbering(m) /\ Keep(m)
    /\ reclaimed' = {<<b, table[b].size>> : b \in Bases \ live}
    /\ refs' = [o \in Node |-> IF o \in live \cup owners THEN refs[o] ELSE <<>>]
    /\ allocRefs' = [id \in Serial |-> [o \in Addr |->
                       IF \E b \in live : table[b].serial = id /\ o \in Span(b)
                       THEN allocRefs[id][o] ELSE <<>>]]
    /\ lengths' = [p \in Addr |-> IF WasReclaimed(reclaimed', p) THEN 0 ELSE lengths[p]]
    /\ reset' = [at |-> "hook", hook |-> 1]
    /\ pending' = {} /\ owners' = {} /\ live' = {}
    /\ UNCHANGED <<tracing, serial, mem, roots, global, pinned, side, dead, budget>>

\* A release hook first collects the entries the reset reclaimed.
HookBegin ==
    /\ reset.at = "hook" /\ reset.hook \in Table
    /\ dead' = {<<p, side[reset.hook][p]>> : p \in
                  {q \in Addr : side[reset.hook][q] # 0 /\ WasReclaimed(reclaimed, q)}}
    /\ reset' = [reset EXCEPT !.at = "drop"]
    /\ UNCHANGED <<tracing, bumps, table, serial, graph, lengths, side, marking,
                   reclaimed, budget>>

\* Then drops each one that is still the same, and calls its owner.
HookDrop(p, id) ==
    /\ reset.at = "drop" /\ <<p, id>> \in dead
    /\ dead' = dead \ {<<p, id>>}
    /\ IF side[reset.hook][p] = id
       THEN /\ side' = [side EXCEPT ![reset.hook][p] = 0]
            /\ reset' = [reset EXCEPT !.at = "callback"]
       ELSE UNCHANGED <<side, reset>>
    /\ UNCHANGED <<tracing, bumps, table, serial, graph, lengths, marking,
                   reclaimed, budget>>

CallbackReturns ==
    /\ reset.at = "callback"
    /\ reset' = [reset EXCEPT !.at = "drop"]
    /\ UNCHANGED <<tracing, bumps, table, serial, graph, lengths, side, marking,
                   reclaimed, dead, budget>>

HookEnd ==
    /\ reset.at = "drop" /\ dead = {}
    /\ reset' = [at |-> "hook", hook |-> reset.hook + 1]
    /\ UNCHANGED <<tracing, bumps, table, serial, graph, lengths, side, marking,
                   reclaimed, dead, budget>>

ResetEnd ==
    /\ reset.at = "hook" /\ reset.hook \notin Table
    /\ reset' = Idle
    /\ UNCHANGED <<tracing, bumps, table, serial, graph, lengths, side, marking,
                   reclaimed, dead, budget>>

-----------------------------------------------------------------------------
Init ==
    /\ tracing = FALSE
    /\ bumps = [g \in {0} |-> {}]
    /\ table = [b \in Addr |-> NoRecord] /\ serial = 0
    /\ mem = [w \in Addr |-> Null]
    /\ roots = {} /\ global = [s \in Slots |-> Null]
    /\ pinned = [p \in Node |-> 0]
    /\ refs = [o \in Node |-> <<>>]
    /\ allocRefs = [id \in Serial |-> [o \in Addr |-> <<>>]]
    /\ lengths = [p \in Addr |-> 0] /\ side = [t \in Table |-> [p \in Addr |-> 0]]
    /\ reset = Idle
    /\ pending = {} /\ owners = {} /\ live = {}
    /\ reclaimed = {} /\ dead = {}
    /\ budget = MaxOps

Mutate ==
    /\ Running
    /\ \/ \E w \in Covered, v \in Values : Store(w, v)
       \/ \E s \in Slots : Unregister(s) \/ \E v \in Values : StoreGlobal(s, v)
       \/ \E p \in Values : Pin(p)
       \/ \E o \in Node, new \in Objects :
            \/ \E old \in {Null} \cup Elements(refs[o]) : ReplaceReference(o, old, new)
            \/ \E id \in {SerialOf(o)} \cap Serial :
                 \E old \in {Null} \cup Elements(allocRefs[id][o]) :
                    ReplaceAllocationReference(id, o, old, new)
       \/ \E p \in Bases : Measure(p)

Next ==
    \/ EnableTracing
    \/ \E b \in Addr, size \in Sizes : Alloc(b, size)
    \/ Mutate
    \/ \E p \in Node : Unpin(p)
    \/ \E t \in Table, p \in Addr : Track(t, p) \/ Untrack(t, p)
    \/ ResetUntraced \/ ResetBegin
    \/ \E p \in pending : MarkStep(p)
    \/ Sweep \/ HookBegin
    \/ \E entry \in dead : HookDrop(entry[1], entry[2])
    \/ CallbackReturns \/ HookEnd \/ ResetEnd

Spec == Init /\ [][Next]_vars

-----------------------------------------------------------------------------
\* Every variable keeps its type.
TypeOK ==
    /\ tracing \in BOOLEAN /\ serial \in 0..MaxSerial
    /\ DOMAIN bumps = 0..Current /\ \A g \in DOMAIN bumps : bumps[g] \subseteq Addr
    /\ table \in [Addr -> Record \cup {NoRecord}]
    /\ mem \in [Addr -> Node] /\ global \in [Slots -> Node]
    /\ roots \subseteq Slots /\ pinned \in [Node -> Nat]
    /\ refs \in [Node -> Seq(Node)] /\ allocRefs \in [Serial -> [Addr -> Seq(Node)]]
    /\ lengths \in [Addr -> {0} \cup Serial] /\ side \in [Table -> [Addr -> {0} \cup Serial]]
    /\ reset \in [at : {"no", "mark", "hook", "drop", "callback"}, hook : 0..NumTables + 1]
    /\ pending \subseteq Node /\ owners \subseteq Node /\ live \subseteq Addr
    /\ reclaimed \subseteq Addr \X Nat /\ dead \subseteq Addr \X Serial
    /\ budget \in 0..MaxOps

\* Every recorded allocation lies in the memory of the generation its record
\* names, whatever resets renumbered the generations since, and no two overlap.
\* So memory is neither freed nor handed out again under a recorded allocation.
GenerationsBackRecords ==
    \A b \in Addr : table[b] # NoRecord =>
        /\ table[b].gen \in DOMAIN bumps
        /\ Span(b) \subseteq bumps[table[b].gen]
        /\ \A c \in Addr : table[c] # NoRecord /\ b # c => Span(b) \cap Span(c) = {}

\* No pointer dangles: what a registered global, a pin or a word of a recorded
\* allocation holds points into a recorded allocation (or out of the arena).
PointersStayValid ==
    /\ \A s \in roots : global[s] \in Values
    /\ \A p \in Node : pinned[p] > 0 => p \in Values
    /\ \A b \in Addr : table[b] # NoRecord => Contents(b) \subseteq Values

\* What the roots reach: the smallest set that contains them and everything
\* their side references and the allocations they point into hold.
Reached ==
    LET held   == [p \in Node |-> Children(p) \cup
                      UNION {Contents(b) : b \in {c \in Addr : Within(c, p)}}]
        closed == {S \in SUBSET Node : Roots \subseteq S /\ \A p \in S : held[p] \subseteq S}
    IN  {n \in Node : \A S \in closed : n \in S}

\* A reset keeps exactly the allocations that are reached, and the side
\* references of everything reached.
ResetIsExact ==
    [][Sweep =>
         LET reached == Reached
         IN  /\ Covered' = UNION {Span(b) : b \in {c \in Addr : \E p \in reached : Within(c, p)}}
             /\ \A p \in reached : refs'[p] = refs[p]]_vars

\* Between resets a side table has an entry for an address only if it was made
\* for the allocation that is there now, never for one it replaced.
SideTablesExact ==
    reset.at = "no" =>
        \A p \in Addr :
            /\ lengths[p] # 0 => lengths[p] = SerialOf(p)
            /\ \A t \in Table : side[t][p] # 0 => side[t][p] = SerialOf(p)

\* The tables that describe the arena's memory are exact after any resets: every
\* record is backed by memory of its own, and no side table speaks of an
\* allocation that is gone.
TablesAreExact == GenerationsBackRecords /\ SideTablesExact

\* A release hook drops the entries of dead allocations only.
OnlyDeadDropped ==
    [][\A t \in Table, p \in Addr :
          reset.at = "drop" /\ side'[t][p] # side[t][p] => side[t][p] # SerialOf(p)]_vars
=============================================================================
