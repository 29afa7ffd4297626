------------------------------ MODULE Packing ------------------------------
(***************************************************************************)
(* How the client libraries turn a list of TransactionBuilders into        *)
(* transactions: condense merges neighbouring builders while the result    *)
(* still fits (solana-client/src/transaction.rs), the fit is judged with   *)
(* the lookup tables the optimizer selects (solana-client/src/             *)
(* lookup_tables.rs), and every merged builder is then compiled and signed.*)
(*                                                                         *)
(* An instruction is its data size and the accounts it names; a builder is *)
(* the instructions that must stay together and the keypairs given with    *)
(* them. The loops of condense_left and find_first_condensed are steps of  *)
(* the specification, so that their termination is a property and not an   *)
(* assumption.                                                             *)
(***************************************************************************)
EXTENDS Integers, Sequences, FiniteSets, SequencesExt, FiniteSetsExt

CONSTANTS
    Key,            \* account addresses
    Instruction,    \* the instructions builders are made of
    Request,        \* the lists of builders a caller may pass
    TableList,      \* the lists of lookup tables a caller may pass
    HeaderSize,     \* signatures, header, blockhash and payer, in bytes
    KeySize,        \* bytes of an address (32)
    MaxTxSize,      \* MAX_TX_SIZE (1232)
    MaxAttempts,    \* bound of the loop of condense_left (20)
    PerfectLimit    \* tables up to which all combinations are tried (10)

ASSUME PackingAssumption ==
    /\ {HeaderSize, KeySize, MaxTxSize, MaxAttempts, PerfectLimit} \subseteq Nat \ {0}
    /\ IsFiniteSet(Key)
    /\ \A ix \in Instruction : ix.bytes \in Nat /\ ix.keys \subseteq Key /\ ix.signs \subseteq Key
    /\ \A tables \in TableList : \A i \in DOMAIN tables : tables[i] \subseteq Key

VARIABLES
    pc,         \* "idle", "shrink" (condense_left), "search", "compile", "done"
    txs,        \* the argument of condense
    tables,     \* the lookup tables given with it
    right,      \* condense_right, or condense_fast
    usefulTables,   \* condense_left: the tables that are not useless for txs
    shrinkMe,   \* builders not yet condensed, in the order condense_left sees
    condensed,  \* builders already merged
    attempts,   \* rounds of condense_left
    bounds,     \* find_first_condensed: the answer lies between the two
    tryLen,     \* the prefix whose size is measured next
    output,     \* what condense returned
    compiled    \* the transactions compiled from it

search == <<bounds, tryLen>>
vars == <<pc, txs, tables, right, usefulTables, shrinkMe, condensed, attempts, search, output, compiled>>

-----------------------------------------------------------------------------
(* Builders and their instructions *)

ijoin(builders) ==
    [instructions |-> FlattenSeq([i \in DOMAIN builders |-> builders[i].instructions]),
     signers |-> FlattenSeq([i \in DOMAIN builders |-> builders[i].signers])]

\* A mutation: the order inside a builder is not turned back.
ShallowReverse(builders) == Reverse(builders)

DeepReverse(builders) ==
    LET inner == [i \in DOMAIN builders |->
                    [builders[i] EXCEPT !.instructions = Reverse(@)]]
    IN  Reverse(inner)

instructions(builders) == FlattenSeq([i \in DOMAIN builders |-> builders[i].instructions])

Accounts(ixs) == UNION {ixs[i].keys : i \in DOMAIN ixs}

NeedsSignature(ixs) == UNION {ixs[i].signs : i \in DOMAIN ixs}

Builder == [instructions : Seq(Instruction), signers : Seq(Key)]

\* A builder comes with the keypairs of its instructions, and perhaps others.
HasSigners(builder) == NeedsSignature(builder.instructions) \subseteq ToSet(builder.signers)

ASSUME RequestAssumption ==
    \A builders \in Request :
        /\ builders \in Seq(Builder)
        /\ \A i \in DOMAIN builders : HasSigners(builders[i])

-----------------------------------------------------------------------------
(* Selecting lookup tables *)

\* The intersections are numbered after the useless ones are filtered out, so
\* that "index" is the position in the filtered list, not the table's own.
TableIntersections(accounts, tbls) ==
    LET all  == [i \in DOMAIN tbls |-> accounts \cap tbls[i]]
        kept == SelectSeq(all, LAMBDA isect : Cardinality(isect) > 1)
    IN  [i \in DOMAIN kept |-> [index |-> i, isect |-> kept[i]]]

GetTableIntersections(ixs, tbls) == TableIntersections(Accounts(ixs), tbls)

\* Sorted by the number of matches, entries of the same size in their order.
SortByMatches(entries) ==
    LET before(x, y) ==
            \/ Cardinality(x.isect) < Cardinality(y.isect)
            \/ Cardinality(x.isect) = Cardinality(y.isect) /\ x.index < y.index
    IN  SortSeq(entries, before)

ExcludeSubsetsAndUseless(entries, maxNovel) ==
    LET sorted == SortByMatches(entries)
        redundant(i) == \E j \in i + 1 .. Len(sorted) :
                            Cardinality(sorted[i].isect \ sorted[j].isect) <= maxNovel
        keep == {sorted[i] : i \in {k \in DOMAIN sorted : ~redundant(k)}}
    IN  SelectSeq(sorted, LAMBDA e : Cardinality(e.isect) > 1 /\ e \in keep)

\* The first of the cheapest combinations in the order of powerset: the
\* shorter first, then the one that has the earlier entries.
PerfectlyOptimize(entries) ==
    LET matched(combo) == UNION {entries[i].isect : i \in combo}
        adjustment(combo) ==
            (Cardinality(combo) - Cardinality(matched(combo))) * KeySize
                + Cardinality(matched(combo))
        combos == SUBSET (DOMAIN entries)
        cheapest == {s \in combos : \A t \in combos : adjustment(s) <= adjustment(t)}
        precedes(s, t) ==
            \/ Cardinality(s) < Cardinality(t)
            \/ /\ Cardinality(s) = Cardinality(t)
               /\ s # t
               /\ Min((s \ t) \cup (t \ s)) \in s
        first == CHOOSE s \in cheapest : \A t \in cheapest \ {s} : precedes(s, t)
    IN  {entries[i].index : i \in first}

\* The tables of the given positions, in the order of the list (retain_cloned).
Retained(tbls, indices) ==
    LET order == SelectSeq([i \in DOMAIN tbls |-> i], LAMBDA i : i \in indices)
    IN  [i \in DOMAIN order |-> tbls[order[i]]]

OptimizeLookupTables(ixs, tbls) ==
    LET deduped == ExcludeSubsetsAndUseless(GetTableIntersections(ixs, tbls), 0)
        rough   == ExcludeSubsetsAndUseless(deduped, 1)
    IN  IF Len(deduped) = 1 THEN <<tbls[deduped[1].index]>>
        ELSE IF Len(deduped) < PerfectLimit THEN Retained(tbls, PerfectlyOptimize(deduped))
        ELSE [i \in DOMAIN rough |-> tbls[rough[i].index]]

ExcludeUselessLookupTables(ixs, tbls) ==
    LET kept == ExcludeSubsetsAndUseless(GetTableIntersections(ixs, tbls), 0)
    IN  [i \in DOMAIN kept |-> tbls[kept[i].index]]

-----------------------------------------------------------------------------
(* Sizes *)

\* The bytes of the instructions themselves.
DataSize(ixs) ==
    LET bytes[i \in 0 .. Len(ixs)] == IF i = 0 THEN 0 ELSE bytes[i - 1] + ixs[i].bytes
    IN  bytes[Len(ixs)]

\* The message compiler looks up every address that does not sign, in the
\* first table that has it, and drops the tables it takes nothing from.  What
\* two tables are taken for is disjoint, so that the sets count the tables.
LookedUp(accounts, static, chosen) ==
    {(accounts \ static) \cap (chosen[i] \ UNION {chosen[j] : j \in 1 .. i - 1}) :
        i \in DOMAIN chosen} \ {{}}

MessageSize(ixs, chosen) ==
    LET accounts == Accounts(ixs)
        taken == LookedUp(accounts, NeedsSignature(ixs), chosen)
    IN  HeaderSize + DataSize(ixs)
            + KeySize * (Cardinality(accounts \ UNION taken) + Cardinality(taken))
            + Cardinality(UNION taken)

\* base64::encode: four characters for each started three bytes.
EncodedSize(bytes) == 4 * ((bytes + 2) \div 3)

\* A transaction without instructions fits.
ASSUME HeaderAssumption == EncodedSize(HeaderSize) <= MaxTxSize

FakeEncodeWithLookup(builder, tbls) ==
    EncodedSize(MessageSize(builder.instructions,
                            OptimizeLookupTables(builder.instructions, tbls)))

Fits(builder, tbls) == FakeEncodeWithLookup(builder, tbls) <= MaxTxSize

-----------------------------------------------------------------------------
(* condense *)

Init ==
    /\ pc = "idle"
    /\ txs = <<>> /\ tables = <<>> /\ right = TRUE /\ usefulTables = <<>>
    /\ shrinkMe = <<>> /\ condensed = <<>> /\ attempts = 0
    /\ bounds = <<0, 0>> /\ tryLen = 0
    /\ output = <<>> /\ compiled = <<>>

\* A mutation: always from the left.
LeftToRight(builders, fromRight) == builders

\* condense_right is condense_left between two reversals.
Oriented(builders, fromRight) == IF fromRight THEN DeepReverse(builders) ELSE builders

\* condense or condense_fast is called.
Condense(builders, tbls, fromRight) ==
    /\ pc = "idle"
    /\ pc' = "shrink"
    /\ txs' = builders /\ tables' = tbls /\ right' = fromRight
    /\ usefulTables' = ExcludeUselessLookupTables(instructions(builders), tbls)
    /\ shrinkMe' = Oriented(builders, fromRight)
    /\ condensed' = <<>> /\ attempts' = 0
    /\ output' = <<>> /\ compiled' = <<>>
    /\ UNCHANGED search

\* The head of the loop: give up, return, or look for the next group.
StartSearch ==
    /\ pc = "shrink" /\ attempts < MaxAttempts /\ shrinkMe # <<>>
    /\ pc' = "search"
    /\ attempts' = attempts + 1
    /\ tryLen' = Len(shrinkMe)
    /\ bounds' = <<1, Len(shrinkMe)>>
    /\ UNCHANGED <<txs, tables, right, usefulTables, shrinkMe, condensed, output, compiled>>

Returned ==
    /\ pc = "shrink" /\ attempts < MaxAttempts /\ shrinkMe = <<>>
    /\ output' = Oriented(condensed, right)
    /\ pc' = "compile"
    /\ UNCHANGED <<txs, tables, right, usefulTables, shrinkMe, condensed, attempts, search, compiled>>

GaveUp ==
    /\ pc = "shrink" /\ attempts = MaxAttempts
    /\ output' = txs
    /\ pc' = "compile"
    /\ UNCHANGED <<txs, tables, right, usefulTables, shrinkMe, condensed, attempts, search, compiled>>

\* round(MAX_TX_SIZE / size * len) of the floating point numbers.
Estimate(size, len) == (2 * MaxTxSize * len + size) \div (2 * size)

\* A mutation: the middle is rounded down.
HalfwayDown(b) == (b[1] + b[2]) \div 2

Halfway(b) == (b[1] + b[2] + 1) \div 2

\* A mutation: the estimate is taken as it is.
Unclamped(n, b) == n

Clamp(n, b) == Min({b[2], Max({b[1], n})})

NextTry(b, guess) == IF guess = tryLen THEN Halfway(b) ELSE guess

\* A mutation: one step of the encoding too many is let through.
PastLimit(size) == IF size > MaxTxSize + 4 THEN <<bounds[1], tryLen - 1>> ELSE <<tryLen, bounds[2]>>

Narrowed(size) == IF size > MaxTxSize THEN <<bounds[1], tryLen - 1>> ELSE <<tryLen, bounds[2]>>

SearchStep ==
    /\ pc = "search" /\ bounds[1] # bounds[2]
    /\ LET size == FakeEncodeWithLookup(ijoin(SubSeq(shrinkMe, 1, tryLen)), usefulTables)
           b == Narrowed(size)
       IN  /\ bounds' = b
           /\ tryLen' = NextTry(b, Clamp(Estimate(size, tryLen), b))
    /\ UNCHANGED <<pc, txs, tables, right, usefulTables, shrinkMe, condensed, attempts, output, compiled>>

\* A mutation: an empty merge is kept.
TakeEmpty ==
    /\ pc = "search" /\ bounds[1] = bounds[2]
    /\ condensed' = Append(condensed, ijoin(SubSeq(shrinkMe, 1, bounds[1])))
    /\ shrinkMe' = SubSeq(shrinkMe, bounds[1] + 1, Len(shrinkMe))
    /\ pc' = "shrink"
    /\ UNCHANGED <<txs, tables, right, usefulTables, attempts, search, output, compiled>>

\* An empty merge is dropped; a search that ended with 0 takes nothing.
TakeGroup ==
    /\ pc = "search" /\ bounds[1] = bounds[2]
    /\ LET next == ijoin(SubSeq(shrinkMe, 1, bounds[1]))
       IN  condensed' = IF next.instructions = <<>> THEN condensed ELSE Append(condensed, next)
    /\ shrinkMe' = SubSeq(shrinkMe, bounds[1] + 1, Len(shrinkMe))
    /\ pc' = "shrink"
    /\ UNCHANGED <<txs, tables, right, usefulTables, attempts, search, output, compiled>>

-----------------------------------------------------------------------------
(* Compiling and signing *)

\* A mutation: every keypair is kept, as if nothing were pruned.
KeepAll(builder) == ToSet(builder.signers)

\* The signers that are needed, each of them once.
Prune(builder) == {k \in ToSet(builder.signers) : k \in NeedsSignature(builder.instructions)}

\* A mutation: the tables are forgotten.
CompiledPlain(builder) ==
    [size |-> EncodedSize(MessageSize(builder.instructions, <<>>)),
     signed |-> Prune(builder) = NeedsSignature(builder.instructions)]

\* A keypair the message does not name is refused, and so is a transaction
\* that somebody who must sign has not signed.
CompileWithLookup(builder) ==
    LET signers == Prune(builder)
        chosen == OptimizeLookupTables(builder.instructions, tables)
    IN  [size |-> EncodedSize(MessageSize(builder.instructions, chosen)),
         signed |-> /\ signers \subseteq NeedsSignature(builder.instructions)
                    /\ NeedsSignature(builder.instructions) \subseteq signers]

Compile ==
    /\ pc = "compile"
    /\ compiled' = [i \in DOMAIN output |-> CompileWithLookup(output[i])]
    /\ pc' = "done"
    /\ UNCHANGED <<txs, tables, right, usefulTables, shrinkMe, condensed, attempts, search, output>>

\* The caller takes the transactions; what the loops left behind is dropped.
Return ==
    /\ pc = "done"
    /\ pc' = "idle"
    /\ txs' = <<>> /\ tables' = <<>> /\ right' = TRUE /\ usefulTables' = <<>>
    /\ shrinkMe' = <<>> /\ condensed' = <<>> /\ attempts' = 0
    /\ bounds' = <<0, 0>> /\ tryLen' = 0
    /\ output' = <<>> /\ compiled' = <<>>

Call == \E b \in Request, t \in TableList, r \in BOOLEAN : Condense(b, t, r)

Work == StartSearch \/ Returned \/ GaveUp \/ SearchStep \/ TakeGroup \/ Compile \/ Return

Next == Call \/ Work

Spec == Init /\ [][Next]_vars

\* The functions are synchronous: once called they run.
FairSpec == Spec /\ WF_vars(Work)

-----------------------------------------------------------------------------
(* Properties *)

\* The state keeps its shape, and the searched prefix is a prefix of what is
\* left (txs[0..try_len] would panic otherwise).
TypeOK ==
    /\ pc \in {"idle", "shrink", "search", "compile", "done"}
    /\ right \in BOOLEAN
    /\ attempts \in 0 .. MaxAttempts
    /\ pc = "search" => /\ tryLen \in 0 .. Len(shrinkMe)
                        /\ bounds[2] \in 0 .. Len(shrinkMe)
                        /\ bounds[1] \in 0 .. Len(shrinkMe)

\* The ways to cut the request into pieces of neighbouring builders: cuts are
\* the builders, other than the last, after which a piece ends.
Ends(cuts) == cuts \cup {Len(txs)}

Piece(cuts, end) ==
    SubSeq(txs, Max({0} \cup {e \in Ends(cuts) : e < end}) + 1, end)

HasInstructions(piece) == instructions(piece) # <<>>

Cuts == {cuts \in SUBSET (1 .. Len(txs) - 1) :
            \A e \in Ends(cuts) : Fits(ijoin(Piece(cuts, e)), usefulTables)}

TransactionCount(cuts) == Cardinality({e \in Ends(cuts) : HasInstructions(Piece(cuts, e))})

Fewest == Min({TransactionCount(cuts) : cuts \in Cuts})

\* Every builder fits alone, and fewer transactions suffice than condense_left
\* has rounds for.
Condensable ==
    /\ \A i \in DOMAIN txs : Fits(txs[i], usefulTables)
    /\ Fewest < MaxAttempts

\* "instructions order is not modified" (condense): whatever was merged, and
\* from whichever end, the instructions leave in the order they came, none
\* lost, none sent twice.
InstructionsKept == pc = "compile" => instructions(output) = instructions(txs)

\* "transaction may not exceed size limit": what condense merged fits; only a
\* builder that was too large by itself is passed on too large.
MergedFit ==
    pc = "compile" =>
        \A j \in DOMAIN output :
            \/ Fits(output[j], usefulTables)
            \/ \E i \in DOMAIN txs : output[j].instructions = txs[i].instructions

\* "the smallest possible number of TransactionBuilders": the search by
\* estimates finds as good a division as trying all of them, as long as it is
\* allowed enough rounds.
FewestTransactions == pc = "compile" /\ Condensable => Len(output) = Fewest

\* "Prioritizes bundling as much as possible with the final transaction" (with
\* the first one in condense_fast): no other division puts more there.
EndIsFullest ==
    pc = "compile" /\ Condensable /\ output # <<>> =>
        \A n \in 1 .. Len(txs) :
            LET piece == IF right THEN SubSeq(txs, n, Len(txs)) ELSE SubSeq(txs, 1, n)
                end   == IF right THEN Len(output) ELSE 1
            IN  Fits(ijoin(piece), usefulTables) =>
                    Len(instructions(piece)) <= Len(output[end].instructions)

\* condense checks sizes with the tables that are useful for the whole request,
\* compile chooses among all that were given: a transaction that fitted when it
\* was merged fits when it is compiled.
CompiledFits ==
    \A i \in DOMAIN compiled :
        Fits(output[i], usefulTables) => compiled[i].size <= MaxTxSize

\* What condense promises of its result: no fewer transactions are possible, none
\* of that number fills the end further, and what it filled still fits when it is
\* compiled.
CondensedIsOptimal == FewestTransactions /\ EndIsFullest /\ CompiledFits

\* Each builder carries the keypairs of its own instructions; merging and
\* pruning them loses no signature and keeps none the message does not name,
\* so that compile succeeds.
CompiledIsSigned == \A i \in DOMAIN compiled : compiled[i].signed

\* What leaves can be sent: the search stays within the list, what it merged
\* fits, and the compiled transaction is signed.
TransactionsAreValid == TypeOK /\ MergedFit /\ CompiledIsSigned

\* The search narrows its bounds until they meet: every call returns.
CallsReturn == pc # "idle" ~> pc = "idle"
=============================================================================
