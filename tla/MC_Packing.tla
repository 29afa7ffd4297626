---------------------------- MODULE MC_Packing ----------------------------
(***************************************************************************)
(* Small requests: up to four builders of one or two instructions, some    *)
(* empty, some too large to be sent, with shared accounts and spare keys.  *)
(***************************************************************************)
EXTENDS Packing

CONSTANTS acct1, acct2, acct3, key1, key2    \* three accounts and two signers

Ix(bytes, keys, signs) == [bytes |-> bytes, keys |-> keys, signs |-> signs]

\* What a builder holds: nothing, one instruction of another size or with
\* other accounts, two of them, one that nearly fills a transaction, and one
\* that is too large.
MCShape ==
    {[ixs |-> <<>>, signers |-> <<key2>>],
     [ixs |-> <<Ix(1, {acct1}, {})>>, signers |-> <<>>],
     [ixs |-> <<Ix(2, {acct1, acct2}, {}), Ix(1, {key1}, {key1})>>, signers |-> <<key1, key2, key1>>],
     [ixs |-> <<Ix(4, {acct2, acct3, key2}, {key2})>>, signers |-> <<key2>>],
     [ixs |-> <<Ix(18, {acct1}, {})>>, signers |-> <<>>],
     [ixs |-> <<Ix(30, {acct1}, {})>>, signers |-> <<>>]}

\* The same shape may come twice: an instruction is known by its place.
Placed(shapes) ==
    [i \in DOMAIN shapes |->
        [instructions |->
            [k \in DOMAIN shapes[i].ixs |->
                [id |-> <<i, k>>, bytes |-> shapes[i].ixs[k].bytes,
                 keys |-> shapes[i].ixs[k].keys, signs |-> shapes[i].ixs[k].signs]],
         signers |-> shapes[i].signers]]

\* Every list of three, and the lists of four of a tiny, a middling and a large
\* builder: there the search overshoots in both directions.
MCPlain == {shape \in MCShape : Len(shape.ixs) = 1 /\ shape.ixs[1].bytes < 30}

MCRequest ==
    {Placed(shapes) : shapes \in UNION {[1 .. n -> MCShape] : n \in 0 .. 3}
                                    \cup [1 .. 4 -> MCPlain]}

MCInstruction == UNION {UNION {ToSet(b[i].instructions) : i \in DOMAIN b} : b \in MCRequest}

\* No table, and one that has a signer among its addresses.
MCOneTable == {<<>>, <<{acct1, acct2, acct3, key1}>>}
=============================================================================
