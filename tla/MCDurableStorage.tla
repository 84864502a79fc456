-------------------------- MODULE MCDurableStorage --------------------------
(* A document with its graph, and a later upload that replaces one of its   *)
(* chunks and adds another, committed into one directory.                   *)
EXTENDS DurableStorage

CONSTANTS i1, i2

MCIds == {i1, i2}
MCVersions == {1, 2}

Item(i, v, p) == [id |-> i, content |-> [version |-> v, parent |-> p, linked |-> FALSE]]

FullBundle ==
    [raw |-> Item(i1, 1, NoRecord), source |-> Item(i1, 1, NoRecord),
     document |-> Item(i1, 1, i1), job |-> Item(i1, 1, NoRecord),
     chunks |-> <<Item(i1, 1, i1)>>, entities |-> <<Item(i1, 1, NoRecord)>>,
     relations |-> <<Item(i1, 1, NoRecord)>>,
     enrich |-> TRUE, logs |-> <<1>>, errors |-> <<>>]

UpdateBundle ==
    [raw |-> NoRecord, source |-> Item(i1, 2, NoRecord),
     document |-> Item(i2, 2, i1), job |-> NoRecord,
     chunks |-> <<Item(i1, 2, i2), Item(i2, 1, i2)>>, entities |-> <<>>,
     relations |-> <<>>,
     enrich |-> FALSE, logs |-> <<>>, errors |-> <<2>>]

MCBundles == {FullBundle, UpdateBundle}

\* A chunk of a document stored before, with an entity found in it.
SmallBundle ==
    [raw |-> NoRecord, source |-> NoRecord, document |-> NoRecord, job |-> NoRecord,
     chunks |-> <<Item(i1, 1, i1)>>, entities |-> <<Item(i1, 1, NoRecord)>>, relations |-> <<>>,
     enrich |-> TRUE, logs |-> <<>>, errors |-> <<>>]
OneBundle == {SmallBundle}

\* A negative max_retries still makes one attempt.
FewLimits == {-1, 1}

MCDirectSaves == {Save("sources", Item(i2, 2, NoRecord)), Log}
=============================================================================
