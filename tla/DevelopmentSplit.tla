---------------------------- MODULE DevelopmentSplit ----------------------------
(* unsw_development_split: which partition each registered flow goes to.  Flows *)
(* that may tell of one another, because they are the same source row or        *)
(* because the same endpoints speak at overlapping times, form a leakage group; *)
(* a group goes to one partition as a whole, or to quarantine.                  *)
(*                                                                              *)
(* A table of flows is a sequence; the position is the record ordinal.  A flow  *)
(* has a source fingerprint, a tuple fingerprint, a closed interval of time, a  *)
(* timing category and the adapter's verdict; its label is left out.            *)
EXTENDS Naturals, Sequences, FiniteSets, SequencesExt

CONSTANTS
    DevelopmentStart, DevelopmentEnd, TestStart, TestEnd,  \* the policy's periods
    Validates  \* anchors the seeded hash sends to validation

ASSUME SplitConfiguration ==
    /\ {DevelopmentStart, DevelopmentEnd, TestStart, TestEnd} \subseteq Nat
    /\ DevelopmentStart < DevelopmentEnd /\ DevelopmentEnd <= TestStart /\ TestStart < TestEnd

Rows(table) == DOMAIN table
Accepted(table) == {r \in Rows(table) : table[r].accepted}

-----------------------------------------------------------------------------
(* DiskUnionFind: the root of a component is its smallest ordinal. *)
find(parent, r) ==
    LET root[k \in DOMAIN parent] == IF parent[k] = k THEN k ELSE root[parent[k]]
    IN root[r]

union(parent, a, b) ==
    LET roots == {find(parent, a), find(parent, b)}
    IN [parent EXCEPT ![Max(roots)] = Min(roots)]

SourceOrder(table) ==
    SetToSortSeq(Accepted(table), LAMBDA r, s :
        \/ table[r].source < table[s].source
        \/ table[r].source = table[s].source /\ r < s)

(* Every row of a fingerprint joins the first row of it. *)
UnionExactSourceDuplicates(table, parent) ==
    FoldLeft(LAMBDA acc, r :
                 IF acc.current # table[r].source
                 THEN [acc EXCEPT !.current = table[r].source, !.first = r]
                 ELSE [acc EXCEPT !.parent = union(acc.parent, acc.first, r)],
             [parent |-> parent, current |-> 0, first |-> 0],
             SourceOrder(table)).parent

TupleOrder(table) ==
    SetToSortSeq(Accepted(table), LAMBDA r, s :
        LET a == table[r]
            b == table[s]
        IN \/ a.tuple < b.tuple
           \/ a.tuple = b.tuple /\ a.start < b.start
           \/ a.tuple = b.tuple /\ a.start = b.start /\ a.end < b.end
           \/ a.tuple = b.tuple /\ a.start = b.start /\ a.end = b.end /\ r < s)

(* Mutant: the component ends where its last flow ends. *)
ComponentEndLast(sofar, end) == end

(* component_end: the latest end in the component, however short its last flow. *)
ComponentEnd(sofar, end) == Max({sofar, end})

(* One sweep over each tuple's flows in the order of their starts. *)
UnionOverlapComponents(table, parent) ==
    FoldLeft(LAMBDA acc, r :
                 IF acc.current # table[r].tuple \/ table[r].start > acc.end
                 THEN [acc EXCEPT !.current = table[r].tuple, !.anchor = r, !.end = table[r].end]
                 ELSE [acc EXCEPT !.parent = union(acc.parent, acc.anchor, r),
                                  !.end = ComponentEnd(acc.end, table[r].end)],
             [parent |-> parent, current |-> 0, anchor |-> 0, end |-> 0],
             TupleOrder(table)).parent

Groups(table) ==
    LET parent == UnionOverlapComponents(table,
                      UnionExactSourceDuplicates(table, [r \in Accepted(table) |-> r]))
    IN [r \in Accepted(table) |-> find(parent, r)]

-----------------------------------------------------------------------------
(* GroupAccumulator.include: the period a flow starts in, and what is wrong. *)
InDevelopment(flow) == DevelopmentStart <= flow.start /\ flow.start < DevelopmentEnd
InTest(flow) == TestStart <= flow.start /\ flow.start < TestEnd

IntervalFailure(flow) ==
    \/ InDevelopment(flow) /\ flow.end > DevelopmentEnd
    \/ InTest(flow) /\ flow.end > TestEnd

(* _quarantine_mask, as the condition that some bit of it is set. *)
Quarantined(flows) ==
    \/ \E f \in flows : f.timing # "explained"
    \/ (\E f \in flows : InDevelopment(f)) /\ (\E f \in flows : InTest(f))
    \/ \E f \in flows : IntervalFailure(f)
    \/ \E f \in flows : ~InDevelopment(f) /\ ~InTest(f)

(* _group_decision for the group of an anchor. *)
Decision(flows, anchor) ==
    IF Quarantined(flows) THEN "quarantine"
    ELSE IF \E f \in flows : InDevelopment(f)
         THEN IF anchor \in Validates THEN "validation" ELSE "train"
         ELSE "test"

Members(table, groups, anchor) ==
    {table[r] : r \in {q \in Accepted(table) : groups[q] = anchor}}

(* The assignment artifact: one disposition per ordinal. *)
Assignment(table) ==
    LET groups == Groups(table)
    IN [r \in Rows(table) |->
           IF table[r].accepted
           THEN Decision(Members(table, groups, groups[r]), groups[r])
           ELSE "rejected"]

(* _acceptance_checks that depend on the assignment.  A partition must hold      *)
(* benign flows and attacks; without labels it must hold a flow.                 *)
Acceptable(assigned) ==
    \A name \in {"train", "validation"} : \E r \in DOMAIN assigned : assigned[r] = name

-----------------------------------------------------------------------------
(* What the grouping promises, without sweeps and parents. *)
Linked(a, b) ==
    \/ a.source = b.source
    \/ a.tuple = b.tuple /\ a.start <= b.end /\ b.start <= a.end

(* The classes of the closure of Linked: a flow joins what it is linked to. *)
Components(table) ==
    LET joined(r, parts) ==
            LET mine == {part \in parts : \E q \in part : Linked(table[q], table[r])}
            IN (parts \ mine) \cup {{r} \cup UNION mine}
    IN FoldSet(joined, {}, Accepted(table))

(* No two flows of a class go to different partitions. *)
KeepsTogether(table) ==
    LET assigned == Assignment(table)
    IN \A c \in Components(table) : \A a, b \in c \cap Rows(table) :
          assigned[a] = assigned[b]

PromisedAssignment(table) ==
    LET components == Components(table)
    IN [r \in Rows(table) |->
           IF ~table[r].accepted THEN "rejected"
           ELSE LET component == CHOOSE c \in components : r \in c
                IN Decision({table[q] : q \in component}, Min(component))]
=============================================================================
