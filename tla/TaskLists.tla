----------------------------- MODULE TaskLists -----------------------------
(***************************************************************************)
(* The linked lists of the kernel as sequences without repetitions.        *)
(***************************************************************************)
EXTENDS Naturals, Sequences, SequencesExt, FiniteSets

\* LIST_INSERT_SORTED with task_prio_cmp: before the first element of lower
\* priority, so that equal priorities stay in arrival order.
SortedInsert(s, t, pri) ==
  LET i == SelectInSeq(s, LAMBDA u : pri[t] > pri[u])
  IN  IF i = 0 THEN Append(s, t) ELSE InsertAt(s, i, t)

\* LIST_REMOVE, from wherever in the list the element is linked.
Unlink(s, t) == RemoveFirst(s, t)

\* LIST_REMOVE of every element in S: of those kept, each moves up to its rank.
Without(s, S) ==
  LET kept == {i \in 1 .. Len(s) : s[i] \notin S}
      Rank(i) == Cardinality({j \in kept : j <= i})
  IN  [k \in 1 .. Cardinality(kept) |-> s[CHOOSE i \in kept : Rank(i) = k]]

\* The list is in the order of falling priority.
SortedByPrio(s, pri) ==
  \A i, j \in 1 .. Len(s) : i < j => pri[s[i]] >= pri[s[j]]
============================================================================
