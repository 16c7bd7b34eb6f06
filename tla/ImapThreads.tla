---------------------------- MODULE ImapThreads ----------------------------
(***************************************************************************)
(* How the messages of an IMAP folder are grouped in conversations          *)
(* (list_threads of provider-core/src/imap.rs): a union-find over their    *)
(* numbers, first along the answers, then along the subjects.              *)
(***************************************************************************)
EXTENDS Naturals

CONSTANTS Size,      \* messages fetched
          Subjects   \* bound: normalized subjects that are not empty

VARIABLES metas,     \* the messages: their own id, the id they answer, their subject
          parent,    \* union-find: each number's parent
          subjRoot,  \* the root first seen with each subject, 0 for none
          next       \* the step of the two loops that comes next

vars == <<metas, parent, subjRoot, next>>

Numbers == 1..Size
\* Two messages may bear one Message-ID; 0 is the absence of an id or a subject.
Meta == [mid : Numbers, irt : 0..Size, subj : 0..Subjects]

Init == /\ metas \in {f \in [Numbers -> Meta] : \A i \in Numbers : f[i].mid \in {1, i}}
        /\ parent = [i \in Numbers |-> i]
        /\ subjRoot = [s \in 1..Subjects |-> 0]
        /\ next = 1

\* uf_find: the root, and every number on the way hung under it.
Root(p) == LET up[j \in Numbers] == IF p[j] = j THEN j ELSE up[p[j]] IN up
Found(p, i) == LET above[j \in Numbers] == IF p[j] = j THEN {j} ELSE {j} \cup above[p[j]]
               IN  [j \in Numbers |-> IF j \in above[i] THEN Root(p)[i] ELSE p[j]]

Smaller(a, b) == IF a < b THEN a ELSE b
Larger(a, b) == IF a < b THEN b ELSE a
UnionOfNodes(p, a, b) == [p EXCEPT ![Larger(a, b)] = Smaller(a, b)]
\* uf_union: the smaller of the two roots becomes the root of both.
Union(p, a, b) == LET q == Found(Found(p, a), b)
                  IN  [q EXCEPT ![Larger(q[a], q[b])] = Smaller(q[a], q[b])]

\* mid_map: of two messages with one id the later is kept.
MidMap(id) == {i \in Numbers : metas[i].mid = id /\ \A j \in Numbers : metas[j].mid = id => j <= i}

ByAnswer == /\ next <= Size
            /\ parent' = IF MidMap(metas[next].irt) = {} THEN parent
                         ELSE Union(parent, CHOOSE i \in MidMap(metas[next].irt) : TRUE, next)
            /\ next' = next + 1
            /\ UNCHANGED <<metas, subjRoot>>

BySubject ==
  /\ next \in Size + 1 .. 2 * Size
  /\ LET i == next - Size
         s == metas[i].subj
         p == Found(parent, i)
     IN  IF s = 0 THEN UNCHANGED <<parent, subjRoot>>
         ELSE IF subjRoot[s] = 0 THEN parent' = p /\ subjRoot' = [subjRoot EXCEPT ![s] = p[i]]
         ELSE parent' = Union(p, subjRoot[s], p[i]) /\ UNCHANGED subjRoot
  /\ next' = next + 1
  /\ UNCHANGED metas

Next == ByAnswer \/ BySubject

Spec == Init /\ [][Next]_vars
-----------------------------------------------------------------------------
\* A parent is never larger than its child, so that looking for a root ends.
TypeOK == /\ metas \in [Numbers -> Meta]
          /\ \A i \in Numbers : parent[i] \in 1..i
          /\ subjRoot \in [1..Subjects -> 0..Size]
          /\ next \in 1..2 * Size + 1

Linked(i, j) == \/ i \in MidMap(metas[j].irt) \/ j \in MidMap(metas[i].irt)
                \/ metas[i].subj = metas[j].subj /\ metas[i].subj # 0
\* What is linked to a member of a closed set is a member of it.
Closed(s) == \A i \in s, j \in Numbers : Linked(i, j) => j \in s
Together(i, j) == \A s \in SUBSET Numbers : i \in s /\ Closed(s) => j \in s

\* The groups at the end are the connected components of "answers" and "has the
\* same subject", in whatever order the messages and the two loops link them.
GroupsAreComponents ==
  next > 2 * Size => \A i, j \in Numbers : (Root(parent)[i] = Root(parent)[j]) <=> Together(i, j)
=============================================================================
