---------------------------- MODULE AtomicMemory ----------------------------
(***************************************************************************)
(* What the correction seqlock promises a recall: memories that change in   *)
(* one step each, and an answer that is read off them in one step.  No      *)
(* index, no scoring cache, no epoch, no attempt that is thrown away.       *)
(***************************************************************************)
EXTENDS Naturals

CONSTANTS Rid, Reader, Version   \* version 0: there is none

VARIABLES memory,   \* per record: status, and the versions of text and scalars
          answer    \* per reader: the answer handed out, if there is one

vars == <<memory, answer>>

NoAnswer == [given |-> FALSE, hits |-> {}]

\* A record as an answer shows it: ranked, scored and told by one version.
Current(r) ==
    [rid |-> r, vector |-> memory[r].text, scores |-> memory[r].facts,
     text |-> memory[r].text, facts |-> memory[r].facts]

Status(r) == memory[r].status
Known == {r \in Rid : Status(r) # "absent"}

Init ==
    /\ memory \in [Rid -> {[status |-> "absent", text |-> 0, facts |-> 0],
                           [status |-> "active", text |-> 1, facts |-> 1]}]
    /\ answer = [q \in Reader |-> NoAnswer]

Insert(r, n) ==
    /\ Status(r) = "absent" /\ n > 0
    /\ memory' = [memory EXCEPT ![r] = [status |-> "active", text |-> n, facts |-> n]]
    /\ UNCHANGED answer

\* A correction of the text rewrites the scalars too; versions go forward.
Correct(r, n) ==
    /\ Status(r) = "active" /\ n > memory[r].text /\ n > memory[r].facts
    /\ memory' = [memory EXCEPT ![r].text = n, ![r].facts = n]
    /\ UNCHANGED answer

Rescore(r, n) ==
    /\ Status(r) = "active" /\ n > memory[r].facts
    /\ memory' = [memory EXCEPT ![r].facts = n]
    /\ UNCHANGED answer

Forget(r) ==
    /\ Status(r) = "active"
    /\ memory' = [memory EXCEPT ![r].status = "tombstoned"]
    /\ UNCHANGED answer

\* Which records a recall finds is ranking's affair; what it says of them is
\* what holds at this moment.
Answer(q) ==
    /\ ~answer[q].given
    /\ \E found \in SUBSET Known :
          answer' = [answer EXCEPT ![q] =
                        [given |-> TRUE, hits |-> {Current(r) : r \in found}]]
    /\ UNCHANGED memory

Take(q) ==
    /\ answer[q].given
    /\ answer' = [answer EXCEPT ![q] = NoAnswer]
    /\ UNCHANGED memory

Next ==
    \/ \E r \in Rid : Forget(r) \/ \E n \in Version : Insert(r, n) \/ Correct(r, n)
                                                       \/ Rescore(r, n)
    \/ \E q \in Reader : Answer(q) \/ Take(q)

Spec == Init /\ [][Next]_vars
=============================================================================
