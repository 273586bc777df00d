---------------------------- MODULE AcyclicCheck ----------------------------
(***************************************************************************)
(* check_acyclic of src/work/tms.rs as the code runs it, a depth-first     *)
(* search with three marks over the tasks, compared with what              *)
(* Partition.tla says it decides.  A step is one call of `visit`, or the   *)
(* return from one; `stack` holds the calls that have not returned and     *)
(* `left` the edges each of them has still to follow.  The document's      *)
(* order and that of depends_on are left open.  The search stops at the    *)
(* first cycle it meets; edges to ids that are not in the document are     *)
(* skipped.                                                                *)
(***************************************************************************)
EXTENDS Partition, Sequences

VARIABLES doc, roots, marks, stack, left, verdict

checkVars == <<doc, roots, marks, stack, left, verdict>>

Entry(deps) == [state |-> "pending", deps |-> deps, standing |-> "owner", at |-> 0]

CheckInit ==
  /\ doc = Empty /\ roots = {} /\ stack = <<>> /\ verdict = "none"
  /\ marks = [t \in Tasks |-> 0] /\ left = [t \in Tasks |-> {}]

\* set_tasks offers any document; nothing is visited yet.
Offer(d) ==
  /\ verdict = "none" /\ verdict' = "searching"
  /\ doc' = d /\ roots' = Live(d)
  /\ UNCHANGED <<marks, stack, left>>

\* Mutant: a task met again while it is on the stack is taken for done.
VisitOnce(t, rest) ==
  \/ /\ marks[t] # 0
     /\ left' = rest
     /\ UNCHANGED <<marks, stack, verdict>>
  \/ /\ marks[t] = 0
     /\ marks' = [marks EXCEPT ![t] = 1] /\ stack' = Append(stack, t)
     /\ left' = [rest EXCEPT ![t] = doc[t].deps \cap Live(doc)]
     /\ UNCHANGED verdict

\* Marks: 0 unvisited, 1 in the stack, 2 done.  Every caller passes an Err on.
Visit(t, rest) ==
  \/ /\ marks[t] = 1
     /\ verdict' = "refused" /\ left' = rest
     /\ UNCHANGED <<marks, stack>>
  \/ /\ marks[t] = 2
     /\ left' = rest
     /\ UNCHANGED <<marks, stack, verdict>>
  \/ /\ marks[t] = 0
     /\ marks' = [marks EXCEPT ![t] = 1] /\ stack' = Append(stack, t)
     /\ left' = [rest EXCEPT ![t] = doc[t].deps \cap Live(doc)]
     /\ UNCHANGED verdict

Top == stack[Len(stack)]

\* The outer loop, over the tasks of the document.
VisitRoot(t) ==
  /\ verdict = "searching" /\ stack = <<>> /\ t \in roots
  /\ roots' = roots \ {t}
  /\ Visit(t, left)
  /\ UNCHANGED doc

\* The loop over depends_on.
VisitDep(t) ==
  /\ verdict = "searching" /\ stack # <<>> /\ t \in left[Top]
  /\ Visit(t, [left EXCEPT ![Top] = @ \ {t}])
  /\ UNCHANGED <<doc, roots>>

Return ==
  /\ verdict = "searching" /\ stack # <<>> /\ left[Top] = {}
  /\ marks' = [marks EXCEPT ![Top] = 2]
  /\ stack' = SubSeq(stack, 1, Len(stack) - 1)
  /\ UNCHANGED <<doc, roots, left, verdict>>

Accept ==
  /\ verdict = "searching" /\ stack = <<>> /\ roots = {}
  /\ verdict' = "accepted"
  /\ UNCHANGED <<doc, roots, marks, stack, left>>

CheckNext ==
  \/ \E live \in SUBSET Tasks : \E deps \in [live -> SUBSET Tasks] :
       Offer([t \in Tasks |-> IF t \in live THEN Entry(deps[t]) ELSE Blank])
  \/ \E t \in Tasks : VisitRoot(t) \/ VisitDep(t)
  \/ Return \/ Accept

(* The search accepts exactly the documents without a cycle among live tasks:
   self-edges, shared dependencies and dangling edges included.               *)
SearchIsAcyclic == verdict \in {"accepted", "refused"} => (verdict = "accepted") = Acyclic(doc)
=============================================================================
