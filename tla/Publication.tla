---------------------------- MODULE Publication ----------------------------
(***************************************************************************)
(* What copying or moving one file to a name promises, without staging,    *)
(* backends, faults, verification or cleanup: the complete file gets the   *)
(* name in one step, the file it replaces is only ever under that name or  *)
(* set aside, and the user is told the truth about both.                   *)
(***************************************************************************)
VARIABLES
    job,     \* what was asked: does it replace, does it move the item, is
             \* the backend trusted to say it did
    shown,   \* what has the final name: "none", the "old" file, the "new"
             \* one, or an "other" program's
    aside,   \* what was set aside for the new file, or "none"
    source,  \* an item to move is still where it came from
    told     \* what the user was told; empty while the job is open

vars == <<job, shown, aside, source, told>>

Job == [replaces : BOOLEAN, moves : BOOLEAN, trusted : BOOLEAN]
Result == [done : BOOLEAN, error : BOOLEAN, cancelled : BOOLEAN, recovery : BOOLEAN]

Init ==
    /\ job \in Job
    /\ shown \in (IF job.replaces THEN {"none", "old"} ELSE {"none"})
    /\ aside = "none"
    /\ source = job.moves
    /\ told = {}

Open == told = {} /\ UNCHANGED <<job, told>>

\* The complete file appears, over another one only if that was asked for and
\* nothing is set aside; an item that is moved leaves its place in that step.
Publish ==
    /\ Open
    /\ shown = "none" \/ (job.replaces /\ shown \in {"old", "other"} /\ aside = "none")
    /\ source = job.moves
    /\ shown' = "new" /\ source' = FALSE
    /\ UNCHANGED aside

SetAside ==
    /\ Open /\ job.replaces
    /\ shown \in {"old", "other"} /\ aside = "none"
    /\ shown' = "none" /\ aside' = shown
    /\ UNCHANGED source

\* What was set aside comes back only to a free name.
PutBack ==
    /\ Open
    /\ aside # "none" /\ shown = "none"
    /\ shown' = aside /\ aside' = "none"
    /\ UNCHANGED source

\* It is given up only for the complete file.
Discard ==
    /\ Open
    /\ aside # "none" /\ shown = "new"
    /\ aside' = "none"
    /\ UNCHANGED <<shown, source>>

\* Another program takes the free name.
Occupy ==
    /\ Open
    /\ shown = "none" /\ shown' = "other"
    /\ UNCHANGED <<aside, source>>

\* The job ends with one result: done only if the file is there, and a file
\* that is still aside is pointed out, with an error whoever cancelled.
Tell(result) ==
    /\ told = {} /\ told' = {result}
    /\ result.done => shown = "new" \/ job.trusted
    /\ aside # "none" => result.recovery
    /\ result.recovery => result.error
    /\ result.done \/ result.error \/ result.cancelled
    /\ UNCHANGED <<job, shown, aside, source>>

Next == Publish \/ SetAside \/ PutBack \/ Discard \/ Occupy \/ \E result \in Result : Tell(result)

Spec == Init /\ [][Next]_vars
=============================================================================
