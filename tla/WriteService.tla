----------------------------- MODULE WriteService -----------------------------
(***************************************************************************)
(* What DB.Write and DB.Close promise their callers (the doc comments of   *)
(* internal/store/db.go), with nothing of how they do it: writes are       *)
(* applied one after another, a call returns nil exactly when its write    *)
(* was applied, a call whose context was done before its turn applies      *)
(* nothing, and Close ends the sequence without cutting a write in two.    *)
(* StoreWriter implements this specification.                              *)
(***************************************************************************)
EXTENDS Sequences, Naturals

CONSTANTS
    Writes,    \* calls of DB.Write
    Errors     \* what a call may return instead of nil

VARIABLES
    applied,   \* the committed writes, in order
    result,    \* what each call has returned: "none" before it returns
    void,      \* calls whose context was done before their turn
    open       \* Close has not returned

sVars == <<applied, result, void, open>>

Init ==
    /\ applied = << >>
    /\ result = [w \in Writes |-> "none"]
    /\ void = {}
    /\ open = TRUE

Applied(w) == \E i \in 1..Len(applied) : applied[i] = w

\* "Returning nil commits", once, while the database is open.
Apply(w) ==
    /\ open /\ result[w] = "none" /\ w \notin void /\ ~Applied(w)
    /\ applied' = Append(applied, w)
    /\ UNCHANGED <<result, void, open>>

\* Write returns nil for an applied write and an error for any other.
Return(w) ==
    /\ result[w] = "none"
    /\ \E r \in Errors \cup {"ok"} :
          /\ r = "ok" <=> Applied(w)
          /\ result' = [result EXCEPT ![w] = r]
    /\ UNCHANGED <<applied, void, open>>

\* The context of a call whose turn has not come is done.
GiveUp(w) ==
    /\ ~Applied(w)
    /\ void' = void \cup {w}
    /\ UNCHANGED <<applied, result, open>>

\* Close "waits for the in-flight write": no applied write is still on its way
\* to its caller.
Close ==
    /\ open
    /\ \A w \in Writes : Applied(w) => result[w] = "ok"
    /\ open' = FALSE
    /\ UNCHANGED <<applied, result, void>>

Next ==
    \/ \E w \in Writes : Apply(w) \/ Return(w) \/ GiveUp(w)
    \/ Close

Spec == Init /\ [][Next]_sVars
=============================================================================
