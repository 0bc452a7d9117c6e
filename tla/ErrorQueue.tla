----------------------------- MODULE ErrorQueue -----------------------------
(* What the error list promises its users: the last Cap errors that were     *)
(* reported and not yet popped, in the order they were reported, and a flag  *)
(* that a loop "while (EcatError) pop" may trust.                            *)
EXTENDS Naturals, Sequences

CONSTANTS Errors,   \* the error records that can be reported
          None,     \* the pop found nothing
          Cap       \* how many of them the list keeps

VARIABLES q,        \* errors reported and not popped, oldest first
          flag,     \* EcatError as the application reads it
          popped    \* what the last pop handed out

vars == <<q, flag, popped>>

Init == q = <<>> /\ flag = FALSE /\ popped = None

\* A report into a full list costs the oldest entry, never the new one.
Push(e) ==
    /\ q' = Append(IF Len(q) = Cap THEN Tail(q) ELSE q, e)
    /\ flag' = TRUE
    /\ UNCHANGED popped

Pop ==
    /\ q # <<>>
    /\ popped' = Head(q)
    /\ q' = Tail(q)
    /\ UNCHANGED flag

\* Only a pop that finds the list empty lowers the flag.
PopEmpty ==
    /\ q = <<>>
    /\ popped' = None
    /\ flag' = FALSE
    /\ UNCHANGED q

Next == Pop \/ PopEmpty \/ \E e \in Errors : Push(e)

Spec == Init /\ [][Next]_vars
=============================================================================
