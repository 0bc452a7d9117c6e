------------------------------ MODULE ErrorList ------------------------------
(* The ring buffer of errors in ecx_contextt: elist->Error[], head, tail and  *)
(* the EcatError flag, with ecx_pusherror, ecx_poperror and the reporters     *)
(* that call the former.  The ring has MaxEList + 1 slots, one of which is    *)
(* always free, so head = tail can only mean "empty".                         *)
EXTENDS Naturals, Sequences

CONSTANTS Errors,     \* ec_errort values, reduced to what tells them apart
          ZeroError,  \* the zeroed ec_errort of a slot never written
          Nothing,    \* ecx_poperror returned FALSE
          MaxEList    \* EC_MAXELIST

ASSUME MaxEListAssumption == MaxEList \in Nat \ {0}

VARIABLES slot,       \* elist->Error[]
          head,       \* elist->head: next slot to write
          tail,       \* elist->tail: next slot to pop
          ecaterror,  \* *context->ecaterror
          popped      \* return value and *Ec of the last ecx_poperror

listvars == <<slot, head, tail, ecaterror, popped>>

Slots == 0 .. MaxEList
Entries == Errors \cup {ZeroError}

\* The elist is a static object, so every slot starts out zeroed.
ListInit ==
    /\ slot = [i \in Slots |-> ZeroError]
    /\ head = 0
    /\ tail = 0
    /\ ecaterror = FALSE
    /\ popped = Nothing

\* x++ followed by the wrap test "if (x > EC_MAXELIST) x = 0".
Inc(i) == IF i + 1 > MaxEList THEN 0 ELSE i + 1

\* Variant: the tail is not moved when the head runs into it.
Push_KeepTail(e) ==
    /\ slot' = [slot EXCEPT ![head] = e]
    /\ head' = Inc(head)
    /\ ecaterror' = TRUE
    /\ UNCHANGED <<tail, popped>>

\* ecx_pusherror: the head write, the head step and, when the head has run
\* into the tail, the tail step that gives up the oldest entry.
Push(e) ==
    /\ slot' = [slot EXCEPT ![head] = e]
    /\ head' = Inc(head)
    /\ tail' = IF Inc(head) = tail THEN Inc(tail) ELSE tail
    /\ ecaterror' = TRUE
    /\ UNCHANGED popped

\* Variant: pops without testing for an empty list.
PopEntry_NoTest ==
    /\ popped' = slot[tail]
    /\ tail' = Inc(tail)
    /\ UNCHANGED <<slot, head, ecaterror>>

\* ecx_poperror on a non-empty list leaves the flag up, even after the last one.
PopEntry ==
    /\ head # tail
    /\ popped' = slot[tail]
    /\ tail' = Inc(tail)
    /\ UNCHANGED <<slot, head, ecaterror>>

\* ecx_poperror on an empty list: FALSE is returned and the flag is cleared.
\* (The stale slot copied into *Ec is not part of the result.)
PopNothing ==
    /\ head = tail
    /\ popped' = Nothing
    /\ ecaterror' = FALSE
    /\ UNCHANGED <<slot, head, tail>>

ListNext == PopEntry \/ PopNothing \/ \E e \in Errors : Push(e)

ListSpec == ListInit /\ [][ListNext]_listvars

------------------------------------------------------------------------------
\* The number of entries between tail and head, and the i-th of them.
Count == IF head >= tail THEN head - tail ELSE head + MaxEList + 1 - tail
Pos(i) == IF tail + i > MaxEList THEN tail + i - (MaxEList + 1) ELSE tail + i
Pending == [i \in 1 .. Count |-> slot[Pos(i - 1)]]

\* Type invariant: the indices stay inside Error[EC_MAXELIST + 1], whose last
\* slot an off-by-one in either wrap test would leave.
TypeOK ==
    /\ slot \in [Slots -> Entries]
    /\ head \in Slots
    /\ tail \in Slots
    /\ ecaterror \in BOOLEAN
    /\ popped \in Errors \cup {Nothing}

\* Every entry a pop can reach was pushed: no slot that was never written, or
\* whose entry was given up, lies between tail and head.
PendingWritten == \A i \in 1 .. Count : Pending[i] \in Errors

\* A lowered EcatError means there is nothing to pop, so a loop
\* "while (EcatError) ec_elist2string()" leaves no error behind.
FlagCovers == ~ecaterror => head = tail

\* What every caller relies on; inductive.
Inv == TypeOK /\ PendingWritten /\ FlagCovers

\* The ring implements the bounded queue that forgets its oldest entry.
Queue == INSTANCE ErrorQueue
           WITH q <- Pending, flag <- ecaterror, Cap <- MaxEList, None <- Nothing

ImplementsQueue == Queue!Spec
=============================================================================
