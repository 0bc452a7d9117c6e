---------------------------- MODULE Queues_proofs -----------------------------
(* QueuesSound (MCHardware), by an inductive invariant of the VxWorks port: the  *)
(* types and the closing (Hardware_proofs), and whose the indexes, the buffers   *)
(* that wait and the answers are, however the tasks and the line take turns.      *)
EXTENDS Hardware_proofs

-------------------------------------------------------------------------------
(* Every step keeps the holders of the indexes *)

LEMMA NextIs ==
  ASSUME NEW m \in Nat, m > 0, NEW i \in 0 .. m - 1
  PROVE  (i + 1) % m = IF i + 1 = m THEN 0 ELSE i + 1
  <1> DEFINE q == (i + 1) \div m
             r == (i + 1) % m
  <1>1. q \in Int /\ r \in 0 .. m - 1 /\ i + 1 = q * m + r
    BY DivMod
  <1> HIDE DEF q, r
  <1>2. CASE q <= 0
    <2>1. CASE q = 0
      BY <1>1, <2>1 DEF r
    <2>2. CASE q <= -1
      <3>1. \A j \in Nat, k \in Nat : j >= 1 => j * k >= k
        OBVIOUS
      <3>2. (-q) * m >= m
        BY <1>1, <2>2, <3>1
      <3>3. (-q) * m = -(q * m)
        BY <1>1
      <3>4. q * m \in Int
        BY <1>1
      <3> QED BY <1>1, <3>2, <3>3, <3>4
    <2> QED BY <1>1, <1>2, <2>1, <2>2
  <1>3. CASE q = 1
    <2>1. i + 1 = m + r
      BY <1>1, <1>3
    <2>2. i + 1 = m /\ r = 0
      BY <1>1, <2>1
    <2> QED BY <2>2 DEF r
  <1>4. CASE q >= 2
    <2>1. \A j \in Nat, k \in Nat : j >= 2 => j * k >= 2 * k
      OBVIOUS
    <2>2. q * m >= 2 * m
      BY <1>1, <1>4, <2>1
    <2>3. q * m \in Int
      BY <1>1
    <2> QED BY <1>1, <2>2, <2>3
  <1> QED BY <1>1, <1>2, <1>3, <1>4

\* A task that asks for an index finds one that is free.
LEMMA FreeIndex ==
  ASSUME SetupsAssumption, MuxType, IndexInv, bus.fails = 0, NEW t \in MuxTasks, ~Held(t)
  PROVE  \E i \in IdxOf(context) : context.stat[1][i] = "EMPTY"
  <1> DEFINE O == {u \in MuxTasks : Held(u)}
             f == [u \in O |-> me[u].idx]
             Idx == IdxOf(context)
  <1> SUFFICES ASSUME \A i \in Idx : context.stat[1][i] # "EMPTY"
               PROVE  FALSE
    OBVIOUS
  <1>0. /\ IsFiniteSet(MuxTasks) /\ Cardinality(MuxTasks) <= context.setup.maxbuf
        /\ context.setup.maxbuf \in Nat
    BY TypeIs DEF SetupsAssumption, MuxTasks
  <1>1. f \in Surjection(O, Idx)
    <2>1. f \in [O -> Idx]
      BY TypeIs
    <2>2. \A i \in Idx : \E u \in O : f[u] = i
      <3> TAKE i \in Idx
      <3>1. 1 \in PortsOf(context)
        BY TypeIs
      <3>2. PICK u \in MuxTasks : Held(u) /\ me[u].idx = i
        BY <3>1 DEF IndexInv, MuxTasks
      <3> QED BY <3>2
    <2> QED BY <2>1, <2>2, Fun_IsSurj
  <1>2. IsFiniteSet(O) /\ Cardinality(O) < Cardinality(MuxTasks)
    <2>1. O \subseteq MuxTasks \ {t}
      OBVIOUS
    <2>2. /\ IsFiniteSet(MuxTasks \ {t})
          /\ Cardinality(MuxTasks \ {t}) = Cardinality(MuxTasks) - 1
      BY <1>0, FS_RemoveElement
    <2>3. IsFiniteSet(O) /\ Cardinality(O) <= Cardinality(MuxTasks \ {t})
      BY <2>1, <2>2, FS_Subset
    <2> QED BY <1>0, <2>2, <2>3, FS_CardinalityType
  <1>3. Cardinality(Idx) = context.setup.maxbuf
    BY <1>0, FS_Interval DEF IdxOf
  <1>4. Cardinality(Idx) <= Cardinality(O)
    BY <1>1, <1>2, FS_Surjection
  <1>5. Cardinality(O) \in Nat /\ Cardinality(MuxTasks) \in Nat
    BY <1>0, <1>2, FS_CardinalityType
  <1> QED BY <1>0, <1>2, <1>3, <1>4, <1>5

\* The parts of the invariant after a step.
IndexAfter(c, b) ==
    /\ \A t \in MuxTasks :
          pc'[t] = "scan" => /\ c.sem
                             /\ \A u \in MuxTasks : pc'[u] = "scan" => u = t
    /\ \A p \in PortsOf(context), i \in IdxOf(context) :
          c.stat[p][i] # "EMPTY" =>
             \E t \in MuxTasks : pc'[t] \notin {"idle", "scan", "closing"} /\ me'[t].idx = i
    /\ b.fails = 0 =>
          \A t \in MuxTasks :
             /\ pc'[t] \notin {"idle", "scan", "closing"} =>
                   /\ c.stat[1][me'[t].idx] # "EMPTY"
                   /\ \A u \in MuxTasks :
                         pc'[u] \notin {"idle", "scan", "closing"} /\ u # t => me'[u].idx # me'[t].idx
             /\ pc'[t] = "scan" =>
                   \E e \in IdxOf(context) :
                      /\ c.stat[1][e] = "EMPTY"
                      /\ Onward(me'[t].idx, e) + me'[t].cnt < context.setup.maxbuf

LEMMA IndexIs ==
  ASSUME context'.setup = context.setup, IndexAfter(context', bus')
  PROVE  IndexInv'
  <1> DEFINE d == context'
  <1>1. PortsOf(d) = PortsOf(context) /\ IdxOf(d) = IdxOf(context) /\ d.setup.tasks = MuxTasks
    BY DEF PortsOf, IdxOf, MuxTasks
  <1>2. \A i, e : Onward(i, e)' = Onward(i, e)
    BY DEF Onward
  <1> QED BY <1>1 DEF IndexInv, IndexAfter, Held, Onward, d

\* A task that holds an index goes on with it.
LEMMA IndexKept ==
  ASSUME MuxType, IndexInv, NEW t \in MuxTasks, TaskStep(t), me'[t].idx = me[t].idx, Held(t),
         pc'[t] \notin {"idle", "scan", "closing"}, context'.sem = context.sem,
         bus'.fails = 0 /\ context.stat[1][me[t].idx] # "EMPTY" =>
            context'.stat[1][me[t].idx] # "EMPTY"
  PROVE  IndexInv'
  <1> DEFINE i == me[t].idx
             d == context'
  <1>1. /\ Beside(context, d, i)
        /\ \A u \in MuxTasks : u # t => pc'[u] = pc[u] /\ me'[u] = me[u]
        /\ bus'.fails = 0 => bus.fails = 0
    BY DEF TaskStep
  <1>2. /\ d.setup = context.setup /\ 1 \in PortsOf(context)
        /\ \A p \in PortsOf(context), k \in IdxOf(context) : k # i => d.stat[p][k] = context.stat[p][k]
        /\ \A u \in MuxTasks : me[u].idx \in IdxOf(context)
    BY <1>1, TypeIs DEF Beside
  <1>3. \A u \in MuxTasks :
           /\ Held(u) <=> pc'[u] \notin {"idle", "scan", "closing"}
           /\ pc[u] = "scan" <=> pc'[u] = "scan"
           /\ me'[u].idx = me[u].idx
           /\ pc[u] = "scan" => me'[u] = me[u]
    BY <1>1 DEF Held
  <1> HIDE DEF d
  <1>4. \A u \in MuxTasks :
          pc'[u] = "scan" => /\ d.sem
                             /\ \A v \in MuxTasks : pc'[v] = "scan" => v = u
    BY <1>3 DEF IndexInv, MuxTasks, d
  <1>5. ASSUME NEW p \in PortsOf(context), NEW k \in IdxOf(context), d.stat[p][k] # "EMPTY"
        PROVE  \E u \in MuxTasks : pc'[u] \notin {"idle", "scan", "closing"} /\ me'[u].idx = k
    <2>1. CASE k = i
      BY <1>3, <2>1
    <2>2. CASE k # i
      <3>1. context.stat[p][k] # "EMPTY"
        BY <1>2, <1>5, <2>2
      <3>2. PICK u \in MuxTasks : Held(u) /\ me[u].idx = k
        BY <3>1 DEF IndexInv, MuxTasks
      <3> QED BY <1>3, <3>2
    <2> QED BY <2>1, <2>2
  <1>6. ASSUME bus'.fails = 0, NEW u \in MuxTasks
        PROVE  /\ pc'[u] \notin {"idle", "scan", "closing"} =>
                    /\ d.stat[1][me'[u].idx] # "EMPTY"
                    /\ \A v \in MuxTasks :
                          pc'[v] \notin {"idle", "scan", "closing"} /\ v # u => me'[v].idx # me'[u].idx
               /\ pc'[u] = "scan" =>
                    \E e \in IdxOf(context) :
                       /\ d.stat[1][e] = "EMPTY"
                       /\ Onward(me'[u].idx, e) + me'[u].cnt < context.setup.maxbuf
    <2>1. /\ Held(u) => context.stat[1][me[u].idx] # "EMPTY"
          /\ Held(t) => context.stat[1][me[t].idx] # "EMPTY"
          /\ Held(u) => \A v \in MuxTasks : Held(v) /\ v # u => me[v].idx # me[u].idx
          /\ pc[u] = "scan" =>
               \E e \in IdxOf(context) :
                  /\ context.stat[1][e] = "EMPTY"
                  /\ Onward(me[u].idx, e) + me[u].cnt < context.setup.maxbuf
      BY <1>1, <1>6 DEF IndexInv, MuxTasks
    <2>2. d.stat[1][i] # "EMPTY"
      BY <1>6, <2>1 DEF d
    <2>3. Held(u) => d.stat[1][me[u].idx] # "EMPTY"
      BY <1>2, <2>1, <2>2
    <2>4. \A e \in IdxOf(context) : context.stat[1][e] = "EMPTY" => d.stat[1][e] = "EMPTY"
      BY <1>2, <2>1
    <2> QED BY <1>3, <2>1, <2>3, <2>4
  <1>7. IndexAfter(d, bus')
    BY <1>4, <1>5, <1>6 DEF IndexAfter
  <1> QED BY <1>2, <1>7, IndexIs DEF d

LEMMA IndexNet ==
  ASSUME MuxType, IndexInv, NEW i, NetStep(i)
  PROVE  IndexInv'
  <1> DEFINE d == context'
  <1>1. /\ d.setup = context.setup /\ d.stat = context.stat /\ d.sem = context.sem
        /\ pc' = pc /\ bus'.fails = bus.fails
        /\ \A t \in MuxTasks : me'[t].idx = me[t].idx /\ me'[t].cnt = me[t].cnt
    BY DEF NetStep, Beside, SameTask
  <1> HIDE DEF d
  <1>2. IndexAfter(d, bus')
    <2>1. \A u \in MuxTasks :
          pc'[u] = "scan" => /\ d.sem
                             /\ \A v \in MuxTasks : pc'[v] = "scan" => v = u
      BY <1>1 DEF IndexInv, MuxTasks
    <2>2. \A p \in PortsOf(context), k \in IdxOf(context) :
            d.stat[p][k] # "EMPTY" =>
               \E t \in MuxTasks : pc'[t] \notin {"idle", "scan", "closing"} /\ me'[t].idx = k
      BY <1>1 DEF IndexInv, MuxTasks, Held
    <2>3. bus'.fails = 0 =>
            \A t \in MuxTasks :
               /\ pc'[t] \notin {"idle", "scan", "closing"} =>
                   /\ d.stat[1][me'[t].idx] # "EMPTY"
                   /\ \A u \in MuxTasks :
                         pc'[u] \notin {"idle", "scan", "closing"} /\ u # t => me'[u].idx # me'[t].idx
               /\ pc'[t] = "scan" =>
                   \E e \in IdxOf(context) :
                      /\ d.stat[1][e] = "EMPTY"
                      /\ Onward(me'[t].idx, e) + me'[t].cnt < context.setup.maxbuf
      BY <1>1 DEF IndexInv, MuxTasks, Held
    <2> QED BY <2>1, <2>2, <2>3 DEF IndexAfter
  <1> QED BY <1>1, <1>2, IndexIs DEF d

LEMMA IndexCloses ==
  ASSUME MuxType, CloseInv, IndexInv, MX!CloseDrain \/ MX!CloseDelete
  PROVE  IndexInv'
  <1> DEFINE d == context'
  <1>1. PICK p \in PortsOf(context), i \in IdxOf(context) :
            /\ pc' \in [MuxTasks -> {"idle", "closing"}]
            /\ \A t \in MuxTasks : pc[t] \in {"idle", "closing"}
            /\ \/ d = context
               \/ \E n : QueueSet(context, d, p, i, None, n)
               \/ \E n, left : QueueDeleted(context, d, p, i, n, left)
    <2>1. PICK p \in PortsOf(context), i \in IdxOf(context) :
            LET queue == context.queue[p][i]
            IN /\ <<p, i>> \in context.toClose /\ me' = me /\ bus' = bus
               /\ \/ /\ \A t \in MuxTasks : /\ pc[t] = "idle" /\ me[t].req = context.setup.reqs
                                            /\ pc'[t] = "closing"
                     /\ IF queue = None THEN context' = context
                        ELSE QueueSet(context, context', p, i, None, context.owned - 1)
                  \/ /\ \A t \in MuxTasks : pc[t] = "closing" /\ pc'[t] = "idle"
                     /\ QueueDeleted(context, context', p, i,
                                     context.owned - IF queue = None THEN 0 ELSE 1,
                                     context.toClose \ {<<p, i>>})
               /\ pc' \in [MuxTasks -> {"idle", "closing"}]
      BY CloseDoes
    <2> QED BY <2>1, Zenon
  <1> HIDE DEF d
  <1>2. d.setup = context.setup /\ d.stat = context.stat
    BY <1>1 DEF QueueSet, QueueDeleted, Beside
  <1>3. \A p1 \in PortsOf(context), k \in IdxOf(context) : context.stat[p1][k] = "EMPTY"
    BY <1>1 DEF IndexInv, Held, MuxTasks
  <1>4. \A t \in MuxTasks : pc'[t] \in {"idle", "closing"}
    BY <1>1
  <1>5. IndexAfter(d, bus')
    BY <1>2, <1>3, <1>4 DEF IndexAfter
  <1> QED BY <1>2, <1>5, IndexIs DEF d

LEMMA IndexGet ==
  ASSUME SetupsAssumption, MuxType, IndexInv, NEW t \in MuxTasks, MX!ecx_getindex(t)
  PROVE  IndexInv'
  <1> DEFINE n == me'[t].idx
             d == context'
  <1>1. /\ TaskStep(t) /\ bus' = bus /\ pc[t] = "idle" /\ pc'[t] = "scan"
        /\ ~context.sem /\ d.sem /\ d.stat = context.stat /\ me'[t].cnt = 0
    BY GetIndexDoes
  <1>2. /\ Beside(context, d, n) /\ n \in IdxOf(context)
        /\ \A u \in MuxTasks : u # t => pc'[u] = pc[u] /\ me'[u] = me[u]
    BY <1>1 DEF TaskStep
  <1>3. d.setup = context.setup
    BY <1>2 DEF Beside
  <1> HIDE DEF d
  <1>4. \A u \in MuxTasks : pc[u] # "scan"
    BY <1>1 DEF IndexInv, MuxTasks
  <1>5. \A u \in MuxTasks :
           /\ Held(u) <=> pc'[u] \notin {"idle", "scan", "closing"}
           /\ Held(u) => me'[u] = me[u]
    BY <1>1, <1>2 DEF Held
  <1>6. \A u \in MuxTasks :
          pc'[u] = "scan" => d.sem /\ \A v \in MuxTasks : pc'[v] = "scan" => v = u
    BY <1>1, <1>2, <1>4
  <1>7. \A p \in PortsOf(context), k \in IdxOf(context) :
            d.stat[p][k] # "EMPTY" =>
               \E u \in MuxTasks : pc'[u] \notin {"idle", "scan", "closing"} /\ me'[u].idx = k
    BY <1>1, <1>5 DEF IndexInv, MuxTasks
  <1>8. ASSUME bus'.fails = 0, NEW u \in MuxTasks
        PROVE  /\ pc'[u] \notin {"idle", "scan", "closing"} =>
                    /\ d.stat[1][me'[u].idx] # "EMPTY"
                    /\ \A v \in MuxTasks :
                          pc'[v] \notin {"idle", "scan", "closing"} /\ v # u => me'[v].idx # me'[u].idx
               /\ pc'[u] = "scan" =>
                    \E e \in IdxOf(context) :
                       /\ d.stat[1][e] = "EMPTY"
                       /\ Onward(me'[u].idx, e) + me'[u].cnt < context.setup.maxbuf
    <2>1. /\ Held(u) => context.stat[1][me[u].idx] # "EMPTY"
          /\ Held(u) => \A v \in MuxTasks : Held(v) /\ v # u => me[v].idx # me[u].idx
      BY <1>1, <1>8 DEF IndexInv, MuxTasks
    <2>2. CASE u = t
      <3>1. PICK e \in IdxOf(context) : context.stat[1][e] = "EMPTY"
        BY <1>1, <1>8, FreeIndex DEF Held
      <3>2. Onward(n, e) + 0 < context.setup.maxbuf
        <4>1. context.setup.maxbuf \in Nat /\ n \in 0 .. context.setup.maxbuf - 1
              /\ e \in 0 .. context.setup.maxbuf - 1
          BY <1>2, SizeIs DEF IdxOf
        <4> HIDE DEF n
        <4> QED BY <4>1 DEF Onward
      <3> QED BY <1>1, <2>2, <3>1, <3>2
    <2>3. CASE u # t
      BY <1>1, <1>2, <1>4, <1>5, <2>1, <2>3
    <2> QED BY <2>2, <2>3
  <1>9. IndexAfter(d, bus')
    BY <1>6, <1>7, <1>8 DEF IndexAfter
  <1> QED BY <1>3, <1>9, IndexIs DEF d

LEMMA IndexScan ==
  ASSUME SetupsAssumption, MuxType, IndexInv, NEW t \in MuxTasks, MX!ScanNext(t)
  PROVE  IndexInv'
  <1> DEFINE i == me[t].idx
             n == me'[t].idx
  <1>1. /\ TaskStep(t) /\ bus' = bus /\ context' = context /\ pc[t] = "scan" /\ pc' = pc
        /\ context.stat[1][i] # "EMPTY" /\ n = (i + 1) % context.setup.maxbuf
        /\ me'[t].cnt = me[t].cnt + 1
    BY ScanNextDoes
  <1>2. \A u \in MuxTasks : u # t => me'[u] = me[u]
    BY <1>1 DEF TaskStep
  <1>4. \A u \in MuxTasks : pc[u] = "scan" => u = t
    BY <1>1 DEF IndexInv, MuxTasks
  <1>5. \A u \in MuxTasks : Held(u) => me'[u] = me[u]
    BY <1>1, <1>2 DEF Held
  <1>6. \A u \in MuxTasks :
          pc'[u] = "scan" => context.sem /\ \A v \in MuxTasks : pc'[v] = "scan" => v = u
    BY <1>1 DEF IndexInv, MuxTasks
  <1>7. \A p \in PortsOf(context), k \in IdxOf(context) :
            context.stat[p][k] # "EMPTY" =>
               \E u \in MuxTasks : pc'[u] \notin {"idle", "scan", "closing"} /\ me'[u].idx = k
    BY <1>1, <1>5 DEF IndexInv, MuxTasks, Held
  <1>8. ASSUME bus'.fails = 0, NEW u \in MuxTasks
        PROVE  /\ pc'[u] \notin {"idle", "scan", "closing"} =>
                    /\ context.stat[1][me'[u].idx] # "EMPTY"
                    /\ \A v \in MuxTasks :
                          pc'[v] \notin {"idle", "scan", "closing"} /\ v # u => me'[v].idx # me'[u].idx
               /\ pc'[u] = "scan" =>
                    \E e \in IdxOf(context) :
                       /\ context.stat[1][e] = "EMPTY"
                       /\ Onward(me'[u].idx, e) + me'[u].cnt < context.setup.maxbuf
    <2>1. /\ Held(u) => context.stat[1][me[u].idx] # "EMPTY"
          /\ Held(u) => \A v \in MuxTasks : Held(v) /\ v # u => me[v].idx # me[u].idx
      BY <1>1, <1>8 DEF IndexInv, MuxTasks
    <2>2. ASSUME pc'[u] = "scan"
          PROVE  \E e \in IdxOf(context) :
                    /\ context.stat[1][e] = "EMPTY"
                    /\ Onward(me'[u].idx, e) + me'[u].cnt < context.setup.maxbuf
      <3>0. u = t
        BY <1>1, <1>4, <2>2
      <3>1. PICK e \in IdxOf(context) : /\ context.stat[1][e] = "EMPTY"
                                        /\ Onward(i, e) + me[t].cnt < context.setup.maxbuf
        BY <1>1, <1>8 DEF IndexInv, MuxTasks
      <3>2. Onward(n, e) + (me[t].cnt + 1) < context.setup.maxbuf
        <4>1. /\ context.setup.maxbuf \in Nat /\ context.setup.maxbuf > 0
              /\ IdxOf(context) = 0 .. context.setup.maxbuf - 1
          BY SizeIs
        <4>2. i \in IdxOf(context) /\ me[t].cnt \in Nat
          BY TypeIs DEF TaskShape
        <4>3. n = IF i + 1 = context.setup.maxbuf THEN 0 ELSE i + 1
          BY <1>1, <4>1, <4>2, NextIs
        <4>4. e # i
          BY <1>1, <3>1
        <4>5. e \in 0 .. context.setup.maxbuf - 1 /\ i \in 0 .. context.setup.maxbuf - 1
          BY <4>1, <4>2
        <4>6. context.setup.maxbuf \in Nat
          BY <4>1
        <4>7. Onward(i, e) + me[t].cnt < context.setup.maxbuf
          BY <3>1
        <4> DEFINE m == context.setup.maxbuf
                   c == me[t].cnt
        <4>8. /\ (IF e >= i THEN e - i ELSE e + m - i) + c < m
              /\ Onward(n, e) = IF e >= n THEN e - n ELSE e + m - n
          BY <4>7 DEF Onward
        <4>9. c \in Nat /\ m \in Nat /\ e \in 0 .. m - 1 /\ i \in 0 .. m - 1
              /\ n = IF i + 1 = m THEN 0 ELSE i + 1
          BY <4>2, <4>3, <4>5, <4>6
        <4> HIDE DEF m, c, n, i
        <4>10. (IF e >= n THEN e - n ELSE e + m - n) + (c + 1) < m
          BY <4>4, <4>8, <4>9
        <4> QED BY <4>8, <4>10 DEF m, c
      <3> QED BY <1>1, <3>0, <3>1, <3>2
    <2>3. /\ pc'[u] \notin {"idle", "scan", "closing"} <=> Held(u)
          /\ \A v \in MuxTasks : pc'[v] \notin {"idle", "scan", "closing"} <=> Held(v)
      BY <1>1 DEF Held
    <2> QED BY <1>5, <2>1, <2>2, <2>3
  <1>9. IndexAfter(context, bus')
    BY <1>6, <1>7, <1>8 DEF IndexAfter
  <1> QED BY <1>1, <1>9, IndexIs

LEMMA IndexFound ==
  ASSUME SetupsAssumption, MuxType, IndexInv, NEW t \in MuxTasks, MX!Found(t)
  PROVE  IndexInv'
  <1> DEFINE i == me[t].idx
             d == context'
  <1>1. /\ TaskStep(t) /\ bus' = bus /\ pc[t] = "scan" /\ pc'[t] = "mark" /\ me'[t].idx = i
        /\ context.stat[1][i] = "EMPTY" \/ me[t].cnt >= context.setup.maxbuf
        /\ ~d.sem
        /\ \A q \in PortsOf(context) :
                  d.stat[q][i] = IF q = 1 THEN "ALLOC" ELSE context.stat[q][i]
    BY FoundDoes
  <1>2. /\ Beside(context, d, i) /\ i \in IdxOf(context)
        /\ \A u \in MuxTasks : u # t => pc'[u] = pc[u] /\ me'[u] = me[u]
    BY <1>1 DEF TaskStep
  <1>3. /\ d.setup = context.setup /\ 1 \in PortsOf(context)
        /\ \A p \in PortsOf(context), k \in IdxOf(context) : k # i => d.stat[p][k] = context.stat[p][k]
        /\ \A u \in MuxTasks : me[u].idx \in IdxOf(context)
    BY <1>2, TypeIs DEF Beside
  <1> HIDE DEF d
  <1>4. \A u \in MuxTasks : pc'[u] # "scan"
    BY <1>1, <1>2 DEF IndexInv, MuxTasks
  <1>5. \A u \in MuxTasks : /\ Held(u) => me'[u] = me[u] /\ pc'[u] \notin {"idle", "scan", "closing"}
                            /\ u # t /\ pc'[u] \notin {"idle", "scan", "closing"} => Held(u)
    BY <1>1, <1>2 DEF Held
  <1>7. ASSUME NEW p \in PortsOf(context), NEW k \in IdxOf(context), d.stat[p][k] # "EMPTY"
        PROVE  \E u \in MuxTasks : pc'[u] \notin {"idle", "scan", "closing"} /\ me'[u].idx = k
    <2>1. CASE k = i
      BY <1>1, <2>1
    <2>2. CASE k # i
      <3>1. context.stat[p][k] # "EMPTY"
        BY <1>3, <1>7, <2>2
      <3>2. PICK u \in MuxTasks : Held(u) /\ me[u].idx = k
        BY <3>1 DEF IndexInv, MuxTasks
      <3> QED BY <1>5, <3>2
    <2> QED BY <2>1, <2>2
  <1>8. ASSUME bus'.fails = 0, NEW u \in MuxTasks, pc'[u] \notin {"idle", "scan", "closing"}
        PROVE  /\ d.stat[1][me'[u].idx] # "EMPTY"
               /\ \A v \in MuxTasks :
                    pc'[v] \notin {"idle", "scan", "closing"} /\ v # u => me'[v].idx # me'[u].idx
    <2>0. context.stat[1][i] = "EMPTY"
      <3>1. PICK e \in IdxOf(context) : Onward(i, e) + me[t].cnt < context.setup.maxbuf
        BY <1>1, <1>8 DEF IndexInv, MuxTasks
      <3>2. ~(me[t].cnt >= context.setup.maxbuf)
        <4>1. /\ context.setup.maxbuf \in Nat /\ me[t].cnt \in Nat
              /\ i \in 0 .. context.setup.maxbuf - 1 /\ e \in 0 .. context.setup.maxbuf - 1
          <5>1. context.setup.maxbuf \in Nat
            BY SizeIs
          <5> QED BY <5>1, TypeIs DEF IdxOf, TaskShape
        <4>2. (IF e >= i THEN e - i ELSE e + context.setup.maxbuf - i) + me[t].cnt
                 < context.setup.maxbuf
          BY <3>1 DEF Onward
        <4> HIDE DEF i
        <4> QED BY <4>1, <4>2
      <3> QED BY <1>1, <3>2
    <2>1. \A v \in MuxTasks :
             /\ Held(v) => context.stat[1][me[v].idx] # "EMPTY"
             /\ Held(v) => \A w \in MuxTasks : Held(w) /\ w # v => me[w].idx # me[v].idx
      BY <1>1, <1>8 DEF IndexInv, MuxTasks
    <2>2. \A v \in MuxTasks : Held(v) => me[v].idx # i
      BY <2>0, <2>1
    <2>3. \A v \in MuxTasks : pc'[v] \notin {"idle", "scan", "closing"} =>
             \/ v = t /\ me'[v].idx = i
             \/ v # t /\ Held(v) /\ me'[v].idx = me[v].idx /\ me[v].idx # i
      BY <1>1, <1>5, <2>2
    <2>4. d.stat[1][i] # "EMPTY"
      BY <1>1, <1>3
    <2>5. u # t => d.stat[1][me'[u].idx] # "EMPTY"
      BY <1>3, <1>8, <2>1, <2>3
    <2> QED BY <1>1, <1>8, <2>1, <2>3, <2>4, <2>5
  <1>9. IndexAfter(d, bus')
    BY <1>4, <1>7, <1>8 DEF IndexAfter
  <1> QED BY <1>3, <1>9, IndexIs DEF d

LEMMA IndexReleased ==
  ASSUME MuxType, IndexInv, NEW t \in MuxTasks, MX!ecx_setbufstat(t)
  PROVE  IndexInv'
  <1> DEFINE i == me[t].idx
             d == context'
  <1>1. /\ StatCleared(context, d, i) /\ bus' = bus /\ pc[t] = "release" /\ pc'[t] = "idle"
        /\ \A u \in MuxTasks : u # t => pc'[u] = pc[u] /\ me'[u] = me[u]
    BY SetbufstatDoes
  <1>3. /\ d.setup = context.setup /\ 1 \in PortsOf(context) /\ d.sem = context.sem
        /\ \A p \in PortsOf(context), k \in IdxOf(context) :
              d.stat[p][k] = IF k = i THEN "EMPTY" ELSE context.stat[p][k]
        /\ \A u \in MuxTasks : me[u].idx \in IdxOf(context)
    BY <1>1, TypeIs DEF StatCleared, Beside
  <1> HIDE DEF d
  <1>4. \A u \in MuxTasks :
          pc'[u] = "scan" => d.sem /\ \A v \in MuxTasks : pc'[v] = "scan" => v = u
    BY <1>1, <1>3 DEF IndexInv, MuxTasks
  <1>5. \A u \in MuxTasks : /\ u # t => (Held(u) <=> pc'[u] \notin {"idle", "scan", "closing"})
                            /\ u # t => me'[u] = me[u]
                            /\ pc'[u] \notin {"idle", "closing"} => u # t
    BY <1>1 DEF Held
  <1>6. Held(t)
    BY <1>1 DEF Held
  <1>7. ASSUME NEW p \in PortsOf(context), NEW k \in IdxOf(context), d.stat[p][k] # "EMPTY"
        PROVE  \E u \in MuxTasks : pc'[u] \notin {"idle", "scan", "closing"} /\ me'[u].idx = k
    <2>1. k # i /\ context.stat[p][k] # "EMPTY"
      BY <1>3, <1>7
    <2>2. PICK u \in MuxTasks : Held(u) /\ me[u].idx = k
      BY <2>1 DEF IndexInv, MuxTasks
    <2> QED BY <1>5, <2>1, <2>2
  <1>8. ASSUME bus'.fails = 0, NEW u \in MuxTasks
        PROVE  /\ pc'[u] \notin {"idle", "scan", "closing"} =>
                    /\ d.stat[1][me'[u].idx] # "EMPTY"
                    /\ \A v \in MuxTasks :
                          pc'[v] \notin {"idle", "scan", "closing"} /\ v # u => me'[v].idx # me'[u].idx
               /\ pc'[u] = "scan" =>
                    \E e \in IdxOf(context) :
                       /\ d.stat[1][e] = "EMPTY"
                       /\ Onward(me'[u].idx, e) + me'[u].cnt < context.setup.maxbuf
    <2>1. /\ Held(u) => context.stat[1][me[u].idx] # "EMPTY"
          /\ Held(u) => \A v \in MuxTasks : Held(v) /\ v # u => me[v].idx # me[u].idx
          /\ pc[u] = "scan" =>
               \E e \in IdxOf(context) :
                  /\ context.stat[1][e] = "EMPTY"
                  /\ Onward(me[u].idx, e) + me[u].cnt < context.setup.maxbuf
      BY <1>1, <1>8 DEF IndexInv, MuxTasks
    <2>2. pc'[u] \notin {"idle", "scan", "closing"} =>
             u # t /\ Held(u) /\ me'[u] = me[u] /\ me[u].idx # i
      BY <1>5, <1>6, <2>1
    <2>3. \A v \in MuxTasks : pc'[v] \notin {"idle", "scan", "closing"} =>
             v # t /\ Held(v) /\ me'[v] = me[v]
      BY <1>5
    <2>4. \A e \in IdxOf(context) : context.stat[1][e] = "EMPTY" => d.stat[1][e] = "EMPTY"
      BY <1>3
    <2>5. pc'[u] = "scan" => pc[u] = "scan" /\ me'[u] = me[u]
      BY <1>1
    <2>6. pc'[u] \notin {"idle", "scan", "closing"} => d.stat[1][me'[u].idx] # "EMPTY"
      BY <1>3, <2>1, <2>2
    <2>7. pc'[u] = "scan" =>
                    \E e \in IdxOf(context) :
                       /\ d.stat[1][e] = "EMPTY"
                       /\ Onward(me'[u].idx, e) + me'[u].cnt < context.setup.maxbuf
      BY <2>1, <2>4, <2>5
    <2> QED BY <2>1, <2>2, <2>3, <2>6, <2>7
  <1>9. IndexAfter(d, bus')
    BY <1>4, <1>7, <1>8 DEF IndexAfter
  <1> QED BY <1>3, <1>9, IndexIs DEF d

LEMMA IndexCall ==
  ASSUME SetupsAssumption, MuxType, IndexInv, NEW t \in MuxTasks, MX!Call(t)
  PROVE  IndexInv'
  <1> DEFINE i == me[t].idx
             Kept == /\ TaskStep(t) /\ me'[t].idx = i /\ context'.sem = context.sem
                     /\ pc[t] \notin {"idle", "scan", "closing"}
                     /\ pc'[t] \notin {"idle", "scan", "closing"}
                     /\ bus'.fails = 0 /\ context.stat[1][i] # "EMPTY" => context'.stat[1][i] # "EMPTY"
  <1>0. ASSUME Kept PROVE IndexInv'
    BY <1>0, IndexKept DEF Held
  <1>p. 1 \in PortsOf(context) /\ bus.fails \in Nat
    BY TypeIs
  <1>1. CASE MX!ecx_getindex(t)
    BY <1>1, IndexGet
  <1>2. CASE MX!ScanNext(t)
    BY <1>2, IndexScan
  <1>3. CASE MX!Found(t)
    BY <1>3, IndexFound
  <1>4. CASE MX!ecx_setbufstat(t)
    BY <1>4, IndexReleased
  <1>5. CASE MX!MarkPrimary(t) \/ MX!MarkSecondary(t) \/ MX!MarkResend(t)
    <2>1. /\ TaskStep(t) /\ pc[t] \in {"mark", "mark2", "mark3"} /\ me'[t].idx = i
          /\ pc'[t] \in {"send", "send2", "resend"}
          /\ \E p \in {1, 2} : StatSet(context, context', p, i, "TX")
      BY <1>5, MarkPrimaryDoes, MarkAgainDoes
    <2>2. Kept
      BY <2>1, <1>p DEF StatSet
    <2> QED BY <2>2, <1>0
  <1>6. CASE MX!SendPrimary(t) \/ MX!SendSecondary(t) \/ MX!Resend(t)
    <2>1. /\ TaskStep(t) /\ pc[t] \in {"send", "send2", "resend"} /\ me'[t].idx = i
          /\ pc'[t] \in {"mark2", "poll1", "rewait"} /\ \E p, f : Sent(t, p, f)
      <3>1. CASE MX!SendPrimary(t)
        BY <3>1, SendPrimaryDoes
      <3>2. CASE MX!SendSecondary(t)
        BY <3>2, SendSecondaryDoes
      <3>3. CASE MX!Resend(t)
        BY <3>3, ResendDoes
      <3> QED BY <1>6, <3>1, <3>2, <3>3
    <2>2. context'.sem = context.sem /\ (bus'.fails = 0 => context'.stat = context.stat)
      BY <2>1, <1>p DEF Sent
    <2>3. Kept
      BY <2>1, <2>2
    <2> QED BY <2>3, <1>0
  <1>7. CASE MX!PollPrimary(t) \/ MX!PollSecondary(t) \/ MX!Rewait(t)
    <2>1. /\ TaskStep(t) /\ pc[t] \in {"poll1", "poll2", "rewait"} /\ me'[t].idx = i
          /\ pc'[t] \in {"poll2", "timer", "rewait"}
          /\ \E p : Takes(t, p) \/ Leaves(t, p)
      BY <1>7, PollDoes
    <2>2. context'.sem = context.sem /\ context'.stat[1][i] \in {context.stat[1][i], "COMPLETE"}
      BY <2>1, <1>p DEF Takes, Leaves, InSet
    <2>3. Kept
      BY <2>1, <2>2
    <2> QED BY <2>3, <1>0
  <1>8. CASE \/ MX!PollAgain(t) \/ MX!Retry(t) \/ MX!GiveUp(t) \/ MX!UseAnswer(t)
             \/ MX!WaitOver(t) \/ MX!RewaitOver(t)
    <2>1. /\ TaskStep(t) /\ pc[t] \in {"timer", "again", "use", "rewait"} /\ me'[t].idx = i
          /\ pc'[t] \in {"poll1", "mark", "release", "use", "mark3", "again"}
          /\ \/ context' = context
             \/ RxSet(context, context', 1, i, context.rxbuf[2][i])
             \/ TxSet(context, context', i, context.rxbuf[1][i])
      <3>1. CASE MX!PollAgain(t) \/ MX!Retry(t) \/ MX!GiveUp(t)
        BY <3>1, TurnsDo
      <3>2. CASE MX!UseAnswer(t)
        BY <3>2, UseDoes
      <3>3. CASE MX!WaitOver(t)
        BY <3>3, WaitOverDoes
      <3>4. CASE MX!RewaitOver(t)
        BY <3>4, RewaitOverDoes
      <3> QED BY <1>8, <3>1, <3>2, <3>3, <3>4
    <2>2. context'.sem = context.sem /\ context'.stat = context.stat
      BY <2>1 DEF RxSet, TxSet
    <2>3. Kept
      BY <2>1, <2>2
    <2> QED BY <2>3, <1>0
  <1> QED BY <1>1, <1>2, <1>3, <1>4, <1>5, <1>6, <1>7, <1>8 DEF MX!Call

LEMMA IndexDriver ==
  ASSUME NoneAssumption, MuxType, IndexInv,
         MX!mux_rx_callback \/ MX!Posted \/ MX!Overrun \/ MX!LoseFrame
  PROVE  IndexInv'
  <1>1. \E i : NetStep(i)
    BY CallbackDoes, PostedDoes, OverrunDoes, LoseDoes
  <1> QED BY <1>1, IndexNet

-------------------------------------------------------------------------------
(* Every buffer of the network is accounted for *)

Waiting(c) == {q \in PortsOf(c) \X IdxOf(c) : c.queue[q[1]][q[2]] \notin {None, Deleted}}
Accounted(c) == c.owned = Cardinality(Waiting(c))

LEMMA WaitingFinite ==
  ASSUME SetupsAssumption, NEW c, c.setup \in Setups
  PROVE  IsFiniteSet(Waiting(c)) /\ Cardinality(Waiting(c)) \in Nat
  <1>1. IsFiniteSet(PortsOf(c))
    <2>1. IsFiniteSet({1, 2}) /\ IsFiniteSet({1})
      <3>1. IsFiniteSet({1})
        BY FS_Singleton
      <3>2. IsFiniteSet({1} \cup {2}) /\ {1} \cup {2} = {1, 2}
        BY <3>1, FS_AddElement
      <3> QED BY <3>1, <3>2
    <2> QED BY <2>1 DEF PortsOf
  <1>2. IsFiniteSet(IdxOf(c))
    <2>1. c.setup.maxbuf \in Nat
      BY DEF SetupsAssumption
    <2> QED BY <2>1, FS_Interval DEF IdxOf
  <1>3. IsFiniteSet(PortsOf(c) \X IdxOf(c))
    BY <1>1, <1>2, FS_Product
  <1>4. Waiting(c) \subseteq PortsOf(c) \X IdxOf(c)
    BY DEF Waiting
  <1> QED BY <1>3, <1>4, FS_Subset, FS_CardinalityType

\* One queue is filled, emptied or deleted.
LEMMA OneQueue ==
  ASSUME SetupsAssumption, NEW c, NEW d, c.setup \in Setups, d.setup = c.setup, Accounted(c),
         NEW p \in PortsOf(c), NEW i \in IdxOf(c),
         \A q \in PortsOf(c), k \in IdxOf(c) :
            q # p \/ k # i => d.queue[q][k] = c.queue[q][k],
         LET before == c.queue[p][i] \notin {None, Deleted}
             after == d.queue[p][i] \notin {None, Deleted}
         IN d.owned = IF before THEN IF after THEN c.owned ELSE c.owned - 1
                      ELSE IF after THEN c.owned + 1 ELSE c.owned
  PROVE  Accounted(d)
  <1>1. PortsOf(d) = PortsOf(c) /\ IdxOf(d) = IdxOf(c)
    BY DEF PortsOf, IdxOf
  <1> DEFINE W == Waiting(c)
             V == Waiting(d)
  <1>2. IsFiniteSet(W) /\ Cardinality(W) \in Nat
    BY WaitingFinite
  <1>3. \A q \in PortsOf(c) \X IdxOf(c) : q # <<p, i>> => (q \in V <=> q \in W)
    <2> TAKE q \in PortsOf(c) \X IdxOf(c)
    <2>1. q[1] \in PortsOf(c) /\ q[2] \in IdxOf(c) /\ q = <<q[1], q[2]>>
      OBVIOUS
    <2> QED BY <1>1, <2>1 DEF Waiting
  <1>4. /\ W \subseteq PortsOf(c) \X IdxOf(c) /\ V \subseteq PortsOf(c) \X IdxOf(c)
        /\ <<p, i>> \in W <=> c.queue[p][i] \notin {None, Deleted}
        /\ <<p, i>> \in V <=> d.queue[p][i] \notin {None, Deleted}
    BY <1>1 DEF Waiting
  <1>5. c.owned = Cardinality(W)
    BY DEF Accounted
  <1> DEFINE r == <<p, i>>
  <1> HIDE DEF W, V, r
  <1>6. /\ r \in W <=> c.queue[p][i] \notin {None, Deleted}
        /\ r \in V <=> d.queue[p][i] \notin {None, Deleted}
        /\ r \in PortsOf(c) \X IdxOf(c)
        /\ \A q \in PortsOf(c) \X IdxOf(c) : q # r => (q \in V <=> q \in W)
    BY <1>3, <1>4 DEF r
  <1>7. d.owned = IF r \in W THEN IF r \in V THEN c.owned ELSE c.owned - 1
                  ELSE IF r \in V THEN c.owned + 1 ELSE c.owned
    BY <1>6
  <1>8. d.owned = Cardinality(V)
    <2>1. CASE r \in W <=> r \in V
      <3>1. \A q : q \in V <=> q \in W
        BY <1>4, <1>6, <2>1
      <3>2. V = W
        BY <3>1
      <3> QED BY <1>5, <1>7, <2>1, <3>2
    <2>2. CASE r \in W /\ r \notin V
      <3>1. V = W \ {r}
        BY <1>4, <1>6, <2>2
      <3> QED BY <1>2, <1>5, <1>7, <2>2, <3>1, FS_RemoveElement
    <2>3. CASE r \notin W /\ r \in V
      <3>1. \A q : q \in V <=> q \in W \/ q = r
        BY <1>4, <1>6, <2>3
      <3>2. V = W \cup {r}
        BY <3>1
      <3>3. Cardinality(W \cup {r}) = Cardinality(W) + 1
        BY <1>2, <2>3, FS_AddElement
      <3> QED BY <1>5, <1>7, <2>3, <3>2, <3>3
    <2> QED BY <2>1, <2>2, <2>3
  <1> QED BY <1>8 DEF Accounted, V

LEMMA SameAccount ==
  ASSUME NEW c, NEW d, d.setup = c.setup, d.queue = c.queue, d.owned = c.owned, Accounted(c)
  PROVE  Accounted(d)
  <1>1. PortsOf(d) = PortsOf(c) /\ IdxOf(d) = IdxOf(c)
    BY DEF PortsOf, IdxOf
  <1> QED BY <1>1 DEF Accounted, Waiting

LEMMA AccountCall ==
  ASSUME SetupsAssumption, NoneAssumption, MuxType, CloseInv, Accounted(context),
         NEW t \in MuxTasks, MX!Call(t)
  PROVE  Accounted(context')
  <1> DEFINE i == me[t].idx
             d == context'
  <1>0. /\ context.setup \in Setups /\ i \in IdxOf(context) /\ 1 \in PortsOf(context)
        /\ PortsOf(context) \subseteq {1, 2}
    BY TypeIs
  <1>1. CASE \/ MX!ecx_getindex(t) \/ MX!ScanNext(t) \/ MX!Found(t) \/ MX!ecx_setbufstat(t)
             \/ MX!MarkPrimary(t) \/ MX!MarkSecondary(t) \/ MX!MarkResend(t)
             \/ MX!PollAgain(t) \/ MX!Retry(t) \/ MX!GiveUp(t) \/ MX!UseAnswer(t)
             \/ MX!WaitOver(t) \/ MX!RewaitOver(t)
    <2>1. d.setup = context.setup /\ d.queue = context.queue /\ d.owned = context.owned
      <3>1. CASE MX!ecx_getindex(t)
        BY <3>1, GetIndexDoes DEF TaskStep, Beside, SameQueues
      <3>2. CASE MX!ScanNext(t)
        BY <3>2, ScanNextDoes
      <3>3. CASE MX!Found(t)
        BY <3>3, FoundDoes DEF TaskStep, Beside, SameQueues
      <3>4. CASE MX!ecx_setbufstat(t)
        BY <3>4, SetbufstatDoes DEF StatCleared, Beside
      <3>5. CASE MX!MarkPrimary(t)
        BY <3>5, MarkPrimaryDoes DEF StatSet, Beside
      <3>6. CASE MX!MarkSecondary(t) \/ MX!MarkResend(t)
        BY <3>6, MarkAgainDoes DEF StatSet, Beside
      <3>7. CASE MX!PollAgain(t) \/ MX!Retry(t) \/ MX!GiveUp(t)
        BY <3>7, TurnsDo
      <3>8. CASE MX!UseAnswer(t)
        BY <3>8, UseDoes
      <3>9. CASE MX!WaitOver(t)
        BY <3>9, WaitOverDoes DEF RxSet, TxSet, Beside
      <3>10. CASE MX!RewaitOver(t)
        BY <3>10, RewaitOverDoes DEF RxSet, Beside
      <3> QED BY <1>1, <3>1, <3>2, <3>3, <3>4, <3>5, <3>6, <3>7, <3>8, <3>9, <3>10
    <2> QED BY <2>1, SameAccount
  <1>2. CASE MX!SendPrimary(t) \/ MX!SendSecondary(t) \/ MX!Resend(t)
    <2>1. pc[t] \in {"send", "send2", "resend"} /\ \E p, f : Sent(t, p, f)
      <3>1. CASE MX!SendPrimary(t)
        BY <3>1, SendPrimaryDoes
      <3>2. CASE MX!SendSecondary(t)
        BY <3>2, SendSecondaryDoes
      <3>3. CASE MX!Resend(t)
        BY <3>3, ResendDoes
      <3> QED BY <1>2, <3>1, <3>2, <3>3
    <2>2. /\ Beside(context, d, i)
          /\ \A q \in PortsOf(context) : d.queue[q][i] = IF q = 1 THEN None ELSE context.queue[q][i]
          /\ d.owned = IF context.queue[1][i] = None THEN context.owned ELSE context.owned - 1
      BY <2>1 DEF Sent
    <2>3. context.queue[1][i] # Deleted
      BY <1>0, <2>1, QueuesOpen
    <2> HIDE DEF d
    <2>4. /\ d.setup = context.setup
          /\ \A q \in PortsOf(context), k \in IdxOf(context) :
                q # 1 \/ k # i => d.queue[q][k] = context.queue[q][k]
      BY <2>2 DEF Beside
    <2>5. d.queue[1][i] = None
      BY <1>0, <2>2
    <2>6. Accounted(d)
      BY <1>0, <2>2, <2>3, <2>4, <2>5, OneQueue
    <2> QED BY <2>6 DEF d
  <1>3. CASE MX!PollPrimary(t) \/ MX!PollSecondary(t) \/ MX!Rewait(t)
    <2>1. /\ pc[t] \in {"poll1", "poll2", "rewait"}
          /\ \E p \in PortsOf(context) : Takes(t, p) \/ Leaves(t, p)
      BY <1>3, PollDoes DEF PortsOf
    <2>2. PICK p \in PortsOf(context) : Takes(t, p) \/ Leaves(t, p)
      BY <2>1
    <2>3. CASE Leaves(t, p)
      BY <2>3 DEF Leaves
    <2>4. CASE Takes(t, p)
      <3>1. /\ context.queue[p][i] # None /\ Beside(context, d, i)
            /\ \A q \in PortsOf(context) : d.queue[q][i] = IF q = p THEN None ELSE context.queue[q][i]
            /\ d.owned = context.owned - 1
        BY <2>4 DEF Takes, InSet
      <3>2. context.queue[p][i] # Deleted
        BY <1>0, <2>1, QueuesOpen
      <3> HIDE DEF d
      <3>3. /\ d.setup = context.setup
            /\ \A q \in PortsOf(context), k \in IdxOf(context) :
                  q # p \/ k # i => d.queue[q][k] = context.queue[q][k]
        BY <3>1 DEF Beside
      <3>4. d.queue[p][i] = None
        BY <3>1
      <3>5. Accounted(d)
        BY <1>0, <3>1, <3>2, <3>3, <3>4, OneQueue
      <3> QED BY <3>5 DEF d
    <2> QED BY <2>2, <2>3, <2>4
  <1> QED BY <1>1, <1>2, <1>3 DEF MX!Call

LEMMA AccountOthers ==
  ASSUME SetupsAssumption, NoneAssumption, MuxType, CloseInv, Accounted(context),
         \/ MX!mux_rx_callback \/ MX!Posted \/ MX!Overrun \/ MX!LoseFrame
         \/ MX!CloseDrain \/ MX!CloseDelete
  PROVE  Accounted(context')
  <1> DEFINE d == context'
             g == bus.cb.frame
  <1>0. context.setup \in Setups /\ None # Deleted /\ \A f \in Frames : f \notin {None, Deleted}
    BY TypeIs DEF NoneAssumption
  <1>1. CASE MX!mux_rx_callback
    <2>1. d = context
      BY <1>1, CallbackDoes
    <2> QED BY <2>1
  <1>2. CASE MX!LoseFrame
    <2>1. d = context
      BY <1>2, LoseDoes
    <2> QED BY <2>1
  <1>3. CASE MX!Posted
    <2> DEFINE p == g.port
               i == g.idx
    <2>1. /\ NetStep(i) /\ g \in Frames /\ p \in PortsOf(context)
          /\ \/ d = context
             \/ context.queue[p][i] = None /\ QueueSet(context, d, p, i, g, context.owned + 1)
      BY <1>3, PostedDoes
    <2>2. i \in IdxOf(context)
      BY <2>1 DEF NetStep
    <2> HIDE DEF d, p, i, g
    <2>3. CASE d = context
      BY <2>3 DEF d
    <2>4. CASE context.queue[p][i] = None /\ QueueSet(context, d, p, i, g, context.owned + 1)
      <3>1. /\ d.setup = context.setup /\ d.queue[p][i] = g /\ d.owned = context.owned + 1
            /\ \A q \in PortsOf(context), k \in IdxOf(context) :
                  q # p \/ k # i => d.queue[q][k] = context.queue[q][k]
        BY <2>1, <2>4 DEF QueueSet, Beside
      <3>2. g \notin {None, Deleted}
        BY <1>0, <2>1
      <3>3. Accounted(d)
        BY <1>0, <2>1, <2>2, <2>4, <3>1, <3>2, OneQueue
      <3> QED BY <3>3 DEF d
    <2> QED BY <2>1, <2>3, <2>4
  <1>4. CASE MX!Overrun
    <2> DEFINE p == g.port
               i == g.idx
    <2>1. /\ NetStep(i) /\ p \in PortsOf(context)
          /\ \/ d = context
             \/ /\ context.queue[p][i] \notin {None, Deleted}
                /\ QueueSet(context, d, p, i, None, context.owned - 1)
      BY <1>4, OverrunDoes
    <2>2. i \in IdxOf(context)
      BY <2>1 DEF NetStep
    <2> HIDE DEF d, p, i, g
    <2>3. CASE d = context
      BY <2>3 DEF d
    <2>4. CASE /\ context.queue[p][i] \notin {None, Deleted}
               /\ QueueSet(context, d, p, i, None, context.owned - 1)
      <3>1. /\ d.setup = context.setup /\ d.queue[p][i] = None /\ d.owned = context.owned - 1
            /\ \A q \in PortsOf(context), k \in IdxOf(context) :
                  q # p \/ k # i => d.queue[q][k] = context.queue[q][k]
        BY <2>1, <2>4 DEF QueueSet, Beside
      <3>3. Accounted(d)
        BY <1>0, <2>1, <2>2, <2>4, <3>1, OneQueue
      <3> QED BY <3>3 DEF d
    <2> QED BY <2>1, <2>3, <2>4
  <1>5. CASE MX!CloseDrain \/ MX!CloseDelete
    <2>1. PICK p \in PortsOf(context), i \in IdxOf(context) :
            LET queue == context.queue[p][i]
            IN /\ <<p, i>> \in context.toClose /\ me' = me /\ bus' = bus
               /\ \/ /\ \A t \in MuxTasks : /\ pc[t] = "idle" /\ me[t].req = context.setup.reqs
                                            /\ pc'[t] = "closing"
                     /\ IF queue = None THEN d = context
                        ELSE QueueSet(context, d, p, i, None, context.owned - 1)
                  \/ /\ \A t \in MuxTasks : pc[t] = "closing" /\ pc'[t] = "idle"
                     /\ QueueDeleted(context, d, p, i,
                                     context.owned - IF queue = None THEN 0 ELSE 1,
                                     context.toClose \ {<<p, i>>})
               /\ pc' \in [MuxTasks -> {"idle", "closing"}]
      BY <1>5, CloseDoes
    <2>2. context.queue[p][i] # Deleted
      BY <2>1 DEF CloseInv
    <2> HIDE DEF d
    <2>3. CASE d = context
      BY <2>3 DEF d
    <2>4. CASE context.queue[p][i] # None /\ QueueSet(context, d, p, i, None, context.owned - 1)
      <3>1. /\ d.setup = context.setup /\ d.queue[p][i] = None /\ d.owned = context.owned - 1
            /\ \A q \in PortsOf(context), k \in IdxOf(context) :
                  q # p \/ k # i => d.queue[q][k] = context.queue[q][k]
        BY <2>4 DEF QueueSet, Beside
      <3>3. Accounted(d)
        BY <1>0, <2>1, <2>2, <2>4, <3>1, OneQueue
      <3> QED BY <3>3 DEF d
    <2>5. CASE \E left : QueueDeleted(context, d, p, i,
                                     context.owned - IF context.queue[p][i] = None THEN 0 ELSE 1,
                                     left)
      <3>0. context.owned \in Int
        BY <1>0, WaitingFinite DEF Accounted
      <3>1. /\ d.setup = context.setup /\ d.queue[p][i] = Deleted
            /\ d.owned = context.owned - IF context.queue[p][i] = None THEN 0 ELSE 1
            /\ \A q \in PortsOf(context), k \in IdxOf(context) :
                  q # p \/ k # i => d.queue[q][k] = context.queue[q][k]
        BY <2>5 DEF QueueDeleted
      <3>2. d.owned = IF context.queue[p][i] = None THEN context.owned ELSE context.owned - 1
        BY <3>0, <3>1
      <3>3. Accounted(d)
        BY <1>0, <2>1, <2>2, <3>1, <3>2, OneQueue
      <3> QED BY <3>3 DEF d
    <2> QED BY <2>1, <2>3, <2>4, <2>5
  <1> QED BY <1>1, <1>2, <1>3, <1>4, <1>5

-------------------------------------------------------------------------------
(* The port is set up *)

\* An empty table, and a port and tasks to which nothing has happened.
EmptyTable(c, f, x) == Table(c, f) /\ \A p \in PortsOf(c), i \in IdxOf(c) : f[p][i] = x
FreshPort(c, b) ==
    /\ c.setup \in Setups /\ c.lastidx = 0 /\ c.owned = 0
    /\ DOMAIN c = {"setup", "lastidx", "sem", "stat", "rxbuf", "rxsa", "queue", "txbuf",
                   "owned", "toClose"}
    /\ EmptyTable(c, c.stat, "EMPTY") /\ EmptyTable(c, c.rxbuf, None)
    /\ EmptyTable(c, c.rxsa, None) /\ EmptyTable(c, c.queue, None)
    /\ DOMAIN c.txbuf = IdxOf(c) /\ c.toClose = PortsOf(c) \X IdxOf(c)
    /\ DOMAIN b = {"net", "cut", "cb", "fails"} /\ b.net = {} /\ b.cb = None /\ b.fails = 0

LEMMA SlotsMade ==
  ASSUME NEW c, NEW x
  PROVE  EmptyTable(c, [p \in PortsOf(c) |-> [i \in IdxOf(c) |-> x]], x)
  BY DEF EmptyTable, Table

LEMMA SetupDoes ==
  ASSUME SetupsAssumption, MX!ecx_setupnic
  PROVE  /\ FreshPort(context', bus')
         /\ pc' = [t \in context'.setup.tasks |-> "idle"]
         /\ me' = [t \in context'.setup.tasks |-> MX!NoTask]
  <1>1. PICK s \in Setups, cut \in BOOLEAN :
           LET slots(x) == [p \in MX!Port(s.red) |-> [i \in 0 .. s.maxbuf - 1 |-> x]]
           IN /\ context' = [setup |-> s, lastidx |-> 0, sem |-> FALSE,
                             stat |-> slots("EMPTY"), rxbuf |-> slots(None),
                             rxsa |-> slots(None), queue |-> slots(None),
                             txbuf |-> [i \in 0 .. s.maxbuf - 1 |-> None],
                             owned |-> 0,
                             toClose |-> MX!Port(s.red) \X (0 .. s.maxbuf - 1)]
              /\ bus' = [net |-> {}, cut |-> cut, cb |-> None, fails |-> 0]
              /\ pc' = [t \in s.tasks |-> "idle"] /\ me' = [t \in s.tasks |-> MX!NoTask]
    BY Zenon DEF MX!ecx_setupnic
  <1> DEFINE d == context'
             stat == [p \in MX!Port(s.red) |-> [i \in 0 .. s.maxbuf - 1 |-> "EMPTY"]]
             none == [p \in MX!Port(s.red) |-> [i \in 0 .. s.maxbuf - 1 |-> None]]
             tx == [i \in 0 .. s.maxbuf - 1 |-> None]
             left == MX!Port(s.red) \X (0 .. s.maxbuf - 1)
  <1>2. /\ d = [setup |-> s, lastidx |-> 0, sem |-> FALSE, stat |-> stat, rxbuf |-> none,
                rxsa |-> none, queue |-> none, txbuf |-> tx, owned |-> 0, toClose |-> left]
        /\ bus' = [net |-> {}, cut |-> cut, cb |-> None, fails |-> 0]
        /\ pc' = [t \in s.tasks |-> "idle"] /\ me' = [t \in s.tasks |-> MX!NoTask]
    BY <1>1
  <1> HIDE DEF d, stat, none, tx, left
  <1>3. /\ d.setup = s /\ d.lastidx = 0 /\ d.stat = stat /\ d.rxbuf = none /\ d.rxsa = none
        /\ d.queue = none /\ d.txbuf = tx /\ d.owned = 0 /\ d.toClose = left
        /\ DOMAIN d = {"setup", "lastidx", "sem", "stat", "rxbuf", "rxsa", "queue", "txbuf",
                       "owned", "toClose"}
    BY <1>2
  <1>4. PortsOf(d) = MX!Port(s.red) /\ IdxOf(d) = 0 .. s.maxbuf - 1
    BY <1>3 DEF PortsOf, IdxOf, MX!Port
  <1>5. EmptyTable(d, stat, "EMPTY") /\ EmptyTable(d, none, None)
    <2>1. /\ stat = [p \in PortsOf(d) |-> [i \in IdxOf(d) |-> "EMPTY"]]
          /\ none = [p \in PortsOf(d) |-> [i \in IdxOf(d) |-> None]]
      BY <1>4 DEF stat, none
    <2> QED BY <2>1, SlotsMade, Zenon
  <1>6. DOMAIN tx = IdxOf(d) /\ left = PortsOf(d) \X IdxOf(d)
    BY <1>4 DEF tx, left
  <1>7. /\ DOMAIN bus' = {"net", "cut", "cb", "fails"} /\ bus'.net = {} /\ bus'.cb = None
        /\ bus'.fails = 0
    BY <1>2
  <1>8. FreshPort(d, bus')
    BY <1>3, <1>5, <1>6, <1>7 DEF FreshPort
  <1> QED BY <1>2, <1>3, <1>8 DEF d

LEMMA SetupInv ==
  ASSUME SetupsAssumption, NoneAssumption, MX!ecx_setupnic
  PROVE  /\ MuxType' /\ CloseInv' /\ IndexInv' /\ AnswerInv' /\ QuietInv' /\ Accounted(context')
  <1> DEFINE d == context'
             b == bus'
             T == d.setup.tasks
  <1>1. /\ FreshPort(d, b) /\ pc' = [t \in T |-> "idle"] /\ me' = [t \in T |-> MX!NoTask]
    BY SetupDoes
  <1> HIDE DEF d, b
  <1>2. /\ d.setup \in Setups /\ d.setup.maxbuf \in Nat /\ d.setup.maxbuf > 0
        /\ PortsOf(d) \subseteq {1, 2}
    BY <1>1 DEF FreshPort, SetupsAssumption, PortsOf
  <1>3. 0 \in IdxOf(d) /\ None \notin Ways /\ None # Deleted
    BY <1>2 DEF IdxOf, NoneAssumption
  <1>4. /\ \A p \in PortsOf(d), i \in IdxOf(d) :
              d.stat[p][i] = "EMPTY" /\ d.rxsa[p][i] = None /\ d.queue[p][i] = None
        /\ Shape(d)
    BY <1>1 DEF FreshPort, EmptyTable, Shape
  <1>5. ContextOk(d)
    BY <1>1, <1>3, <1>4 DEF FreshPort, ContextOk, SlotOk
  <1>6. BusOk(d, b)
    BY <1>1 DEF FreshPort, BusOk
  <1>7. TaskOk(d, MX!NoTask, "idle")
    <2> DEFINE m == MX!NoTask
    <2>1. /\ TaskShape(m) /\ m.idx = 0 /\ m.sends = 0 /\ m.answer = None
          /\ m.in[1] = FALSE /\ m.in[2] = FALSE
      BY DEF MX!NoTask, TaskShape
    <2> HIDE DEF m
    <2>2. \A p \in PortsOf(d) : m.in[p] => d.rxsa[p][m.idx] \in Ways
      BY <1>2, <2>1
    <2>3. TaskOk(d, m, "idle")
      BY <1>3, <2>1, <2>2 DEF TaskOk, RedLabels
    <2> QED BY <2>3 DEF m
  <1>8. pc' \in [T -> Labels] /\ \A t \in T : pc'[t] = "idle" /\ me'[t] = MX!NoTask
    BY <1>1 DEF Labels
  <1>9. MuxType'
    BY <1>1, <1>5, <1>6, <1>7, <1>8 DEF MuxType, d, b
  <1>10. CloseInv'
    <2>1. \A p \in PortsOf(d), i \in IdxOf(d) : d.queue[p][i] # Deleted /\ <<p, i>> \in d.toClose
      BY <1>1, <1>3, <1>4 DEF FreshPort
    <2>2. d.toClose = PortsOf(d) \X IdxOf(d)
      BY <1>1 DEF FreshPort
    <2> QED BY <1>8, <2>1, <2>2 DEF CloseInv, d
  <1>11. IndexInv'
    BY <1>4, <1>8 DEF IndexInv, Held, d
  <1>12. AnswerInv' /\ QuietInv'
    BY <1>8 DEF AnswerInv, AnswerTask, QuietInv, QuietTask, Held, d
  <1>13. Accounted(d)
    <2>1. Waiting(d) = {}
      BY <1>4 DEF Waiting
    <2> QED BY <1>1, <2>1, FS_EmptySet DEF Accounted, FreshPort
  <1> QED BY <1>9, <1>10, <1>11, <1>12, <1>13 DEF d

-------------------------------------------------------------------------------
(* What does not concern a task *)

\* The buffers of index i, its status, the frames of the index, and what a task knows
\* of its call are as they were.
SameStore(i, c, d) ==
    /\ d.setup = c.setup /\ d.txbuf[i] = c.txbuf[i]
    /\ \A p \in PortsOf(c) : /\ d.queue[p][i] = c.queue[p][i] /\ d.rxbuf[p][i] = c.rxbuf[p][i]
                             /\ d.rxsa[p][i] = c.rxsa[p][i]
SameStat(i, c, d) == \A p \in PortsOf(c) : d.stat[p][i] = c.stat[p][i]
SameLine(i, b, e) ==
    /\ e.cut = b.cut
    /\ \A f : f.idx = i => (f \in e.net <=> f \in b.net)
    /\ b.cb = None \/ b.cb.frame.idx # i \/ e.cb = b.cb
    /\ e.cb = None \/ e.cb.frame.idx # i \/ e.cb = b.cb
SameUse(m, n) == n.idx = m.idx /\ n.sends = m.sends /\ n.answer = m.answer /\ SameIn(n, m)

LEMMA LineSame ==
  ASSUME NEW i, NEW b, NEW e, SameLine(i, b, e)
  PROVE  /\ \A f : Flies(e, i, f) <=> Flies(b, i, f)
         /\ \A f : DummyFlies(e, i, f) <=> DummyFlies(b, i, f)
         /\ DummyHeld(e, i) <=> DummyHeld(b, i)
         /\ \A f : f.idx = i => (e.cb # None /\ e.cb.frame = f <=> b.cb # None /\ b.cb.frame = f)
  BY DEF SameLine, Flies, DummyFlies, DummyHeld

\* A task that moves from label l to k with nothing new.
LEMMA AnswerMoves ==
  ASSUME NEW r, NEW l, NEW k, NEW m, NEW n, NEW c, NEW d, NEW b, NEW e,
         n.idx = m.idx, SameIn(n, m), SameStore(m.idx, c, d), SameLine(m.idx, b, e),
         AnswerOf(r, l, m, c, b), PortsOf(c) \subseteq {1, 2},
         l \in {"mark", "send"} => k \in {"mark", "send"},
         k \in {"mark2", "send2"} => l \in {"mark2", "send2"}, k \in Receiver => l \in Receiver,
         k = "use" => d.rxbuf[1][m.idx].parts = {} \/ d.rxbuf[1][m.idx].req = r,
         k = "release" => n.answer = None \/ n.answer.req = r
  PROVE  AnswerOf(r, k, n, d, e)
  <1> DEFINE i == m.idx
  <1>1. /\ n.idx = i /\ n.in[1] = m.in[1] /\ n.in[2] = m.in[2]
        /\ d.txbuf[i] = c.txbuf[i] /\ PortsOf(d) = PortsOf(c) /\ e.cut = b.cut
        /\ \A p \in PortsOf(c) : n.in[p] = m.in[p]
    BY DEF SameIn, SameStore, SameLine, PortsOf
  <1>2. \A p \in PortsOf(c) : /\ d.queue[p][i] = c.queue[p][i] /\ d.rxbuf[p][i] = c.rxbuf[p][i]
                              /\ d.rxsa[p][i] = c.rxsa[p][i]
    BY DEF SameStore
  <1>3. \A f : Flies(e, i, f) <=> Flies(b, i, f)
    BY LineSame
  <1>4. k = "use" => d.rxbuf[1][i].parts = {} \/ d.rxbuf[1][i].req = r
    OBVIOUS
  <1> HIDE DEF i
  <1>5. /\ c.txbuf[i].req = r
        /\ \A f : Flies(b, i, f) => Fits(r, b.cut, f.port, f.sa, f.content)
        /\ \A p \in PortsOf(c) :
             /\ c.queue[p][i] # None /\ (p = 2 \/ l \notin {"mark", "send"}) =>
                   Fits(r, b.cut, p, c.queue[p][i].sa, c.queue[p][i].content)
             /\ m.in[p] /\ l \in Receiver => Fits(r, b.cut, p, c.rxsa[p][i], c.rxbuf[p][i])
        /\ l \in {"mark2", "send2"} => ~m.in[1] /\ ~m.in[2]
    BY DEF AnswerOf, i
  <1>6. \A f : Flies(e, i, f) => Fits(r, e.cut, f.port, f.sa, f.content)
    BY <1>1, <1>3, <1>5
  <1>7. \A p \in PortsOf(d) :
             /\ d.queue[p][i] # None /\ (p = 2 \/ k \notin {"mark", "send"}) =>
                   Fits(r, e.cut, p, d.queue[p][i].sa, d.queue[p][i].content)
             /\ n.in[p] /\ k \in Receiver => Fits(r, e.cut, p, d.rxsa[p][i], d.rxbuf[p][i])
    BY <1>1, <1>2, <1>5
  <1>8. k \in {"mark2", "send2"} => ~n.in[1] /\ ~n.in[2]
    BY <1>1, <1>5
  <1> QED BY <1>1, <1>4, <1>5, <1>6, <1>7, <1>8 DEF AnswerOf

LEMMA AnswerSame ==
  ASSUME NEW r, NEW l, NEW m, NEW n, NEW c, NEW d, NEW b, NEW e, PortsOf(c) \subseteq {1, 2},
         SameUse(m, n), SameStore(m.idx, c, d), SameLine(m.idx, b, e), AnswerOf(r, l, m, c, b)
  PROVE  AnswerOf(r, l, n, d, e)
  <1>1. l = "use" => d.rxbuf[1][m.idx].parts = {} \/ d.rxbuf[1][m.idx].req = r
    <2>1. 1 \in PortsOf(c)
      BY DEF PortsOf
    <2>2. d.rxbuf[1][m.idx] = c.rxbuf[1][m.idx]
      BY <2>1 DEF SameStore
    <2> QED BY <2>2 DEF AnswerOf
  <1>2. l = "release" => n.answer = None \/ n.answer.req = r
    BY DEF AnswerOf, SameUse
  <1>3. n.idx = m.idx /\ SameIn(n, m)
    BY DEF SameUse
  <1> QED BY <1>1, <1>2, <1>3, AnswerMoves

LEMMA DummySame ==
  ASSUME NEW l, NEW m, NEW n, NEW c, NEW d, NEW b, NEW e, c.setup.red,
         SameUse(m, n), SameStore(m.idx, c, d), SameLine(m.idx, b, e), DummyOf(l, m, c, b)
  PROVE  DummyOf(l, n, d, e)
  <1> DEFINE i == m.idx
  <1>1. /\ n.idx = i /\ n.in[2] = m.in[2] /\ e.cut = b.cut
        /\ d.queue[2][i] = c.queue[2][i] /\ d.rxsa[2][i] = c.rxsa[2][i]
    BY DEF SameUse, SameIn, SameStore, SameLine, PortsOf
  <1>2. /\ \A f : Flies(e, i, f) <=> Flies(b, i, f)
        /\ \A f : DummyFlies(e, i, f) <=> DummyFlies(b, i, f)
        /\ DummyHeld(e, i) <=> DummyHeld(b, i)
    BY LineSame
  <1>3. (DummyWaits(d, i) <=> DummyWaits(c, i)) /\ (DummyIn(n, d) <=> DummyIn(m, c))
    BY <1>1 DEF DummyWaits, DummyIn
  <1> QED BY <1>1, <1>2, <1>3, Zenon DEF DummyOf

LEMMA QuietSame ==
  ASSUME NEW r, NEW l, NEW m, NEW n, NEW c, NEW d, NEW b, NEW e, c.setup.red,
         SameUse(m, n), SameStore(m.idx, c, d), SameStat(m.idx, c, d), SameLine(m.idx, b, e), QuietOf(r, l, m, c, b)
  PROVE  QuietOf(r, l, n, d, e)
  <1> DEFINE i == m.idx
  <1>1. /\ n.idx = i /\ n.answer = m.answer /\ n.sends = m.sends
        /\ n.in[1] = m.in[1] /\ n.in[2] = m.in[2] /\ e.cut = b.cut
        /\ d.txbuf[i] = c.txbuf[i]
    BY DEF SameUse, SameIn, SameStore, SameLine
  <1>2. \A p \in {1, 2} :
             /\ d.queue[p][i] = c.queue[p][i] /\ d.rxbuf[p][i] = c.rxbuf[p][i]
             /\ d.rxsa[p][i] = c.rxsa[p][i] /\ (Complete(d, i, p) <=> Complete(c, i, p))
             /\ n.in[p] = m.in[p]
    BY <1>1 DEF SameStore, SameStat, PortsOf, Complete
  <1>3. \A xs : Only(e, i, xs) <=> Only(b, i, xs)
    BY LineSame DEF Only
  <1>4. ASSUME NEW x, x.idx = i, x.port \in {1, 2}
        PROVE  Spot(x, n, d, e) <=> Spot(x, m, c, b)
    <2>1. /\ x \in e.net <=> x \in b.net
          /\ e.cb # None /\ e.cb.frame = x <=> b.cb # None /\ b.cb.frame = x
      BY <1>4, LineSame DEF SameLine
    <2> QED BY <1>1, <1>2, <1>4, <2>1 DEF Spot
  <1>5. \A k, cut : /\ Command(r, k, cut).idx = k /\ Dummy(k, cut).idx = k /\ Again(r, k).idx = k
                    /\ Command(r, k, cut).port \in {1, 2} /\ Dummy(k, cut).port \in {1, 2}
                    /\ Again(r, k).port \in {1, 2}
    BY DEF Command, Dummy, Again
  <1> HIDE DEF i
  <1>6. /\ Spot(Command(r, i, b.cut), n, d, e) <=> Spot(Command(r, i, b.cut), m, c, b)
        /\ Spot(Dummy(i, b.cut), n, d, e) <=> Spot(Dummy(i, b.cut), m, c, b)
        /\ Spot(Again(r, i), n, d, e) <=> Spot(Again(r, i), m, c, b)
    BY <1>4, <1>5
  <1>7. /\ d.queue[1][i] = c.queue[1][i] /\ d.queue[2][i] = c.queue[2][i]
        /\ d.rxbuf[1][i] = c.rxbuf[1][i]
        /\ d.queue[Dummy(i, b.cut).port][i] = c.queue[Dummy(i, b.cut).port][i]
        /\ Complete(d, i, 1) <=> Complete(c, i, 1)
        /\ Complete(d, i, 2) <=> Complete(c, i, 2)
    BY <1>2, <1>5
  <1>8. m.idx = i
    BY DEF i
  <1> QED BY <1>1, <1>3, <1>6, <1>7, <1>8 DEF QuietOf

\* Task u, its index and the frames of the index.
Untouched(u) ==
    /\ pc'[u] = pc[u] /\ MX!Req(u)' = MX!Req(u) /\ SameUse(me[u], me'[u])
    /\ me'[u].overdue = me[u].overdue
    /\ (me[u].missed => me'[u].missed) /\ (me[u].dropped => me'[u].dropped)
    /\ SameStore(me[u].idx, context, context') /\ SameStat(me[u].idx, context, context')
    /\ SameLine(me[u].idx, bus, bus')

LEMMA UntouchedKeeps ==
  ASSUME MuxType, NEW u \in MuxTasks, Untouched(u)
  PROVE  /\ AnswerTask(u) => AnswerTask(u)'
         /\ context.setup.red /\ QuietTask(u) => QuietTask(u)'
  <1> DEFINE d == context'
  <1>1. PortsOf(context) \subseteq {1, 2} /\ d.setup = context.setup
    BY TypeIs DEF Untouched, SameStore
  <1>2. ASSUME AnswerTask(u), Held(u)', ~me'[u].overdue
        PROVE  /\ AnswerOf(MX!Req(u)', pc'[u], me'[u], d, bus')
               /\ d.setup.red => DummyOf(pc'[u], me'[u], d, bus')
    <2>1. /\ AnswerOf(MX!Req(u), pc[u], me[u], context, bus)
          /\ context.setup.red => DummyOf(pc[u], me[u], context, bus)
      BY <1>2 DEF AnswerTask, Untouched, Held
    <2> QED BY <1>1, <2>1, AnswerSame, DummySame DEF Untouched
  <1>3. ASSUME context.setup.red, QuietTask(u), Held(u)', ~me'[u].overdue, ~me'[u].missed,
               ~me'[u].dropped
        PROVE  QuietOf(MX!Req(u)', pc'[u], me'[u], d, bus')
    <2>1. QuietOf(MX!Req(u), pc[u], me[u], context, bus)
      BY <1>3 DEF QuietTask, Untouched, Held
    <2> QED BY <1>3, <2>1, QuietSame DEF Untouched
  <1> QED BY <1>2, <1>3 DEF AnswerTask, QuietTask

LEMMA StepBeside ==
  ASSUME MuxType, NEW t \in MuxTasks, TaskStep(t), NEW u \in MuxTasks, u # t,
         me'[t].idx # me[u].idx
  PROVE  Untouched(u)
  <1> DEFINE i == me'[t].idx
             k == me[u].idx
  <1>1. /\ Beside(context, context', i) /\ pc'[u] = pc[u] /\ me'[u] = me[u]
        /\ bus'.cut = bus.cut /\ bus'.cb = bus.cb /\ k # i
        /\ \A f : f.idx # i => (f \in bus'.net <=> f \in bus.net)
    BY DEF TaskStep
  <1>2. SameStore(k, context, context') /\ SameStat(k, context, context')
    BY <1>1, TypeIs DEF Beside, SameStore, SameStat
  <1>3. SameLine(k, bus, bus')
    BY <1>1 DEF SameLine
  <1>4. SameUse(me[u], me'[u]) /\ MX!Req(u)' = MX!Req(u)
    BY <1>1 DEF SameUse, SameIn, MX!Req
  <1> QED BY <1>1, <1>2, <1>3, <1>4 DEF Untouched

LEMMA NetBeside ==
  ASSUME MuxType, NEW i, NetStep(i), NEW u \in MuxTasks, i # me[u].idx
  PROVE  Untouched(u)
  <1> DEFINE k == me[u].idx
  <1>1. /\ Beside(context, context', i) /\ pc' = pc /\ SameTask(me'[u], me[u], i)
        /\ bus'.cut = bus.cut /\ k # i
        /\ \A f : f.idx # i => (f \in bus'.net <=> f \in bus.net)
        /\ bus.cb = None \/ bus.cb.frame.idx = i \/ bus'.cb = bus.cb
        /\ bus'.cb = None \/ bus'.cb.frame.idx = i \/ bus'.cb = bus.cb
        /\ k \in IdxOf(context)
    BY TypeIs DEF NetStep
  <1>2. SameStore(k, context, context') /\ SameStat(k, context, context')
    BY <1>1, TypeIs DEF Beside, SameStore, SameStat
  <1>3. SameLine(k, bus, bus')
    BY <1>1 DEF SameLine
  <1>4. SameUse(me[u], me'[u]) /\ MX!Req(u)' = MX!Req(u)
    BY <1>1 DEF SameUse, SameTask, SameCall, MX!Req
  <1> QED BY <1>1, <1>2, <1>3, <1>4 DEF Untouched, SameTask

\* A task that holds an index is not concerned by what another one does.
LEMMA CallBeside ==
  ASSUME SetupsAssumption, MuxType, IndexInv, IndexInv', bus'.fails = 0,
         NEW t \in MuxTasks, MX!Call(t), NEW u \in MuxTasks, u # t, Held(u)
  PROVE  Untouched(u)
  <1> DEFINE k == me[u].idx
             d == context'
  <1>1. CASE MX!ecx_getindex(t) \/ MX!ScanNext(t)
    <2>1. /\ TaskStep(t) /\ bus' = bus /\ d.stat = context.stat /\ d.queue = context.queue
          /\ d.rxbuf = context.rxbuf /\ d.rxsa = context.rxsa /\ d.txbuf = context.txbuf
      BY <1>1, GetIndexDoes, ScanNextDoes DEF SameQueues, SameFrames
    <2>2. d.setup = context.setup /\ pc'[u] = pc[u] /\ me'[u] = me[u]
      BY <2>1 DEF TaskStep, Beside
    <2>3. SameStore(k, context, d) /\ SameStat(k, context, d) /\ SameLine(k, bus, bus')
      BY <2>1, <2>2 DEF SameStore, SameStat, SameLine
    <2> QED BY <2>2, <2>3 DEF Untouched, SameUse, SameIn, MX!Req
  <1>2. CASE MX!ecx_setbufstat(t)
    <2> DEFINE i == me[t].idx
    <2>1. /\ Beside(context, d, i) /\ bus' = bus /\ pc[t] = "release"
          /\ pc'[u] = pc[u] /\ me'[u] = me[u]
      <3>1. /\ StatCleared(context, d, i) /\ bus' = bus /\ pc[t] = "release"
            /\ \A v \in MuxTasks : v # t => pc'[v] = pc[v] /\ me'[v] = me[v]
        BY <1>2, SetbufstatDoes
      <3>2. Beside(context, d, i)
        BY <3>1 DEF StatCleared
      <3> QED BY <3>1, <3>2
    <2>2. i # k
      BY <2>1 DEF IndexInv, Held, MuxTasks
    <2>3. SameStore(k, context, d) /\ SameStat(k, context, d) /\ SameLine(k, bus, bus')
      BY <2>1, <2>2, TypeIs DEF SameStore, SameStat, SameLine, Beside
    <2> QED BY <2>1, <2>3 DEF Untouched, SameUse, SameIn, MX!Req
  <1>3. ASSUME TaskStep(t), pc'[t] \notin {"idle", "scan", "closing"}
        PROVE  Untouched(u)
    <2>1. pc'[u] = pc[u] /\ me'[u] = me[u] /\ d.setup = context.setup
      BY <1>3 DEF TaskStep, Beside
    <2>2. Held(t)' /\ Held(u)'
      BY <1>3, <2>1 DEF Held
    <2>3. me'[t].idx # me'[u].idx
      <3>1. t \in d.setup.tasks /\ u \in d.setup.tasks
        BY <2>1 DEF MuxTasks
      <3> QED BY <2>2, <3>1 DEF IndexInv
    <2> QED BY <1>3, <2>1, <2>3, StepBeside
  <1>4. CASE MX!Found(t)
    BY <1>3, <1>4, FoundDoes
  <1>5. CASE MX!MarkPrimary(t) \/ MX!MarkSecondary(t) \/ MX!MarkResend(t)
    BY <1>3, <1>5, MarkPrimaryDoes, MarkAgainDoes
  <1>6. CASE MX!SendPrimary(t)
    BY <1>3, <1>6, SendPrimaryDoes
  <1>7. CASE MX!SendSecondary(t) \/ MX!Resend(t)
    BY <1>3, <1>7, SendSecondaryDoes, ResendDoes
  <1>8. CASE MX!PollPrimary(t) \/ MX!PollSecondary(t) \/ MX!Rewait(t)
    BY <1>3, <1>8, PollDoes
  <1>9. CASE MX!WaitOver(t)
    BY <1>3, <1>9, WaitOverDoes
  <1>10. CASE MX!RewaitOver(t)
    BY <1>3, <1>10, RewaitOverDoes
  <1>11. CASE MX!PollAgain(t) \/ MX!Retry(t) \/ MX!GiveUp(t) \/ MX!UseAnswer(t)
    BY <1>3, <1>11, TurnsDo, UseDoes
  <1> QED BY <1>1, <1>2, <1>4, <1>5, <1>6, <1>7, <1>8, <1>9, <1>10, <1>11 DEF MX!Call

\* Whatever one task does, the others keep what they have.
LEMMA OthersKeep ==
  ASSUME SetupsAssumption, MuxType, IndexInv, IndexInv', bus'.fails = 0,
         NEW t \in MuxTasks, MX!Call(t), NEW u \in MuxTasks, u # t
  PROVE  /\ AnswerTask(u) => AnswerTask(u)'
         /\ context.setup.red /\ QuietTask(u) => QuietTask(u)'
  <1>1. CASE Held(u)
    BY <1>1, CallBeside, UntouchedKeeps
  <1>2. CASE ~Held(u)
    <2>1. pc'[u] = pc[u]
      <3>1. CASE MX!ecx_setbufstat(t)
        BY <3>1, SetbufstatDoes
      <3>2. CASE ~MX!ecx_setbufstat(t)
        <4>1. TaskStep(t)
          BY <3>2, GetIndexDoes, ScanNextDoes, FoundDoes, MarkPrimaryDoes, MarkAgainDoes,
             SendPrimaryDoes, SendSecondaryDoes, ResendDoes, PollDoes, WaitOverDoes,
             RewaitOverDoes, TurnsDo, UseDoes DEF MX!Call
        <4> QED BY <4>1 DEF TaskStep
      <3> QED BY <3>1, <3>2
    <2>2. ~Held(u)'
      BY <1>2, <2>1 DEF Held
    <2> QED BY <2>2 DEF AnswerTask, QuietTask
  <1> QED BY <1>1, <1>2

-------------------------------------------------------------------------------
(* The answer of a task is its own *)

\* A frame goes out at label l, which leads to k.
LEMMA AnswerSends ==
  ASSUME NEW r, NEW l, NEW k, NEW m, NEW n, NEW c, NEW d, NEW b, NEW e, NEW f,
         PortsOf(c) \subseteq {1, 2}, AnswerOf(r, l, m, c, b), n.idx = m.idx,
         d.setup = c.setup, d.rxbuf = c.rxbuf, d.rxsa = c.rxsa, d.txbuf = c.txbuf,
         \A q \in PortsOf(c) : d.queue[q][m.idx] = IF q = 1 THEN None ELSE c.queue[q][m.idx],
         e.cut = b.cut, e.cb = b.cb, e.net = b.net \cup {f} \/ e.net = b.net,
         Fits(r, b.cut, f.port, f.sa, f.content),
         k \in {"mark2", "poll1", "rewait"},
         k = "mark2" => ~n.in[1] /\ ~n.in[2],
         \A p \in PortsOf(c) : n.in[p] => k = "mark2" \/ (m.in[p] /\ l = "resend")
  PROVE  AnswerOf(r, k, n, d, e)
  <1> DEFINE i == m.idx
  <1>1. n.idx = i /\ PortsOf(d) = PortsOf(c)
    BY DEF PortsOf
  <1>2. \A q \in PortsOf(c) : d.queue[q][i] = IF q = 1 THEN None ELSE c.queue[q][i]
    OBVIOUS
  <1> HIDE DEF i
  <1>3. /\ c.txbuf[i].req = r
        /\ \A g : Flies(b, i, g) => Fits(r, b.cut, g.port, g.sa, g.content)
        /\ \A p \in PortsOf(c) :
             /\ c.queue[p][i] # None /\ p = 2 =>
                   Fits(r, b.cut, p, c.queue[p][i].sa, c.queue[p][i].content)
             /\ m.in[p] /\ l \in Receiver => Fits(r, b.cut, p, c.rxsa[p][i], c.rxbuf[p][i])
    BY DEF AnswerOf, i
  <1>4. \A g : Flies(e, i, g) => Flies(b, i, g) \/ g = f
    BY DEF Flies
  <1>5. \A g : Flies(e, i, g) => Fits(r, e.cut, g.port, g.sa, g.content)
    BY <1>3, <1>4
  <1>6. ASSUME NEW p \in PortsOf(d), d.queue[p][i] # None
        PROVE  Fits(r, e.cut, p, d.queue[p][i].sa, d.queue[p][i].content)
    BY <1>1, <1>2, <1>3, <1>6
  <1>7. ASSUME NEW p \in PortsOf(d), n.in[p], k \in Receiver
        PROVE  Fits(r, e.cut, p, d.rxsa[p][i], d.rxbuf[p][i])
    BY <1>1, <1>3, <1>7 DEF Receiver
  <1> QED BY <1>1, <1>3, <1>5, <1>6, <1>7 DEF AnswerOf

\* The frame that waits at port p is received.
Received(p, m, n, c, d) ==
    LET i == m.idx
        f == c.queue[p][i]
    IN /\ f # None /\ n.idx = i /\ n.in[p] /\ \A q \in {1, 2} : q # p => n.in[q] = m.in[q]
       /\ \E own : InSet(c, d, p, i, own, f.content, f.sa)
LEMMA AnswerTakes ==
  ASSUME NEW r, NEW l, NEW k, NEW m, NEW n, NEW c, NEW d, NEW b, NEW p \in PortsOf(c),
         PortsOf(c) \subseteq {1, 2}, AnswerOf(r, l, m, c, b), Received(p, m, n, c, d),
         l \in {"poll1", "poll2", "rewait"}, k \in {"poll2", "timer", "rewait"}
  PROVE  AnswerOf(r, k, n, d, b)
  <1> DEFINE i == m.idx
             g == c.queue[p][i]
  <1>0. /\ g # None /\ n.idx = i /\ \A q \in {1, 2} : q # p => n.in[q] = m.in[q]
        /\ \E own : InSet(c, d, p, i, own, g.content, g.sa)
    BY DEF Received
  <1>1. PortsOf(d) = PortsOf(c) /\ d.txbuf = c.txbuf
    BY <1>0 DEF PortsOf, InSet, Beside
  <1>2. /\ \A q \in PortsOf(c) : d.queue[q][i] = IF q = p THEN None ELSE c.queue[q][i]
        /\ \A q \in PortsOf(c) : d.rxbuf[q][i] = IF q = p THEN g.content ELSE c.rxbuf[q][i]
        /\ \A q \in PortsOf(c) : d.rxsa[q][i] = IF q = p THEN g.sa ELSE c.rxsa[q][i]
    BY <1>0 DEF InSet
  <1>3. l \in Receiver /\ l \notin {"mark", "send"} /\ k \notin {"mark2", "send2", "use", "release"}
    BY DEF Receiver
  <1>4. /\ c.txbuf[i].req = r
        /\ \A f : Flies(b, i, f) => Fits(r, b.cut, f.port, f.sa, f.content)
        /\ \A q \in PortsOf(c) :
             /\ c.queue[q][i] # None => Fits(r, b.cut, q, c.queue[q][i].sa, c.queue[q][i].content)
             /\ m.in[q] => Fits(r, b.cut, q, c.rxsa[q][i], c.rxbuf[q][i])
    BY <1>3 DEF AnswerOf
  <1> HIDE DEF i
  <1>6. ASSUME NEW q \in PortsOf(d)
        PROVE  /\ d.queue[q][i] # None => Fits(r, b.cut, q, d.queue[q][i].sa, d.queue[q][i].content)
               /\ n.in[q] => Fits(r, b.cut, q, d.rxsa[q][i], d.rxbuf[q][i])
    <2>1. CASE q = p
      <3>1. d.queue[q][i] = None /\ d.rxbuf[q][i] = g.content /\ d.rxsa[q][i] = g.sa
        BY <1>2, <2>1
      <3>2. Fits(r, b.cut, q, g.sa, g.content)
        BY <1>0, <1>4, <2>1
      <3> QED BY <3>1, <3>2
    <2>2. CASE q # p
      <3>1. /\ d.queue[q][i] = c.queue[q][i] /\ d.rxbuf[q][i] = c.rxbuf[q][i]
            /\ d.rxsa[q][i] = c.rxsa[q][i] /\ n.in[q] = m.in[q]
        BY <1>0, <1>1, <1>2, <2>2
      <3> QED BY <1>1, <1>4, <3>1
    <2> QED BY <2>1, <2>2
  <1> QED BY <1>0, <1>1, <1>3, <1>4, <1>6 DEF AnswerOf

\* What a task that goes on with its index has had.
LEMMA ActIs ==
  ASSUME MuxType, NEW t \in MuxTasks, TaskStep(t), me'[t].idx = me[t].idx, me'[t].req = me[t].req
  PROVE  /\ MX!Req(t)' = MX!Req(t) /\ context'.setup = context.setup
         /\ PortsOf(context') = PortsOf(context) /\ bus'.cut = bus.cut /\ bus'.cb = bus.cb
         /\ PortsOf(context) \subseteq {1, 2} /\ 1 \in PortsOf(context)
         /\ me[t].idx \in IdxOf(context) /\ TaskOk(context, me[t], pc[t])
         /\ context.setup.red => PortsOf(context) = {1, 2}
         /\ bus' = bus => SameLine(me[t].idx, bus, bus')
         /\ context' = context => SameStore(me[t].idx, context, context')
  BY Before, TypeIs DEF TaskStep, Beside, MX!Req, PortsOf, SameLine, SameStore

LEMMA AnswerFound ==
  ASSUME SetupsAssumption, MuxType, NEW t \in MuxTasks, MX!Found(t), ~me'[t].overdue
  PROVE  AnswerOf(MX!Req(t)', pc'[t], me'[t], context', bus')
  <1> DEFINE i == me[t].idx
             d == context'
             n == me'[t]
             r == MX!Req(t)
  <1>1. /\ TaskStep(t) /\ bus' = bus /\ pc[t] = "scan" /\ pc'[t] = "mark"
        /\ d.queue = context.queue /\ d.txbuf[i] = [req |-> r, parts |-> {}]
        /\ n.idx = i /\ n.overdue = MX!Overdue(i) /\ n.req = me[t].req
    BY FoundDoes DEF SameQueues, SameCall
  <1>2. /\ MX!Req(t)' = r /\ PortsOf(d) = PortsOf(context) /\ PortsOf(context) \subseteq {1, 2}
        /\ 2 \in PortsOf(context) => context.setup.red
    BY <1>1, ActIs, TypeIs
  <1>3. (\A f : ~Flies(bus, i, f)) /\ (2 \in PortsOf(context) => context.queue[2][i] = None)
    BY <1>1, <1>2 DEF MX!Overdue, Flies
  <1>4. d.txbuf[i].req = r
    BY <1>1
  <1> HIDE DEF i, d, n, r
  <1>5. AnswerOf(r, "mark", n, d, bus)
    BY <1>1, <1>2, <1>3, <1>4 DEF AnswerOf, Receiver
  <1> QED BY <1>1, <1>2, <1>5 DEF n, d

LEMMA AnswerGoesOn ==
  ASSUME MuxType, NEW t \in MuxTasks, ~me'[t].overdue, AnswerTask(t),
         \/ MX!MarkPrimary(t) \/ MX!MarkSecondary(t) \/ MX!MarkResend(t) \/ MX!PollAgain(t)
         \/ MX!Retry(t) \/ MX!GiveUp(t) \/ MX!UseAnswer(t)
  PROVE  AnswerOf(MX!Req(t)', pc'[t], me'[t], context', bus')
  <1> DEFINE i == me[t].idx
             d == context'
             n == me'[t]
             r == MX!Req(t)
  <1>1. /\ TaskStep(t) /\ bus' = bus /\ n.idx = i /\ n.req = me[t].req /\ SameIn(n, me[t])
        /\ me[t].overdue => n.overdue
        /\ SameStore(i, context, d)
    <2>1. CASE MX!MarkPrimary(t)
      <3>1. /\ TaskStep(t) /\ bus' = bus /\ n.idx = i /\ SameCall(n, me[t]) /\ SameIn(n, me[t])
            /\ n.overdue = (me[t].overdue \/ (context.setup.red /\ MX!Overdue(i)))
            /\ StatSet(context, d, 1, i, "TX")
        BY <2>1, MarkPrimaryDoes
      <3> QED BY <3>1 DEF StatSet, Beside, SameStore, SameCall
    <2>2. CASE MX!MarkSecondary(t) \/ MX!MarkResend(t)
      <3>1. TaskStep(t) /\ bus' = bus /\ me' = me /\ StatSet(context, d, 2, i, "TX")
        BY <2>2, MarkAgainDoes
      <3> QED BY <3>1 DEF StatSet, Beside, SameStore, SameIn
    <2>3. CASE MX!PollAgain(t) \/ MX!Retry(t) \/ MX!GiveUp(t)
      BY <2>3, TurnsDo DEF SameStore, SameIn
    <2>4. CASE MX!UseAnswer(t)
      BY <2>4, UseDoes DEF SameStore, SamePast
    <2> QED BY <2>1, <2>2, <2>3, <2>4
  <1>2. /\ MX!Req(t)' = r /\ PortsOf(context) \subseteq {1, 2} /\ SameLine(i, bus, bus')
        /\ TaskOk(context, me[t], pc[t])
    BY <1>1, ActIs
  <1>3. /\ pc[t] \in {"mark", "send"} => pc'[t] \in {"mark", "send"}
        /\ pc'[t] \in {"mark2", "send2"} => pc[t] \in {"mark2", "send2"}
        /\ pc'[t] \in Receiver => pc[t] \in Receiver
        /\ pc'[t] # "use" /\ Held(t)
    BY MarkPrimaryDoes, MarkAgainDoes, TurnsDo, UseDoes DEF Receiver, Held
  <1>4. AnswerOf(r, pc[t], me[t], context, bus)
    BY <1>1, <1>3 DEF AnswerTask
  <1>5. pc'[t] = "release" => n.answer = None \/ n.answer.req = r
    <2>1. CASE MX!UseAnswer(t)
      <3>1. /\ pc[t] = "use"
            /\ n.answer = IF context.rxbuf[1][i].parts = {} THEN None ELSE context.rxbuf[1][i]
        BY <2>1, UseDoes
      <3> QED BY <1>4, <3>1 DEF AnswerOf
    <2>2. CASE ~MX!UseAnswer(t)
      <3>1. (me' = me /\ pc[t] = "again") \/ pc'[t] # "release"
        BY <2>2, MarkPrimaryDoes, MarkAgainDoes, TurnsDo
      <3> QED BY <1>2, <3>1 DEF TaskOk
    <2> QED BY <2>1, <2>2
  <1> HIDE DEF d, n, r
  <1>6. AnswerOf(r, pc'[t], n, d, bus')
    BY <1>1, <1>2, <1>3, <1>4, <1>5, AnswerMoves
  <1> QED BY <1>2, <1>6 DEF d, n

\* A dummy frame comes back where it was sent when the line is cut, and else, still
\* without an answer, where the dummies of the other port are sent.
LEMMA DummyTravels ==
  ASSUME MuxType, 2 \in PortsOf(context), context.setup.red,
         NEW i \in IdxOf(context), NEW n \in Nat, [req |-> None, parts |-> {}] \in Contents
  PROVE  LET f == MX!Travel(2, i, n, "secondary", [req |-> None, parts |-> {}])
         IN /\ f.sa = "secondary" /\ (bus.cut => f.port = 2)
            /\ ~bus.cut => f.port = 1 /\ f.content.parts = {}
  <1> DEFINE w == [req |-> None, parts |-> {}]
  <1>1. "secondary" \in Ways
    BY DEF Ways
  <1>2. w \in Contents /\ w.parts = {}
    OBVIOUS
  <1> HIDE DEF w
  <1>3. MX!Travel(2, i, n, "secondary", w)
           = [idx |-> i, n |-> n, sa |-> "secondary",
              port |-> IF context.setup.red /\ ~bus.cut THEN 3 - 2 ELSE 2,
              content |-> [req |-> w.req,
                           parts |-> w.parts \cup
                              IF bus.cut THEN {2} ELSE IF 2 = 1 THEN {1, 2} ELSE {}]]
    BY <1>1, <1>2, TravelIs
  <1> DEFINE g == MX!Travel(2, i, n, "secondary", w)
  <1> HIDE DEF g
  <1>4. /\ g.sa = "secondary"
        /\ g.port = IF context.setup.red /\ ~bus.cut THEN 3 - 2 ELSE 2
        /\ g.content.parts = w.parts \cup IF bus.cut THEN {2} ELSE IF 2 = 1 THEN {1, 2} ELSE {}
    BY <1>3 DEF g
  <1>5. bus.cut => g.port = 2
    BY <1>4
  <1>6. ~bus.cut => g.port = 1 /\ g.content.parts = w.parts
    <2>1. ~bus.cut => g.port = 1
      BY <1>4
    <2>2. ~bus.cut => g.content.parts = w.parts \cup {}
      BY <1>4
    <2> QED BY <2>1, <2>2
  <1> QED BY <1>2, <1>4, <1>5, <1>6 DEF w, g

LEMMA AnswerGoesOut ==
  ASSUME MuxType, NEW t \in MuxTasks, ~me'[t].overdue, AnswerTask(t),
         MX!SendPrimary(t) \/ MX!SendSecondary(t) \/ MX!Resend(t)
  PROVE  AnswerOf(MX!Req(t)', pc'[t], me'[t], context', bus')
  <1> DEFINE i == me[t].idx
             m == me[t]
             d == context'
             n == me'[t]
             r == MX!Req(t)
             l == pc[t]
             k == pc'[t]
             Goes(p, f) == /\ TaskStep(t) /\ n.idx = i /\ n.req = m.req /\ Sent(t, p, f)
                           /\ m.overdue => n.overdue
                           /\ l \in {"send", "send2", "resend"} /\ k \in {"mark2", "poll1", "rewait"}
                           /\ k = "mark2" => ~n.in[1] /\ ~n.in[2]
                           /\ \A q \in PortsOf(context) : n.in[q] => k = "mark2" \/ (m.in[q] /\ l = "resend")
  <1>0. /\ PortsOf(context) \subseteq {1, 2} /\ 1 \in PortsOf(context) /\ i \in IdxOf(context)
        /\ TaskOk(context, m, l) /\ m.sends \in Nat
        /\ context.setup.red => PortsOf(context) = {1, 2}
        /\ ~context.setup.red => PortsOf(context) = {1}
    BY Before, TypeIs DEF TaskShape
  <1>1. Held(t)
    BY SendPrimaryDoes, SendSecondaryDoes, ResendDoes DEF Held
  <1>2. context.txbuf[i] \in Contents
    BY <1>0, <1>1 DEF TaskOk, Held
  <1>3. ASSUME ~m.overdue PROVE AnswerOf(r, l, m, context, bus)
    BY <1>1, <1>3 DEF AnswerTask
  <1>4. ASSUME NEW p, NEW f, Goes(p, f), Fits(r, bus.cut, f.port, f.sa, f.content)
        PROVE  AnswerOf(MX!Req(t)', k, n, d, bus')
    <2>1. /\ d.setup = context.setup /\ d.rxbuf = context.rxbuf /\ d.rxsa = context.rxsa
          /\ d.txbuf = context.txbuf /\ bus'.cut = bus.cut /\ bus'.cb = bus.cb
          /\ \A q \in PortsOf(context) : d.queue[q][i] = IF q = 1 THEN None ELSE context.queue[q][i]
          /\ bus'.net = bus.net \cup {f} \/ bus'.net = bus.net
      BY <1>4 DEF Sent, Beside, SameFrames
    <2>2. MX!Req(t)' = r /\ AnswerOf(r, l, m, context, bus)
      BY <1>3, <1>4, ActIs
    <2>3. /\ n.idx = i /\ k \in {"mark2", "poll1", "rewait"}
          /\ k = "mark2" => ~n.in[1] /\ ~n.in[2]
          /\ \A q \in PortsOf(context) : n.in[q] => k = "mark2" \/ (m.in[q] /\ l = "resend")
      BY <1>4
    <2>5. Fits(r, bus.cut, f.port, f.sa, f.content) /\ PortsOf(context) \subseteq {1, 2}
      BY <1>0, <1>4
    <2>6. i = m.idx
      OBVIOUS
    <2> HIDE DEF d, n, r, k, l, m, i
    <2>4. AnswerOf(r, k, n, d, bus')
      BY <2>1, <2>2, <2>3, <2>5, <2>6, AnswerSends
    <2> QED BY <2>2, <2>4
  <1>5. ASSUME NEW p \in PortsOf(context)
        PROVE  LET f == MX!Travel(p, i, m.sends, "primary", context.txbuf[i])
               IN AnswerOf(r, l, m, context, bus) => Fits(r, bus.cut, f.port, f.sa, f.content)
    <2> DEFINE f == MX!Travel(p, i, m.sends, "primary", context.txbuf[i])
    <2>1. f.sa = "primary" /\ f.content.req = context.txbuf[i].req
      <3>1. "primary" \in Ways
        BY DEF Ways
      <3> DEFINE w == context.txbuf[i]
                 x == m.sends
      <3>2. w \in Contents /\ x \in Nat /\ i \in IdxOf(context)
        BY <1>0, <1>2
      <3> HIDE DEF w, x, i
      <3>3. MX!Travel(p, i, x, "primary", w)
               = [idx |-> i, n |-> x, sa |-> "primary",
                  port |-> IF context.setup.red /\ ~bus.cut THEN 3 - p ELSE p,
                  content |-> [req |-> w.req,
                               parts |-> w.parts \cup
                                  IF bus.cut THEN {p} ELSE IF p = 1 THEN {1, 2} ELSE {}]]
        BY <3>1, <3>2, TravelIs
      <3> QED BY <3>3 DEF w, x
    <2> HIDE DEF f, l, m, r
    <2> QED BY <2>1 DEF Fits, AnswerOf, f, m
  <1>6. CASE MX!SendPrimary(t)
    <2> DEFINE f == MX!Travel(1, i, m.sends, "primary", context.txbuf[i])
    <2>1. Goes(1, f) /\ ~m.overdue
      <3>1. /\ TaskStep(t) /\ l = "send" /\ k = IF context.setup.red THEN "mark2" ELSE "poll1"
            /\ Sent(t, 1, f) /\ n.idx = i /\ n.req = m.req
            /\ ~n.in[1] /\ (n.in[2] <=> ~context.setup.red) /\ n.overdue = m.overdue
        BY <1>6, SendPrimaryDoes DEF SamePast
      <3> HIDE DEF f
      <3> QED BY <1>0, <3>1
    <2> QED BY <1>0, <1>3, <1>4, <1>5, <2>1
  <1>7. CASE MX!SendSecondary(t)
    <2> DEFINE f == MX!Travel(2, i, m.sends, "secondary", [req |-> None, parts |-> {}])
    <2>0. /\ TaskStep(t) /\ l = "send2" /\ k = "poll1"
          /\ Sent(t, 2, f) /\ n.idx = i /\ n.req = m.req /\ SameIn(n, m)
          /\ n.overdue = m.overdue /\ context.setup.red
          /\ [req |-> None, parts |-> {}] \in Contents
      BY <1>7, SendSecondaryDoes DEF SameCall
    <2>1. Goes(2, f)
      <3>1. ~m.in[1] /\ ~m.in[2]
        BY <1>3, <2>0 DEF AnswerOf
      <3> HIDE DEF f
      <3> QED BY <1>0, <2>0, <3>1 DEF SameIn
    <2>2. Fits(r, bus.cut, f.port, f.sa, f.content)
      <3>1. 2 \in PortsOf(context) /\ m.sends \in Nat /\ context.setup.red
        BY <1>0, <2>0
      <3> DEFINE x == m.sends
      <3>2. x \in Nat /\ i \in IdxOf(context)
        BY <1>0
      <3> HIDE DEF x, i
      <3>3. LET g == MX!Travel(2, i, x, "secondary", [req |-> None, parts |-> {}])
            IN g.sa = "secondary" /\ (bus.cut => g.port = 2)
               /\ (~bus.cut => g.port = 1 /\ g.content.parts = {})
        BY <2>0, <3>1, <3>2, DummyTravels
      <3> QED BY <3>3 DEF Fits, x
    <2> QED BY <1>4, <2>1, <2>2
  <1>8. CASE MX!Resend(t)
    <2> DEFINE f == MX!Travel(2, i, m.sends, "primary", context.txbuf[i])
    <2>1. Goes(2, f) /\ ~m.overdue /\ context.setup.red
      <3>1. /\ TaskStep(t) /\ l = "resend" /\ k = "rewait" /\ context.setup.red
            /\ Sent(t, 2, f) /\ n.idx = i /\ n.req = m.req
            /\ n.in[1] = m.in[1] /\ ~n.in[2] /\ n.overdue = m.overdue
        BY <1>8, ResendDoes DEF SameCall
      <3> HIDE DEF f
      <3> QED BY <1>0, <3>1
    <2> QED BY <1>0, <1>3, <1>4, <1>5, <2>1
  <1> QED BY <1>6, <1>7, <1>8

LEMMA AnswerPolls ==
  ASSUME MuxType, NEW t \in MuxTasks, ~me'[t].overdue, AnswerTask(t),
         MX!PollPrimary(t) \/ MX!PollSecondary(t) \/ MX!Rewait(t)
  PROVE  AnswerOf(MX!Req(t)', pc'[t], me'[t], context', bus')
  <1> DEFINE i == me[t].idx
             m == me[t]
             d == context'
             n == me'[t]
             r == MX!Req(t)
             l == pc[t]
             k == pc'[t]
  <1>1. /\ TaskStep(t) /\ bus' = bus /\ n.idx = i /\ n.req = m.req /\ n.overdue = m.overdue
        /\ l \in {"poll1", "poll2", "rewait"} /\ k \in {"poll2", "timer", "rewait"}
        /\ \E p \in PortsOf(context) : Takes(t, p) \/ Leaves(t, p)
    BY PollDoes DEF SameCall, SamePast, PortsOf
  <1>2. /\ MX!Req(t)' = r /\ PortsOf(context) \subseteq {1, 2} /\ SameLine(i, bus, bus')
        /\ i \in IdxOf(context) /\ d = context => SameStore(i, context, d)
    BY <1>1, ActIs
  <1>3. AnswerOf(r, l, m, context, bus)
    BY <1>1 DEF AnswerTask, Held
  <1>4. PICK p \in PortsOf(context) : Takes(t, p) \/ Leaves(t, p)
    BY <1>1
  <1>5. CASE Leaves(t, p)
    <2>1. n = m /\ d = context /\ SameIn(n, m)
      BY <1>5 DEF Leaves, SameIn
    <2>2. k \in Receiver /\ l \in Receiver /\ l \notin {"mark", "send"}
          /\ k \notin {"mark2", "send2", "use", "release"}
      BY <1>1 DEF Receiver
    <2>3. SameStore(i, context, d)
      BY <1>1, <2>1, ActIs
    <2> HIDE DEF d, n, r, k, l
    <2>4. AnswerOf(r, k, n, d, bus')
      BY <1>1, <1>2, <1>3, <2>1, <2>2, <2>3, AnswerMoves
    <2> QED BY <1>2, <2>4 DEF d, n, k
  <1>6. CASE Takes(t, p)
    <2>1. Received(p, m, n, context, d)
      BY <1>1, <1>6 DEF Takes, Received
    <2>2. l \in {"poll1", "poll2", "rewait"} /\ k \in {"poll2", "timer", "rewait"}
      BY <1>1
    <2> HIDE DEF d, n, r, k, l, m
    <2>3. AnswerOf(r, k, n, d, bus)
      BY <1>2, <1>3, <2>1, <2>2, AnswerTakes
    <2> QED BY <1>1, <1>2, <2>3 DEF d, n, k
  <1> QED BY <1>4, <1>5, <1>6

LEMMA AnswerWaits ==
  ASSUME MuxType, NEW t \in MuxTasks, ~me'[t].overdue, AnswerTask(t),
         context.setup.red => DummyOf(pc[t], me[t], context, bus),
         MX!WaitOver(t) \/ MX!RewaitOver(t)
  PROVE  AnswerOf(MX!Req(t)', pc'[t], me'[t], context', bus')
  <1> DEFINE i == me[t].idx
             m == me[t]
             d == context'
             n == me'[t]
             r == MX!Req(t)
             l == pc[t]
             k == pc'[t]
             \* What the wait leads to, if what is in the buffers is moved about.
             Over == /\ TaskStep(t) /\ bus' = bus /\ n.idx = i /\ n.req = m.req /\ SameIn(n, m)
                     /\ n.overdue = m.overdue /\ l \in {"timer", "rewait"} /\ SameCall(n, m)
  <1>1. Over
    BY WaitOverDoes, RewaitOverDoes DEF SameCall
  <1>2. /\ MX!Req(t)' = r /\ PortsOf(context) \subseteq {1, 2} /\ SameLine(i, bus, bus')
        /\ i \in IdxOf(context) /\ 1 \in PortsOf(context) /\ PortsOf(d) = PortsOf(context)
        /\ context.setup.red => PortsOf(context) = {1, 2}
        /\ TaskOk(context, m, l)
    BY <1>1, ActIs
  <1>3. AnswerOf(r, l, m, context, bus) /\ l \in Receiver
    BY <1>1 DEF AnswerTask, Held, Receiver
  <1>4. \A p \in PortsOf(context) : m.in[p] =>
           /\ Fits(r, bus.cut, p, context.rxsa[p][i], context.rxbuf[p][i])
           /\ context.rxsa[p][i] \in Ways
    BY <1>2, <1>3 DEF AnswerOf, TaskOk
  <1>5. m.in[1] => context.rxbuf[1][i].parts = {} \/ context.rxbuf[1][i].req = r
    BY <1>2, <1>4 DEF Fits
  <1>6. ASSUME d = context, k = IF m.in[1] THEN "use" ELSE "again"
        PROVE  AnswerOf(MX!Req(t)', k, n, d, bus')
    <2>1. SameStore(i, context, d)
      BY <1>1, <1>6, ActIs
    <2>2. /\ l \notin {"mark", "send"} /\ k \notin {"mark2", "send2", "release"} /\ k \notin Receiver
          /\ k = "use" => d.rxbuf[1][i].parts = {} \/ d.rxbuf[1][i].req = r
      BY <1>1, <1>5, <1>6 DEF Receiver
    <2>3. i = m.idx /\ n.idx = m.idx /\ SameIn(n, m)
      BY <1>1
    <2> HIDE DEF d, n, r, k, l, m
    <2>4. AnswerOf(r, k, n, d, bus')
      BY <1>2, <1>3, <2>1, <2>2, <2>3, AnswerMoves
    <2> QED BY <1>2, <2>4 DEF d, n, k
  <1>7. ASSUME RxSet(context, d, 1, i, context.rxbuf[2][i]), k = "use", context.rxbuf[2][i].req = r
        PROVE  AnswerOf(MX!Req(t)', k, n, d, bus')
    <2>1. /\ d.queue = context.queue /\ d.rxsa = context.rxsa /\ d.txbuf = context.txbuf
          /\ d.rxbuf[1][i] = context.rxbuf[2][i]
      BY <1>2, <1>7 DEF RxSet
    <2>2. d.rxbuf[1][i].req = r
      BY <1>7, <2>1
    <2>3. k \notin Receiver /\ l \notin {"mark", "send"} /\ n.idx = i /\ i = m.idx
      BY <1>1, <1>7 DEF Receiver
    <2> HIDE DEF d, n, r, l, m, i
    <2>4. AnswerOf(r, "use", n, d, bus)
      BY <1>2, <1>3, <2>1, <2>2, <2>3 DEF AnswerOf, Receiver
    <2> QED BY <1>1, <1>2, <1>7, <2>4 DEF d, n
  <1>8. ASSUME k = "mark3", l = "timer",
               IF m.in[1] THEN TxSet(context, d, i, context.rxbuf[1][i]) ELSE d = context,
               m.in[1] => context.rxbuf[1][i].req = r
        PROVE  AnswerOf(MX!Req(t)', k, n, d, bus')
    <2>1. /\ d.queue = context.queue /\ d.rxsa = context.rxsa /\ d.rxbuf = context.rxbuf
          /\ d.txbuf[i] = IF m.in[1] THEN context.rxbuf[1][i] ELSE context.txbuf[i]
      BY <1>8 DEF TxSet
    <2>2. d.txbuf[i].req = r
      BY <1>3, <1>8, <2>1 DEF AnswerOf
    <2>3. /\ n.idx = i /\ i = m.idx /\ \A p \in {1, 2} : n.in[p] = m.in[p]
      BY <1>1 DEF SameIn
    <2>5. k = "mark3" /\ l = "timer"
      BY <1>8
    <2> HIDE DEF d, n, r, l, m, i, k
    <2>4. AnswerOf(r, "mark3", n, d, bus)
      BY <1>2, <1>3, <2>1, <2>2, <2>3, <2>5 DEF AnswerOf, Receiver
    <2> QED BY <1>1, <1>2, <1>8, <2>4 DEF d, n, k
  <1>9. CASE MX!WaitOver(t)
    <2> DEFINE red == context.setup.red
               crossed == /\ red /\ m.in[1] /\ m.in[2]
                          /\ context.rxsa[1][i] = "secondary" /\ context.rxsa[2][i] = "primary"
               broken == /\ red /\ m.in[2] /\ context.rxsa[2][i] = "secondary"
                         /\ m.in[1] => context.rxsa[1][i] = "primary"
    <2>1. l = "timer" /\ \/ crossed /\ k = "use" /\ RxSet(context, d, 1, i, context.rxbuf[2][i])
                         \/ /\ broken /\ k = "mark3"
                            /\ IF m.in[1] THEN TxSet(context, d, i, context.rxbuf[1][i])
                                          ELSE d = context
                         \/ /\ ~crossed /\ ~broken /\ d = context
                            /\ k = IF m.in[1] THEN "use" ELSE "again"
      BY <1>9, WaitOverDoes
    <2>2. CASE crossed /\ k = "use" /\ RxSet(context, d, 1, i, context.rxbuf[2][i])
      <3>1. context.rxbuf[2][i].req = r
        BY <1>2, <1>4, <2>2 DEF Fits
      <3> QED BY <1>7, <2>2, <3>1
    <2>3. CASE /\ broken /\ k = "mark3"
               /\ IF m.in[1] THEN TxSet(context, d, i, context.rxbuf[1][i]) ELSE d = context
      <3>1. m.in[1] => context.rxbuf[1][i].req = r
        BY <1>2, <1>4, <2>3 DEF Fits
      <3> QED BY <1>8, <2>1, <2>3, <3>1
    <2> QED BY <1>6, <2>1, <2>2, <2>3
  <1>10. CASE MX!RewaitOver(t)
    <2>1. /\ l = "rewait" /\ context.setup.red
          /\ IF m.in[2] THEN k = "use" /\ RxSet(context, d, 1, i, context.rxbuf[2][i])
             ELSE d = context /\ k = IF m.in[1] THEN "use" ELSE "again"
      BY <1>10, RewaitOverDoes
    <2>2. CASE m.in[2]
      <3>1. context.rxsa[2][i] = "primary"
        BY <2>1, <2>2 DEF DummyOf
      <3>2. context.rxbuf[2][i].req = r
        BY <1>2, <1>4, <2>1, <2>2, <3>1 DEF Fits
      <3> QED BY <1>7, <2>1, <2>2, <3>2
    <2> QED BY <1>6, <2>1, <2>2
  <1> QED BY <1>9, <1>10

-------------------------------------------------------------------------------
(* There is one dummy *)

NoDummy(c, b, i) == (\A f : ~DummyFlies(b, i, f)) /\ ~DummyHeld(b, i) /\ ~DummyWaits(c, i)
Sent2 == {"mark2", "send2", "mark3", "resend", "rewait"}

\* A task that moves from label l to k and leaves queues and line alone.
LEMMA DummyMoves ==
  ASSUME NEW l, NEW k, NEW m, NEW n, NEW c, NEW d, NEW b, DummyOf(l, m, c, b),
         n.idx = m.idx, n.in[2] = m.in[2], d.queue = c.queue, d.rxsa = c.rxsa, k # "rewait",
         k = "send" => c.queue[2][m.idx] = None /\ \A f : ~Flies(b, m.idx, f),
         k \in {"mark3", "resend"} => b.cut,
         b.cut /\ k \in Sent2 => l \in Sent2 \/ NoDummy(c, b, m.idx),
         k \in {"poll1", "poll2", "timer"} => l \in {"poll1", "poll2", "timer"}
  PROVE  DummyOf(k, n, d, b)
  <1>1. (DummyWaits(d, m.idx) <=> DummyWaits(c, m.idx)) /\ (DummyIn(n, d) <=> DummyIn(m, c))
    BY DEF DummyWaits, DummyIn
  <1>2. b.cut /\ k \in Sent2 => NoDummy(c, b, m.idx)
    BY DEF DummyOf, NoDummy, Sent2
  <1> QED BY <1>1, <1>2 DEF DummyOf, NoDummy, Sent2

LEMMA DummyGoesOn ==
  ASSUME MuxType, NEW t \in MuxTasks, ~me'[t].overdue, context.setup.red,
         AnswerOf(MX!Req(t), pc[t], me[t], context, bus), DummyOf(pc[t], me[t], context, bus),
         \/ MX!MarkPrimary(t) \/ MX!MarkSecondary(t) \/ MX!MarkResend(t) \/ MX!PollAgain(t)
         \/ MX!Retry(t) \/ MX!GiveUp(t) \/ MX!UseAnswer(t) \/ MX!WaitOver(t) \/ MX!RewaitOver(t)
  PROVE  DummyOf(pc'[t], me'[t], context', bus')
  <1> DEFINE i == me[t].idx
             m == me[t]
             d == context'
             n == me'[t]
             l == pc[t]
             k == pc'[t]
             Goes == /\ bus' = bus /\ n.idx = i /\ n.in[2] = m.in[2]
                     /\ d.queue = context.queue /\ d.rxsa = context.rxsa
  <1>0. PortsOf(context) = {1, 2} /\ i \in IdxOf(context)
    BY TypeIs
  <1>1. ASSUME Goes, k # "rewait",
               k = "send" => context.queue[2][i] = None /\ \A f : ~Flies(bus, i, f),
               k \in {"mark3", "resend"} => bus.cut,
               bus.cut /\ k \in Sent2 => l \in Sent2 \/ NoDummy(context, bus, i),
               k \in {"poll1", "poll2", "timer"} => l \in {"poll1", "poll2", "timer"}
        PROVE  DummyOf(k, n, d, bus')
    <2>1. DummyOf(k, n, d, bus)
      <3> HIDE DEF l, k, n, d
      <3> QED BY <1>1, DummyMoves DEF l
    <2> QED BY <1>1, <2>1
  <1>2. CASE MX!MarkPrimary(t)
    <2>1. /\ bus' = bus /\ n.idx = i /\ SameIn(n, m) /\ l = "mark" /\ k = "send"
          /\ n.overdue = (m.overdue \/ (context.setup.red /\ MX!Overdue(i)))
          /\ StatSet(context, d, 1, i, "TX")
      BY <1>2, MarkPrimaryDoes
    <2>2. Goes
      BY <2>1 DEF StatSet, SameIn
    <2>3. context.queue[2][i] = None /\ \A f : ~Flies(bus, i, f)
      BY <2>1 DEF MX!Overdue, Flies
    <2>4. k \notin Sent2
      BY <2>1 DEF Sent2
    <2> QED BY <1>1, <2>1, <2>2, <2>3, <2>4
  <1>3. CASE MX!MarkSecondary(t) \/ MX!MarkResend(t)
    <2>1. /\ bus' = bus /\ me' = me /\ StatSet(context, d, 2, i, "TX")
          /\ \/ l = "mark2" /\ k = "send2"
             \/ l = "mark3" /\ k = "resend"
      BY <1>3, MarkAgainDoes
    <2>2. Goes
      BY <2>1 DEF StatSet
    <2>3. l \in Sent2
      BY <2>1 DEF Sent2
    <2>4. k = "resend" => bus.cut
      BY <2>1 DEF DummyOf
    <2> QED BY <1>1, <2>1, <2>2, <2>3, <2>4
  <1>4. CASE MX!PollAgain(t) \/ MX!Retry(t) \/ MX!GiveUp(t)
    <2>1. /\ bus' = bus /\ me' = me /\ d = context
          /\ \/ l = "timer" /\ k = "poll1"
             \/ l = "again" /\ k = "mark"
             \/ l = "again" /\ k = "release"
      BY <1>4, TurnsDo
    <2>2. k \notin Sent2
      BY <2>1 DEF Sent2
    <2> QED BY <1>1, <2>1, <2>2
  <1>5. CASE MX!UseAnswer(t)
    <2>1. bus' = bus /\ d = context /\ k = "release" /\ n.idx = i /\ SameIn(n, m)
      BY <1>5, UseDoes
    <2>2. k \notin Sent2
      BY <2>1 DEF Sent2
    <2> QED BY <1>1, <2>1, <2>2 DEF SameIn
  <1>6. CASE MX!WaitOver(t)
    <2> DEFINE broken == /\ m.in[2] /\ context.rxsa[2][i] = "secondary"
    <2>1. /\ bus' = bus /\ n.idx = i /\ SameIn(n, m) /\ l = "timer"
          /\ d.queue = context.queue /\ d.rxsa = context.rxsa
          /\ k \in {"use", "again"} \/ (broken /\ k = "mark3")
      BY <1>6, WaitOverDoes DEF RxSet, TxSet
    <2>2. CASE k \in {"use", "again"}
      <3>1. k \notin Sent2
        BY <2>2 DEF Sent2
      <3> QED BY <1>1, <2>1, <2>2, <3>1 DEF SameIn
    <2>3. CASE broken /\ k = "mark3"
      <3>1. bus.cut
        <4>1. Fits(MX!Req(t), bus.cut, 2, context.rxsa[2][i], context.rxbuf[2][i])
          BY <1>0, <2>1, <2>3 DEF AnswerOf, Receiver
        <4> QED BY <2>3, <4>1 DEF Fits
      <3>2. NoDummy(context, bus, i)
        <4>1. DummyIn(m, context)
          BY <2>3 DEF DummyIn
        <4> QED BY <2>1, <3>1, <4>1 DEF DummyOf, NoDummy
      <3> QED BY <1>1, <2>1, <2>3, <3>1, <3>2 DEF SameIn
    <2> QED BY <2>1, <2>2, <2>3
  <1>7. CASE MX!RewaitOver(t)
    <2>1. /\ bus' = bus /\ n.idx = i /\ SameIn(n, m)
          /\ d.queue = context.queue /\ d.rxsa = context.rxsa
          /\ k \in {"use", "again"}
      BY <1>7, RewaitOverDoes DEF RxSet
    <2>2. k \notin Sent2
      BY <2>1 DEF Sent2
    <2> QED BY <1>1, <2>1, <2>2 DEF SameIn
  <1> QED BY <1>2, <1>3, <1>4, <1>5, <1>6, <1>7

LEMMA DummyGoesOut ==
  ASSUME MuxType, NEW t \in MuxTasks, context.setup.red,
         AnswerOf(MX!Req(t), pc[t], me[t], context, bus), DummyOf(pc[t], me[t], context, bus),
         MX!SendPrimary(t) \/ MX!SendSecondary(t) \/ MX!Resend(t)
  PROVE  DummyOf(pc'[t], me'[t], context', bus')
  <1> DEFINE i == me[t].idx
             m == me[t]
             d == context'
             n == me'[t]
             l == pc[t]
             k == pc'[t]
  <1>0. /\ PortsOf(context) = {1, 2} /\ i \in IdxOf(context) /\ TaskOk(context, m, l)
        /\ m.sends \in Nat
    BY Before, TypeIs DEF TaskShape
  <1>1. ASSUME NEW p, NEW f, Sent(t, p, f), n.idx = i
        PROVE  /\ d.queue[2][i] = context.queue[2][i] /\ d.rxsa = context.rxsa
               /\ bus'.cut = bus.cut /\ bus'.cb = bus.cb
               /\ \A g : DummyFlies(bus', i, g) => DummyFlies(bus, i, g) \/ (g = f /\ f.sa = "secondary")
               /\ DummyHeld(bus', i) <=> DummyHeld(bus, i)
               /\ DummyWaits(d, i) <=> DummyWaits(context, i)
    BY <1>0, <1>1 DEF Sent, SameFrames, DummyFlies, DummyHeld, DummyWaits
  <1>3. CASE MX!SendPrimary(t)
    <2> DEFINE f == MX!Travel(1, i, m.sends, "primary", context.txbuf[i])
    <2>1. n.idx = i /\ Sent(t, 1, f) /\ l = "send" /\ k = "mark2"
      BY <1>3, SendPrimaryDoes
    <2>2. f.sa = "primary"
      BY DEF MX!Travel
    <2> HIDE DEF f
    <2>3. (\A g : ~Flies(bus, i, g)) /\ context.queue[2][i] = None
      BY <2>1 DEF DummyOf
    <2>4. (\A g : ~DummyFlies(bus, i, g)) /\ ~DummyHeld(bus, i) /\ ~DummyWaits(context, i)
      BY <2>3 DEF Flies, DummyFlies, DummyHeld, DummyWaits
    <2>5. (\A g : ~DummyFlies(bus', i, g)) /\ ~DummyHeld(bus', i) /\ ~DummyWaits(d, i)
      BY <1>1, <2>1, <2>2, <2>4
    <2> QED BY <2>1, <2>5 DEF DummyOf
  <1>4. CASE MX!SendSecondary(t)
    <2> DEFINE f == MX!Travel(2, i, m.sends, "secondary", [req |-> None, parts |-> {}])
    <2>1. n.idx = i /\ Sent(t, 2, f) /\ l = "send2" /\ k = "poll1" /\ SameIn(n, m)
      BY <1>4, SendSecondaryDoes
    <2> HIDE DEF f
    <2>2. ~n.in[2]
      BY <2>1 DEF AnswerOf, SameIn
    <2>3. bus.cut => (\A g : ~DummyFlies(bus, i, g)) /\ ~DummyHeld(bus, i) /\ ~DummyWaits(context, i)
      BY <2>1 DEF DummyOf
    <2>a. /\ bus'.cut = bus.cut
          /\ DummyHeld(bus', i) <=> DummyHeld(bus, i)
          /\ DummyWaits(d, i) <=> DummyWaits(context, i)
          /\ \A g : DummyFlies(bus', i, g) => DummyFlies(bus, i, g) \/ g = f
      BY <1>1, <2>1
    <2>4. bus'.cut => /\ \A g, h : DummyFlies(bus', i, g) /\ DummyFlies(bus', i, h) => g = h
                      /\ ~DummyHeld(bus', i) /\ ~DummyWaits(d, i)
      BY <2>3, <2>a
    <2>5. ~DummyIn(n, d)
      BY <2>2 DEF DummyIn
    <2> QED BY <2>1, <2>4, <2>5 DEF DummyOf
  <1>5. CASE MX!Resend(t)
    <2> DEFINE f == MX!Travel(2, i, m.sends, "primary", context.txbuf[i])
    <2>1. n.idx = i /\ Sent(t, 2, f) /\ l = "resend" /\ k = "rewait" /\ ~n.in[2]
      BY <1>5, ResendDoes
    <2>2. f.sa = "primary"
      BY DEF MX!Travel
    <2> HIDE DEF f
    <2>3. bus.cut /\ (\A g : ~DummyFlies(bus, i, g)) /\ ~DummyHeld(bus, i) /\ ~DummyWaits(context, i)
      BY <2>1 DEF DummyOf
    <2>4. bus'.cut /\ (\A g : ~DummyFlies(bus', i, g)) /\ ~DummyHeld(bus', i) /\ ~DummyWaits(d, i)
      BY <1>1, <2>1, <2>2, <2>3
    <2> QED BY <2>1, <2>4 DEF DummyOf
  <1> QED BY <1>3, <1>4, <1>5

LEMMA DummyTakes ==
  ASSUME NEW l, NEW k, NEW m, NEW n, NEW c, NEW d, NEW b, NEW p \in {1, 2}, c.setup.red,
         DummyOf(l, m, c, b), Received(p, m, n, c, d), c.queue[p][m.idx].sa \in Ways,
         \/ l \in {"poll1", "poll2"} /\ k \in {"poll2", "timer"}
         \/ l = "rewait" /\ k = "rewait"
  PROVE  DummyOf(k, n, d, b)
  <1> DEFINE i == m.idx
             g == c.queue[p][i]
  <1>1. /\ g # None /\ n.idx = i /\ n.in[p] /\ \A q \in {1, 2} : q # p => n.in[q] = m.in[q]
        /\ \E own : InSet(c, d, p, i, own, g.content, g.sa)
    BY DEF Received
  <1>2. /\ d.queue[2][i] = IF p = 2 THEN None ELSE c.queue[2][i]
        /\ d.rxsa[2][i] = IF p = 2 THEN g.sa ELSE c.rxsa[2][i]
    BY <1>1 DEF InSet, PortsOf
  <1>3. /\ DummyWaits(d, i) => DummyWaits(c, i) /\ p # 2
        /\ DummyIn(n, d) => (p = 2 /\ DummyWaits(c, i)) \/ (p # 2 /\ DummyIn(m, c))
    BY <1>1, <1>2 DEF DummyWaits, DummyIn
  <1>4. CASE l = "rewait" /\ k = "rewait"
    <2>1. b.cut /\ (\A f : ~DummyFlies(b, i, f)) /\ ~DummyHeld(b, i) /\ ~DummyWaits(c, i)
      BY <1>4 DEF DummyOf
    <2>2. n.in[2] => d.rxsa[2][i] = "primary"
      <3>1. CASE p = 2
        <4>1. g.sa # "secondary"
          BY <1>1, <2>1, <3>1 DEF DummyWaits
        <4> QED BY <1>2, <3>1, <4>1 DEF Ways
      <3>2. CASE p # 2
        BY <1>1, <1>2, <1>4, <3>2 DEF DummyOf
      <3> QED BY <3>1, <3>2
    <2> QED BY <1>1, <1>3, <1>4, <2>1, <2>2 DEF DummyOf
  <1>5. CASE l \in {"poll1", "poll2"} /\ k \in {"poll2", "timer"}
    <2>1. b.cut =>
             /\ \A f, h : DummyFlies(b, i, f) /\ DummyFlies(b, i, h) => f = h
             /\ (\E f : DummyFlies(b, i, f)) => ~DummyHeld(b, i) /\ ~DummyWaits(c, i) /\ ~DummyIn(m, c)
             /\ DummyHeld(b, i) => ~DummyWaits(c, i) /\ ~DummyIn(m, c)
             /\ DummyWaits(c, i) => ~DummyIn(m, c)
      BY <1>5 DEF DummyOf
    <2> QED BY <1>1, <1>3, <1>5, <2>1 DEF DummyOf
  <1> QED BY <1>4, <1>5

LEMMA DummyPolls ==
  ASSUME MuxType, CloseInv, NEW t \in MuxTasks, context.setup.red, DummyOf(pc[t], me[t], context, bus),
         MX!PollPrimary(t) \/ MX!PollSecondary(t) \/ MX!Rewait(t)
  PROVE  DummyOf(pc'[t], me'[t], context', bus')
  <1> DEFINE i == me[t].idx
             m == me[t]
             d == context'
             n == me'[t]
             l == pc[t]
             k == pc'[t]
  <1>1. /\ TaskStep(t) /\ bus' = bus /\ n.idx = i
        /\ \/ l \in {"poll1", "poll2"} /\ k \in {"poll2", "timer"}
           \/ l = "rewait" /\ k = "rewait"
        /\ \E p \in {1, 2} : Takes(t, p) \/ Leaves(t, p)
    BY PollDoes
  <1>2. PICK p \in {1, 2} : Takes(t, p) \/ Leaves(t, p)
    BY <1>1
  <1>3. CASE Leaves(t, p)
    <2>1. n = m /\ d = context
      BY <1>3 DEF Leaves
    <2> HIDE DEF n, m, d, l, k
    <2>2. DummyOf(k, m, context, bus)
      BY <1>1 DEF DummyOf, l, m
    <2> QED BY <1>1, <2>1, <2>2 DEF k, n, d
  <1>4. CASE Takes(t, p)
    <2>1. Received(p, m, n, context, d)
      BY <1>1, <1>4 DEF Takes, Received
    <2>2. context.queue[p][i] \in Frames
      <3>1. p \in PortsOf(context) /\ i \in IdxOf(context) /\ l \notin {"idle", "closing"}
        BY <1>1, TypeIs
      <3>2. context.queue[p][i] # Deleted
        BY <3>1, QueuesOpen
      <3>3. context.queue[p][i] # None
        BY <1>4 DEF Takes
      <3> QED BY <3>1, <3>2, <3>3, SlotsAre DEF SlotOk
    <2>3. context.queue[p][i].sa \in Ways
      BY <2>2 DEF Frames
    <2>5. DummyOf(l, m, context, bus) /\ context.queue[p][m.idx].sa \in Ways
      BY <2>3
    <2>6. \/ l \in {"poll1", "poll2"} /\ k \in {"poll2", "timer"}
          \/ l = "rewait" /\ k = "rewait"
      BY <1>1
    <2> HIDE DEF n, d, l, k, m
    <2>4. DummyOf(k, n, d, bus)
      BY <2>1, <2>5, <2>6, DummyTakes
    <2> QED BY <1>1, <2>4 DEF k, n, d
  <1> QED BY <1>2, <1>3, <1>4

\* A task that acts keeps what the invariant says of it.
LEMMA AnswerActs ==
  ASSUME SetupsAssumption, MuxType, CloseInv, NEW t \in MuxTasks, AnswerTask(t), MX!Call(t)
  PROVE  AnswerTask(t)'
  <1> SUFFICES ASSUME Held(t)', ~me'[t].overdue
               PROVE  /\ AnswerOf(MX!Req(t)', pc'[t], me'[t], context', bus')
                      /\ context'.setup.red => DummyOf(pc'[t], me'[t], context', bus')
    BY DEF AnswerTask
  <1>1. CASE MX!ecx_getindex(t) \/ MX!ScanNext(t) \/ MX!ecx_setbufstat(t)
    BY <1>1, GetIndexDoes, ScanNextDoes, SetbufstatDoes DEF Held
  <1>2. CASE MX!Found(t)
    <2>1. AnswerOf(MX!Req(t)', pc'[t], me'[t], context', bus')
      BY <1>2, AnswerFound
    <2>2. pc'[t] = "mark"
      BY <1>2, FoundDoes
    <2> QED BY <2>1, <2>2 DEF DummyOf
  <1>3. ASSUME TaskStep(t), Held(t), ~me[t].overdue
        PROVE  /\ AnswerOf(MX!Req(t), pc[t], me[t], context, bus)
               /\ context.setup.red => DummyOf(pc[t], me[t], context, bus)
               /\ context'.setup.red => context.setup.red
    BY <1>3 DEF AnswerTask, TaskStep, Beside
  <1>4. CASE \/ MX!MarkPrimary(t) \/ MX!MarkSecondary(t) \/ MX!MarkResend(t) \/ MX!PollAgain(t)
             \/ MX!Retry(t) \/ MX!GiveUp(t) \/ MX!UseAnswer(t)
    <2>1. TaskStep(t) /\ Held(t) /\ ~me[t].overdue
      BY <1>4, MarkPrimaryDoes, MarkAgainDoes, TurnsDo, UseDoes DEF Held, SamePast
    <2>2. AnswerOf(MX!Req(t)', pc'[t], me'[t], context', bus')
      BY <1>4, AnswerGoesOn, Zenon
    <2>3. context'.setup.red => DummyOf(pc'[t], me'[t], context', bus')
      BY <1>3, <1>4, <2>1, DummyGoesOn, Zenon
    <2> QED BY <2>2, <2>3
  <1>5. CASE MX!SendPrimary(t) \/ MX!SendSecondary(t) \/ MX!Resend(t)
    <2>1. TaskStep(t) /\ Held(t) /\ ~me[t].overdue
      BY <1>5, SendPrimaryDoes, SendSecondaryDoes, ResendDoes DEF Held, SamePast
    <2>2. AnswerOf(MX!Req(t)', pc'[t], me'[t], context', bus')
      BY <1>5, AnswerGoesOut, Zenon
    <2>3. context'.setup.red => DummyOf(pc'[t], me'[t], context', bus')
      BY <1>3, <1>5, <2>1, DummyGoesOut, Zenon
    <2> QED BY <2>2, <2>3
  <1>6. CASE MX!PollPrimary(t) \/ MX!PollSecondary(t) \/ MX!Rewait(t)
    <2>1. TaskStep(t) /\ Held(t) /\ ~me[t].overdue
      BY <1>6, PollDoes DEF Held, SamePast
    <2>2. AnswerOf(MX!Req(t)', pc'[t], me'[t], context', bus')
      BY <1>6, AnswerPolls, Zenon
    <2>3. context'.setup.red => DummyOf(pc'[t], me'[t], context', bus')
      BY <1>3, <1>6, <2>1, DummyPolls, Zenon
    <2> QED BY <2>2, <2>3
  <1>7. CASE MX!WaitOver(t) \/ MX!RewaitOver(t)
    <2>1. TaskStep(t) /\ Held(t) /\ ~me[t].overdue
      BY <1>7, WaitOverDoes, RewaitOverDoes DEF Held
    <2>2. AnswerOf(MX!Req(t)', pc'[t], me'[t], context', bus')
      BY <1>3, <1>7, <2>1, AnswerWaits, Zenon
    <2>3. context'.setup.red => DummyOf(pc'[t], me'[t], context', bus')
      BY <1>3, <1>7, <2>1, DummyGoesOn, Zenon
    <2> QED BY <2>2, <2>3
  <1> QED BY <1>1, <1>2, <1>4, <1>5, <1>6, <1>7 DEF MX!Call

\* tNet0 and the line: a frame goes on, or is lost, and the tasks notice nothing.
NetMoves(u) ==
    LET i == me[u].idx
    IN /\ pc'[u] = pc[u] /\ MX!Req(u)' = MX!Req(u) /\ SameUse(me[u], me'[u])
       /\ me'[u].overdue = me[u].overdue
       /\ context'.setup = context.setup /\ context'.stat = context.stat /\ SameFrames
       /\ context'.txbuf = context.txbuf /\ bus'.cut = bus.cut
       /\ bus'.net \subseteq bus.net
       /\ bus'.cb # None => \/ bus.cb # None /\ bus'.cb.frame = bus.cb.frame
                            \/ bus.cb = None /\ bus'.cb.frame \in bus.net \ bus'.net
       /\ \A p \in PortsOf(context) :
             \/ context'.queue[p][i] \in {context.queue[p][i], None}
             \/ /\ bus.cb # None /\ bus.cb.frame.idx = i /\ bus.cb.frame.port = p
                /\ context'.queue[p][i] = bus.cb.frame /\ bus'.cb = None

LEMMA DriverMoves ==
  ASSUME NoneAssumption, MuxType, NEW u \in MuxTasks,
         MX!mux_rx_callback \/ MX!Posted \/ MX!Overrun \/ MX!LoseFrame
  PROVE  NetMoves(u)
  <1> DEFINE k == me[u].idx
  <1>1. ASSUME NEW i, NetStep(i)
        PROVE  /\ pc'[u] = pc[u] /\ MX!Req(u)' = MX!Req(u) /\ SameUse(me[u], me'[u])
               /\ me'[u].overdue = me[u].overdue
               /\ context'.setup = context.setup /\ context'.stat = context.stat /\ SameFrames
               /\ context'.txbuf = context.txbuf /\ bus'.cut = bus.cut
               /\ bus'.net \subseteq bus.net
               /\ k # i => \A p \in PortsOf(context) : context'.queue[p][k] = context.queue[p][k]
    <2>1. SameTask(me'[u], me[u], i) /\ pc' = pc
      BY <1>1 DEF NetStep
    <2>2. k \in IdxOf(context)
      BY TypeIs
    <2> QED BY <1>1, <2>1, <2>2 DEF NetStep, Beside, SameTask, SameCall, SameUse, MX!Req, SameIn
  <1>2. CASE MX!mux_rx_callback
    <2>1. PICK f \in bus.net :
             /\ NetStep(f.idx) /\ context' = context /\ bus.cb = None
             /\ bus'.net = bus.net \ {f}
             /\ bus'.cb = IF context.stat[f.port][f.idx] = "TX"
                          THEN [frame |-> f, full |-> FALSE] ELSE None
      BY <1>2, CallbackDoes
    <2> QED BY <1>1, <2>1 DEF NetMoves
  <1>3. CASE MX!Posted
    <2> DEFINE g == bus.cb.frame
    <2>1. /\ NetStep(g.idx) /\ bus.cb # None /\ g.port \in PortsOf(context)
          /\ \/ /\ QueueSet(context, context', g.port, g.idx, g, context.owned + 1)
                /\ bus'.cb = None
             \/ /\ context' = context
                /\ bus'.cb = None \/ bus'.cb = [frame |-> g, full |-> TRUE]
      BY <1>3, PostedDoes
    <2>2. CASE k # g.idx
      BY <1>1, <2>1, <2>2 DEF NetMoves
    <2>3. CASE k = g.idx
      <3>1. \/ context' = context
            \/ \A p \in PortsOf(context) :
                  context'.queue[p][k] = IF p = g.port THEN g ELSE context.queue[p][k]
        BY <2>1, <2>3 DEF QueueSet
      <3>2. \A p \in PortsOf(context) :
               \/ context'.queue[p][k] \in {context.queue[p][k], None}
               \/ /\ bus.cb # None /\ bus.cb.frame.idx = k /\ bus.cb.frame.port = p
                  /\ context'.queue[p][k] = bus.cb.frame /\ bus'.cb = None
        BY <2>1, <2>3, <3>1
      <3>3. bus'.cb # None => bus.cb # None /\ bus'.cb.frame = bus.cb.frame
        BY <2>1
      <3> QED BY <1>1, <2>1, <3>2, <3>3 DEF NetMoves
    <2> QED BY <2>2, <2>3
  <1>4. CASE MX!Overrun
    <2> DEFINE g == bus.cb.frame
    <2>1. /\ NetStep(g.idx) /\ bus.cb # None /\ bus'.cb = [frame |-> g, full |-> FALSE]
          /\ \/ context' = context
             \/ QueueSet(context, context', g.port, g.idx, None, context.owned - 1)
      BY <1>4, OverrunDoes
    <2>2. CASE k # g.idx
      BY <1>1, <2>1, <2>2 DEF NetMoves
    <2>3. CASE k = g.idx
      <3>1. \/ context' = context
            \/ \A p \in PortsOf(context) :
                  context'.queue[p][k] = IF p = g.port THEN None ELSE context.queue[p][k]
        BY <2>1, <2>3 DEF QueueSet
      <3>2. \A p \in PortsOf(context) :
               \/ context'.queue[p][k] \in {context.queue[p][k], None}
               \/ /\ bus.cb # None /\ bus.cb.frame.idx = k /\ bus.cb.frame.port = p
                  /\ context'.queue[p][k] = bus.cb.frame /\ bus'.cb = None
        BY <2>1, <2>3, <3>1
      <3>3. bus'.cb # None => bus.cb # None /\ bus'.cb.frame = bus.cb.frame
        BY <2>1
      <3> QED BY <1>1, <2>1, <3>2, <3>3 DEF NetMoves
    <2> QED BY <2>2, <2>3
  <1>5. CASE MX!LoseFrame
    <2>1. PICK f \in bus.net : NetStep(f.idx) /\ context' = context /\ bus'.cb = bus.cb
      BY <1>5, LoseDoes
    <2> QED BY <1>1, <2>1 DEF NetMoves
  <1> QED BY <1>2, <1>3, <1>4, <1>5

\* The frames that fly, wait and were received after such a step.
LEMMA FlightMoves ==
  ASSUME NEW u, NetMoves(u), NEW i, i = me[u].idx
  PROVE  /\ \A f : Flies(bus', i, f) => Flies(bus, i, f)
         /\ \A f : DummyFlies(bus', i, f) => DummyFlies(bus, i, f)
         /\ DummyHeld(bus', i) => \/ DummyHeld(bus, i)
                                  \/ \E f : DummyFlies(bus, i, f) /\ ~DummyFlies(bus', i, f)
         /\ \A p \in PortsOf(context) :
               \/ context'.queue[p][i] \in {context.queue[p][i], None}
               \/ /\ Flies(bus, i, context'.queue[p][i]) /\ context'.queue[p][i].port = p
                  /\ bus.cb # None /\ context'.queue[p][i] = bus.cb.frame /\ bus'.cb = None
  BY DEF NetMoves, Flies, DummyFlies, DummyHeld

LEMMA AnswerFlies ==
  ASSUME MuxType, NEW u \in MuxTasks, NetMoves(u), AnswerOf(MX!Req(u), pc[u], me[u], context, bus)
  PROVE  AnswerOf(MX!Req(u)', pc'[u], me'[u], context', bus')
  <1> DEFINE i == me[u].idx
             m == me[u]
             d == context'
             n == me'[u]
             r == MX!Req(u)
             l == pc[u]
  <1>1. /\ pc'[u] = l /\ MX!Req(u)' = r /\ n.idx = i /\ n.answer = m.answer
        /\ n.in[1] = m.in[1] /\ n.in[2] = m.in[2]
        /\ PortsOf(d) = PortsOf(context) /\ PortsOf(context) \subseteq {1, 2} /\ 1 \in PortsOf(context)
        /\ d.txbuf = context.txbuf /\ d.rxbuf = context.rxbuf /\ d.rxsa = context.rxsa
        /\ bus'.cut = bus.cut /\ m.idx = i
    BY TypeIs DEF NetMoves, SameUse, SameIn, SameFrames, PortsOf
  <1>2. /\ \A f : Flies(bus', i, f) => Flies(bus, i, f)
        /\ \A p \in PortsOf(context) :
               \/ d.queue[p][i] \in {context.queue[p][i], None}
               \/ Flies(bus, i, d.queue[p][i]) /\ d.queue[p][i].port = p
    BY FlightMoves
  <1>3. AnswerOf(r, l, m, context, bus)
    OBVIOUS
  <1> HIDE DEF i, m, d, n, r, l
  <1>4. \A f : Flies(bus', i, f) => Fits(r, bus'.cut, f.port, f.sa, f.content)
    BY <1>1, <1>2, <1>3 DEF AnswerOf
  <1>5. ASSUME NEW p \in PortsOf(d), d.queue[p][i] # None, p = 2 \/ l \notin {"mark", "send"}
        PROVE  Fits(r, bus'.cut, p, d.queue[p][i].sa, d.queue[p][i].content)
    <2>1. /\ \A f : Flies(bus, i, f) => Fits(r, bus.cut, f.port, f.sa, f.content)
          /\ context.queue[p][i] # None =>
                Fits(r, bus.cut, p, context.queue[p][i].sa, context.queue[p][i].content)
      BY <1>1, <1>3, <1>5 DEF AnswerOf
    <2> DEFINE x == d.queue[p][i]
    <2>2. x = context.queue[p][i] \/ (Flies(bus, i, x) /\ x.port = p)
      BY <1>1, <1>2, <1>5
    <2> QED BY <1>1, <1>5, <2>1, <2>2
  <1>6. ASSUME NEW p \in PortsOf(d), n.in[p], l \in Receiver
        PROVE  Fits(r, bus'.cut, p, d.rxsa[p][i], d.rxbuf[p][i])
    <2>1. m.in[p]
      BY <1>1, <1>6
    <2> QED BY <1>1, <1>3, <1>6, <2>1 DEF AnswerOf
  <1>7. /\ d.txbuf[i].req = r
        /\ l \in {"mark2", "send2"} => ~n.in[1] /\ ~n.in[2]
        /\ l = "use" => d.rxbuf[1][i].parts = {} \/ d.rxbuf[1][i].req = r
        /\ l = "release" => n.answer = None \/ n.answer.req = r
    BY <1>1, <1>3 DEF AnswerOf
  <1>8. AnswerOf(r, l, n, d, bus')
    BY <1>1, <1>4, <1>5, <1>6, <1>7 DEF AnswerOf
  <1> QED BY <1>1, <1>8 DEF d, n

LEMMA DummyFliesOn ==
  ASSUME MuxType, NEW u \in MuxTasks, NetMoves(u), context.setup.red,
         DummyOf(pc[u], me[u], context, bus)
  PROVE  DummyOf(pc'[u], me'[u], context', bus')
  <1> DEFINE i == me[u].idx
             m == me[u]
             d == context'
             n == me'[u]
             l == pc[u]
  <1>1. /\ pc'[u] = l /\ n.idx = i /\ n.in[2] = m.in[2] /\ 2 \in PortsOf(context)
        /\ d.rxsa = context.rxsa /\ bus'.cut = bus.cut /\ m.idx = i
    BY TypeIs DEF NetMoves, SameUse, SameIn, SameFrames
  <1>2. /\ \A f : Flies(bus', i, f) => Flies(bus, i, f)
        /\ \A f : DummyFlies(bus', i, f) => DummyFlies(bus, i, f)
        /\ DummyHeld(bus', i) => \/ DummyHeld(bus, i)
                                 \/ \E f : DummyFlies(bus, i, f) /\ ~DummyFlies(bus', i, f)
    BY FlightMoves
  <1>3. \/ d.queue[2][i] \in {context.queue[2][i], None}
        \/ /\ Flies(bus, i, d.queue[2][i])
           /\ bus.cb # None /\ d.queue[2][i] = bus.cb.frame /\ bus'.cb = None
    BY <1>1, FlightMoves
  <1>4. DummyWaits(d, i) => DummyWaits(context, i) \/ (DummyHeld(bus, i) /\ ~DummyHeld(bus', i))
    BY <1>3 DEF DummyWaits, DummyHeld, Flies
  <1>5. DummyIn(n, d) <=> DummyIn(m, context)
    BY <1>1 DEF DummyIn
  <1>6. DummyOf(l, m, context, bus)
    OBVIOUS
  <1> HIDE DEF i, m, d, n, l
  <1>7. l = "send" => d.queue[2][i] = None /\ \A f : ~Flies(bus', i, f)
    BY <1>1, <1>2, <1>3, <1>6 DEF DummyOf
  <1>8. bus.cut /\ l \in {"mark2", "send2", "mark3", "resend", "rewait"} =>
           (\A f : ~DummyFlies(bus', i, f)) /\ ~DummyHeld(bus', i) /\ ~DummyWaits(d, i)
    BY <1>1, <1>2, <1>4, <1>6 DEF DummyOf
  <1>9. ASSUME bus.cut, l \in {"poll1", "poll2", "timer"}
        PROVE  /\ \A f, g : DummyFlies(bus', i, f) /\ DummyFlies(bus', i, g) => f = g
               /\ (\E f : DummyFlies(bus', i, f)) =>
                     ~DummyHeld(bus', i) /\ ~DummyWaits(d, i) /\ ~DummyIn(n, d)
               /\ DummyHeld(bus', i) => ~DummyWaits(d, i) /\ ~DummyIn(n, d)
               /\ DummyWaits(d, i) => ~DummyIn(n, d)
    <2>1. /\ \A f, g : DummyFlies(bus, i, f) /\ DummyFlies(bus, i, g) => f = g
          /\ (\E f : DummyFlies(bus, i, f)) =>
                ~DummyHeld(bus, i) /\ ~DummyWaits(context, i) /\ ~DummyIn(m, context)
          /\ DummyHeld(bus, i) => ~DummyWaits(context, i) /\ ~DummyIn(m, context)
          /\ DummyWaits(context, i) => ~DummyIn(m, context)
      BY <1>1, <1>6, <1>9 DEF DummyOf
    <2> QED BY <1>2, <1>4, <1>5, <2>1
  <1>10. /\ l \in {"mark3", "resend", "rewait"} => bus.cut
         /\ l = "rewait" /\ n.in[2] => d.rxsa[2][i] = "primary"
    BY <1>1, <1>6 DEF DummyOf
  <1>11. DummyOf(l, n, d, bus')
    BY <1>1, <1>7, <1>8, <1>9, <1>10 DEF DummyOf
  <1> QED BY <1>1, <1>11 DEF d, n

LEMMA CallKeeps ==
  ASSUME SetupsAssumption, MuxType, NEW t \in MuxTasks, MX!Call(t)
  PROVE  context'.setup = context.setup /\ (bus'.fails = 0 => bus.fails = 0)
  <1>1. CASE MX!ecx_setbufstat(t)
    BY <1>1, SetbufstatDoes DEF StatCleared, Beside
  <1>2. CASE ~MX!ecx_setbufstat(t)
    <2>1. TaskStep(t)
      BY <1>2, GetIndexDoes, ScanNextDoes, FoundDoes, MarkPrimaryDoes, MarkAgainDoes,
         SendPrimaryDoes, SendSecondaryDoes, ResendDoes, PollDoes, WaitOverDoes,
         RewaitOverDoes, TurnsDo, UseDoes DEF MX!Call
    <2> QED BY <2>1 DEF TaskStep, Beside
  <1> QED BY <1>1, <1>2

LEMMA AnswerCall ==
  ASSUME SetupsAssumption, MuxType, CloseInv, IndexInv, IndexInv', AnswerInv,
         NEW t \in MuxTasks, MX!Call(t)
  PROVE  AnswerInv'
  <1>1. context'.setup = context.setup /\ (bus'.fails = 0 => bus.fails = 0)
    BY CallKeeps
  <1> SUFFICES ASSUME bus'.fails = 0 \/ \A v, w \in MuxTasks : v = w, NEW u \in MuxTasks
               PROVE  AnswerTask(u)'
    BY <1>1 DEF AnswerInv, Sole, MuxTasks
  <1>2. AnswerTask(t) /\ AnswerTask(u)
    BY <1>1 DEF AnswerInv, Sole, MuxTasks
  <1>3. CASE u = t
    <2>1. AnswerTask(t)'
      BY <1>2, AnswerActs
    <2> QED BY <1>3, <2>1
  <1>4. CASE u # t
    <2>1. bus'.fails = 0
      BY <1>4
    <2> QED BY <1>2, <1>4, <2>1, OthersKeep
  <1> QED BY <1>3, <1>4

LEMMA AnswerDriver ==
  ASSUME NoneAssumption, MuxType, AnswerInv,
         MX!mux_rx_callback \/ MX!Posted \/ MX!Overrun \/ MX!LoseFrame
  PROVE  AnswerInv'
  <1>1. context'.setup = context.setup /\ bus'.fails = bus.fails
    <2>1. \E i : NetStep(i)
      BY CallbackDoes, PostedDoes, OverrunDoes, LoseDoes
    <2> QED BY <2>1 DEF NetStep, Beside
  <1> SUFFICES ASSUME Sole, NEW u \in MuxTasks, Held(u)', ~me'[u].overdue
               PROVE  /\ AnswerOf(MX!Req(u)', pc'[u], me'[u], context', bus')
                      /\ context'.setup.red => DummyOf(pc'[u], me'[u], context', bus')
    BY <1>1 DEF AnswerInv, AnswerTask, Sole, MuxTasks
  <1>2. NetMoves(u)
    BY DriverMoves
  <1>3. Held(u) /\ ~me[u].overdue /\ AnswerTask(u)
    BY <1>2 DEF NetMoves, Held, AnswerInv, MuxTasks
  <1>4. AnswerOf(MX!Req(u)', pc'[u], me'[u], context', bus')
    BY <1>2, <1>3, AnswerFlies DEF AnswerTask
  <1>5. context.setup.red => DummyOf(pc'[u], me'[u], context', bus')
    BY <1>2, <1>3, DummyFliesOn DEF AnswerTask
  <1> QED BY <1>1, <1>4, <1>5

\* While the port is closed nobody has an index.
LEMMA ClosesHeld ==
  ASSUME MuxType, CloseInv, MX!CloseDrain \/ MX!CloseDelete
  PROVE  context'.setup = context.setup /\ \A u \in MuxTasks : ~Held(u)'
  <1>1. PICK p \in PortsOf(context), i \in IdxOf(context) :
            LET queue == context.queue[p][i]
            IN /\ <<p, i>> \in context.toClose /\ me' = me /\ bus' = bus
               /\ \/ /\ \A t \in MuxTasks : /\ pc[t] = "idle" /\ me[t].req = context.setup.reqs
                                            /\ pc'[t] = "closing"
                     /\ IF queue = None THEN context' = context
                        ELSE QueueSet(context, context', p, i, None, context.owned - 1)
                  \/ /\ \A t \in MuxTasks : pc[t] = "closing" /\ pc'[t] = "idle"
                     /\ QueueDeleted(context, context', p, i,
                                     context.owned - IF queue = None THEN 0 ELSE 1,
                                     context.toClose \ {<<p, i>>})
               /\ pc' \in [MuxTasks -> {"idle", "closing"}]
    BY CloseDoes
  <1>2. context'.setup = context.setup
    BY <1>1 DEF QueueSet, QueueDeleted, Beside
  <1>3. \A u \in MuxTasks : pc'[u] \in {"idle", "closing"}
    BY <1>1
  <1> QED BY <1>2, <1>3 DEF Held

LEMMA AnswerCloses ==
  ASSUME MuxType, CloseInv, MX!CloseDrain \/ MX!CloseDelete
  PROVE  AnswerInv' /\ QuietInv'
  <1>1. context'.setup = context.setup /\ \A u \in MuxTasks : ~Held(u)'
    BY ClosesHeld
  <1> QED BY <1>1 DEF AnswerInv, AnswerTask, QuietInv, QuietTask, MuxTasks

-------------------------------------------------------------------------------
(* The frames of a request that nothing disturbs *)

\* The frames of the request that are about at label l.
Flight(r, l, i, cut) ==
    IF l \in {"mark2", "send2"} THEN {Command(r, i, cut)}
    ELSE IF l \in {"poll1", "poll2", "timer"} THEN {Command(r, i, cut), Dummy(i, cut)}
    ELSE IF l = "rewait" THEN {Again(r, i)} ELSE {}
Course(xs, r, m, c, b) ==
    /\ Only(b, m.idx, xs)
    /\ \A x \in xs : /\ x.idx = m.idx /\ x.port \in {1, 2} /\ x.content.req \in {r, None}
                     /\ Spot(x, m, c, b) /\ (Complete(c, m.idx, x.port) => m.in[x.port])
    /\ \A x, y \in xs : x.port = y.port => x = y

LEMMA FlightIs ==
  ASSUME NEW r, NEW i, NEW cut
  PROVE  /\ Command(r, i, cut).idx = i /\ Dummy(i, cut).idx = i /\ Again(r, i).idx = i
         /\ Command(r, i, cut).content.req = r /\ Dummy(i, cut).content.req = None
         /\ Again(r, i).content.req = r /\ Again(r, i).port = 2
         /\ Command(r, i, cut).sa = "primary" /\ Dummy(i, cut).sa = "secondary"
         /\ Again(r, i).sa = "primary"
         /\ Command(r, i, cut).port = IF cut THEN 1 ELSE 2
         /\ Dummy(i, cut).port = IF cut THEN 2 ELSE 1
  BY DEF Command, Dummy, Again

LEMMA CourseIs ==
  ASSUME NEW r, NEW l, NEW m, NEW c, NEW b, QuietOf(r, l, m, c, b),
         l \in {"send", "mark2", "send2", "poll1", "poll2", "timer", "mark3", "resend", "rewait"}
  PROVE  Course(Flight(r, l, m.idx, b.cut), r, m, c, b)
  <1> DEFINE i == m.idx
             command == Command(r, i, b.cut)
             dummy == Dummy(i, b.cut)
             again == Again(r, i)
  <1>0. /\ command.idx = i /\ dummy.idx = i /\ again.idx = i
        /\ command.content.req = r /\ dummy.content.req = None /\ again.content.req = r
        /\ again.port = 2 /\ command.port = (IF b.cut THEN 1 ELSE 2)
        /\ dummy.port = (IF b.cut THEN 2 ELSE 1)
    BY FlightIs
  <1>1. CASE l \in {"send", "mark3", "resend"}
    <2>1. Flight(r, l, i, b.cut) = {} /\ Only(b, i, {})
      BY <1>1 DEF Flight, QuietOf
    <2> QED BY <2>1 DEF Course
  <1>2. CASE l \in {"mark2", "send2"}
    <2>1. /\ Flight(r, l, i, b.cut) = {command} /\ Only(b, i, {command})
          /\ Spot(command, m, c, b) /\ ~Complete(c, i, 1) /\ ~Complete(c, i, 2)
      BY <1>2 DEF Flight, QuietOf
    <2> HIDE DEF command
    <2> QED BY <1>0, <2>1 DEF Course
  <1>3. CASE l \in {"poll1", "poll2", "timer"}
    <2>1. /\ Flight(r, l, i, b.cut) = {command, dummy} /\ Only(b, i, {command, dummy})
          /\ Spot(command, m, c, b) /\ Spot(dummy, m, c, b)
          /\ Complete(c, i, 1) => m.in[1]
          /\ Complete(c, i, 2) => m.in[2]
      BY <1>3 DEF Flight, QuietOf
    <2> HIDE DEF command, dummy
    <2> QED BY <1>0, <2>1 DEF Course
  <1>4. CASE l = "rewait"
    <2>1. /\ Flight(r, l, i, b.cut) = {again} /\ Only(b, i, {again}) /\ Spot(again, m, c, b)
          /\ Complete(c, i, 2) => m.in[2]
      BY <1>4 DEF Flight, QuietOf
    <2> HIDE DEF again
    <2> QED BY <1>0, <2>1 DEF Course
  <1> QED BY <1>1, <1>2, <1>3, <1>4

\* A frame stays where it is, is taken from the line, or is posted.
LEMMA SpotMoves ==
  ASSUME NEW x, NEW m, NEW n, NEW c, NEW d, NEW b, NEW e, Spot(x, m, c, b), n.idx = m.idx,
         n.in[x.port] = m.in[x.port], d.rxbuf = c.rxbuf, d.rxsa = c.rxsa,
         LET before == c.queue[x.port][m.idx]
             after == d.queue[x.port][m.idx]
             held == b.cb # None /\ b.cb.frame = x
             holds == e.cb # None /\ e.cb.frame = x
         IN \/ (x \in e.net <=> x \in b.net) /\ (holds <=> held) /\ after = before
            \/ x \in b.net /\ x \notin e.net /\ holds /\ after = before
            \/ held /\ ~holds /\ after = x /\ x # None /\ (x \in e.net <=> x \in b.net)
  PROVE  Spot(x, n, d, e)
  BY DEF Spot

LEMMA SpotsMove ==
  ASSUME NoneAssumption, MuxType, NEW u \in MuxTasks, Held(u), context.setup.red,
         MX!mux_rx_callback \/ MX!Posted \/ MX!Overrun \/ MX!LoseFrame,
         ~me'[u].missed, ~me'[u].dropped, NEW xs, Course(xs, MX!Req(u), me[u], context, bus)
  PROVE  \A x \in xs : Spot(x, me'[u], context', bus')
  <1> SUFFICES ASSUME NEW x \in xs PROVE Spot(x, me'[u], context', bus')
    OBVIOUS
  <1> DEFINE i == me[u].idx
             m == me[u]
             n == me'[u]
             d == context'
             held == bus.cb # None /\ bus.cb.frame = x
             holds == bus'.cb # None /\ bus'.cb.frame = x
  <1>1. /\ x.idx = i /\ x.port \in {1, 2} /\ x.content.req \in {MX!Req(u), None}
        /\ Spot(x, m, context, bus) /\ (Complete(context, i, x.port) => m.in[x.port])
        /\ \A y \in xs : x.port = y.port => x = y
        /\ \A f : Flies(bus, i, f) => f \in xs
    BY DEF Course, Only
  <1>2. /\ n.idx = i /\ n.in[x.port] = m.in[x.port]
        /\ d.rxbuf = context.rxbuf /\ d.rxsa = context.rxsa
        /\ x.port \in PortsOf(context) /\ i \in IdxOf(context)
    <2>1. NetMoves(u)
      BY DriverMoves
    <2> QED BY <1>1, <2>1, TypeIs DEF NetMoves, SameUse, SameIn, SameFrames
  <1> DEFINE before == context.queue[x.port][i]
             after == d.queue[x.port][i]
  <1>3. ASSUME \/ (x \in bus'.net <=> x \in bus.net) /\ (holds <=> held) /\ after = before
               \/ x \in bus.net /\ x \notin bus'.net /\ holds /\ after = before
               \/ held /\ ~holds /\ after = x /\ x # None /\ (x \in bus'.net <=> x \in bus.net)
        PROVE  Spot(x, n, d, bus')
    <2>1. \/ /\ x \in bus'.net <=> x \in bus.net
             /\ (bus'.cb # None /\ bus'.cb.frame = x) <=> (bus.cb # None /\ bus.cb.frame = x)
             /\ d.queue[x.port][m.idx] = context.queue[x.port][m.idx]
          \/ /\ x \in bus.net /\ x \notin bus'.net /\ bus'.cb # None /\ bus'.cb.frame = x
             /\ d.queue[x.port][m.idx] = context.queue[x.port][m.idx]
          \/ /\ bus.cb # None /\ bus.cb.frame = x /\ ~(bus'.cb # None /\ bus'.cb.frame = x)
             /\ d.queue[x.port][m.idx] = x /\ x # None /\ (x \in bus'.net <=> x \in bus.net)
      BY <1>3
    <2>2. Spot(x, m, context, bus) /\ n.idx = m.idx /\ n.in[x.port] = m.in[x.port]
      BY <1>1, <1>2
    <2>3. d.rxbuf = context.rxbuf /\ d.rxsa = context.rxsa
      BY <1>2
    <2> HIDE DEF n, d, m
    <2> QED BY <2>1, <2>2, <2>3, SpotMoves
  <1>4. CASE MX!mux_rx_callback
    <2>1. PICK f \in bus.net :
             /\ NetStep(f.idx) /\ context' = context /\ bus.cb = None
             /\ bus'.net = bus.net \ {f}
             /\ bus'.cb = IF context.stat[f.port][f.idx] = "TX"
                          THEN [frame |-> f, full |-> FALSE] ELSE None
             /\ \A t \in MuxTasks :
                   me'[t].dropped <=> \/ me[t].dropped
                                      \/ context.stat[f.port][f.idx] # "TX" /\ MX!AwaitedBy(f, t)
      BY <1>4, CallbackDoes
    <2>2. CASE f # x
      <3>1. (x \in bus'.net <=> x \in bus.net) /\ ~held /\ ~holds /\ after = before
        BY <2>1, <2>2
      <3> QED BY <1>3, <3>1
    <2>3. CASE f = x
      <3>1. context.stat[x.port][i] # "COMPLETE"
        BY <1>1, <2>1, <2>3 DEF Spot, Complete
      <3>2. MX!AwaitedBy(x, u)
        BY <1>1, <3>1 DEF MX!AwaitedBy, Held
      <3>3. bus'.cb = [frame |-> x, full |-> FALSE]
        BY <2>1, <2>3, <3>2
      <3>4. x \in bus.net /\ x \notin bus'.net /\ holds /\ after = before
        <4>1. bus'.cb # None
          <5>1. x \in Frames
            BY <2>1, <2>3, FramesAre
          <5>2. [frame |-> x, full |-> FALSE] \in [frame : Frames, full : BOOLEAN]
            BY <5>1, HeldMade
          <5> QED BY <3>3, <5>2 DEF NoneAssumption
        <4> QED BY <2>1, <2>3, <3>3, <4>1
      <3> QED BY <1>3, <3>4
    <2> QED BY <2>2, <2>3
  <1> DEFINE g == bus.cb.frame
  <1>5. ASSUME bus.cb # None, g # x, g.idx = i
        PROVE  g.port # x.port
    <2>1. Flies(bus, i, g)
      BY <1>5 DEF Flies
    <2> QED BY <1>1, <1>5, <2>1
  <1>6. ASSUME g # x, bus.cb # None, NetStep(g.idx), g.port \in PortsOf(context), bus'.net = bus.net,
               bus'.cb # None => bus'.cb.frame = g,
               d = context \/ \E y, own : QueueSet(context, d, g.port, g.idx, y, own)
        PROVE  Spot(x, n, d, bus')
    <2>1. after = before
      <3>1. CASE d = context
        BY <3>1
      <3>2. CASE \E y, own : QueueSet(context, d, g.port, g.idx, y, own)
        <4>1. CASE g.idx = i
          <5>1. x.port # g.port
            BY <1>5, <1>6, <4>1
          <5> QED BY <1>2, <3>2, <4>1, <5>1 DEF QueueSet
        <4>2. CASE g.idx # i
          BY <1>2, <1>6, <4>2 DEF NetStep, Beside
        <4> QED BY <4>1, <4>2
      <3> QED BY <1>6, <3>1, <3>2
    <2>2. ~held /\ ~holds /\ (x \in bus'.net <=> x \in bus.net)
      BY <1>6
    <2> QED BY <1>3, <2>1, <2>2
  <1>7. held => g.idx = i /\ g.port = x.port /\ before = None
    BY <1>1 DEF Spot
  <1>8. CASE MX!Posted
    <2>1. /\ NetStep(g.idx) /\ bus.cb # None /\ bus'.net = bus.net
          /\ g \in Frames /\ g.port \in PortsOf(context)
          /\ IF context.queue[g.port][g.idx] = None
             THEN /\ QueueSet(context, context', g.port, g.idx, g, context.owned + 1)
                  /\ bus'.cb = None
             ELSE /\ context' = context
                  /\ bus'.cb = IF context.queue[g.port][g.idx] = Deleted THEN None
                               ELSE [frame |-> g, full |-> TRUE]
      BY <1>8, PostedDoes
    <2>2. CASE g # x
      <3>1. bus'.cb # None => bus'.cb.frame = g
        BY <2>1
      <3>2. d = context \/ \E y, own : QueueSet(context, d, g.port, g.idx, y, own)
        BY <2>1
      <3> QED BY <1>6, <2>1, <2>2, <3>1, <3>2
    <2>3. CASE g = x
      <3>1. held /\ before = None
        BY <1>7, <2>1, <2>3
      <3>2. /\ QueueSet(context, d, x.port, i, x, context.owned + 1)
            /\ bus'.cb = None
        BY <1>1, <2>1, <2>3, <3>1
      <3>3. after = x /\ ~holds
        BY <1>2, <3>2 DEF QueueSet
      <3>4. x # None
        BY <2>1, <2>3 DEF NoneAssumption
      <3>5. x \in bus'.net <=> x \in bus.net
        BY <2>1
      <3> QED BY <1>3, <3>1, <3>3, <3>4, <3>5
    <2> QED BY <2>2, <2>3
  <1>9. CASE MX!Overrun
    <2>1. /\ NetStep(g.idx) /\ bus.cb # None /\ bus'.net = bus.net
          /\ g \in Frames /\ g.port \in PortsOf(context)
          /\ bus'.cb = [frame |-> g, full |-> FALSE]
          /\ IF context.queue[g.port][g.idx] \in {None, Deleted} THEN context' = context
             ELSE QueueSet(context, context', g.port, g.idx, None, context.owned - 1)
      BY <1>9, OverrunDoes
    <2>2. CASE g # x
      <3>1. bus'.cb # None => bus'.cb.frame = g
        BY <2>1
      <3>2. d = context \/ \E y, own : QueueSet(context, d, g.port, g.idx, y, own)
        BY <2>1
      <3> QED BY <1>6, <2>1, <2>2, <3>1, <3>2
    <2>3. CASE g = x
      <3>1. held /\ before = None
        BY <1>7, <2>1, <2>3
      <3>2. d = context
        BY <1>1, <2>1, <2>3, <3>1
      <3>3. bus'.cb # None
        BY <2>1, HeldMade DEF NoneAssumption
      <3>4. (x \in bus'.net <=> x \in bus.net) /\ holds /\ after = before
        BY <2>1, <2>3, <3>2, <3>3
      <3> QED BY <1>3, <3>1, <3>4
    <2> QED BY <2>2, <2>3
  <1>10. CASE MX!LoseFrame
    <2>1. PICK f \in bus.net :
             /\ context' = context /\ bus'.net = bus.net \ {f} /\ bus'.cb = bus.cb
             /\ \A t \in MuxTasks : me'[t].missed <=> me[t].missed \/ me[t].idx = f.idx
      BY <1>10, LoseDoes
    <2>2. f # x
      BY <1>1, <2>1
    <2>3. (x \in bus'.net <=> x \in bus.net) /\ (holds <=> held) /\ after = before
      BY <2>1, <2>2
    <2> QED BY <1>3, <2>3
  <1> QED BY <1>4, <1>8, <1>9, <1>10

LEMMA QuietFlies ==
  ASSUME NoneAssumption, MuxType, NEW u \in MuxTasks, Held(u), context.setup.red,
         MX!mux_rx_callback \/ MX!Posted \/ MX!Overrun \/ MX!LoseFrame,
         ~me'[u].missed, ~me'[u].dropped, QuietOf(MX!Req(u), pc[u], me[u], context, bus)
  PROVE  QuietOf(MX!Req(u)', pc'[u], me'[u], context', bus')
  <1> DEFINE i == me[u].idx
             m == me[u]
             n == me'[u]
             d == context'
             r == MX!Req(u)
             l == pc[u]
             cut == bus.cut
             xs == Flight(r, l, i, cut)
             command == Command(r, i, cut)
             dummy == Dummy(i, cut)
             again == Again(r, i)
  <1>1. NetMoves(u)
    BY DriverMoves
  <1>2. /\ pc'[u] = l /\ MX!Req(u)' = r /\ n.idx = i /\ m.idx = i
        /\ n.sends = m.sends /\ n.answer = m.answer
        /\ n.in[1] = m.in[1] /\ n.in[2] = m.in[2] /\ d.stat = context.stat /\ bus'.cut = cut
        /\ d.rxbuf = context.rxbuf /\ d.rxsa = context.rxsa /\ d.txbuf = context.txbuf
        /\ l \in Labels /\ l \notin {"idle", "scan", "closing"} /\ PortsOf(context) = {1, 2}
    BY <1>1, TypeIs DEF NetMoves, SameUse, SameIn, SameFrames, Held
  <1>3. /\ \A f : Flies(bus', i, f) => Flies(bus, i, f)
        /\ \A p \in {1, 2} : \/ d.queue[p][i] \in {context.queue[p][i], None}
                             \/ Flies(bus, i, d.queue[p][i]) /\ d.queue[p][i].port = p
    BY <1>1, <1>2, FlightMoves
  <1>4. ASSUME l \notin {"mark", "use", "release", "again"}
        PROVE  \A x \in xs : Spot(x, n, d, bus')
    <2>1. Course(xs, r, m, context, bus)
      BY <1>2, <1>4, CourseIs DEF Labels
    <2> HIDE DEF xs
    <2> QED BY <2>1, SpotsMove
  <1>5. \A ys : Only(bus, i, ys) => Only(bus', i, ys)
    BY <1>3 DEF Only
  <1>6. \A p \in {1, 2} : Complete(d, i, p) <=> Complete(context, i, p)
    BY <1>2 DEF Complete
  <1>7. QuietOf(r, l, m, context, bus)
    OBVIOUS
  <1>8. ASSUME NEW p \in {1, 2}, NEW ys, Only(bus, i, ys), \A y \in ys : y.port # p,
               context.queue[p][i] = None
        PROVE  d.queue[p][i] = None
    BY <1>3, <1>8 DEF Only
  <1>9. /\ command.port # dummy.port /\ again.port = 2 /\ dummy.port \in {1, 2}
    <2>1. /\ command.port = IF cut THEN 1 ELSE 2
          /\ dummy.port = IF cut THEN 2 ELSE 1
          /\ again.port = 2
      BY FlightIs
    <2> HIDE DEF command, dummy, again, cut
    <2> QED BY <2>1
  <1>10. l # "again"
    BY <1>7 DEF QuietOf
  <1> HIDE DEF n, d, r, l, m, i, cut
  <1>11. CASE l \in {"mark", "use", "release"}
    <2>1. /\ l = "mark" =>
               /\ m.sends = 0 /\ ~Complete(context, i, 1) /\ ~Complete(context, i, 2)
               /\ context.txbuf[i] = [req |-> r, parts |-> {}]
          /\ l = "use" => context.rxbuf[1][i] = [req |-> r, parts |-> {1, 2}]
          /\ l = "release" => m.answer = [req |-> r, parts |-> {1, 2}]
      BY <1>2, <1>7, <1>11 DEF QuietOf
    <2>2. QuietOf(r, l, n, d, bus')
      BY <1>2, <1>6, <1>11, <2>1 DEF QuietOf
    <2> QED BY <1>2, <2>2 DEF n, d
  <1>12. CASE l = "send"
    <2>1. /\ m.sends = 0 /\ ~Complete(context, i, 1) /\ ~Complete(context, i, 2)
          /\ context.txbuf[i] = [req |-> r, parts |-> {}]
          /\ Only(bus, i, {}) /\ context.queue[2][i] = None
      BY <1>2, <1>7, <1>12 DEF QuietOf
    <2>2. d.queue[2][i] = None /\ Only(bus', i, {})
      BY <1>5, <1>8, <2>1
    <2>3. QuietOf(r, l, n, d, bus')
      BY <1>2, <1>6, <1>12, <2>1, <2>2 DEF QuietOf
    <2> QED BY <1>2, <2>3 DEF n, d
  <1>13. CASE l \in {"mark2", "send2"}
    <2>1. /\ m.sends = 1 /\ ~m.in[1] /\ ~m.in[2]
          /\ ~Complete(context, i, 1) /\ ~Complete(context, i, 2)
          /\ Only(bus, i, {command}) /\ context.queue[dummy.port][i] = None
      BY <1>2, <1>7, <1>13 DEF QuietOf, cut
    <2>2. d.queue[dummy.port][i] = None /\ Only(bus', i, {command})
      BY <1>5, <1>8, <1>9, <2>1
    <2>3. Spot(command, n, d, bus')
      BY <1>4, <1>13 DEF Flight
    <2>4. QuietOf(r, l, n, d, bus')
      BY <1>2, <1>6, <1>13, <2>1, <2>2, <2>3 DEF QuietOf
    <2> QED BY <1>2, <2>4 DEF n, d
  <1>14. CASE l \in {"poll1", "poll2", "timer"}
    <2>1. /\ m.sends = 1
          /\ Complete(context, i, 1) => m.in[1]
          /\ Complete(context, i, 2) => m.in[2]
          /\ Only(bus, i, {command, dummy})
      BY <1>2, <1>7, <1>14 DEF QuietOf, cut
    <2>2. Only(bus', i, {command, dummy})
      BY <1>5, <2>1
    <2>3. Spot(command, n, d, bus') /\ Spot(dummy, n, d, bus')
      BY <1>4, <1>14 DEF Flight
    <2>4. QuietOf(r, l, n, d, bus')
      BY <1>2, <1>6, <1>14, <2>1, <2>2, <2>3 DEF QuietOf
    <2> QED BY <1>2, <2>4 DEF n, d
  <1>15. CASE l \in {"mark3", "resend"}
    <2>1. /\ cut /\ m.sends = 1 /\ context.queue[1][i] = None
          /\ Only(bus, i, {}) /\ context.queue[2][i] = None
          /\ context.txbuf[i] = [req |-> r, parts |-> {1}]
          /\ l = "resend" => ~Complete(context, i, 2)
      BY <1>2, <1>7, <1>15 DEF QuietOf, cut
    <2>2. d.queue[1][i] = None /\ d.queue[2][i] = None /\ Only(bus', i, {})
      BY <1>5, <1>8, <2>1
    <2>3. QuietOf(r, l, n, d, bus')
      BY <1>2, <1>6, <1>15, <2>1, <2>2 DEF QuietOf
    <2> QED BY <1>2, <2>3 DEF n, d
  <1>16. CASE l = "rewait"
    <2>1. /\ cut /\ m.sends = 1 /\ context.queue[1][i] = None
          /\ Only(bus, i, {again})
          /\ Complete(context, i, 2) => m.in[2]
      BY <1>2, <1>7, <1>16 DEF QuietOf, cut
    <2>2. d.queue[1][i] = None /\ Only(bus', i, {again})
      BY <1>5, <1>8, <1>9, <2>1
    <2>3. Spot(again, n, d, bus')
      BY <1>4, <1>16 DEF Flight
    <2>4. QuietOf(r, l, n, d, bus')
      BY <1>2, <1>6, <1>16, <2>1, <2>2, <2>3 DEF QuietOf
    <2> QED BY <1>2, <2>4 DEF n, d
  <1>17. l \in Labels /\ l \notin {"idle", "scan", "closing"}
    BY <1>2
  <1> QED BY <1>10, <1>11, <1>12, <1>13, <1>14, <1>15, <1>16, <1>17 DEF Labels

LEMMA QuietFound ==
  ASSUME SetupsAssumption, MuxType, IndexInv, IndexInv', context.setup.red, bus'.fails = 0,
         NEW t \in MuxTasks, MX!Found(t)
  PROVE  QuietOf(MX!Req(t)', pc'[t], me'[t], context', bus')
  <1> DEFINE i == me[t].idx
             d == context'
             n == me'[t]
             r == MX!Req(t)
  <1>1. /\ TaskStep(t) /\ bus' = bus /\ pc[t] = "scan" /\ pc'[t] = "mark"
        /\ \A q \in PortsOf(context) : d.stat[q][i] = IF q = 1 THEN "ALLOC" ELSE context.stat[q][i]
        /\ d.txbuf[i] = [req |-> r, parts |-> {}]
        /\ n.idx = i /\ n.req = me[t].req /\ n.sends = me[t].sends
    BY FoundDoes DEF SameCall
  <1>2. /\ MX!Req(t)' = r /\ PortsOf(context) = {1, 2} /\ i \in IdxOf(context) /\ me[t].sends = 0
    BY <1>1, ActIs DEF TaskOk
  <1>3. ~Complete(d, i, 1)
    BY <1>1, <1>2 DEF Complete
  <1>4. ~Complete(d, i, 2)
    <2> SUFFICES ASSUME context.stat[2][i] = "COMPLETE" PROVE FALSE
      BY <1>1, <1>2 DEF Complete
    <2>1. PICK u \in MuxTasks : Held(u) /\ me[u].idx = i
      BY <1>2 DEF IndexInv, MuxTasks
    <2>2. u # t
      BY <1>1, <2>1 DEF Held
    <2>3. pc'[u] = pc[u] /\ me'[u] = me[u] /\ context'.setup = context.setup
      BY <1>1, <2>2 DEF TaskStep, Beside
    <2>4. Held(u)' /\ Held(t)'
      BY <1>1, <2>1, <2>3 DEF Held
    <2>5. t \in context'.setup.tasks /\ u \in context'.setup.tasks
      BY <2>3 DEF MuxTasks
    <2>6. me'[u].idx # me'[t].idx
      BY <2>2, <2>4, <2>5 DEF IndexInv
    <2> QED BY <1>1, <2>1, <2>3, <2>6
  <1> HIDE DEF i, d, n, r
  <1>5. QuietOf(r, "mark", n, d, bus')
    BY <1>1, <1>2, <1>3, <1>4 DEF QuietOf
  <1> QED BY <1>1, <1>2, <1>5 DEF n, d

\* What every lemma on a step of a quiet request starts from.
QuietNow(t) ==
    /\ MuxType /\ context.setup.red /\ bus'.fails = 0 /\ ~me'[t].overdue /\ ~me'[t].missed
    /\ ~me'[t].dropped /\ QuietOf(MX!Req(t), pc[t], me[t], context, bus)

LEMMA QuietMarks ==
  ASSUME NEW t \in MuxTasks, QuietNow(t),
         MX!MarkPrimary(t) \/ MX!MarkSecondary(t) \/ MX!MarkResend(t)
  PROVE  QuietOf(MX!Req(t)', pc'[t], me'[t], context', bus')
  <1> DEFINE i == me[t].idx
             m == me[t]
             d == context'
             n == me'[t]
             r == MX!Req(t)
             l == pc[t]
             cut == bus.cut
             command == Command(r, i, cut)
  <1>0. MuxType /\ QuietOf(r, l, m, context, bus) /\ context.setup.red
    BY DEF QuietNow
  <1>1. CASE MX!MarkPrimary(t)
    <2>1. /\ TaskStep(t) /\ bus' = bus /\ l = "mark" /\ pc'[t] = "send"
          /\ StatSet(context, d, 1, i, "TX") /\ n.idx = i
          /\ n.overdue = (m.overdue \/ (context.setup.red /\ MX!Overdue(i)))
          /\ n.req = m.req /\ n.sends = m.sends
      BY <1>0, <1>1, MarkPrimaryDoes DEF SameCall
    <2>2. MX!Req(t)' = r /\ PortsOf(context) = {1, 2}
      BY <1>0, <2>1, ActIs
    <2>3. /\ m.sends = 0 /\ ~Complete(context, i, 1) /\ ~Complete(context, i, 2)
          /\ context.txbuf[i] = [req |-> r, parts |-> {}]
      BY <1>0, <2>1 DEF QuietOf
    <2>4. Only(bus, i, {}) /\ context.queue[2][i] = None
      BY <1>0, <2>1 DEF MX!Overdue, Only, Flies, QuietNow
    <2>5. d.queue = context.queue /\ d.txbuf = context.txbuf /\ ~Complete(d, i, 1) /\ ~Complete(d, i, 2)
      BY <2>1, <2>2, <2>3 DEF StatSet, Complete
    <2> HIDE DEF d, n, r, m, i, l
    <2>6. QuietOf(r, "send", n, d, bus')
      BY <2>1, <2>3, <2>4, <2>5 DEF QuietOf
    <2> QED BY <2>1, <2>2, <2>6 DEF d, n
  <1>2. CASE MX!MarkSecondary(t) \/ MX!MarkResend(t)
    <2>1. /\ TaskStep(t) /\ bus' = bus /\ n = m /\ StatSet(context, d, 2, i, "TX")
          /\ \/ l = "mark2" /\ pc'[t] = "send2"
             \/ l = "mark3" /\ pc'[t] = "resend"
      BY <1>0, <1>2, MarkAgainDoes
    <2>2. MX!Req(t)' = r /\ PortsOf(context) = {1, 2}
      BY <1>0, <2>1, ActIs
    <2>3. /\ d.queue = context.queue /\ d.txbuf = context.txbuf /\ ~Complete(d, i, 2)
          /\ d.rxbuf = context.rxbuf /\ d.rxsa = context.rxsa
          /\ Complete(d, i, 1) <=> Complete(context, i, 1)
      BY <2>1, <2>2 DEF StatSet, Complete
    <2>4. Spot(command, m, context, bus) => Spot(command, n, d, bus')
      BY <2>1, <2>3 DEF Spot
    <2>5. m.idx = i
      OBVIOUS
    <2> HIDE DEF d, n, r, m, i, l
    <2>6. CASE l = "mark2" /\ pc'[t] = "send2"
      <3>1. QuietOf(r, "send2", n, d, bus')
        BY <1>0, <2>1, <2>3, <2>4, <2>5, <2>6 DEF QuietOf, cut
      <3> QED BY <2>2, <2>6, <3>1 DEF d, n
    <2>7. CASE l = "mark3" /\ pc'[t] = "resend"
      <3>1. QuietOf(r, "resend", n, d, bus')
        BY <1>0, <2>1, <2>3, <2>5, <2>7 DEF QuietOf
      <3> QED BY <2>2, <2>7, <3>1 DEF d, n
    <2> QED BY <2>1, <2>6, <2>7
  <1> QED BY <1>1, <1>2

LEMMA QuietUses ==
  ASSUME NEW t \in MuxTasks, QuietNow(t),
         MX!PollAgain(t) \/ MX!Retry(t) \/ MX!GiveUp(t) \/ MX!UseAnswer(t)
  PROVE  QuietOf(MX!Req(t)', pc'[t], me'[t], context', bus')
  <1> DEFINE m == me[t]
             n == me'[t]
             r == MX!Req(t)
             l == pc[t]
  <1>0. MuxType /\ QuietOf(r, l, m, context, bus) /\ context.setup.red
    BY DEF QuietNow
  <1>1. CASE MX!UseAnswer(t)
    <2> DEFINE got == context.rxbuf[1][m.idx]
    <2>1. /\ TaskStep(t) /\ l = "use" /\ pc'[t] = "release" /\ n.idx = m.idx /\ n.req = m.req
          /\ n.answer = IF got.parts = {} THEN None ELSE got
      BY <1>0, <1>1, UseDoes
    <2>2. MX!Req(t)' = r
      BY <1>0, <2>1, ActIs
    <2>3. got = [req |-> r, parts |-> {1, 2}]
      BY <1>0, <2>1 DEF QuietOf
    <2>4. got.parts # {}
      BY <2>3
    <2>5. n.answer = [req |-> r, parts |-> {1, 2}]
      BY <2>1, <2>3, <2>4
    <2> HIDE DEF n, r
    <2>6. QuietOf(r, "release", n, context', bus')
      BY <2>5 DEF QuietOf
    <2> QED BY <2>1, <2>2, <2>6 DEF n
  <1>2. CASE MX!PollAgain(t) \/ MX!Retry(t) \/ MX!GiveUp(t)
    <2>1. /\ TaskStep(t) /\ bus' = bus /\ me' = me /\ context' = context
          /\ l = "again" \/ (l = "timer" /\ pc'[t] = "poll1")
      BY <1>0, <1>2, TurnsDo
    <2>2. MX!Req(t)' = r
      BY <1>0, <2>1, ActIs
    <2>3. l = "timer" /\ pc'[t] = "poll1"
      BY <1>0, <2>1 DEF QuietOf
    <2> HIDE DEF n, r, m, l
    <2>4. QuietOf(r, "poll1", m, context, bus)
      BY <1>0, <2>3 DEF QuietOf
    <2> QED BY <2>1, <2>2, <2>3, <2>4 DEF m
  <1> QED BY <1>1, <1>2

\* A send that succeeds.
LEMMA QuietSends ==
  ASSUME NEW t \in MuxTasks, QuietNow(t), NEW p, NEW f, Sent(t, p, f)
  PROVE  LET i == me[t].idx
             d == context'
         IN /\ bus'.net = bus.net \cup {f} /\ bus'.cut = bus.cut /\ bus'.cb = bus.cb
            /\ d.queue[1][i] = None /\ d.queue[2][i] = context.queue[2][i]
            /\ d.rxbuf = context.rxbuf /\ d.rxsa = context.rxsa /\ d.txbuf = context.txbuf
            /\ \A q \in {1, 2} : Complete(d, i, q) <=> Complete(context, i, q)
  <1>1. PortsOf(context) = {1, 2} /\ bus.fails \in Nat /\ bus'.fails = 0
    BY TypeIs DEF QuietNow
  <1>2. bus'.fails # bus.fails + 1
    BY <1>1
  <1> QED BY <1>1, <1>2 DEF Sent, SameFrames, Complete

LEMMA QuietGoesOut ==
  ASSUME NEW t \in MuxTasks, QuietNow(t), MX!SendPrimary(t)
  PROVE  QuietOf(MX!Req(t)', pc'[t], me'[t], context', bus')
  <1> DEFINE i == me[t].idx
             m == me[t]
             d == context'
             n == me'[t]
             r == MX!Req(t)
             cut == bus.cut
             f == MX!Travel(1, i, m.sends, "primary", context.txbuf[i])
             command == Command(r, i, cut)
             dummy == Dummy(i, cut)
  <1>0. MuxType /\ QuietOf(r, pc[t], m, context, bus) /\ context.setup.red
    BY DEF QuietNow
  <1>1. /\ TaskStep(t) /\ pc[t] = "send" /\ pc'[t] = "mark2" /\ Sent(t, 1, f)
        /\ n.idx = i /\ n.req = m.req /\ n.sends = m.sends + 1 /\ ~n.in[1] /\ ~n.in[2]
    BY <1>0, SendPrimaryDoes
  <1>2. MX!Req(t)' = r /\ i \in IdxOf(context) /\ context.txbuf[i] \in Contents
    BY <1>0, <1>1, ActIs DEF TaskOk
  <1>3. /\ m.sends = 0 /\ ~Complete(context, i, 1) /\ ~Complete(context, i, 2)
        /\ context.txbuf[i] = [req |-> r, parts |-> {}]
        /\ Only(bus, i, {}) /\ context.queue[2][i] = None
    BY <1>0, <1>1 DEF QuietOf
  <1>4. f = command
    <2>1. "primary" \in Ways
      BY DEF Ways
    <2> DEFINE w == context.txbuf[i]
               x == m.sends
    <2>2. MX!Travel(1, i, x, "primary", w)
             = [idx |-> i, n |-> x, sa |-> "primary",
                port |-> IF context.setup.red /\ ~bus.cut THEN 3 - 1 ELSE 1,
                content |-> [req |-> w.req,
                             parts |-> w.parts \cup
                                IF bus.cut THEN {1} ELSE IF 1 = 1 THEN {1, 2} ELSE {}]]
      <3>1. w \in Contents /\ x \in Nat /\ i \in IdxOf(context) /\ 1 \in PortsOf(context)
        BY <1>0, <1>1, <1>2, <1>3, TypeIs
      <3> HIDE DEF w, x, i
      <3> QED BY <1>0, <2>1, <3>1, TravelIs
    <2>3. w.req = r /\ w.parts = {} /\ x = 0 /\ context.setup.red
      BY <1>0, <1>3
    <2>4. f = MX!Travel(1, i, x, "primary", w)
      OBVIOUS
    <2> HIDE DEF f, r, i, m, w, x
    <2>5. /\ (IF context.setup.red /\ ~cut THEN 3 - 1 ELSE 1) = (IF cut THEN 1 ELSE 2)
          /\ ({} \cup IF cut THEN {1} ELSE IF 1 = 1 THEN {1, 2} ELSE {}) = (IF cut THEN {1} ELSE {1, 2})
      BY <2>3
    <2> QED BY <2>2, <2>3, <2>4, <2>5 DEF Command
  <1>5. /\ bus'.net = bus.net \cup {f} /\ bus'.cut = cut /\ bus'.cb = bus.cb
        /\ d.queue[1][i] = None /\ d.queue[2][i] = None
        /\ ~Complete(d, i, 1) /\ ~Complete(d, i, 2)
    BY <1>1, <1>3, QuietSends
  <1>6. /\ command.idx = i /\ command.port \in {1, 2} /\ dummy.port \in {1, 2}
    <2>1. /\ command.idx = i /\ command.port = IF cut THEN 1 ELSE 2
          /\ dummy.port = IF cut THEN 2 ELSE 1
      BY FlightIs
    <2> HIDE DEF command, dummy, cut
    <2> QED BY <2>1
  <1> HIDE DEF i, m, d, n, r, cut, f
  <1>7. n.sends = 1
    BY <1>1, <1>3
  <1>8. Only(bus', i, {command})
    BY <1>3, <1>4, <1>5 DEF Only, Flies
  <1>9. Spot(command, n, d, bus')
    <2> HIDE DEF command
    <2>1. command \in bus'.net /\ ~(bus'.cb # None /\ bus'.cb.frame = command)
      BY <1>3, <1>4, <1>5, <1>6 DEF Only, Flies
    <2>2. d.queue[command.port][i] = None /\ ~n.in[command.port] /\ n.idx = i
      BY <1>1, <1>5, <1>6
    <2> QED BY <2>1, <2>2 DEF Spot
  <1>10. d.queue[dummy.port][i] = None
    BY <1>5, <1>6
  <1>11. n.idx = i
    BY <1>1
  <1>12. QuietOf(r, "mark2", n, d, bus')
    BY <1>1, <1>5, <1>7, <1>8, <1>9, <1>10, <1>11 DEF QuietOf
  <1> QED BY <1>1, <1>2, <1>12 DEF n, d

LEMMA QuietDummy ==
  ASSUME NEW t \in MuxTasks, QuietNow(t), MX!SendSecondary(t)
  PROVE  QuietOf(MX!Req(t)', pc'[t], me'[t], context', bus')
  <1> DEFINE i == me[t].idx
             m == me[t]
             d == context'
             n == me'[t]
             r == MX!Req(t)
             cut == bus.cut
             f == MX!Travel(2, i, m.sends, "secondary", [req |-> None, parts |-> {}])
             command == Command(r, i, cut)
             dummy == Dummy(i, cut)
  <1>0. MuxType /\ QuietOf(r, pc[t], m, context, bus) /\ context.setup.red
    BY DEF QuietNow
  <1>1. /\ TaskStep(t) /\ pc[t] = "send2" /\ pc'[t] = "poll1" /\ Sent(t, 2, f)
        /\ [req |-> None, parts |-> {}] \in Contents
        /\ n.idx = i /\ n.req = m.req /\ n.sends = m.sends /\ n.in[1] = m.in[1] /\ n.in[2] = m.in[2]
        /\ n.dropped = (m.dropped \/ MX!SweepsAnswer(t))
    BY <1>0, SendSecondaryDoes DEF SameCall, SameIn
  <1>2. MX!Req(t)' = r /\ i \in IdxOf(context)
    BY <1>0, <1>1, ActIs
  <1>3. /\ m.sends = 1 /\ ~m.in[1] /\ ~m.in[2]
        /\ ~Complete(context, i, 1) /\ ~Complete(context, i, 2)
        /\ Only(bus, i, {command}) /\ Spot(command, m, context, bus)
        /\ context.queue[dummy.port][i] = None
    BY <1>0, <1>1 DEF QuietOf
  <1>4. f = dummy
    <2>1. "secondary" \in Ways
      BY DEF Ways
    <2> DEFINE w == [req |-> None, parts |-> {}]
               x == m.sends
    <2>2. MX!Travel(2, i, x, "secondary", w)
             = [idx |-> i, n |-> x, sa |-> "secondary",
                port |-> IF context.setup.red /\ ~bus.cut THEN 3 - 2 ELSE 2,
                content |-> [req |-> w.req,
                             parts |-> w.parts \cup
                                IF bus.cut THEN {2} ELSE IF 2 = 1 THEN {1, 2} ELSE {}]]
      <3>1. w \in Contents /\ x \in Nat /\ i \in IdxOf(context) /\ 2 \in PortsOf(context)
        BY <1>0, <1>1, <1>2, <1>3, TypeIs
      <3> HIDE DEF w, x, i
      <3> QED BY <1>0, <2>1, <3>1, TravelIs
    <2>3. w.req = None /\ w.parts = {} /\ x = 1 /\ context.setup.red
      BY <1>0, <1>3
    <2>4. f = MX!Travel(2, i, x, "secondary", w)
      OBVIOUS
    <2> HIDE DEF f, r, i, m, w, x
    <2>5. /\ (IF context.setup.red /\ ~cut THEN 3 - 2 ELSE 2) = (IF cut THEN 2 ELSE 1)
          /\ ({} \cup IF cut THEN {2} ELSE IF 2 = 1 THEN {1, 2} ELSE {}) = (IF cut THEN {2} ELSE {})
      BY <2>3
    <2> QED BY <2>2, <2>3, <2>4, <2>5 DEF Dummy
  <1>5. /\ bus'.net = bus.net \cup {f} /\ bus'.cut = cut /\ bus'.cb = bus.cb
        /\ d.queue[1][i] = None /\ d.queue[2][i] = context.queue[2][i]
        /\ ~Complete(d, i, 1) /\ ~Complete(d, i, 2)
        /\ d.rxbuf = context.rxbuf /\ d.rxsa = context.rxsa
    BY <1>1, <1>3, QuietSends
  <1>6. /\ command.idx = i /\ dummy.idx = i /\ command.content.req = r
        /\ command.port \in {1, 2} /\ dummy.port \in {1, 2} /\ command.port # dummy.port
        /\ command.sa = "primary" /\ dummy.sa = "secondary"
    <2>1. /\ command.idx = i /\ dummy.idx = i /\ command.content.req = r
          /\ command.port = IF cut THEN 1 ELSE 2
          /\ dummy.port = IF cut THEN 2 ELSE 1
          /\ command.sa = "primary" /\ dummy.sa = "secondary"
      BY FlightIs
    <2> HIDE DEF command, dummy, cut, r
    <2> QED BY <2>1
  <1>7. context.queue[1][i] = None
    <2>1. context.queue[1][i] = None \/ context.queue[1][i].content.req # r
      BY <1>1 DEF QuietNow, MX!SweepsAnswer
    <2>2. 1 \in {command.port, dummy.port}
      BY <1>6
    <2> QED BY <1>3, <1>6, <2>1, <2>2 DEF Spot
  <1> HIDE DEF i, m, d, n, r, cut, f, command, dummy
  <1>8. Only(bus', i, {command, dummy})
    BY <1>3, <1>4, <1>5 DEF Only, Flies
  <1>9. \A p \in {1, 2} : d.queue[p][i] = context.queue[p][i] /\ n.in[p] = m.in[p]
    BY <1>1, <1>5, <1>7
  <1>10. Spot(command, n, d, bus')
    <2>1. command \in bus'.net <=> command \in bus.net
      BY <1>4, <1>5, <1>6
    <2>2. d.queue[command.port][i] = context.queue[command.port][i] /\ ~n.in[command.port]
      BY <1>1, <1>3, <1>6, <1>9
    <2>3. n.idx = i /\ m.idx = i /\ n.in[command.port] = m.in[command.port]
      BY <1>1, <1>6, <1>9 DEF m, i
    <2> QED BY <1>3, <1>5, <2>1, <2>2, <2>3 DEF Spot
  <1>11. Spot(dummy, n, d, bus')
    <2>1. dummy \in bus'.net /\ ~(bus'.cb # None /\ bus'.cb.frame = dummy)
      BY <1>3, <1>4, <1>5, <1>6 DEF Only, Flies
    <2>2. d.queue[dummy.port][i] = None /\ ~n.in[dummy.port] /\ n.idx = i
      BY <1>1, <1>3, <1>6, <1>9
    <2> QED BY <2>1, <2>2 DEF Spot
  <1>12. n.idx = i /\ n.sends = 1
    BY <1>1, <1>3
  <1>13. QuietOf(r, "poll1", n, d, bus')
    BY <1>5, <1>8, <1>10, <1>11, <1>12 DEF QuietOf, command, dummy
  <1> QED BY <1>1, <1>2, <1>13 DEF n, d

LEMMA QuietResends ==
  ASSUME NEW t \in MuxTasks, QuietNow(t), MX!Resend(t)
  PROVE  QuietOf(MX!Req(t)', pc'[t], me'[t], context', bus')
  <1> DEFINE i == me[t].idx
             m == me[t]
             d == context'
             n == me'[t]
             r == MX!Req(t)
             f == MX!Travel(2, i, m.sends, "primary", context.txbuf[i])
             again == Again(r, i)
  <1>0. MuxType /\ QuietOf(r, pc[t], m, context, bus) /\ context.setup.red
    BY DEF QuietNow
  <1>1. /\ TaskStep(t) /\ pc[t] = "resend" /\ pc'[t] = "rewait" /\ Sent(t, 2, f)
        /\ n.idx = i /\ n.req = m.req /\ n.sends = m.sends /\ ~n.in[2]
    BY <1>0, ResendDoes DEF SameCall
  <1>2. MX!Req(t)' = r /\ i \in IdxOf(context) /\ context.txbuf[i] \in Contents
    BY <1>0, <1>1, ActIs DEF TaskOk
  <1>3. /\ bus.cut /\ m.sends = 1 /\ context.queue[2][i] = None
        /\ Only(bus, i, {}) /\ context.txbuf[i] = [req |-> r, parts |-> {1}]
        /\ ~Complete(context, i, 2)
    BY <1>0, <1>1 DEF QuietOf
  <1>4. f = again
    <2>1. "primary" \in Ways
      BY DEF Ways
    <2> DEFINE w == context.txbuf[i]
               x == m.sends
    <2>2. MX!Travel(2, i, x, "primary", w)
             = [idx |-> i, n |-> x, sa |-> "primary",
                port |-> IF context.setup.red /\ ~bus.cut THEN 3 - 2 ELSE 2,
                content |-> [req |-> w.req,
                             parts |-> w.parts \cup
                                IF bus.cut THEN {2} ELSE IF 2 = 1 THEN {1, 2} ELSE {}]]
      <3>1. w \in Contents /\ x \in Nat /\ i \in IdxOf(context) /\ 2 \in PortsOf(context)
        BY <1>0, <1>1, <1>2, <1>3, TypeIs
      <3> HIDE DEF w, x, i
      <3> QED BY <1>0, <2>1, <3>1, TravelIs
    <2>3. w.req = r /\ w.parts = {1} /\ x = 1 /\ context.setup.red
      BY <1>0, <1>3
    <2>4. f = MX!Travel(2, i, x, "primary", w)
      OBVIOUS
    <2> HIDE DEF f, r, i, m, w, x
    <2>5. /\ (IF context.setup.red /\ ~bus.cut THEN 3 - 2 ELSE 2) = 2
          /\ ({1} \cup IF bus.cut THEN {2} ELSE IF 2 = 1 THEN {1, 2} ELSE {}) = {1, 2}
      BY <1>3
    <2> QED BY <2>2, <2>3, <2>4, <2>5 DEF Again
  <1>5. /\ bus'.net = bus.net \cup {f} /\ bus'.cut = bus.cut /\ bus'.cb = bus.cb
        /\ d.queue[1][i] = None /\ d.queue[2][i] = None /\ ~Complete(d, i, 2)
    BY <1>1, <1>3, QuietSends
  <1>6. again.idx = i /\ again.port = 2
    BY FlightIs
  <1> HIDE DEF i, m, d, n, r, f, again
  <1>7. Only(bus', i, {again})
    BY <1>3, <1>4, <1>5 DEF Only, Flies
  <1>8. Spot(again, n, d, bus')
    <2>1. again \in bus'.net /\ ~(bus'.cb # None /\ bus'.cb.frame = again)
      BY <1>3, <1>4, <1>5, <1>6 DEF Only, Flies
    <2>2. d.queue[again.port][i] = None /\ ~n.in[again.port] /\ n.idx = i
      BY <1>1, <1>5, <1>6
    <2> QED BY <2>1, <2>2 DEF Spot
  <1>9. n.idx = i /\ n.sends = 1
    BY <1>1, <1>3
  <1>10. QuietOf(r, "rewait", n, d, bus')
    BY <1>3, <1>5, <1>7, <1>8, <1>9 DEF QuietOf, again
  <1> QED BY <1>1, <1>2, <1>10 DEF n, d

\* A frame that waits is received.
LEMMA SpotTakes ==
  ASSUME NEW x, NEW m, NEW n, NEW c, NEW d, NEW b, NEW p \in {1, 2}, PortsOf(c) = {1, 2},
         Spot(x, m, c, b), x.port \in {1, 2}, Received(p, m, n, c, d)
  PROVE  Spot(x, n, d, b)
  <1> DEFINE i == m.idx
             g == c.queue[p][i]
  <1>1. /\ g # None /\ n.idx = i /\ n.in[p] /\ \A q \in {1, 2} : q # p => n.in[q] = m.in[q]
        /\ \A q \in {1, 2} : /\ d.queue[q][i] = IF q = p THEN None ELSE c.queue[q][i]
                             /\ d.rxbuf[q][i] = IF q = p THEN g.content ELSE c.rxbuf[q][i]
                             /\ d.rxsa[q][i] = IF q = p THEN g.sa ELSE c.rxsa[q][i]
    BY DEF Received, InSet
  <1>2. CASE x.port = p
    <2>1. g = x /\ x \notin b.net /\ ~(b.cb # None /\ b.cb.frame = x)
      BY <1>1, <1>2 DEF Spot
    <2>2. d.queue[x.port][i] = None /\ d.rxbuf[x.port][i] = x.content /\ d.rxsa[x.port][i] = x.sa
      BY <1>1, <1>2, <2>1
    <2> HIDE DEF i, g
    <2> QED BY <1>1, <1>2, <2>1, <2>2 DEF Spot
  <1>3. CASE x.port # p
    <2>1. /\ d.queue[x.port][i] = c.queue[x.port][i] /\ d.rxbuf[x.port][i] = c.rxbuf[x.port][i]
          /\ d.rxsa[x.port][i] = c.rxsa[x.port][i] /\ n.in[x.port] = m.in[x.port]
      BY <1>1, <1>3
    <2> QED BY <1>1, <2>1 DEF Spot
  <1> QED BY <1>2, <1>3

LEMMA QuietPolls ==
  ASSUME NEW t \in MuxTasks, QuietNow(t),
         MX!PollPrimary(t) \/ MX!PollSecondary(t) \/ MX!Rewait(t)
  PROVE  QuietOf(MX!Req(t)', pc'[t], me'[t], context', bus')
  <1> DEFINE i == me[t].idx
             m == me[t]
             d == context'
             n == me'[t]
             r == MX!Req(t)
             l == pc[t]
             k == pc'[t]
             cut == bus.cut
             command == Command(r, i, cut)
             dummy == Dummy(i, cut)
             again == Again(r, i)
  <1>0. MuxType /\ QuietOf(r, l, m, context, bus) /\ context.setup.red
    BY DEF QuietNow
  <1>1. /\ TaskStep(t) /\ bus' = bus /\ n.idx = i /\ n.req = m.req /\ n.sends = m.sends
        /\ \/ l = "poll1" /\ k = "poll2" /\ (Takes(t, 1) \/ Leaves(t, 1))
           \/ l = "poll2" /\ k = "timer" /\ (Takes(t, 2) \/ Leaves(t, 2))
           \/ l = "rewait" /\ k = "rewait" /\ (Takes(t, 2) \/ Leaves(t, 2))
    BY <1>0, PollDoes DEF SameCall
  <1>2. MX!Req(t)' = r /\ PortsOf(context) = {1, 2}
    BY <1>0, <1>1, ActIs
  <1>3. PICK p \in {1, 2} : /\ Takes(t, p) \/ Leaves(t, p)
                            /\ l = "rewait" => p = 2
    BY <1>1
  <1>4. /\ command.port \in {1, 2} /\ dummy.port \in {1, 2} /\ again.port \in {1, 2}
    <2>1. /\ command.port = IF cut THEN 1 ELSE 2
          /\ dummy.port = IF cut THEN 2 ELSE 1
          /\ again.port = 2
      BY FlightIs
    <2> HIDE DEF command, dummy, again, cut
    <2> QED BY <2>1
  <1>5. /\ l \in {"poll1", "poll2", "rewait"} => k \in {"poll1", "poll2", "timer", "rewait"}
        /\ l \in {"poll1", "poll2", "rewait"}
        /\ l \in {"poll1", "poll2"} => k \in {"poll2", "timer"}
        /\ l = "rewait" => k = "rewait"
    BY <1>1
  <1>6. CASE Leaves(t, p)
    <2>1. n = m /\ d = context
      BY <1>6 DEF Leaves
    <2> HIDE DEF n, d, r, m, l, k, i
    <2>2. QuietOf(r, k, m, context, bus)
      BY <1>0, <1>5 DEF QuietOf
    <2> QED BY <1>1, <1>2, <2>1, <2>2 DEF n, d, k
  <1>7. CASE Takes(t, p)
    <2>1. Received(p, m, n, context, d) /\ context.setup.red /\ m.idx = i
      BY <1>0, <1>1, <1>7 DEF Takes, Received
    <2>2. \A x : x.port \in {1, 2} /\ Spot(x, m, context, bus) => Spot(x, n, d, bus)
      <3> HIDE DEF n, d, m
      <3> QED BY <1>2, <2>1, SpotTakes
    <2>3. \A q \in {1, 2} : (Complete(context, i, q) => m.in[q]) => (Complete(d, i, q) => n.in[q])
      BY <1>2, <2>1 DEF Received, InSet, Complete
    <2>4. p = 2 => d.queue[1][i] = context.queue[1][i]
      BY <1>2, <2>1 DEF Received, InSet
    <2>5. n.idx = i /\ n.sends = m.sends
      BY <1>1
    <2> HIDE DEF n, d, r, m, l, k, i, cut, command, dummy, again
    <2>6. CASE l \in {"poll1", "poll2"}
      <3>1. /\ m.sends = 1
            /\ Complete(context, i, 1) => m.in[1]
            /\ Complete(context, i, 2) => m.in[2]
            /\ Only(bus, i, {command, dummy})
            /\ Spot(command, m, context, bus) /\ Spot(dummy, m, context, bus)
        BY <1>0, <2>1, <2>6 DEF QuietOf, command, dummy, cut
      <3>2. /\ Complete(d, i, 1) => n.in[1]
            /\ Complete(d, i, 2) => n.in[2]
            /\ Spot(command, n, d, bus) /\ Spot(dummy, n, d, bus)
        BY <1>4, <2>2, <2>3, <3>1
      <3>3. k \in {"poll2", "timer"}
        BY <1>5, <2>6
      <3>4. QuietOf(r, k, n, d, bus)
        BY <2>5, <3>1, <3>2, <3>3 DEF QuietOf, command, dummy, cut
      <3> QED BY <1>1, <1>2, <3>4 DEF n, d, k
    <2>7. CASE l = "rewait"
      <3>1. /\ cut /\ m.sends = 1 /\ context.queue[1][i] = None
            /\ Complete(context, i, 2) => m.in[2]
            /\ Only(bus, i, {again}) /\ Spot(again, m, context, bus)
        BY <1>0, <2>1, <2>7 DEF QuietOf, again, cut
      <3>2. /\ Complete(d, i, 2) => n.in[2]
            /\ Spot(again, n, d, bus) /\ d.queue[1][i] = None
        BY <1>3, <1>4, <2>2, <2>3, <2>4, <2>7, <3>1
      <3>3. k = "rewait"
        BY <1>5, <2>7
      <3>4. QuietOf(r, k, n, d, bus)
        BY <2>5, <3>1, <3>2, <3>3 DEF QuietOf, again, cut
      <3> QED BY <1>1, <1>2, <3>4 DEF n, d, k
    <2> QED BY <1>5, <2>6, <2>7
  <1> QED BY <1>3, <1>6, <1>7

\* When the wait is over and nothing is late, the frame is in.
LEMMA SpotIn ==
  ASSUME NEW x, NEW m, NEW c, NEW b, Spot(x, m, c, b), x.idx = m.idx,
         \A f : ~Flies(b, m.idx, f), c.queue[x.port][m.idx] = None
  PROVE  /\ m.in[x.port] /\ c.rxbuf[x.port][m.idx] = x.content
         /\ c.rxsa[x.port][m.idx] = x.sa
  BY DEF Spot, Flies

LEMMA QuietWaits ==
  ASSUME NEW t \in MuxTasks, QuietNow(t), MX!WaitOver(t)
  PROVE  QuietOf(MX!Req(t)', pc'[t], me'[t], context', bus')
  <1> DEFINE i == me[t].idx
             m == me[t]
             d == context'
             n == me'[t]
             r == MX!Req(t)
             l == pc[t]
             k == pc'[t]
             cut == bus.cut
             command == Command(r, i, cut)
             dummy == Dummy(i, cut)
             crossed == /\ context.setup.red /\ m.in[1] /\ m.in[2]
                        /\ context.rxsa[1][i] = "secondary" /\ context.rxsa[2][i] = "primary"
             broken == /\ context.setup.red /\ m.in[2] /\ context.rxsa[2][i] = "secondary"
                       /\ m.in[1] => context.rxsa[1][i] = "primary"
  <1>0. MuxType /\ QuietOf(r, l, m, context, bus) /\ context.setup.red
    BY DEF QuietNow
  <1>1. /\ TaskStep(t) /\ bus' = bus /\ n.idx = i /\ n.req = m.req /\ n.sends = m.sends
        /\ n.missed = MX!Missed(t) /\ l = "timer"
        /\ \/ crossed /\ k = "use" /\ RxSet(context, d, 1, i, context.rxbuf[2][i])
           \/ /\ broken /\ k = "mark3"
              /\ IF m.in[1] THEN TxSet(context, d, i, context.rxbuf[1][i]) ELSE d = context
           \/ /\ ~crossed /\ ~broken /\ d = context
              /\ k = IF m.in[1] THEN "use" ELSE "again"
    BY <1>0, WaitOverDoes DEF SameCall
  <1>2. MX!Req(t)' = r /\ PortsOf(context) = {1, 2}
    BY <1>0, <1>1, ActIs
  <1>3. (\A f : ~Flies(bus, i, f)) /\ context.queue[1][i] = None /\ context.queue[2][i] = None
    <2>1. ~MX!Overdue(i) /\ context.queue[1][i] = None
      BY <1>1 DEF QuietNow, MX!Missed
    <2> QED BY <1>0, <2>1 DEF MX!Overdue, Flies
  <1>4. /\ m.sends = 1 /\ Spot(command, m, context, bus) /\ Spot(dummy, m, context, bus)
    BY <1>0, <1>1 DEF QuietOf
  <1>5. /\ command.idx = i /\ dummy.idx = i /\ m.idx = i
        /\ command.sa = "primary" /\ dummy.sa = "secondary"
        /\ command.port = IF cut THEN 1 ELSE 2
        /\ dummy.port = IF cut THEN 2 ELSE 1
        /\ command.content = [req |-> r, parts |-> IF cut THEN {1} ELSE {1, 2}]
    <2>1. /\ command.idx = i /\ dummy.idx = i
          /\ command.sa = "primary" /\ dummy.sa = "secondary"
          /\ command.port = IF cut THEN 1 ELSE 2
          /\ dummy.port = IF cut THEN 2 ELSE 1
      BY FlightIs
    <2>2. command.content = [req |-> r, parts |-> IF cut THEN {1} ELSE {1, 2}]
      BY DEF Command
    <2>3. m.idx = i
      OBVIOUS
    <2> HIDE DEF command, dummy, m, i
    <2> QED BY <2>1, <2>2, <2>3
  <1>6. Only(bus', i, {})
    BY <1>1, <1>3 DEF Only
  <1> HIDE DEF d, n, r, m, l, k, i, cut, command, dummy, crossed, broken
  <1>7. /\ m.in[command.port] /\ context.rxbuf[command.port][i] = command.content
        /\ context.rxsa[command.port][i] = "primary"
        /\ m.in[dummy.port] /\ context.rxsa[dummy.port][i] = "secondary"
    BY <1>3, <1>4, <1>5, SpotIn
  <1>8. CASE cut
    <2>1. /\ m.in[1] /\ m.in[2] /\ context.rxsa[1][i] = "primary" /\ context.rxsa[2][i] = "secondary"
          /\ context.rxbuf[1][i] = [req |-> r, parts |-> {1}]
      BY <1>5, <1>7, <1>8
    <2>2. broken /\ ~crossed
      BY <1>0, <2>1 DEF broken, crossed
    <2>3. k = "mark3" /\ TxSet(context, d, i, context.rxbuf[1][i])
      BY <1>1, <2>1, <2>2
    <2>4. d.queue = context.queue /\ d.txbuf[i] = [req |-> r, parts |-> {1}]
      BY <2>1, <2>3 DEF TxSet
    <2>5. n.idx = i /\ n.sends = 1 /\ bus'.cut
      BY <1>1, <1>4, <1>8 DEF cut
    <2>6. QuietOf(r, k, n, d, bus')
      BY <1>3, <1>6, <2>3, <2>4, <2>5 DEF QuietOf
    <2> QED BY <1>2, <2>6 DEF n, d, k
  <1>9. CASE ~cut
    <2>1. /\ m.in[1] /\ m.in[2] /\ context.rxsa[1][i] = "secondary" /\ context.rxsa[2][i] = "primary"
          /\ context.rxbuf[2][i] = [req |-> r, parts |-> {1, 2}]
      BY <1>5, <1>7, <1>9
    <2>2. crossed /\ ~broken
      BY <1>0, <2>1 DEF broken, crossed
    <2>3. k = "use" /\ RxSet(context, d, 1, i, context.rxbuf[2][i])
      BY <1>1, <2>1, <2>2
    <2>4. d.rxbuf[1][i] = [req |-> r, parts |-> {1, 2}]
      BY <1>2, <2>1, <2>3 DEF RxSet
    <2>5. n.idx = i
      BY <1>1
    <2>6. QuietOf(r, k, n, d, bus')
      BY <2>3, <2>4, <2>5 DEF QuietOf
    <2> QED BY <1>2, <2>6 DEF n, d, k
  <1> QED BY <1>8, <1>9

LEMMA QuietRewaits ==
  ASSUME NEW t \in MuxTasks, QuietNow(t), MX!RewaitOver(t)
  PROVE  QuietOf(MX!Req(t)', pc'[t], me'[t], context', bus')
  <1> DEFINE i == me[t].idx
             m == me[t]
             d == context'
             n == me'[t]
             r == MX!Req(t)
             again == Again(r, i)
  <1>0. MuxType /\ QuietOf(r, pc[t], m, context, bus) /\ context.setup.red
    BY DEF QuietNow
  <1>1. /\ TaskStep(t) /\ bus' = bus /\ n.idx = i /\ n.req = m.req
        /\ n.missed = MX!Missed(t) /\ pc[t] = "rewait"
        /\ m.in[2] => pc'[t] = "use" /\ RxSet(context, d, 1, i, context.rxbuf[2][i])
    BY <1>0, RewaitOverDoes DEF SameCall
  <1>2. MX!Req(t)' = r /\ PortsOf(context) = {1, 2}
    BY <1>0, <1>1, ActIs
  <1>3. (\A f : ~Flies(bus, i, f)) /\ context.queue[2][i] = None
    <2>1. ~MX!Overdue(i)
      BY <1>1 DEF QuietNow, MX!Missed
    <2> QED BY <1>0, <2>1 DEF MX!Overdue, Flies
  <1>4. Spot(again, m, context, bus)
    BY <1>0, <1>1 DEF QuietOf
  <1>5. /\ again.idx = i /\ again.port = 2 /\ again.content = [req |-> r, parts |-> {1, 2}]
        /\ m.idx = i
    BY DEF Again
  <1> HIDE DEF d, n, r, m, i, again
  <1>6. m.in[2] /\ context.rxbuf[2][i] = [req |-> r, parts |-> {1, 2}]
    BY <1>3, <1>4, <1>5, SpotIn
  <1>7. d.rxbuf[1][i] = [req |-> r, parts |-> {1, 2}]
    BY <1>1, <1>2, <1>6 DEF RxSet
  <1>8. QuietOf(r, "use", n, d, bus')
    BY <1>1, <1>7 DEF QuietOf
  <1> QED BY <1>1, <1>2, <1>6, <1>8 DEF n, d

\* A task that acts keeps a quiet request quiet.
LEMMA QuietActs ==
  ASSUME SetupsAssumption, MuxType, IndexInv, IndexInv', context.setup.red, bus'.fails = 0,
         NEW t \in MuxTasks, QuietTask(t), MX!Call(t)
  PROVE  QuietTask(t)'
  <1> SUFFICES ASSUME Held(t)', ~me'[t].overdue, ~me'[t].missed, ~me'[t].dropped
               PROVE  QuietOf(MX!Req(t)', pc'[t], me'[t], context', bus')
    BY DEF QuietTask
  <1>1. CASE MX!ecx_getindex(t) \/ MX!ScanNext(t) \/ MX!ecx_setbufstat(t)
    BY <1>1, GetIndexDoes, ScanNextDoes, SetbufstatDoes DEF Held
  <1>2. CASE MX!Found(t)
    BY <1>2, QuietFound
  <1>3. ASSUME Held(t), ~me[t].overdue, ~me[t].missed, ~me[t].dropped
        PROVE  QuietNow(t)
    BY <1>3 DEF QuietTask, QuietNow
  <1>4. CASE MX!MarkPrimary(t) \/ MX!MarkSecondary(t) \/ MX!MarkResend(t)
    <2>1. Held(t) /\ ~me[t].overdue /\ ~me[t].missed /\ ~me[t].dropped
      BY <1>4, MarkPrimaryDoes, MarkAgainDoes DEF Held
    <2> QED BY <1>3, <1>4, <2>1, QuietMarks, Zenon
  <1>5. CASE MX!SendPrimary(t)
    <2>1. Held(t) /\ ~me[t].overdue /\ ~me[t].missed /\ ~me[t].dropped
      BY <1>5, SendPrimaryDoes DEF Held, SamePast
    <2> QED BY <1>3, <1>5, <2>1, QuietGoesOut, Zenon
  <1>6. CASE MX!SendSecondary(t)
    <2>1. Held(t) /\ ~me[t].overdue /\ ~me[t].missed /\ ~me[t].dropped
      BY <1>6, SendSecondaryDoes DEF Held
    <2> QED BY <1>3, <1>6, <2>1, QuietDummy, Zenon
  <1>7. CASE MX!Resend(t)
    <2>1. Held(t) /\ ~me[t].overdue /\ ~me[t].missed /\ ~me[t].dropped
      BY <1>7, ResendDoes DEF Held
    <2> QED BY <1>3, <1>7, <2>1, QuietResends, Zenon
  <1>8. CASE MX!PollPrimary(t) \/ MX!PollSecondary(t) \/ MX!Rewait(t)
    <2>1. Held(t) /\ ~me[t].overdue /\ ~me[t].missed /\ ~me[t].dropped
      BY <1>8, PollDoes DEF Held, SamePast
    <2> QED BY <1>3, <1>8, <2>1, QuietPolls, Zenon
  <1>9. CASE MX!WaitOver(t)
    <2>1. Held(t) /\ ~me[t].overdue /\ ~me[t].missed /\ ~me[t].dropped
      BY <1>9, WaitOverDoes DEF Held, MX!Missed
    <2> QED BY <1>3, <1>9, <2>1, QuietWaits, Zenon
  <1>10. CASE MX!RewaitOver(t)
    <2>1. Held(t) /\ ~me[t].overdue /\ ~me[t].missed /\ ~me[t].dropped
      BY <1>10, RewaitOverDoes DEF Held, MX!Missed
    <2> QED BY <1>3, <1>10, <2>1, QuietRewaits, Zenon
  <1>11. CASE MX!PollAgain(t) \/ MX!Retry(t) \/ MX!GiveUp(t) \/ MX!UseAnswer(t)
    <2>1. Held(t) /\ ~me[t].overdue /\ ~me[t].missed /\ ~me[t].dropped
      BY <1>11, TurnsDo, UseDoes DEF Held, SamePast
    <2> QED BY <1>3, <1>11, <2>1, QuietUses, Zenon
  <1> QED BY <1>1, <1>2, <1>4, <1>5, <1>6, <1>7, <1>8, <1>9, <1>10, <1>11 DEF MX!Call

LEMMA QuietCall ==
  ASSUME SetupsAssumption, MuxType, IndexInv, IndexInv', QuietInv, NEW t \in MuxTasks, MX!Call(t)
  PROVE  QuietInv'
  <1>1. context'.setup = context.setup /\ (bus'.fails = 0 => bus.fails = 0)
    BY CallKeeps
  <1> SUFFICES ASSUME context.setup.red, bus'.fails = 0, NEW u \in MuxTasks
               PROVE  QuietTask(u)'
    BY <1>1 DEF QuietInv, MuxTasks
  <1>2. QuietTask(t) /\ QuietTask(u)
    BY <1>1 DEF QuietInv, MuxTasks
  <1>3. CASE u = t
    <2>1. QuietTask(t)'
      BY <1>2, QuietActs
    <2> QED BY <1>3, <2>1
  <1>4. CASE u # t
    BY <1>2, <1>4, OthersKeep
  <1> QED BY <1>3, <1>4

LEMMA QuietDriver ==
  ASSUME NoneAssumption, MuxType, QuietInv,
         MX!mux_rx_callback \/ MX!Posted \/ MX!Overrun \/ MX!LoseFrame
  PROVE  QuietInv'
  <1>1. PICK i : NetStep(i)
    BY CallbackDoes, PostedDoes, OverrunDoes, LoseDoes
  <1>2. context'.setup = context.setup /\ bus'.fails = bus.fails
    BY <1>1 DEF NetStep, Beside
  <1> SUFFICES ASSUME context.setup.red, bus.fails = 0, NEW u \in MuxTasks, Held(u)',
                      ~me'[u].overdue, ~me'[u].missed, ~me'[u].dropped
               PROVE  QuietOf(MX!Req(u)', pc'[u], me'[u], context', bus')
    BY <1>2 DEF QuietInv, QuietTask, MuxTasks
  <1>3. pc' = pc /\ SameTask(me'[u], me[u], i)
    BY <1>1 DEF NetStep
  <1>4. Held(u) /\ ~me[u].overdue /\ ~me[u].missed /\ ~me[u].dropped
    BY <1>3 DEF Held, SameTask
  <1>5. QuietOf(MX!Req(u), pc[u], me[u], context, bus)
    BY <1>4 DEF QuietInv, QuietTask, MuxTasks
  <1> QED BY <1>4, <1>5, QuietFlies

-------------------------------------------------------------------------------
(* The invariant of the VxWorks port holds *)

MuxAll == /\ MuxType /\ CloseInv /\ IndexInv /\ AnswerInv /\ QuietInv
          /\ Accounted(context)
MuxInv == scenario = "mux" => MuxAll

LEMMA MuxSteps ==
  ASSUME scenario = "mux", MuxType, MX!Next
  PROVE  \/ \E t \in MuxTasks : MX!Call(t)
         \/ MX!mux_rx_callback \/ MX!Posted \/ MX!Overrun \/ MX!LoseFrame
         \/ MX!CloseDrain \/ MX!CloseDelete
  <1>1. ~MX!ecx_setupnic
    BY DEF MX!ecx_setupnic
  <1> QED BY <1>1, TypeIs DEF MX!Next

LEMMA MuxCall ==
  ASSUME SetupsAssumption, NoneAssumption, MuxAll, NEW t \in MuxTasks, MX!Call(t)
  PROVE  MuxAll'
  <1>1. MuxType /\ CloseInv /\ IndexInv /\ AnswerInv /\ QuietInv /\ Accounted(context)
    BY DEF MuxAll
  <1>2. MuxType' /\ CloseInv' /\ IndexInv' /\ Accounted(context')
    BY <1>1, TypeCall, CloseCall, IndexCall, AccountCall
  <1>3. AnswerInv' /\ QuietInv'
    BY <1>1, <1>2, AnswerCall, QuietCall
  <1> QED BY <1>2, <1>3 DEF MuxAll

LEMMA MuxDriver ==
  ASSUME SetupsAssumption, NoneAssumption, MuxAll,
         MX!mux_rx_callback \/ MX!Posted \/ MX!Overrun \/ MX!LoseFrame
  PROVE  MuxAll'
  <1>1. MuxType /\ CloseInv /\ IndexInv /\ AnswerInv /\ QuietInv /\ Accounted(context)
    BY DEF MuxAll
  <1>2. MuxType' /\ CloseInv'
    BY <1>1, TypeDriver, CloseDriver, Zenon
  <1>3. IndexInv' /\ AnswerInv' /\ QuietInv'
    BY <1>1, IndexDriver, AnswerDriver, QuietDriver, Zenon
  <1>4. Accounted(context')
    BY <1>1, AccountOthers
  <1> QED BY <1>2, <1>3, <1>4 DEF MuxAll

LEMMA MuxCloses ==
  ASSUME SetupsAssumption, NoneAssumption, MuxAll, MX!CloseDrain \/ MX!CloseDelete
  PROVE  MuxAll'
  <1>1. MuxType /\ CloseInv /\ IndexInv /\ AnswerInv /\ QuietInv /\ Accounted(context)
    BY DEF MuxAll
  <1>2. MuxType' /\ CloseInv'
    BY <1>1, TypeClose, CloseCloses, Zenon
  <1>3. IndexInv' /\ AnswerInv' /\ QuietInv'
    BY <1>1, IndexCloses, AnswerCloses, Zenon
  <1>4. Accounted(context')
    BY <1>1, AccountOthers
  <1> QED BY <1>2, <1>3, <1>4 DEF MuxAll

LEMMA MuxNext ==
  ASSUME SetupsAssumption, NoneAssumption, MuxInv, [Next]_vars
  PROVE  MuxInv'
  <1>1. CASE MX!Next
    <2>1. CASE scenario = "mux"
      <3>1. MuxAll /\ MuxType
        BY <2>1 DEF MuxInv, MuxAll
      <3>2. \/ \E t \in MuxTasks : MX!Call(t)
            \/ MX!mux_rx_callback \/ MX!Posted \/ MX!Overrun \/ MX!LoseFrame
            \/ MX!CloseDrain \/ MX!CloseDelete
        BY <1>1, <2>1, <3>1, MuxSteps, Zenon
      <3>3. MuxAll'
        BY <3>1, <3>2, MuxCall, MuxDriver, MuxCloses, Zenon
      <3> QED BY <3>3 DEF MuxInv
    <2>2. CASE scenario # "mux"
      <3>1. MX!ecx_setupnic
        BY <1>1, <2>2 DEF MX!Next, MX!mux_rx_callback, MX!Posted, MX!Overrun, MX!LoseFrame,
           MX!CloseDrain, MX!CloseDelete, MX!AllIdle
      <3>2. MuxAll'
        BY <3>1, SetupInv DEF MuxAll
      <3> QED BY <3>2 DEF MuxInv
    <2> QED BY <2>1, <2>2
  <1>2. CASE UNCHANGED vars
    <2>1. MuxAll => MuxAll'
      BY <1>2 DEF vars, MuxAll, MuxType, CloseInv, IndexInv, Held, Onward, Accounted, AnswerInv,
         Sole, AnswerTask, QuietInv, QuietTask, MX!Req
    <2> QED BY <1>2, <2>1 DEF vars, MuxInv
  <1>3. CASE FR!Next \/ EM!Next \/ CL!Next \/ FE!Next
    BY <1>3, FrameApart, EmacApart, ClockApart, FecApart DEF MuxInv
  <1> QED BY <1>1, <1>2, <1>3 DEF Next

LEMMA ExclusiveIs ==
  ASSUME MuxInv
  PROVE  MX!IndexExclusive
  <1> SUFFICES ASSUME scenario = "mux", bus.fails = 0, NEW t \in MX!Tasks, NEW u \in MX!Tasks,
                      t # u, MX!Holding(t), MX!Holding(u)
               PROVE  me[t].idx # me[u].idx
    BY DEF MX!IndexExclusive, MX!Mux
  <1>1. MuxType /\ IndexInv
    BY DEF MuxInv, MuxAll
  <1>2. t \in context.setup.tasks /\ u \in context.setup.tasks
    BY <1>1, TypeIs DEF MuxTasks
  <1>3. Held(t) /\ Held(u)
    BY DEF MX!Holding, Held
  <1> QED BY <1>1, <1>2, <1>3 DEF IndexInv

LEMMA AccountedIs ==
  ASSUME MuxInv
  PROVE  MX!BuffersAccounted
  <1> SUFFICES ASSUME scenario = "mux"
               PROVE  context.owned =
                        MX!Cardinality({q \in MX!Port(context.setup.red) \X MX!Idx :
                                          context.queue[q[1]][q[2]] \notin {None, Deleted}})
    BY DEF MX!BuffersAccounted, MX!Mux
  <1>1. MuxType /\ Accounted(context)
    BY DEF MuxInv, MuxAll
  <1>2. Waiting(context) = {q \in MX!Port(context.setup.red) \X MX!Idx :
                              context.queue[q[1]][q[2]] \notin {None, Deleted}}
    BY <1>1, TypeIs DEF Waiting
  <1> QED BY <1>1, <1>2, SameCount DEF Accounted

LEMMA AnswerIs ==
  ASSUME SetupsAssumption, MuxInv
  PROVE  MX!AnswerIsMine
  <1> SUFFICES ASSUME scenario = "mux", bus.fails = 0 \/ MX!Cardinality(MX!Tasks) = 1,
                      NEW t \in MX!Tasks, MX!At(t, "release"), me[t].answer # None,
                      ~me[t].overdue
               PROVE  me[t].answer.req = MX!Req(t)
    BY DEF MX!AnswerIsMine, MX!Mux
  <1>1. MuxType /\ AnswerInv
    BY DEF MuxInv, MuxAll
  <1>2. MX!Tasks = context.setup.tasks /\ IsFiniteSet(context.setup.tasks)
    BY <1>1, TypeIs DEF MuxTasks, SetupsAssumption
  <1>3. Sole
    <2>1. CASE MX!Cardinality(MX!Tasks) = 1
      <3>1. Cardinality(context.setup.tasks) = 1
        BY <1>2, <2>1, SameCount
      <3>2. PICK u : context.setup.tasks = {u}
        BY <1>2, <3>1, FS_Singleton
      <3> QED BY <3>2 DEF Sole
    <2> QED BY <2>1 DEF Sole
  <1>4. pc[t] = "release" /\ Held(t)
    BY DEF MX!At, Held
  <1>5. AnswerOf(MX!Req(t), pc[t], me[t], context, bus)
    BY <1>1, <1>2, <1>3, <1>4 DEF AnswerInv, AnswerTask
  <1> QED BY <1>4, <1>5 DEF AnswerOf

LEMMA ServicedIs ==
  ASSUME MuxInv
  PROVE  MX!AllServiced
  <1> SUFFICES ASSUME scenario = "mux", context.setup.red, bus.fails = 0, NEW t \in MX!Tasks,
                      MX!At(t, "release"), ~me[t].overdue, ~me[t].missed, ~me[t].dropped
               PROVE  me[t].answer = [req |-> MX!Req(t), parts |-> MX!Parts]
    BY DEF MX!AllServiced, MX!Mux
  <1>1. MuxType /\ QuietInv
    BY DEF MuxInv, MuxAll
  <1>2. MX!Tasks = context.setup.tasks
    BY <1>1, TypeIs DEF MuxTasks
  <1>3. pc[t] = "release" /\ Held(t)
    BY DEF MX!At, Held
  <1>4. QuietOf(MX!Req(t), pc[t], me[t], context, bus)
    BY <1>1, <1>2, <1>3 DEF QuietInv, QuietTask
  <1> QED BY <1>3, <1>4 DEF QuietOf, MX!Parts

\* However the tasks, tNet0 and the line take turns, and whatever is lost or fails: through
\* the queues of the VxWorks port no two tasks share an index, the answer a task uses is its
\* own, with two ports it is that of every slave unless a frame was lost, late or dropped,
\* and the port owes the network the buffers of the frames that wait, and no more.
THEOREM QueuesAreSound == Spec => []QueuesSound
  <1>1. Init => MuxInv
    BY DEF Init, MuxInv
  <1>2. MuxInv => QueuesSound
    BY ExclusiveIs, AnswerIs, ServicedIs, AccountedIs, SetupsAssumption DEF QueuesSound
  <1>3. MuxInv /\ [Next]_vars => MuxInv'
    BY MuxNext, SetupsAssumption, NoneAssumption
  <1> QED BY <1>1, <1>2, <1>3, PTL DEF Spec
===============================================================================
