------------------------ MODULE QueueLifecycleProofs ------------------------
(***************************************************************************)
(* Proofs about QueueLifecycle for every number of queues, workers and     *)
(* vectors, every driver mode and any number of half-way failures.         *)
(***************************************************************************)
EXTENDS QueueLifecycle, FiniteSetTheorems, WellFoundedInduction, TLAPS

QRec == [state : {"DISABLED", "ENABLED", "ONLINE"}, st : BOOLEAN,
         type : Types, idx : Indexes]

QType == q \in [Slots -> QRec]

\* The pairs one by one, of the queues that are in use and did not fail.
PairOK ==
  \A i \in Indexes :
    /\ (Healthy(Slot("H2C", i)) /\ Healthy(Slot("C2H", i))) =>
         q[Slot("H2C", i)].st = q[Slot("C2H", i)].st
    /\ Healthy(Slot("CMPT", i)) =>
         /\ ~q[Slot("CMPT", i)].st
         /\ \A t \in Dirs : Healthy(Slot(t, i)) => ~q[Slot(t, i)].st

\* One queue at most holds the legacy interrupt.
LegacyOK ==
  /\ legacy = [list |-> {}, irq |-> FALSE]
       \/ \E p \in Slots : legacy = [list |-> {p}, irq |-> TRUE]
  /\ \A p \in legacy.list : InUse(p) \/ p \in lost

LEMMA SlotFacts ==
  /\ \A t \in Types, i \in Indexes : Slot(t, i) \in Slots
  /\ \A t, u \in Types, i, j \in Indexes :
       Slot(t, i) = Slot(u, j) => t = u /\ i = j
BY SizeAssumption DEF Types, Indexes, Slot, Base, Slots

\* Without an automatic choice past index 0 an addition lands where it says.
LEMMA LandsThere ==
  ASSUME ~AnyAuto, NEW t \in Types, NEW st \in BOOLEAN, NEW i \in Indexes,
         NEW p \in Slots, AddGuard(t, st, i, p)
  PROVE  p = Slot(t, i) /\ IsUsable(i, t, st) /\ ~(t = "CMPT" /\ st)
<1>1. CASE IsUsable(i, t, st) /\ p = Slot(t, i)
  BY <1>1 DEF AddGuard
<1>2. CASE i \in AutoChoice(t, st) /\ i = 0 /\ p = AutoLanding(t, i)
  BY <1>2, SizeAssumption DEF AddGuard, AutoChoice, AutoLanding, Slot, Base, Types
<1> QED BY <1>1, <1>2 DEF AddGuard, Lands

\* A queue the check accepts fits the healthy queues of its index.
LEMMA EnabledFits ==
  ASSUME QType, PairOK, NEW t \in Types, NEW st \in BOOLEAN, NEW i \in Indexes,
         IsUsable(i, t, st), ~(t = "CMPT" /\ st),
         q' = Enabled(Slot(t, i), t, st, i),
         \A r \in Slots : r \notin failed' => r \notin failed
  PROVE  PairOK'
<1> DEFINE s == Slot(t, i)
<1>1. s \in Slots /\ \A u \in Types, j \in Indexes : Slot(u, j) \in Slots
  BY SlotFacts
<1>2. q'[s].st = st /\ \A r \in Slots \ {s} : q'[r] = q[r]
  BY <1>1 DEF QType, Enabled
<1>3. \A r \in Slots \ {s} : Healthy(r)' => Healthy(r)
  BY <1>2 DEF Healthy, InUse
<1> SUFFICES ASSUME NEW j \in Indexes
             PROVE  /\ (Healthy(Slot("H2C", j))' /\ Healthy(Slot("C2H", j))') =>
                         q'[Slot("H2C", j)].st = q'[Slot("C2H", j)].st
                    /\ Healthy(Slot("CMPT", j))' =>
                         /\ ~q'[Slot("CMPT", j)].st
                         /\ \A u \in Dirs : Healthy(Slot(u, j))' => ~q'[Slot(u, j)].st
  BY DEF PairOK
<1>4. CASE j # i
  <2>1. \A u \in Types : Slot(u, j) \in Slots \ {s}
    BY <1>1, <1>4, SlotFacts
  <2> QED BY <2>1, <1>2, <1>3 DEF PairOK, Types, Dirs
<1>5. CASE j = i
  <2>1. \A u \in Types \ {t} : Slot(u, i) \in Slots \ {s}
    BY <1>1, SlotFacts
  <2>2. \A u \in Types : Healthy(Slot(u, i)) => u \in Present(i)
    BY DEF Healthy, Present
  <2>3. CASE t = "CMPT"
    <3>1. \A u \in Dirs : Healthy(Slot(u, i)) => ~q[Slot(u, i)].st
      BY <2>2, <2>3 DEF IsUsable, Streams, Types, Dirs
    <3> QED BY <3>1, <2>1, <2>3, <1>2, <1>3, <1>5 DEF PairOK, Types, Dirs
  <2>4. CASE t \in Dirs
    <3>1. Other(t) \in Types \ {t} /\ Types = {t, Other(t), "CMPT"} /\ t # "CMPT"
            /\ Dirs = {t, Other(t)} /\ Other(t) \in Dirs
      BY <2>4 DEF Dirs, Types, Other
    <3>2. st => "CMPT" \notin Present(i)
      BY <2>4, <3>1 DEF IsUsable
    <3>3. t \notin Present(i)
      BY <2>4, <3>1 DEF IsUsable
    <3>4. Other(t) \in Present(i) => (Streams(i) <=> q[Slot(Other(t), i)].st)
      BY <3>1, <3>3, <1>1 DEF Streams, QType, QRec
    <3>5. Healthy(Slot(Other(t), i)) => st = q[Slot(Other(t), i)].st
      BY <3>1, <3>4, <2>2, <1>1 DEF IsUsable, QType, QRec
    <3>6. Healthy(Slot("CMPT", i)) => ~st
      BY <3>2, <2>2 DEF Types
    <3>7. Slot("CMPT", i) \in Slots \ {s} /\ Slot(Other(t), i) \in Slots \ {s}
      BY <3>1, <2>1
    <3>8. Healthy(Slot("CMPT", i))' =>
            /\ ~q'[Slot("CMPT", i)].st /\ ~st
            /\ Healthy(Slot(Other(t), i))' => ~q'[Slot(Other(t), i)].st
      BY <3>1, <3>6, <3>7, <1>2, <1>3 DEF PairOK
    <3>9. Healthy(Slot(Other(t), i))' => q'[Slot(Other(t), i)].st = st
      BY <3>5, <3>7, <1>2, <1>3
    <3>10. CASE t = "H2C"
      BY <3>10, <3>1, <3>8, <3>9, <1>2, <1>5 DEF Other
    <3>11. CASE t = "C2H"
      BY <3>11, <3>1, <3>8, <3>9, <1>2, <1>5 DEF Other
    <3> QED BY <2>4, <3>10, <3>11 DEF Dirs
  <2> QED BY <2>3, <2>4 DEF Types, Dirs
<1> QED BY <1>4, <1>5

\* Pairs that agree still do when queues only leave or change their state.
LEMMA FewerFit ==
  ASSUME PairOK,
         \A r \in Slots : Healthy(r)' => Healthy(r) /\ q'[r].st = q[r].st
  PROVE  PairOK'
BY SlotFacts DEF PairOK, Types, Dirs

IInv == QType /\ PairOK

LEMMA FreshOK ==
  /\ FreshQ \in [Slots -> QRec]
  /\ \A r \in Slots : FreshQ[r].state = "DISABLED"
<1>1. Fresh \in QRec /\ Fresh.state = "DISABLED"
  BY SizeAssumption DEF Fresh, QRec, Types, Indexes
<1> QED BY <1>1 DEF FreshQ

LEMMA InitIInv == Init => IInv
BY SlotFacts, FreshOK
   DEF Init, IInv, QType, PairOK, Healthy, InUse, Types, Dirs

\* The descqs after an addition that got as far as enabling its queue.
LEMMA EnabledType ==
  ASSUME QType, NEW t \in Types, NEW st \in BOOLEAN, NEW i \in Indexes,
         NEW p \in Slots
  PROVE  /\ Enabled(p, t, st, i) \in [Slots -> QRec]
         /\ Enabled(p, t, st, i)[p].state = "ENABLED"
         /\ \A r \in Slots \ {p} : Enabled(p, t, st, i)[r] = q[r]
BY DEF QType, QRec, Enabled

\* One step per action: only a complete addition makes a queue healthy.
LEMMA StepIInv ==
  ASSUME ~AnyAuto, IInv, [Next]_vars
  PROVE  IInv'
<1> USE DEF IInv
<1>1. ASSUME NEW t \in Types, NEW st \in BOOLEAN, NEW i \in Indexes,
             NEW p \in Slots, Add(t, st, i, p)
      PROVE  IInv'
  <2>1. AddGuard(t, st, i, p) /\ q' = Enabled(p, t, st, i) /\ failed' = failed
    BY <1>1 DEF Add, history
  <2>2. p = Slot(t, i) /\ IsUsable(i, t, st) /\ ~(t = "CMPT" /\ st)
    BY <2>1, LandsThere
  <2>3. QType'
    BY <2>1, EnabledType DEF QType
  <2>4. PairOK'
    BY <2>1, <2>2, EnabledFits
  <2> QED BY <2>3, <2>4
<1>2. ASSUME NEW t \in Types, NEW st \in BOOLEAN, NEW i \in Indexes,
             NEW p \in Slots, AddFailsPreparing(t, st, i, p)
      PROVE  IInv'
  <2>1. failed' = failed \cup {p}
    BY <1>2 DEF AddFailsPreparing
  <2>2. q' \in [Slots -> QRec] /\ \A r \in Slots \ {p} : q'[r] = q[r]
    <3>1. CASE q' = [q EXCEPT ![p].state = "ENABLED"]
      BY <3>1 DEF QType, QRec
    <3>2. ASSUME NEW old \in BOOLEAN, q' = Enabled(p, t, old, i)
          PROVE  q' \in [Slots -> QRec] /\ \A r \in Slots \ {p} : q'[r] = q[r]
      BY <3>2, EnabledType
    <3> QED BY <1>2, <3>1, <3>2 DEF AddFailsPreparing
  <2> QED BY <2>1, <2>2, FewerFit DEF QType, Healthy, InUse
<1>3. ASSUME NEW t \in Types, NEW st \in BOOLEAN, NEW i \in Indexes,
             NEW p \in Slots,
             AddFailsCounting(t, st, i, p) \/ AddFailsDevice(t, st, i, p)
      PROVE  IInv'
  <2>1. q' = Enabled(p, t, st, i) /\ failed' = failed \cup {p}
    BY <1>3 DEF AddFailsCounting, AddFailsDevice
  <2> QED BY <2>1, EnabledType, FewerFit DEF QType, Healthy, InUse
<1>4. ASSUME NEW h \in Slots, Start(h) \/ Stop(h)
      PROVE  IInv'
  <2> DEFINE p == qdata[h].hndl
  <2>1. failed' = failed /\ InUse(p)
    BY <1>4 DEF Start, Stop, history, InUse
  <2>2. PICK s \in {"ENABLED", "ONLINE"} : q' = [q EXCEPT ![p].state = s]
    BY <1>4 DEF Start, Stop
  <2>3. QType' /\ \A r \in Slots : q'[r].st = q[r].st /\ (r # p => q'[r] = q[r])
    BY <2>2 DEF QType, QRec
  <2> QED BY <2>1, <2>3, FewerFit DEF Healthy, InUse
<1>5. ASSUME NEW t \in Types, NEW i \in Indexes, Delete(t, i)
      PROVE  IInv'
  <2> DEFINE p == qdata[Slot(t, i)].hndl
  <2>1. q' = [q EXCEPT ![p] = Fresh] /\ failed' = failed \ {p}
    BY <1>5 DEF Delete
  <2>2. Fresh \in QRec
    BY SizeAssumption DEF Fresh, QRec, Types, Indexes
  <2>3. QType'
    BY <2>1, <2>2 DEF QType
  <2>4. \A r \in Slots : r # p => q'[r] = q[r]
    BY <2>1 DEF QType
  <2>5. p \in Slots => q'[p].state = "DISABLED"
    BY <2>1 DEF QType, Fresh
  <2> QED BY <2>1, <2>3, <2>4, <2>5, FewerFit DEF Healthy, InUse
<1>6. CASE Reset \/ SetQmax
  <2>1. q' = FreshQ
    BY <1>6 DEF Reset, SetQmax, CleanUp
  <2>2. QType' /\ \A r \in Slots : q'[r].state = "DISABLED"
    BY <2>1, FreshOK DEF QType
  <2> QED BY <2>2, FewerFit DEF Healthy, InUse
<1>7. CASE Online \/ UNCHANGED vars
  BY <1>7 DEF Online, vars, qvars, history, QType, PairOK, Healthy, InUse
<1> QED BY <1>1, <1>2, <1>3, <1>4, <1>5, <1>6, <1>7 DEF Next

\* Queue by queue, as PairOK has it, the queues of an index agree.
LEMMA PairsOf == IInv => PairsAgree
<1> SUFFICES ASSUME IInv, NEW i \in Indexes,
                    NEW a \in Types, NEW b \in Types,
                    Healthy(Slot(a, i)), Healthy(Slot(b, i))
             PROVE  ~q[Slot(a, i)].st => ~q[Slot(b, i)].st
  BY DEF PairsAgree
<1> QED BY SlotFacts DEF IInv, QType, QRec, PairOK, Types, Dirs

\* Unless an index past 0 is left to the driver to choose, the queues of an
\* index agree on their mode, for any number of queues and of additions that
\* fail half-way (is_usable_queue, libqdma_export.c).
THEOREM PairsAlwaysAgree == ASSUME ~AnyAuto PROVE Spec => []PairsAgree
<1>1. Init => IInv
  BY InitIInv
<1>2. IInv /\ [Next]_vars => IInv'
  BY StepIInv
<1>3. IInv => PairsAgree
  BY PairsOf
<1> QED BY <1>1, <1>2, <1>3, PTL DEF Spec

-----------------------------------------------------------------------------
(* The legacy interrupt.                                                   *)

LInv == QType /\ LegacyOK

\* The list and the interrupt go together, whatever is taken off.
LEMMA ClearedOK ==
  ASSUME LegacyOK, NEW ps, ps \subseteq legacy.list
  PROVE  /\ LegacyCleared(ps) = [list |-> {}, irq |-> FALSE]
              \/ (ps = {} /\ LegacyCleared(ps) = legacy)
         /\ LegacyCleared(ps).list = legacy.list \ ps
<1>1. LegacyCleared(ps).list = legacy.list \ ps
  BY DEF LegacyCleared
<1>2. CASE ps = {}
  <2>1. /\ legacy = [list |-> legacy.list, irq |-> legacy.irq]
        /\ legacy.irq \in BOOLEAN
    <3>1. CASE legacy = [list |-> {}, irq |-> FALSE]
      <4>1. legacy.list = {} /\ legacy.irq = FALSE
        BY <3>1
      <4> QED BY <3>1, <4>1, Zenon
    <3>2. ASSUME NEW p \in Slots, legacy = [list |-> {p}, irq |-> TRUE]
          PROVE  /\ legacy = [list |-> legacy.list, irq |-> legacy.irq]
                 /\ legacy.irq \in BOOLEAN
      <4>1. legacy.list = {p} /\ legacy.irq = TRUE
        BY <3>2
      <4> QED BY <3>2, <4>1, Zenon
    <3> QED BY <3>1, <3>2 DEF LegacyOK
  <2>2. legacy.list \ ps = legacy.list
    BY <1>2
  <2>3. (legacy.irq /\ (ps = {} \/ legacy.list \ ps # {})) = legacy.irq
    BY <1>2, <2>1
  <2>4. LegacyCleared(ps) = legacy
    BY <2>1, <2>2, <2>3, Zenon DEF LegacyCleared
  <2> QED BY <1>1, <1>2, <2>4
<1>3. CASE ps # {}
  <2>1. PICK p \in Slots : legacy = [list |-> {p}, irq |-> TRUE]
    BY <1>3 DEF LegacyOK
  <2>2. ps = {p} /\ legacy.list = {p}
    BY <1>3, <2>1
  <2>3. legacy.list \ ps = {}
    BY <2>2
  <2>4. (legacy.irq /\ (ps = {} \/ legacy.list \ ps # {})) = FALSE
    BY <1>3, <2>3
  <2>5. LegacyCleared(ps) = [list |-> {}, irq |-> FALSE]
    BY <2>3, <2>4, Zenon DEF LegacyCleared
  <2> QED BY <1>1, <2>5
<1> QED BY <1>2, <1>3

\* An addition keeps the list if the queues on it stay in use.
LEMMA SetupOK ==
  ASSUME LegacyOK, NEW p \in Slots, LegacySetup(p), lost' = lost,
         q'[p].state = "ENABLED", \A r \in Slots \ {p} : q'[r] = q[r]
  PROVE  LegacyOK'
BY DEF LegacyOK, LegacySetup, InUse

LEMMA StepLInv == LInv /\ [Next]_vars => LInv'
<1> SUFFICES ASSUME LInv, [Next]_vars PROVE LInv'
  OBVIOUS
<1> USE DEF LInv
<1>1. ASSUME NEW t \in Types, NEW st \in BOOLEAN, NEW i \in Indexes,
             NEW p \in Slots,
             \/ Add(t, st, i, p)
             \/ AddFailsCounting(t, st, i, p)
             \/ AddFailsDevice(t, st, i, p)
      PROVE  LInv'
  <2>1. q' = Enabled(p, t, st, i) /\ LegacySetup(p) /\ lost' = lost
    BY <1>1 DEF Add, AddFailsCounting, AddFailsDevice, history
  <2> QED BY <2>1, EnabledType, SetupOK DEF QType
<1>2. ASSUME NEW t \in Types, NEW st \in BOOLEAN, NEW i \in Indexes,
             NEW p \in Slots, AddFailsPreparing(t, st, i, p)
      PROVE  LInv'
  <2>1. legacy' = legacy /\ lost' = lost
    BY <1>2 DEF AddFailsPreparing
  <2>2. /\ q' \in [Slots -> QRec] /\ q'[p].state = "ENABLED"
        /\ \A r \in Slots \ {p} : q'[r] = q[r]
    <3>1. CASE q' = [q EXCEPT ![p].state = "ENABLED"]
      BY <3>1 DEF QType, QRec
    <3>2. ASSUME NEW old \in BOOLEAN, q' = Enabled(p, t, old, i)
          PROVE  /\ q' \in [Slots -> QRec] /\ q'[p].state = "ENABLED"
                 /\ \A r \in Slots \ {p} : q'[r] = q[r]
      BY <3>2, EnabledType
    <3> QED BY <1>2, <3>1, <3>2 DEF AddFailsPreparing
  <2> QED BY <2>1, <2>2 DEF QType, LegacyOK, InUse
<1>3. ASSUME NEW h \in Slots, Start(h) \/ Stop(h)
      PROVE  LInv'
  <2> DEFINE p == qdata[h].hndl
  <2>1. legacy' = legacy /\ lost' = lost
    BY <1>3 DEF Start, Stop, history
  <2>2. PICK s \in {"ENABLED", "ONLINE"} : q' = [q EXCEPT ![p].state = s]
    BY <1>3 DEF Start, Stop
  <2>3. /\ QType' /\ (p \in Slots => q'[p].state = s)
        /\ \A r \in Slots : r # p => q'[r] = q[r]
    BY <2>2 DEF QType, QRec
  <2> QED BY <2>1, <2>3 DEF LegacyOK, InUse
<1>4. ASSUME NEW t \in Types, NEW i \in Indexes, Delete(t, i)
      PROVE  LInv'
  <2> DEFINE p == qdata[Slot(t, i)].hndl
  <2>1. /\ q' = [q EXCEPT ![p] = Fresh] /\ lost' = lost
        /\ legacy' = LegacyCleared({p} \cap legacy.list)
    BY <1>4 DEF Delete
  <2>2. Fresh \in QRec
    BY SizeAssumption DEF Fresh, QRec, Types, Indexes
  <2>3. QType' /\ \A r \in Slots : r # p => q'[r] = q[r]
    BY <2>1, <2>2 DEF QType
  <2>4. {p} \cap legacy.list \subseteq legacy.list
    OBVIOUS
  <2>5. \/ legacy' = [list |-> {}, irq |-> FALSE]
        \/ {p} \cap legacy.list = {} /\ legacy' = legacy
    BY <2>1, <2>4, ClearedOK
  <2>6. CASE legacy' = [list |-> {}, irq |-> FALSE]
    BY <2>3, <2>6 DEF LegacyOK
  <2>7. CASE {p} \cap legacy.list = {} /\ legacy' = legacy
    <3>1. \A r \in legacy.list : r \in Slots /\ r # p
      BY <2>7 DEF LegacyOK
    <3>2. \A r \in legacy'.list : InUse(r)' \/ r \in lost'
      BY <2>1, <2>3, <2>7, <3>1 DEF LegacyOK, InUse
    <3> QED BY <2>3, <2>7, <3>2 DEF LegacyOK
  <2> QED BY <2>5, <2>6, <2>7
<1>5. CASE Reset \/ SetQmax
  <2> DEFINE used == {p \in DirSlots : InUse(p)}
  <2>1. /\ q' = FreshQ /\ lost' = lost \cup {p \in Slots \ DirSlots : InUse(p)}
        /\ legacy' = LegacyCleared(used \cap legacy.list)
    BY <1>5 DEF Reset, SetQmax, CleanUp
  <2>2. used \cap legacy.list \subseteq legacy.list
    OBVIOUS
  <2>3. \/ legacy' = [list |-> {}, irq |-> FALSE]
        \/ used \cap legacy.list = {} /\ legacy' = legacy
    BY <2>1, <2>2, ClearedOK
  <2>4. \A p \in legacy'.list : p \in lost'
    BY <2>1, <2>3 DEF LegacyOK
  <2> QED BY <2>1, <2>3, <2>4, FreshOK DEF QType, LegacyOK
<1>6. CASE Online \/ UNCHANGED vars
  BY <1>6 DEF Online, vars, qvars, history, QType, LegacyOK, InUse
<1> QED BY <1>1, <1>2, <1>3, <1>4, <1>5, <1>6 DEF Next

\* In legacy mode the interrupt serves one queue at most and is requested
\* exactly while it serves one, through every command, failure and reset, a
\* completion queue that a reset frees included (intr_legacy_setup,
\* intr_legacy_clear).
THEOREM LegacyIrqHeld == Spec => []LegacyHeld
<1>1. Init => LInv
  BY FreshOK DEF Init, LInv, QType, LegacyOK
<1>2. LInv => LegacyHeld
  <2> SUFFICES ASSUME LInv PROVE LegacyHeld
    OBVIOUS
  <2>1. Cardinality({}) = 0 /\ \A p : Cardinality({p}) = 1
    BY FS_EmptySet, FS_Singleton
  <2> QED BY <2>1 DEF LInv, LegacyOK, LegacyHeld
<1> QED BY <1>1, <1>2, StepLInv, PTL DEF Spec
-----------------------------------------------------------------------------
(* The devices, the handles and the counts.                                *)

DevRec == [idx : Indexes, hndl : [Dirs -> Slots], init : SUBSET Dirs]

DType ==
  /\ qdata \in [Slots -> [hndl : Slots, dev : DevIds \cup {0}]]
  /\ devs \in [DevIds -> DevRec \cup {NoDev}]
  /\ uncounted \subseteq failed /\ failed \subseteq Slots

\* A device serves queues of its own index that are in use and point back.
DevOK(d) ==
  devs[d] # NoDev =>
    /\ devs[d].init # {}
    /\ \A t \in devs[d].init :
         /\ devs[d].hndl[t] = Slot(t, devs[d].idx)
         /\ qdata[Slot(t, devs[d].idx)].dev = d
         /\ InUse(Slot(t, devs[d].idx))

\* What the front end knows of the queue of type t at index i.
KnownOK(t, i) ==
  LET h == Slot(t, i)
  IN /\ (InUse(h) /\ h \notin uncounted) => (q[h].idx = i /\ q[h].type = t)
     /\ qdata[h] = NoData \/ qdata[h].hndl = h
     /\ qdata[h].dev # 0 =>
          /\ t \in Dirs /\ devs[qdata[h].dev] # NoDev
          /\ devs[qdata[h].dev].idx = i /\ t \in devs[qdata[h].dev].init
     /\ h \in uncounted => (qdata[h] = NoData /\ InUse(h))
     /\ Healthy(h) => (qdata[h].hndl = h /\ (t \in Dirs => qdata[h].dev # 0))
     /\ (up = "up" /\ qdata[h] # NoData) => InUse(h)

\* Both directions of a pair have the same device if they have one each.
OneDevice ==
  \A i \in Indexes :
    (qdata[Slot("H2C", i)].dev # 0 /\ qdata[Slot("C2H", i)].dev # 0) =>
      qdata[Slot("H2C", i)].dev = qdata[Slot("C2H", i)].dev

\* No queue is in use while the function is down or has no qmax.
Idle == up # "up" => \A p \in Slots : ~InUse(p)

\* The queues counted for type t.
CountedBy(t) ==
  {p \in Slots : InUse(p) /\ p \notin uncounted /\ t \in Counted(q[p].type, q[p].st)}

CountsOK ==
  /\ active \in [Types -> Nat]
  /\ up = "up" => \A t \in Types : active[t] = Cardinality(CountedBy(t))

\* A streaming card-to-host queue and a completion queue share no index.
CmptOK(i) ==
  LET c == Slot("CMPT", i)
      d == Slot("C2H", i)
  IN /\ ~(InUse(c) /\ InUse(d) /\ d \notin uncounted /\ q[d].st)
     /\ (InUse(c) /\ c \notin uncounted) => ~q[c].st

DInv ==
  /\ QType /\ DType /\ OneDevice /\ Idle /\ CountsOK
  /\ \A d \in DevIds : DevOK(d)
  /\ \A t \in Types, i \in Indexes : KnownOK(t, i)
  /\ \A i \in Indexes : CmptOK(i)

\* A set of naturals that is not empty has a least element.
LEMMA LeastOf ==
  ASSUME NEW S, S \subseteq Nat, S # {}
  PROVE  \E n \in S : \A m \in S : n <= m
<1>1. PICK n \in S : \A m \in S : ~(<<m, n>> \in OpToRel(<, Nat))
  BY NatLessThanWellFounded, WFMin
<1>2. OpToRel(<, Nat) = {ss \in Nat \X Nat : ss[1] < ss[2]}
  BY DEF OpToRel
<1>3. ASSUME NEW m \in S PROVE n <= m
  <2>1. m \in Nat /\ n \in Nat /\ ~(<<m, n>> \in {ss \in Nat \X Nat : ss[1] < ss[2]})
    BY <1>1, <1>2
  <2> QED BY <2>1
<1> QED BY <1>3

\* Every place in the array is that of one type and index.
LEMMA SlotOnto ==
  /\ \A p \in Slots : \E t \in Types, i \in Indexes : p = Slot(t, i)
  /\ \A p \in DirSlots : \E t \in Dirs, i \in Indexes : p = Slot(t, i)
  /\ \A t \in Dirs, i \in Indexes : Slot(t, i) \in DirSlots
  /\ DirSlots \subseteq Slots
<1>1. ASSUME NEW p \in Slots
      PROVE  \/ \E i \in Indexes : p = Slot("H2C", i)
             \/ \E i \in Indexes : p = Slot("C2H", i)
             \/ p \notin DirSlots /\ \E i \in Indexes : p = Slot("CMPT", i)
  <2>1. CASE p < QMax
    <3>1. p \in Indexes /\ p = Slot("H2C", p)
      BY <2>1, SizeAssumption DEF Slots, Indexes, Slot, Base
    <3> QED BY <3>1
  <2>2. CASE QMax <= p /\ p < 2 * QMax
    <3>1. p - QMax \in Indexes /\ p = Slot("C2H", p - QMax)
      BY <2>2, SizeAssumption DEF Slots, Indexes, Slot, Base
    <3> QED BY <3>1
  <2>3. CASE 2 * QMax <= p
    <3>1. p - 2 * QMax \in Indexes /\ p = Slot("CMPT", p - 2 * QMax) /\ p \notin DirSlots
      BY <2>3, SizeAssumption DEF Slots, Indexes, Slot, Base, DirSlots
    <3> QED BY <3>1
  <2> QED BY <2>1, <2>2, <2>3, SizeAssumption DEF Slots
<1>2. DirSlots \subseteq Slots
  BY SizeAssumption DEF Slots, DirSlots
<1>3. \A t \in Dirs, i \in Indexes : Slot(t, i) \in DirSlots
  BY SizeAssumption DEF Dirs, Indexes, Slot, Base, DirSlots
<1> QED BY <1>1, <1>2, <1>3 DEF Types, Dirs

\* The places are finitely many, and so are those of the devices.
LEMMA SlotsFinite ==
  /\ IsFiniteSet(Slots) /\ IsFiniteSet(DirSlots) /\ IsFiniteSet(DevIds)
  /\ Cardinality(DirSlots) = 2 * QMax /\ Cardinality(DevIds) = 2 * QMax
BY FS_Interval, SizeAssumption DEF Slots, DirSlots, DevIds

\* The record of no device is the record of none.
LEMMA NoDevIsNone == NoDev \notin DevRec
<1>1. NoDev.idx = -1 /\ -1 \notin Indexes
  BY SizeAssumption DEF NoDev, Indexes
<1> QED BY <1>1 DEF DevRec

\* While a queue has no device there is a device left, for no device has two
\* queues of one direction: more devices than queues would be needed.
LEMMA DeviceLeft ==
  ASSUME DType, \A d \in DevIds : DevOK(d), NEW s \in DirSlots, qdata[s].dev = 0
  PROVE  FreeDev \in DevIds /\ devs[FreeDev] = NoDev
<1>1. \E d \in DevIds : devs[d] = NoDev
  <2> SUFFICES ASSUME \A d \in DevIds : devs[d] # NoDev PROVE FALSE
    OBVIOUS
  <2> DEFINE S == DirSlots \ {s}
             T == {qdata[h].dev : h \in S}
             f == [h \in S |-> qdata[h].dev]
  <2>1. IsFiniteSet(S) /\ Cardinality(S) = 2 * QMax - 1
    BY SlotsFinite, FS_RemoveElement
  <2>2. f \in Surjection(S, T)
    BY DEF Surjection
  <2>3. IsFiniteSet(T) /\ Cardinality(T) <= Cardinality(S)
    BY <2>1, <2>2, FS_Surjection
  <2>4. DevIds \subseteq T
    <3> SUFFICES ASSUME NEW d \in DevIds PROVE d \in T
      OBVIOUS
    <3>1. devs[d] \in DevRec
      BY DEF DType
    <3>2. PICK t \in devs[d].init : TRUE
      BY DEF DevOK
    <3>3. t \in Dirs /\ devs[d].idx \in Indexes
      BY <3>1, <3>2 DEF DevRec
    <3> DEFINE h == Slot(t, devs[d].idx)
    <3>4. qdata[h].dev = d
      BY <3>2 DEF DevOK
    <3>5. h \in DirSlots
      BY <3>3, SlotOnto
    <3>6. d # 0
      BY SizeAssumption DEF DevIds
    <3>7. h \in S
      BY <3>4, <3>5, <3>6
    <3> QED BY <3>4, <3>7
  <2> HIDE DEF S, T
  <2>5. Cardinality(DevIds) <= Cardinality(T)
    BY <2>3, <2>4, FS_Subset
  <2>6. Cardinality(T) \in Nat
    BY <2>3, FS_CardinalityType
  <2> QED BY <2>1, <2>3, <2>5, <2>6, SlotsFinite, SizeAssumption
<1> DEFINE F == {d \in DevIds : devs[d] = NoDev}
<1>2. F \subseteq Nat /\ F # {}
  BY <1>1, SizeAssumption DEF DevIds
<1>3. PICK d \in F : \A e \in F : d <= e
  BY <1>2, LeastOf
<1>4. \E c \in DevIds : devs[c] = NoDev /\ \A e \in DevIds : devs[e] = NoDev => c <= e
  BY <1>3
<1> QED BY <1>4, Zenon DEF FreeDev

\* The direction at the same index is another queue.
LEMMA OtherSlot ==
  ASSUME NEW t \in Dirs, NEW i \in Indexes
  PROVE  /\ Other(t) \in Dirs /\ Other(t) # t /\ Dirs = {t, Other(t)}
         /\ Slot(t, i) \in DirSlots /\ Slot(Other(t), i) \in DirSlots
         /\ Slot(Other(t), i) # Slot(t, i)
BY SlotFacts, SlotOnto DEF Other, Dirs, Types

\* A queue that is not in use has no device.
LEMMA UnusedHasNone ==
  ASSUME DType, \A d \in DevIds : DevOK(d), NEW t \in Types, NEW i \in Indexes,
         KnownOK(t, i), ~InUse(Slot(t, i))
  PROVE  qdata[Slot(t, i)].dev = 0
<1> DEFINE h == Slot(t, i)
<1> SUFFICES ASSUME qdata[h].dev # 0 PROVE FALSE
  OBVIOUS
<1>1. h \in Slots
  BY SlotFacts
<1>2. qdata[h].dev \in DevIds
  BY <1>1 DEF DType
<1>3. /\ devs[qdata[h].dev] # NoDev /\ devs[qdata[h].dev].idx = i
      /\ t \in devs[qdata[h].dev].init
  BY DEF KnownOK
<1>4. InUse(h)
  BY <1>2, <1>3 DEF DevOK
<1> QED BY <1>4

\* What registering the queue of direction t at index i does to the devices:
\* one device d is the one of the pair, and serves direction t too.
LEMMA Registered ==
  ASSUME DType, \A d \in DevIds : DevOK(d), NEW t \in Dirs, NEW i \in Indexes,
         KnownOK(t, i), KnownOK(Other(t), i), ~InUse(Slot(t, i)),
         Register(t, i, Slot(t, i))
  PROVE  \E d \in DevIds :
           /\ qdata' = [qdata EXCEPT ![Slot(t, i)] = [hndl |-> Slot(t, i), dev |-> d]]
           /\ devs' \in [DevIds -> DevRec \cup {NoDev}]
           /\ \A e \in DevIds \ {d} : devs'[e] = devs[e]
           /\ devs'[d] # NoDev /\ devs'[d].idx = i /\ devs'[d].hndl[t] = Slot(t, i)
           /\ \/ devs[d] = NoDev /\ devs'[d].init = {t}
              \/ /\ devs[d] # NoDev /\ devs[d].idx = i
                 /\ devs'[d].init = devs[d].init \cup {t}
                 /\ devs'[d].hndl[Other(t)] = devs[d].hndl[Other(t)]
           /\ qdata[Slot(Other(t), i)].dev \in {0, d}
<1> DEFINE h == Slot(t, i)
           o == qdata[Slot(Other(t), i)].dev
<1>1. h \in DirSlots /\ h \in Slots /\ Slot(Other(t), i) \in Slots /\ t # "CMPT"
        /\ Other(t) \in Dirs /\ Other(t) # t /\ Dirs = {t, Other(t)}
  BY OtherSlot, SlotOnto DEF Dirs
<1>2. qdata[h].dev = 0
  BY UnusedHasNone DEF Types, Dirs
<1>3. CASE o # 0
  <2>1. o \in DevIds
    BY <1>1, <1>3 DEF DType
  <2>2. devs[o] # NoDev /\ devs[o].idx = i /\ devs[o] \in DevRec
    BY <1>3, <2>1 DEF KnownOK, DType
  <2>3. /\ qdata' = [qdata EXCEPT ![h] = [hndl |-> h, dev |-> o]]
        /\ devs' = [devs EXCEPT ![o] = Joined(o, t, h)]
    BY <1>1, <1>3 DEF Register
  <2>4. /\ Joined(o, t, h) \in DevRec /\ Joined(o, t, h).idx = i
        /\ Joined(o, t, h).init = devs[o].init \cup {t}
        /\ Joined(o, t, h).hndl[t] = h
        /\ Joined(o, t, h).hndl[Other(t)] = devs[o].hndl[Other(t)]
    BY <1>1, <2>2 DEF Joined, DevRec
  <2>5. /\ devs'[o] = Joined(o, t, h) /\ \A e \in DevIds \ {o} : devs'[e] = devs[e]
        /\ devs' \in [DevIds -> DevRec \cup {NoDev}]
    BY <2>1, <2>3, <2>4 DEF DType
  <2> QED BY <2>1, <2>2, <2>3, <2>4, <2>5, NoDevIsNone
<1>4. CASE o = 0
  <2> DEFINE d == FreeDev
  <2>1. d \in DevIds /\ devs[d] = NoDev
    BY <1>1, <1>2, DeviceLeft
  <2>2. /\ qdata' = [qdata EXCEPT ![h] = [hndl |-> h, dev |-> d]]
        /\ devs' = [devs EXCEPT ![d] = NewDev(t, i, h)]
    BY <1>1, <1>4 DEF Register
  <2>3. /\ NewDev(t, i, h) \in DevRec /\ NewDev(t, i, h).idx = i
        /\ NewDev(t, i, h).init = {t} /\ NewDev(t, i, h).hndl[t] = h
    <3>1. [u \in Dirs |-> 0] \in [Dirs -> Slots]
      BY SizeAssumption DEF Slots
    <3> QED BY <1>1, <3>1 DEF NewDev, DevRec
  <2>4. /\ devs'[d] = NewDev(t, i, h) /\ \A e \in DevIds \ {d} : devs'[e] = devs[e]
        /\ devs' \in [DevIds -> DevRec \cup {NoDev}]
    <3> HIDE DEF d
    <3> QED BY <2>1, <2>2, <2>3 DEF DType
  <2> HIDE DEF d
  <2> QED BY <1>4, <2>1, <2>2, <2>3, <2>4, NoDevIsNone
<1> QED BY <1>3, <1>4

\* The descq enabled is the one of the handle, the others are as they were.
QEffect(t, st, i) ==
  /\ q' \in [Slots -> QRec]
  /\ q'[Slot(t, i)] = [state |-> "ENABLED", st |-> st, type |-> t, idx |-> i]
  /\ \A r \in Slots \ {Slot(t, i)} : q'[r] = q[r]

LEMMA EnabledEffect ==
  ASSUME QType, NEW t \in Types, NEW st \in BOOLEAN, NEW i \in Indexes,
         q' = Enabled(Slot(t, i), t, st, i)
  PROVE  QEffect(t, st, i)
BY SlotFacts DEF QType, QRec, Enabled, QEffect

\* A complete addition keeps devices and handles in order.
LEMMA AddedFront ==
  ASSUME DInv, NEW t \in Types, NEW st \in BOOLEAN, NEW i \in Indexes,
         ~InUse(Slot(t, i)), QEffect(t, st, i), Register(t, i, Slot(t, i)),
         up' = up, failed' = failed, uncounted' = uncounted
  PROVE  /\ DType' /\ OneDevice'
         /\ \A d \in DevIds : DevOK(d)'
         /\ \A u \in Types, j \in Indexes : KnownOK(u, j)'
<1> DEFINE h == Slot(t, i)
<1> USE DEF DInv
<1>1. h \in Slots /\ \A u \in Types, j \in Indexes :
        /\ Slot(u, j) \in Slots
        /\ Slot(u, j) = h => (u = t /\ j = i)
  BY SlotFacts
<1>6. \A u \in Types, j \in Indexes : (u # t \/ j # i) => Slot(u, j) \in Slots \ {h}
  BY <1>1
<1>7. "H2C" \in Types /\ "C2H" \in Types /\ Dirs \subseteq Types /\ "CMPT" \notin Dirs
  BY DEF Types, Dirs
<1>2. /\ q'[h].state = "ENABLED" /\ q'[h].type = t /\ q'[h].idx = i
      /\ \A r \in Slots \ {h} : q'[r] = q[r]
  BY DEF QEffect
<1>3. h \notin uncounted /\ qdata[h].dev = 0
  BY UnusedHasNone DEF KnownOK
<1>4. CASE t = "CMPT"
  <2>1. qdata' = [qdata EXCEPT ![h].hndl = h] /\ devs' = devs
    BY <1>4 DEF Register
  <2>2. /\ DType' /\ qdata'[h] = [hndl |-> h, dev |-> 0]
        /\ \A r \in Slots \ {h} : qdata'[r] = qdata[r]
    BY <1>1, <1>3, <2>1 DEF DType
  <2>3. OneDevice'
    <3>1. \A j \in Indexes : Slot("H2C", j) \in Slots \ {h} /\ Slot("C2H", j) \in Slots \ {h}
      BY <1>4, <1>6, <1>7
    <3> QED BY <2>2, <3>1 DEF OneDevice
  <2>4. ASSUME NEW d \in DevIds PROVE DevOK(d)'
    <3>1. DevOK(d) /\ devs[d] \in DevRec \cup {NoDev}
      BY DEF DType
    <3>2. \A u \in devs[d].init : devs[d] # NoDev =>
            Slot(u, devs[d].idx) \in Slots \ {h}
      BY <1>4, <1>6, <1>7, <3>1 DEF DevRec
    <3> QED BY <1>2, <2>1, <2>2, <3>1, <3>2 DEF DevOK, InUse
  <2>5. ASSUME NEW u \in Types, NEW j \in Indexes PROVE KnownOK(u, j)'
    <3>1. CASE Slot(u, j) = h
      <4>1. u = t /\ j = i
        BY <1>1, <3>1
      <4>2. "CMPT" \notin Dirs
        BY DEF Dirs
      <4> QED BY <1>2, <1>3, <1>4, <2>2, <4>1, <4>2 DEF KnownOK, Healthy, InUse
    <3>2. CASE Slot(u, j) # h
      <4>1. KnownOK(u, j) /\ Slot(u, j) \in Slots \ {h}
        BY <1>1, <3>2
      <4>2. q'[Slot(u, j)] = q[Slot(u, j)] /\ qdata'[Slot(u, j)] = qdata[Slot(u, j)]
        BY <1>2, <2>2, <4>1
      <4> QED BY <2>1, <4>1, <4>2 DEF KnownOK, Healthy, InUse
    <3> QED BY <3>1, <3>2
  <2> QED BY <2>2, <2>3, <2>4, <2>5
<1>5. CASE t \in Dirs
  <2> DEFINE k == Slot(Other(t), i)
  <2>1. /\ Other(t) \in Dirs /\ Other(t) \in Types /\ Other(t) # t
        /\ Dirs = {t, Other(t)} /\ k \in Slots \ {h}
    BY <1>5, OtherSlot, SlotOnto DEF Dirs, Types
  <2>2. PICK d \in DevIds :
           /\ qdata' = [qdata EXCEPT ![h] = [hndl |-> h, dev |-> d]]
           /\ devs' \in [DevIds -> DevRec \cup {NoDev}]
           /\ \A e \in DevIds \ {d} : devs'[e] = devs[e]
           /\ devs'[d] # NoDev /\ devs'[d].idx = i /\ devs'[d].hndl[t] = h
           /\ \/ devs[d] = NoDev /\ devs'[d].init = {t}
              \/ /\ devs[d] # NoDev /\ devs[d].idx = i
                 /\ devs'[d].init = devs[d].init \cup {t}
                 /\ devs'[d].hndl[Other(t)] = devs[d].hndl[Other(t)]
           /\ qdata[k].dev \in {0, d}
    BY <1>5, <2>1, Registered
  <2>3. /\ qdata'[h] = [hndl |-> h, dev |-> d]
        /\ \A r \in Slots \ {h} : qdata'[r] = qdata[r]
    BY <1>1, <2>2 DEF DType
  <2>4. DType'
    BY <1>1, <2>2 DEF DType
  <2>5. OneDevice'
    <3> SUFFICES ASSUME NEW j \in Indexes
                 PROVE  (qdata'[Slot("H2C", j)].dev # 0 /\ qdata'[Slot("C2H", j)].dev # 0) =>
                          qdata'[Slot("H2C", j)].dev = qdata'[Slot("C2H", j)].dev
      BY DEF OneDevice
    <3>1. CASE j = i
      <4>1. qdata'[h].dev = d /\ qdata'[k].dev \in {0, d}
        BY <2>1, <2>2, <2>3
      <4>2. {Slot("H2C", i), Slot("C2H", i)} = {h, k}
        BY <1>5 DEF Dirs, Other
      <4> QED BY <3>1, <4>1, <4>2
    <3>2. CASE j # i
      <4>1. Slot("H2C", j) \in Slots \ {h} /\ Slot("C2H", j) \in Slots \ {h}
        BY <1>6, <1>7, <3>2
      <4> QED BY <2>3, <4>1 DEF OneDevice
    <3> QED BY <3>1, <3>2
  <2>6. ASSUME NEW e \in DevIds PROVE DevOK(e)'
    <3>1. DevOK(e) /\ devs[e] \in DevRec \cup {NoDev}
      BY DEF DType
    <3>2. CASE e # d
      <4> SUFFICES ASSUME devs[e] # NoDev PROVE DevOK(e)'
        BY <2>2, <3>2 DEF DevOK
      <4>1. devs[e].idx \in Indexes /\ devs[e].init \subseteq Types
        BY <3>1 DEF DevRec, Dirs, Types
      <4>2. \A u \in devs[e].init : Slot(u, devs[e].idx) \in Slots \ {h}
        <5> SUFFICES ASSUME NEW u \in devs[e].init PROVE Slot(u, devs[e].idx) # h
          BY <1>1, <4>1, Zenon
        <5>1. qdata[Slot(u, devs[e].idx)].dev = e
          BY <3>1 DEF DevOK
        <5>2. e # 0
          BY SizeAssumption DEF DevIds
        <5>3. qdata[Slot(u, devs[e].idx)].dev # qdata[h].dev
          BY <1>3, <5>1, <5>2
        <5> QED BY <5>3
      <4> QED BY <1>2, <2>2, <2>3, <3>1, <3>2, <4>2 DEF DevOK, InUse
    <3>3. CASE e = d
      <4>1. \A u \in devs'[d].init : u # t => u = Other(t) /\ devs[d] # NoDev /\ u \in devs[d].init
        BY <2>1, <2>2, <3>1, <3>3 DEF DevRec
      <4>2. ASSUME NEW u \in devs'[d].init, u # t
            PROVE  /\ devs'[d].hndl[u] = Slot(u, i) /\ qdata'[Slot(u, i)].dev = d
                   /\ InUse(Slot(u, i))'
        <5>1. u = Other(t) /\ devs[d] # NoDev /\ u \in devs[d].init
          BY <4>1, <4>2
        <5>2. devs[d].idx = i /\ devs'[d].hndl[u] = devs[d].hndl[u]
          BY <2>2, <5>1
        <5>3. /\ devs[d].hndl[u] = k /\ qdata[k].dev = d /\ InUse(k)
          BY <3>1, <3>3, <5>1, <5>2 DEF DevOK
        <5> QED BY <1>2, <2>1, <2>3, <5>1, <5>2, <5>3 DEF InUse
      <4>3. InUse(h)'
        BY <1>2 DEF InUse
      <4>4. devs'[d].init # {}
        BY <2>2
      <4> QED BY <2>2, <2>3, <3>3, <4>2, <4>3, <4>4 DEF DevOK
    <3> QED BY <3>2, <3>3
  <2>7. ASSUME NEW u \in Types, NEW j \in Indexes PROVE KnownOK(u, j)'
    <3>1. CASE Slot(u, j) = h
      <4>1. u = t /\ j = i
        BY <1>1, <3>1
      <4>2. t \in devs'[d].init
        BY <2>2
      <4>3. d # 0
        BY SizeAssumption DEF DevIds
      <4> QED BY <1>2, <1>3, <1>5, <2>2, <2>3, <4>1, <4>2, <4>3 DEF KnownOK, Healthy, InUse
    <3>2. CASE Slot(u, j) # h
      <4> DEFINE r == Slot(u, j)
                 e == qdata[r].dev
      <4>1. r \in Slots \ {h} /\ q'[r] = q[r] /\ qdata'[r] = qdata[r]
        <5>1. r \in Slots \ {h}
          BY <1>1, <3>2, Zenon
        <5> QED BY <1>2, <2>3, <5>1
      <4>2. KnownOK(u, j)
        OBVIOUS
      <4>3. e # 0 => /\ u \in Dirs /\ devs'[e] # NoDev /\ devs'[e].idx = j
                     /\ u \in devs'[e].init
        <5> SUFFICES ASSUME e # 0 PROVE /\ u \in Dirs /\ devs'[e] # NoDev
                                        /\ devs'[e].idx = j /\ u \in devs'[e].init
          OBVIOUS
        <5>1. e \in DevIds
          BY <4>1 DEF DType
        <5>2. /\ u \in Dirs /\ devs[e] # NoDev /\ devs[e].idx = j /\ u \in devs[e].init
          BY <4>2 DEF KnownOK
        <5> QED BY <2>2, <5>1, <5>2
      <4> HIDE DEF r, e
      <4>4. /\ q'[r] = q[r] /\ qdata'[r] = qdata[r]
            /\ qdata'[r].dev = e
        BY <4>1 DEF e
      <4> QED BY <4>2, <4>3, <4>4 DEF KnownOK, Healthy, InUse, r, e
    <3> QED BY <3>1, <3>2
  <2> QED BY <2>4, <2>5, <2>6, <2>7
<1> QED BY <1>4, <1>5 DEF Types, Dirs

\* The sets of counted queues are finite.
LEMMA CountedFinite ==
  ASSUME NEW t \in Types
  PROVE  IsFiniteSet(CountedBy(t)) /\ Cardinality(CountedBy(t)) \in Nat
BY SlotsFinite, FS_Subset, FS_CardinalityType DEF CountedBy

\* Counted up with the queue that was added, the counters stay right.
LEMMA AddedCounts ==
  ASSUME DInv, NEW t \in Types, NEW st \in BOOLEAN, NEW i \in Indexes,
         ~InUse(Slot(t, i)), QEffect(t, st, i), up' = up, uncounted' = uncounted,
         active' = Increment(active, Counted(t, st))
  PROVE  CountsOK'
<1> DEFINE h == Slot(t, i)
<1>1. /\ h \in Slots /\ q'[h].state = "ENABLED" /\ q'[h].type = t /\ q'[h].st = st
      /\ \A r \in Slots \ {h} : q'[r] = q[r]
  BY SlotFacts DEF QEffect
<1>2. h \notin uncounted /\ ~InUse(h) /\ InUse(h)'
  BY <1>1 DEF DInv, KnownOK, InUse
<1>3. active' \in [Types -> Nat]
  BY DEF DInv, CountsOK, Increment
<1>4. ASSUME up = "up", NEW u \in Types PROVE active'[u] = Cardinality(CountedBy(u)')
  <2>1. active[u] = Cardinality(CountedBy(u)) /\ h \notin CountedBy(u)
    BY <1>2, <1>4 DEF DInv, CountsOK, CountedBy
  <2>2. CASE u \in Counted(t, st)
    <3>1. CountedBy(u)' = CountedBy(u) \cup {h}
      BY <1>1, <1>2, <2>2 DEF CountedBy, InUse
    <3>2. active'[u] = active[u] + 1
      BY <2>2 DEF Increment
    <3> QED BY <2>1, <3>1, <3>2, CountedFinite, FS_AddElement
  <2>3. CASE u \notin Counted(t, st)
    <3>1. CountedBy(u)' = CountedBy(u)
      BY <1>1, <1>2, <2>3 DEF CountedBy, InUse
    <3>2. active'[u] = active[u]
      BY <2>3 DEF Increment
    <3> QED BY <2>1, <3>1, <3>2
  <2> QED BY <2>2, <2>3
<1> QED BY <1>3, <1>4 DEF CountsOK

\* The counters stay right while the same queues are counted.
LEMMA SameCounts ==
  ASSUME CountsOK, up' = up, active' = active,
         \A p \in Slots : (InUse(p) /\ p \notin uncounted)' <=> (InUse(p) /\ p \notin uncounted),
         \A p \in Slots : (InUse(p) /\ p \notin uncounted) =>
                            q'[p].type = q[p].type /\ q'[p].st = q[p].st
  PROVE  CountsOK'
<1>1. ASSUME NEW u \in Types PROVE CountedBy(u)' = CountedBy(u)
  BY DEF CountedBy
<1> QED BY <1>1 DEF CountsOK

\* Counted down with the queue that was removed, the counters stay right.
LEMMA RemovedCounts ==
  ASSUME DInv, NEW p \in Slots, InUse(p), p \notin uncounted,
         up' = up, uncounted' = uncounted, q' = [q EXCEPT ![p] = Fresh],
         active' = Decrement(active, Counted(q[p].type, q[p].st))
  PROVE  CountsOK'
<1>1. q'[p].state = "DISABLED" /\ \A r \in Slots \ {p} : q'[r] = q[r]
  BY DEF DInv, QType, Fresh
<1>2. active' \in [Types -> Nat]
  BY DEF DInv, CountsOK, Decrement
<1>3. ASSUME up = "up", NEW u \in Types PROVE active'[u] = Cardinality(CountedBy(u)')
  <2>1. active[u] = Cardinality(CountedBy(u)) /\ active[u] \in Nat
    BY <1>3 DEF DInv, CountsOK
  <2>2. CASE u \in Counted(q[p].type, q[p].st)
    <3>1. CountedBy(u)' = CountedBy(u) \ {p} /\ p \in CountedBy(u)
      BY <1>1, <2>2 DEF CountedBy, InUse
    <3>2. CountedBy(u) # {}
      BY <3>1
    <3>3. active[u] # 0
      BY <2>1, <3>2, CountedFinite, FS_EmptySet
    <3>4. active'[u] = active[u] - 1
      BY <2>1, <2>2, <3>3 DEF Decrement
    <3> QED BY <2>1, <3>1, <3>4, CountedFinite, FS_RemoveElement
  <2>3. CASE u \notin Counted(q[p].type, q[p].st)
    <3>1. CountedBy(u)' = CountedBy(u)
      BY <1>1, <2>3 DEF CountedBy, InUse
    <3>2. active'[u] = active[u]
      BY <2>3 DEF Decrement
    <3> QED BY <2>1, <3>1, <3>2
  <2> QED BY <2>2, <2>3
<1> QED BY <1>2, <1>3 DEF CountsOK

\* A queue that the check lets in keeps completion and streaming queues apart.
LEMMA CmptStays ==
  ASSUME DInv, NEW t \in Types, NEW st \in BOOLEAN, NEW i \in Indexes,
         IsUsable(i, t, st), ~(t = "CMPT" /\ st),
         \A r \in Slots \ {Slot(t, i)} :
           q'[r] = q[r] /\ (r \in uncounted' <=> r \in uncounted),
         Slot(t, i) \in uncounted' \/ q'[Slot(t, i)].st = st
  PROVE  \A j \in Indexes : CmptOK(j)'
<1> DEFINE h == Slot(t, i)
<1>1. h \in Slots /\ \A u \in Types, j \in Indexes :
        /\ Slot(u, j) \in Slots
        /\ Slot(u, j) = h => (u = t /\ j = i)
  BY SlotFacts
<1>2. "C2H" \in Types /\ "CMPT" \in Types
  BY DEF Types
<1> SUFFICES ASSUME NEW j \in Indexes PROVE CmptOK(j)'
  OBVIOUS
<1> DEFINE c == Slot("CMPT", j)
           d == Slot("C2H", j)
<1>3. CmptOK(j) /\ c \in Slots /\ d \in Slots
  BY <1>1, <1>2 DEF DInv
<1>4. CASE c # h /\ d # h
  BY <1>3, <1>4 DEF CmptOK, InUse
<1>5. CASE c = h
  <2>1. t = "CMPT" /\ j = i /\ d # h
    BY <1>1, <1>2, <1>5
  <2>2. ~Streams(i)
    BY <2>1 DEF IsUsable
  <2>3. InUse(d) => ~q[d].st
    BY <2>1, <2>2 DEF Streams, Present, Dirs, Types
  <2>4. q'[d] = q[d]
    BY <1>3, <2>1
  <2> QED BY <1>5, <2>1, <2>3, <2>4 DEF CmptOK, InUse
<1>6. CASE d = h
  <2>1. t = "C2H" /\ j = i /\ c # h
    BY <1>1, <1>2, <1>6
  <2>2. st => ~InUse(c)
    BY <2>1, <1>2 DEF IsUsable, Present
  <2>3. q'[c] = q[c] /\ (c \in uncounted' <=> c \in uncounted)
    BY <1>3, <2>1
  <2> QED BY <1>3, <1>6, <2>1, <2>2, <2>3 DEF CmptOK, InUse
<1> QED BY <1>4, <1>5, <1>6

\* Devices and handles stay in order while no queue in use leaves, none that
\* failed becomes healthy and no device is made or dropped.
LEMMA FrontKept ==
  ASSUME DInv, devs' = devs, up' = up,
         qdata' \in [Slots -> [hndl : Slots, dev : DevIds \cup {0}]],
         uncounted' \subseteq failed' /\ failed' \subseteq Slots,
         \A p \in Slots :
           /\ InUse(p) => InUse(p)'
           /\ Healthy(p)' => Healthy(p)
           /\ qdata'[p].dev = qdata[p].dev
           /\ \/ qdata'[p] = qdata[p]
              \/ qdata'[p].hndl = p /\ InUse(p)' /\ p \notin uncounted'
           /\ p \in uncounted' => (InUse(p)' /\ (p \in uncounted \/ qdata'[p] = NoData)),
         \A t \in Types, i \in Indexes :
           (InUse(Slot(t, i)) /\ Slot(t, i) \notin uncounted)' =>
             (q'[Slot(t, i)].idx = i /\ q'[Slot(t, i)].type = t)
  PROVE  /\ DType' /\ OneDevice'
         /\ \A d \in DevIds : DevOK(d)'
         /\ \A t \in Types, i \in Indexes : KnownOK(t, i)'
<1>1. \A t \in Types, i \in Indexes : Slot(t, i) \in Slots
  BY SlotFacts
<1>2. "H2C" \in Types /\ "C2H" \in Types /\ Dirs \subseteq Types
  BY DEF Types, Dirs
<1>3. DType'
  BY DEF DInv, DType
<1>4. OneDevice'
  BY <1>1, <1>2 DEF DInv, OneDevice
<1>5. ASSUME NEW d \in DevIds PROVE DevOK(d)'
  <2>1. DevOK(d) /\ devs[d] \in DevRec \cup {NoDev}
    BY DEF DInv, DType
  <2>2. devs[d] # NoDev => \A t \in devs[d].init : Slot(t, devs[d].idx) \in Slots
    BY <1>1, <1>2, <2>1 DEF DevRec
  <2> QED BY <2>1, <2>2 DEF DevOK
<1>6. ASSUME NEW t \in Types, NEW i \in Indexes PROVE KnownOK(t, i)'
  <2> DEFINE h == Slot(t, i)
  <2>1. h \in Slots /\ KnownOK(t, i)
    BY <1>1 DEF DInv
  <2>2. qdata'[h].dev = qdata[h].dev
    BY <2>1
  <2>3. (InUse(h) /\ h \notin uncounted)' => (q'[h].idx = i /\ q'[h].type = t)
    OBVIOUS
  <2>4. qdata'[h] = NoData \/ qdata'[h].hndl = h
    BY <2>1 DEF KnownOK
  <2>5. h \in uncounted' => (qdata'[h] = NoData /\ InUse(h)')
    BY <2>1 DEF KnownOK
  <2>6. Healthy(h)' => (qdata'[h].hndl = h /\ (t \in Dirs => qdata'[h].dev # 0))
    BY <2>1, <2>2 DEF KnownOK
  <2>7. (up' = "up" /\ qdata'[h] # NoData) => InUse(h)'
    BY <2>1 DEF KnownOK
  <2>8. qdata'[h].dev # 0 =>
          /\ t \in Dirs /\ devs'[qdata'[h].dev] # NoDev
          /\ devs'[qdata'[h].dev].idx = i /\ t \in devs'[qdata'[h].dev].init
    BY <2>1, <2>2 DEF KnownOK
  <2> QED BY <2>3, <2>4, <2>5, <2>6, <2>7, <2>8 DEF KnownOK
<1> QED BY <1>3, <1>4, <1>5, <1>6

\* The device of a deleted queue loses a direction or goes with its last one.
LEMMA DeletedFront ==
  ASSUME DInv, NEW t \in Types, NEW i \in Indexes, qdata[Slot(t, i)] # NoData,
         t \in Dirs => qdata[Slot(t, i)].dev # 0,
         up' = up, failed' = failed \ {Slot(t, i)}, uncounted' = uncounted,
         q' \in [Slots -> QRec], q'[Slot(t, i)].state = "DISABLED",
         \A r \in Slots \ {Slot(t, i)} : q'[r] = q[r],
         qdata' = [qdata EXCEPT ![Slot(t, i)] = NoData],
         devs' = IF t \in Dirs
                 THEN [devs EXCEPT ![qdata[Slot(t, i)].dev] = Left(qdata[Slot(t, i)].dev, t)]
                 ELSE devs
  PROVE  /\ DType' /\ OneDevice'
         /\ \A d \in DevIds : DevOK(d)'
         /\ \A u \in Types, j \in Indexes : KnownOK(u, j)'
<1> DEFINE h == Slot(t, i)
           d == qdata[h].dev
<1>1. h \in Slots /\ \A u \in Types, j \in Indexes :
        /\ Slot(u, j) \in Slots
        /\ Slot(u, j) = h => (u = t /\ j = i)
  BY SlotFacts
<1>2. "H2C" \in Types /\ "C2H" \in Types /\ Dirs \subseteq Types
  BY DEF Types, Dirs
<1>3. /\ qdata'[h] = NoData /\ \A r \in Slots \ {h} : qdata'[r] = qdata[r]
      /\ qdata' \in [Slots -> [hndl : Slots, dev : DevIds \cup {0}]]
  <2>1. NoData \in [hndl : Slots, dev : DevIds \cup {0}]
    BY SizeAssumption DEF NoData, Slots
  <2> QED BY <1>1, <2>1 DEF DInv, DType
<1>4. NoData.dev = 0 /\ h \notin uncounted
  BY DEF NoData, DInv, KnownOK
<1>5. t \in Dirs => /\ d \in DevIds /\ devs[d] \in DevRec /\ devs[d].idx = i
                    /\ t \in devs[d].init
  BY <1>1 DEF DInv, DType, KnownOK
<1>6. t \notin Dirs => d = 0
  BY DEF DInv, KnownOK
<1>7. t \in Dirs => /\ \A e \in DevIds \ {d} : devs'[e] = devs[e]
                    /\ devs'[d] = Left(d, t)
                    /\ Left(d, t) \in DevRec \cup {NoDev}
                    /\ Left(d, t) # NoDev =>
                         /\ devs[d].init \ {t} # {}
                         /\ Left(d, t).idx = i /\ Left(d, t).hndl = devs[d].hndl
                         /\ Left(d, t).init = devs[d].init \ {t}
                    /\ devs[d].init \ {t} # {} => Left(d, t) # NoDev
  <2> SUFFICES ASSUME t \in Dirs
               PROVE  /\ \A e \in DevIds \ {d} : devs'[e] = devs[e]
                      /\ devs'[d] = Left(d, t)
                      /\ Left(d, t) \in DevRec \cup {NoDev}
                      /\ Left(d, t) # NoDev =>
                           /\ devs[d].init \ {t} # {}
                           /\ Left(d, t).idx = i /\ Left(d, t).hndl = devs[d].hndl
                           /\ Left(d, t).init = devs[d].init \ {t}
                      /\ devs[d].init \ {t} # {} => Left(d, t) # NoDev
    OBVIOUS
  <2>1. devs' = [devs EXCEPT ![d] = Left(d, t)] /\ devs \in [DevIds -> DevRec \cup {NoDev}]
    BY DEF DInv, DType
  <2>2. CASE devs[d].init \subseteq {t}
    BY <1>5, <2>1, <2>2 DEF Left
  <2>3. CASE ~(devs[d].init \subseteq {t})
    <3>1. Left(d, t) = [devs[d] EXCEPT !.init = @ \ {t}]
      BY <2>3 DEF Left
    <3>2. Left(d, t) \in DevRec
      BY <1>5, <3>1 DEF DevRec
    <3>3. /\ Left(d, t).idx = i /\ Left(d, t).hndl = devs[d].hndl
          /\ Left(d, t).init = devs[d].init \ {t}
      BY <1>5, <3>1 DEF DevRec
    <3> QED BY <1>5, <2>1, <2>3, <3>2, <3>3, NoDevIsNone
  <2> QED BY <2>2, <2>3
<1>8. DType'
  <2>1. devs' \in [DevIds -> DevRec \cup {NoDev}]
    <3>1. CASE t \in Dirs
      BY <1>5, <1>7, <3>1 DEF DInv, DType
    <3>2. CASE t \notin Dirs
      BY <3>2 DEF DInv, DType
    <3> QED BY <3>1, <3>2
  <2> QED BY <1>3, <1>4, <2>1 DEF DInv, DType
<1>9. OneDevice'
  <2> SUFFICES ASSUME NEW j \in Indexes, qdata'[Slot("H2C", j)].dev # 0,
                      qdata'[Slot("C2H", j)].dev # 0
               PROVE  qdata'[Slot("H2C", j)].dev = qdata'[Slot("C2H", j)].dev
    BY DEF OneDevice
  <2>1. Slot("H2C", j) \in Slots \ {h} /\ Slot("C2H", j) \in Slots \ {h}
    BY <1>1, <1>2, <1>3, <1>4
  <2> QED BY <1>3, <2>1 DEF DInv, OneDevice
<1>10. ASSUME NEW e \in DevIds PROVE DevOK(e)'
  <2>1. DevOK(e) /\ devs[e] \in DevRec \cup {NoDev} /\ e # 0
    BY SizeAssumption DEF DInv, DType, DevIds
  <2>2. ASSUME devs[e] # NoDev, NEW u \in devs[e].init, Slot(u, devs[e].idx) = h
        PROVE  u = t /\ e = d
    <3>1. u \in Types /\ devs[e].idx \in Indexes
      BY <1>2, <2>1, <2>2 DEF DevRec
    <3>2. qdata[h].dev = e
      BY <2>1, <2>2 DEF DevOK
    <3> QED BY <1>1, <2>2, <3>1, <3>2
  <2>3. ASSUME devs[e] # NoDev, NEW u \in devs[e].init PROVE Slot(u, devs[e].idx) \in Slots
    BY <1>1, <1>2, <2>1, <2>3 DEF DevRec
  <2>4. CASE e # d \/ t \notin Dirs
    <3>1. devs'[e] = devs[e]
      BY <1>7, <2>4
    <3>2. ASSUME devs[e] # NoDev, NEW u \in devs[e].init
          PROVE  Slot(u, devs[e].idx) \in Slots \ {h}
      BY <1>6, <2>1, <2>2, <2>3, <2>4, <3>2
    <3>3. ASSUME devs[e] # NoDev, NEW u \in devs[e].init
          PROVE  /\ devs'[e].hndl[u] = Slot(u, devs'[e].idx)
                 /\ qdata'[Slot(u, devs'[e].idx)].dev = e
                 /\ InUse(Slot(u, devs[e].idx))'
      <4>1. Slot(u, devs[e].idx) \in Slots \ {h}
        BY <3>2, <3>3
      <4>2. /\ devs[e].hndl[u] = Slot(u, devs[e].idx)
            /\ qdata[Slot(u, devs[e].idx)].dev = e /\ InUse(Slot(u, devs[e].idx))
        BY <2>1, <3>3 DEF DevOK
      <4> QED BY <1>3, <3>1, <4>1, <4>2 DEF InUse
    <3> QED BY <2>1, <3>1, <3>3 DEF DevOK
  <2>5. CASE e = d /\ t \in Dirs
    <3> SUFFICES ASSUME devs'[e] # NoDev PROVE DevOK(e)'
      BY DEF DevOK
    <3>1. /\ devs[e] # NoDev /\ devs'[e].idx = devs[e].idx /\ devs'[e].hndl = devs[e].hndl
          /\ devs'[e].init = devs[e].init \ {t} /\ devs'[e].init # {}
      BY <1>5, <1>7, <2>5, NoDevIsNone
    <3>2. ASSUME NEW u \in devs'[e].init
          PROVE  /\ devs'[e].hndl[u] = Slot(u, devs'[e].idx)
                 /\ qdata'[Slot(u, devs'[e].idx)].dev = e
                 /\ InUse(Slot(u, devs[e].idx))'
      <4>1. u \in devs[e].init /\ u # t
        BY <3>1, <3>2
      <4>2. Slot(u, devs[e].idx) \in Slots \ {h}
        BY <2>2, <2>3, <3>1, <4>1
      <4>3. /\ devs[e].hndl[u] = Slot(u, devs[e].idx)
            /\ qdata[Slot(u, devs[e].idx)].dev = e /\ InUse(Slot(u, devs[e].idx))
        BY <2>1, <3>1, <4>1 DEF DevOK
      <4> QED BY <1>3, <3>1, <4>2, <4>3 DEF InUse
    <3> QED BY <3>1, <3>2 DEF DevOK
  <2> QED BY <2>4, <2>5
<1>11. ASSUME NEW u \in Types, NEW j \in Indexes PROVE KnownOK(u, j)'
  <2> DEFINE r == Slot(u, j)
  <2>1. CASE r = h
    BY <1>3, <1>4, <2>1 DEF KnownOK, Healthy, InUse
  <2>2. CASE r # h
    <3>1. /\ KnownOK(u, j) /\ q'[r] = q[r] /\ qdata'[r] = qdata[r] /\ r \in Slots
          /\ (r \in failed' <=> r \in failed)
      BY <1>1, <1>3, <2>2 DEF DInv
    <3>2. ASSUME qdata[r].dev # 0
          PROVE  /\ devs'[qdata[r].dev] # NoDev /\ devs'[qdata[r].dev].idx = j
                 /\ u \in devs'[qdata[r].dev].init
      <4>1. /\ qdata[r].dev \in DevIds /\ devs[qdata[r].dev] # NoDev
            /\ devs[qdata[r].dev].idx = j /\ u \in devs[qdata[r].dev].init
        BY <3>1, <3>2 DEF DInv, DType, KnownOK
      <4>2. CASE t \notin Dirs \/ qdata[r].dev # d
        BY <1>7, <4>1, <4>2
      <4>3. CASE t \in Dirs /\ qdata[r].dev = d
        <5>1. j = i /\ u # t
          BY <1>5, <2>2, <4>1, <4>3
        <5>2. u \in devs[d].init \ {t}
          BY <4>1, <4>3, <5>1
        <5> QED BY <1>7, <4>1, <4>3, <5>1, <5>2
      <4> QED BY <4>2, <4>3
    <3> HIDE DEF r
    <3> QED BY <3>1, <3>2 DEF KnownOK, Healthy, InUse, r
  <2> QED BY <2>1, <2>2
<1> QED BY <1>8, <1>9, <1>10, <1>11

\* A reset visits each device once for each of its directions at least, and
\* so destroys them all.
LEMMA AllDestroyed ==
  ASSUME DInv
  PROVE  \A d \in DevIds : Destroyed(devs)[d] = NoDev
<1> SUFFICES ASSUME NEW d \in DevIds, devs[d] # NoDev PROVE Destroyed(devs)[d] = NoDev
  BY DEF Destroyed
<1> DEFINE V == {h \in DirSlots : qdata[h].dev = d}
           f == [t \in devs[d].init |-> Slot(t, devs[d].idx)]
<1>1. /\ devs[d].init \subseteq Dirs /\ devs[d].idx \in Indexes /\ devs[d].init # {}
      /\ \A t \in devs[d].init : qdata[Slot(t, devs[d].idx)].dev = d
  BY DEF DInv, DType, DevRec, DevOK
<1>2. \A t \in devs[d].init : f[t] \in V
  BY <1>1, SlotOnto
<1>3. \A t, u \in devs[d].init : f[t] = f[u] => t = u
  BY <1>1, SlotFacts DEF Dirs, Types
<1>4. IsFiniteSet(V)
  BY SlotsFinite, FS_Subset
<1> HIDE DEF V
<1>5. f \in Injection(devs[d].init, V)
  BY <1>2, <1>3 DEF Injection, IsInjective
<1>6. Cardinality(devs[d].init) <= Cardinality(V)
  BY <1>4, <1>5, FS_Injection
<1>7. Cardinality(V) # 0
  <2>1. V # {}
    BY <1>1, <1>2
  <2> QED BY <1>4, <2>1, FS_EmptySet
<1>8. IsFiniteSet(devs[d].init) /\ Cardinality(V) \in Nat
  BY <1>4, <1>5, FS_Injection, FS_CardinalityType
<1>9. Cardinality(devs[d].init) \in Nat
  BY <1>8, FS_CardinalityType
<1>10. ~(Cardinality(V) = 0 \/ devs[d] = NoDev) /\ Cardinality(V) >= Cardinality(devs[d].init)
  BY <1>6, <1>7, <1>8, <1>9
<1> QED BY <1>10 DEF Destroyed, V

\* Nothing is in use and nothing known of the queues of both directions.
LEMMA NothingLeft ==
  ASSUME DInv, q' = FreshQ, uncounted' = {}, failed' = {},
         \A d \in DevIds : devs'[d] = NoDev, devs' \in [DevIds -> DevRec \cup {NoDev}],
         qdata' \in [Slots -> {NoData} \cup {[hndl |-> h, dev |-> 0] : h \in Slots}],
         \A h \in Slots : qdata'[h] = NoData \/ (qdata'[h] = qdata[h] /\ up' # "up"),
         active' \in [Types -> Nat],
         up' = "up" => \A t \in Types : active'[t] = 0
  PROVE  DInv'
<1>1. QType' /\ \A r \in Slots : ~InUse(r)'
  BY FreshOK DEF QType, InUse
<1>2. /\ \A h \in Slots : qdata'[h].dev = 0
      /\ qdata' \in [Slots -> [hndl : Slots, dev : DevIds \cup {0}]]
  <2>1. 0 \in Slots
    BY SizeAssumption DEF Slots
  <2> QED BY <2>1 DEF NoData
<1>3. DType' /\ \A d \in DevIds : DevOK(d)'
  BY <1>2 DEF DType, DevOK
<1>4. \A t \in Types, i \in Indexes : Slot(t, i) \in Slots
  BY SlotFacts
<1>5. "H2C" \in Types /\ "C2H" \in Types /\ "CMPT" \in Types
  BY DEF Types
<1>6. OneDevice' /\ Idle' /\ \A i \in Indexes : CmptOK(i)'
  BY <1>1, <1>2, <1>4, <1>5 DEF OneDevice, Idle, CmptOK
<1>7. CountsOK'
  <2>1. \A t \in Types : CountedBy(t)' = {}
    BY <1>1 DEF CountedBy
  <2> QED BY <2>1, FS_EmptySet DEF CountsOK
<1>8. ASSUME NEW t \in Types, NEW i \in Indexes PROVE KnownOK(t, i)'
  <2> DEFINE h == Slot(t, i)
  <2>1. h \in Slots /\ ~InUse(h)' /\ qdata'[h].dev = 0
    BY <1>1, <1>2, <1>4
  <2>2. qdata'[h] = NoData \/ (qdata'[h].hndl = h /\ up' # "up")
    BY <2>1 DEF DInv, KnownOK
  <2> QED BY <2>1, <2>2 DEF KnownOK, Healthy
<1> QED BY <1>1, <1>3, <1>6, <1>7, <1>8 DEF DInv

\* While a device is there a queue is counted: qmax cannot be written.
LEMMA UncountedHasNone ==
  ASSUME DInv, up # "down", \A t \in Types : active[t] = 0
  PROVE  \A d \in DevIds : devs[d] = NoDev
<1> SUFFICES ASSUME NEW d \in DevIds, devs[d] # NoDev PROVE FALSE
  OBVIOUS
<1>1. devs[d] \in DevRec /\ DevOK(d)
  BY DEF DInv, DType
<1>2. PICK t \in devs[d].init : TRUE
  BY <1>1 DEF DevOK
<1> DEFINE i == devs[d].idx
           h == Slot(t, i)
<1>3. t \in Dirs /\ t \in Types /\ i \in Indexes /\ h \in Slots
  BY <1>1, <1>2, SlotFacts DEF DevRec, Dirs, Types
<1>4. InUse(h) /\ qdata[h].dev = d /\ d # 0
  BY <1>1, <1>2, SizeAssumption DEF DevOK, DevIds
<1>5. up = "up" /\ h \notin uncounted /\ q[h].type = t
  <2>1. KnownOK(t, i)
    BY <1>3 DEF DInv
  <2>2. qdata[h] # NoData
    BY <1>4 DEF NoData
  <2> QED BY <1>3, <1>4, <2>1, <2>2 DEF DInv, Idle, KnownOK
<1>6. h \in CountedBy(t)
  BY <1>3, <1>4, <1>5 DEF CountedBy, Counted
<1>7. Cardinality(CountedBy(t)) # 0
  BY <1>3, <1>6, CountedFinite, FS_EmptySet
<1> QED BY <1>3, <1>5, <1>7 DEF DInv, CountsOK

LEMMA InitDInv == Init => DInv
<1> SUFFICES ASSUME Init PROVE DInv
  OBVIOUS
<1>1. QType /\ \A r \in Slots : ~InUse(r)
  BY FreshOK DEF Init, QType, InUse
<1>2. NoData \in [hndl : Slots, dev : DevIds \cup {0}] /\ NoData.dev = 0
  BY SizeAssumption DEF NoData, Slots
<1>3. DType /\ \A d \in DevIds : DevOK(d)
  BY <1>2 DEF Init, DType, DevOK
<1>4. \A t \in Types, i \in Indexes : Slot(t, i) \in Slots
  BY SlotFacts
<1>5. "H2C" \in Types /\ "C2H" \in Types /\ "CMPT" \in Types
  BY DEF Types
<1>6. OneDevice /\ Idle /\ \A i \in Indexes : CmptOK(i)
  BY <1>1, <1>2, <1>4, <1>5 DEF Init, OneDevice, Idle, CmptOK
<1>7. CountsOK
  <2>1. \A t \in Types : CountedBy(t) = {}
    BY <1>1 DEF CountedBy
  <2> QED BY <2>1, FS_EmptySet DEF Init, CountsOK
<1>8. \A t \in Types, i \in Indexes : KnownOK(t, i)
  BY <1>1, <1>2, <1>4 DEF Init, KnownOK, Healthy
<1> QED BY <1>1, <1>3, <1>6, <1>7, <1>8 DEF DInv

\* The guard of an addition, as far as DInv needs it.
LEMMA AddHere ==
  ASSUME ~AnyAuto, NEW t \in Types, NEW st \in BOOLEAN, NEW i \in Indexes,
         NEW p \in Slots, AddGuard(t, st, i, p)
  PROVE  /\ p = Slot(t, i) /\ IsUsable(i, t, st) /\ ~(t = "CMPT" /\ st)
         /\ ~InUse(Slot(t, i)) /\ up = "up" /\ active[t] < QMax
<1>1. p = Slot(t, i) /\ IsUsable(i, t, st) /\ ~(t = "CMPT" /\ st)
  BY LandsThere
<1>2. t \notin Present(i)
  BY <1>1 DEF IsUsable
<1> QED BY <1>1, <1>2 DEF AddGuard, Present

LEMMA AddDInv ==
  ASSUME ~AnyAuto, DInv, NEW t \in Types, NEW st \in BOOLEAN, NEW i \in Indexes,
         NEW p \in Slots, Add(t, st, i, p)
  PROVE  DInv'
<1>1. /\ AddGuard(t, st, i, p) /\ q' = Enabled(p, t, st, i)
      /\ active' = Increment(active, Counted(t, st))
      /\ Register(t, i, Slot(t, i))
      /\ up' = up /\ failed' = failed /\ uncounted' = uncounted
  BY DEF Add, history
<1>2. /\ p = Slot(t, i) /\ IsUsable(i, t, st) /\ ~(t = "CMPT" /\ st)
      /\ ~InUse(Slot(t, i)) /\ up = "up"
  BY <1>1, AddHere
<1>3. QEffect(t, st, i)
  BY <1>1, <1>2, EnabledEffect DEF DInv
<1>4. /\ DType' /\ OneDevice' /\ \A d \in DevIds : DevOK(d)'
      /\ \A u \in Types, j \in Indexes : KnownOK(u, j)'
  BY <1>1, <1>2, <1>3, AddedFront
<1>5. CountsOK'
  BY <1>1, <1>2, <1>3, AddedCounts
<1>6. \A j \in Indexes : CmptOK(j)'
  BY <1>1, <1>2, <1>3, CmptStays DEF QEffect
<1>7. QType' /\ Idle'
  BY <1>1, <1>2, <1>3 DEF QEffect, QType, Idle
<1> QED BY <1>4, <1>5, <1>6, <1>7 DEF DInv

\* An addition that fails leaves a queue that is enabled, known or counted
\* or not, but to no device.
LEMMA FailedDInv ==
  ASSUME ~AnyAuto, DInv, NEW t \in Types, NEW st \in BOOLEAN, NEW i \in Indexes,
         NEW p \in Slots,
         \/ AddFailsPreparing(t, st, i, p)
         \/ AddFailsCounting(t, st, i, p)
         \/ AddFailsDevice(t, st, i, p)
  PROVE  DInv'
<1> DEFINE h == Slot(t, i)
<1>1. AddGuard(t, st, i, p)
  BY DEF AddFailsPreparing, AddFailsCounting, AddFailsDevice
<1>2. /\ p = h /\ IsUsable(i, t, st) /\ ~(t = "CMPT" /\ st)
      /\ ~InUse(h) /\ up = "up"
  BY <1>1, AddHere
<1>3. /\ h \in Slots /\ h \notin uncounted /\ qdata[h] = NoData
      /\ \A u \in Types, j \in Indexes :
           /\ Slot(u, j) \in Slots
           /\ Slot(u, j) = h => (u = t /\ j = i)
  BY <1>2, SlotFacts DEF DInv, KnownOK
<1>4. /\ up' = up /\ devs' = devs /\ failed' = failed \cup {h}
  BY <1>2 DEF AddFailsPreparing, AddFailsCounting, AddFailsDevice, front
<1>5. /\ q' \in [Slots -> QRec] /\ InUse(h)' /\ \A r \in Slots \ {h} : q'[r] = q[r]
  <2>1. CASE q' = [q EXCEPT ![h].state = "ENABLED"]
    BY <1>3, <2>1 DEF DInv, QType, QRec, InUse
  <2>2. ASSUME NEW old \in BOOLEAN, q' = Enabled(h, t, old, i)
        PROVE  /\ q' \in [Slots -> QRec] /\ InUse(h)' /\ \A r \in Slots \ {h} : q'[r] = q[r]
    BY <1>3, <2>2, EnabledType DEF DInv, InUse
  <2>3. q' = [q EXCEPT ![h].state = "ENABLED"] \/ \E old \in BOOLEAN : q' = Enabled(h, t, old, i)
    BY <1>2 DEF AddFailsPreparing, AddFailsCounting, AddFailsDevice
  <2> QED BY <2>1, <2>2, <2>3
<1>6. \/ /\ uncounted' = uncounted \cup {h} /\ active' = active /\ qdata' = qdata
      \/ /\ uncounted' = uncounted /\ QEffect(t, st, i)
         /\ active' = Increment(active, Counted(t, st))
         /\ qdata' = [qdata EXCEPT ![h] = [hndl |-> h, dev |-> 0]]
  <2>1. CASE AddFailsPreparing(t, st, i, p) \/ AddFailsCounting(t, st, i, p)
    BY <1>2, <2>1 DEF AddFailsPreparing, AddFailsCounting, front
  <2>2. CASE AddFailsDevice(t, st, i, p)
    BY <1>2, <2>2, EnabledEffect DEF AddFailsDevice, DInv
  <2> QED BY <2>1, <2>2
<1>7. /\ uncounted' \subseteq failed' /\ failed' \subseteq Slots
      /\ uncounted' \subseteq uncounted \cup {h} /\ uncounted \subseteq uncounted'
  BY <1>3, <1>4, <1>6 DEF DInv, DType
<1>8. /\ qdata' \in [Slots -> [hndl : Slots, dev : DevIds \cup {0}]]
      /\ \A r \in Slots \ {h} : qdata'[r] = qdata[r]
      /\ qdata'[h].dev = qdata[h].dev
      /\ (h \in uncounted' /\ qdata'[h] = NoData) \/ (h \notin uncounted' /\ qdata'[h].hndl = h)
  <2>1. qdata \in [Slots -> [hndl : Slots, dev : DevIds \cup {0}]] /\ NoData.dev = 0
    BY DEF DInv, DType, NoData
  <2> QED BY <1>3, <1>6, <2>1
<1>9. h \notin uncounted' => (q'[h].idx = i /\ q'[h].type = t /\ q'[h].st = st)
  BY <1>3, <1>6 DEF QEffect
<1>10. ASSUME NEW r \in Slots
       PROVE  /\ InUse(r) => InUse(r)'
              /\ Healthy(r)' => Healthy(r)
              /\ qdata'[r].dev = qdata[r].dev
              /\ \/ qdata'[r] = qdata[r]
                 \/ qdata'[r].hndl = r /\ InUse(r)' /\ r \notin uncounted'
              /\ r \in uncounted' => (InUse(r)' /\ (r \in uncounted \/ qdata'[r] = NoData))
  <2>1. CASE r = h
    BY <1>2, <1>3, <1>4, <1>5, <1>8, <2>1 DEF Healthy
  <2>2. CASE r # h
    <3>1. q'[r] = q[r] /\ qdata'[r] = qdata[r] /\ (r \in uncounted' => r \in uncounted)
      BY <1>5, <1>7, <1>8, <2>2
    <3>2. r \in uncounted => InUse(r)
      <4>1. PICK u \in Types, j \in Indexes : r = Slot(u, j)
        BY SlotOnto
      <4> QED BY <4>1 DEF DInv, KnownOK
    <3> QED BY <1>4, <3>1, <3>2 DEF Healthy, InUse
  <2> QED BY <2>1, <2>2
<1>11. ASSUME NEW u \in Types, NEW j \in Indexes, InUse(Slot(u, j))',
              Slot(u, j) \notin uncounted'
       PROVE  q'[Slot(u, j)].idx = j /\ q'[Slot(u, j)].type = u
  <2>1. CASE Slot(u, j) = h
    BY <1>3, <1>9, <1>11, <2>1
  <2>2. CASE Slot(u, j) # h
    <3>1. KnownOK(u, j) /\ q'[Slot(u, j)] = q[Slot(u, j)] /\ Slot(u, j) \notin uncounted
      BY <1>3, <1>5, <1>7, <1>11, <2>2 DEF DInv
    <3> QED BY <1>11, <3>1 DEF KnownOK, InUse
  <2> QED BY <2>1, <2>2
<1>12. /\ DType' /\ OneDevice' /\ \A d \in DevIds : DevOK(d)'
       /\ \A u \in Types, j \in Indexes : KnownOK(u, j)'
  BY <1>4, <1>7, <1>8, <1>10, <1>11, FrontKept
<1>13. CountsOK'
  <2>1. CASE uncounted' = uncounted \cup {h} /\ active' = active
    <3>1. \A r \in Slots : (InUse(r) /\ r \notin uncounted)' <=> (InUse(r) /\ r \notin uncounted)
      BY <1>2, <1>5, <2>1 DEF InUse
    <3>2. \A r \in Slots : (InUse(r) /\ r \notin uncounted) =>
                             q'[r].type = q[r].type /\ q'[r].st = q[r].st
      BY <1>2, <1>5
    <3> QED BY <1>4, <2>1, <3>1, <3>2, SameCounts DEF DInv
  <2>2. CASE /\ uncounted' = uncounted /\ QEffect(t, st, i)
             /\ active' = Increment(active, Counted(t, st))
    BY <1>2, <1>4, <2>2, AddedCounts
  <2> QED BY <1>6, <2>1, <2>2
<1>14. \A j \in Indexes : CmptOK(j)'
  <2>1. \A r \in Slots \ {h} : q'[r] = q[r] /\ (r \in uncounted' <=> r \in uncounted)
    BY <1>5, <1>7
  <2> QED BY <1>2, <1>9, <2>1, CmptStays
<1>15. QType' /\ Idle'
  BY <1>2, <1>4, <1>5 DEF QType, Idle
<1> QED BY <1>12, <1>13, <1>14, <1>15 DEF DInv

\* The queue a command names is the one of its handle, if it is known at all.
LEMMA HandleIsSlot ==
  ASSUME DInv, NEW h \in Slots, Known(h)
  PROVE  qdata[h].hndl = h /\ qdata[h] # NoData
<1>1. PICK t \in Types, i \in Indexes : h = Slot(t, i)
  BY SlotOnto
<1> QED BY <1>1 DEF DInv, KnownOK, Known, NoData

LEMMA StartStopDInv ==
  ASSUME DInv, NEW h \in Slots, Start(h) \/ Stop(h)
  PROVE  DInv'
<1>1. /\ up' = up /\ active' = active /\ devs' = devs /\ qdata' = qdata
      /\ failed' = failed /\ uncounted' = uncounted
  BY DEF Start, Stop, front, history
<1>2. qdata[h].hndl = h
  BY HandleIsSlot DEF Start, Stop
<1>3. PICK s \in {"ENABLED", "ONLINE"} : q' = [q EXCEPT ![h].state = s]
  BY <1>2 DEF Start, Stop
<1>4. InUse(h)
  BY <1>2 DEF Start, Stop, InUse
<1>5. /\ q' \in [Slots -> QRec] /\ q'[h].state = s
      /\ \A r \in Slots : /\ q'[r].st = q[r].st /\ q'[r].type = q[r].type
                          /\ q'[r].idx = q[r].idx /\ (r # h => q'[r] = q[r])
  BY <1>3 DEF DInv, QType, QRec
<1>6. \A r \in Slots : InUse(r)' <=> InUse(r)
  BY <1>4, <1>5 DEF InUse
<1>7. ASSUME NEW r \in Slots
      PROVE  /\ InUse(r) => InUse(r)'
             /\ Healthy(r)' => Healthy(r)
             /\ qdata'[r].dev = qdata[r].dev
             /\ \/ qdata'[r] = qdata[r]
                \/ qdata'[r].hndl = r /\ InUse(r)' /\ r \notin uncounted'
             /\ r \in uncounted' => (InUse(r)' /\ (r \in uncounted \/ qdata'[r] = NoData))
  <2>1. r \in uncounted => InUse(r)
    <3>1. PICK u \in Types, j \in Indexes : r = Slot(u, j)
      BY SlotOnto
    <3> QED BY <3>1 DEF DInv, KnownOK
  <2> QED BY <1>1, <1>6, <2>1 DEF Healthy
<1>8. ASSUME NEW u \in Types, NEW j \in Indexes, InUse(Slot(u, j))',
             Slot(u, j) \notin uncounted'
      PROVE  q'[Slot(u, j)].idx = j /\ q'[Slot(u, j)].type = u
  <2>1. Slot(u, j) \in Slots /\ KnownOK(u, j)
    BY SlotFacts DEF DInv
  <2> QED BY <1>1, <1>5, <1>6, <1>8, <2>1 DEF KnownOK
<1>9. /\ DType' /\ OneDevice' /\ \A d \in DevIds : DevOK(d)'
      /\ \A u \in Types, j \in Indexes : KnownOK(u, j)'
  <2>1. /\ qdata' \in [Slots -> [hndl : Slots, dev : DevIds \cup {0}]]
        /\ uncounted' \subseteq failed' /\ failed' \subseteq Slots
    BY <1>1 DEF DInv, DType
  <2> QED BY <1>1, <1>7, <1>8, <2>1, FrontKept
<1>10. CountsOK'
  <2>1. \A r \in Slots : (InUse(r) /\ r \notin uncounted)' <=> (InUse(r) /\ r \notin uncounted)
    BY <1>1, <1>6
  <2> QED BY <1>1, <1>5, <2>1, SameCounts DEF DInv
<1>11. \A j \in Indexes : CmptOK(j)'
  <2>1. \A j \in Indexes : Slot("CMPT", j) \in Slots /\ Slot("C2H", j) \in Slots
    BY SlotFacts DEF Types
  <2> QED BY <1>1, <1>5, <1>6, <2>1 DEF DInv, CmptOK
<1>12. QType' /\ Idle'
  BY <1>1, <1>5, <1>6 DEF DInv, QType, Idle
<1> QED BY <1>9, <1>10, <1>11, <1>12 DEF DInv

LEMMA DeleteDInv ==
  ASSUME DInv, NEW t \in Types, NEW i \in Indexes, Delete(t, i)
  PROVE  DInv'
<1> DEFINE h == Slot(t, i)
<1>1. h \in Slots
  BY SlotFacts
<1>2. qdata[h].hndl = h /\ qdata[h] # NoData
  BY <1>1, HandleIsSlot DEF Delete
<1>3. /\ up = "up" /\ q[h].state = "ENABLED" /\ (t \in Dirs => qdata[h].dev # 0)
      /\ active' = Decrement(active, Counted(q[h].type, q[h].st))
      /\ q' = [q EXCEPT ![h] = Fresh]
      /\ devs' = IF t \in Dirs THEN [devs EXCEPT ![qdata[h].dev] = Left(qdata[h].dev, t)]
                 ELSE devs
      /\ qdata' = [qdata EXCEPT ![h] = NoData]
      /\ failed' = failed \ {h} /\ uncounted' = uncounted \ {h} /\ up' = up
  BY <1>2 DEF Delete
<1>4. InUse(h) /\ h \notin uncounted /\ uncounted' = uncounted
  BY <1>2, <1>3 DEF DInv, KnownOK, InUse
<1>5. /\ q' \in [Slots -> QRec] /\ q'[h].state = "DISABLED"
      /\ \A r \in Slots \ {h} : q'[r] = q[r]
  <2>1. Fresh \in QRec /\ Fresh.state = "DISABLED"
    BY SizeAssumption DEF Fresh, QRec, Types, Indexes
  <2> QED BY <1>1, <1>3, <2>1 DEF DInv, QType
<1>6. /\ DType' /\ OneDevice' /\ \A d \in DevIds : DevOK(d)'
      /\ \A u \in Types, j \in Indexes : KnownOK(u, j)'
  BY <1>2, <1>3, <1>4, <1>5, DeletedFront
<1>7. CountsOK'
  BY <1>1, <1>3, <1>4, RemovedCounts
<1>8. \A j \in Indexes : CmptOK(j)'
  <2>1. \A j \in Indexes : Slot("CMPT", j) \in Slots /\ Slot("C2H", j) \in Slots
    BY SlotFacts DEF Types
  <2> QED BY <1>4, <1>5, <2>1 DEF DInv, CmptOK, InUse
<1>9. QType' /\ Idle'
  BY <1>3, <1>5 DEF QType, Idle
<1> QED BY <1>6, <1>7, <1>8, <1>9 DEF DInv

\* The counters after any queues were removed stay natural numbers.
LEMMA AfterRemovingType ==
  ASSUME DInv, NEW ps \in SUBSET Slots
  PROVE  /\ AfterRemoving(ps) \in [Types -> Nat]
         /\ \A t \in Types : active[t] = 0 => AfterRemoving(ps)[t] = 0
<1> SUFFICES ASSUME NEW t \in Types
             PROVE  /\ AfterRemoving(ps)[t] \in Nat
                    /\ active[t] = 0 => AfterRemoving(ps)[t] = 0
  BY DEF AfterRemoving
<1> DEFINE n == Cardinality({p \in ps : t \in Counted(q[p].type, q[p].st)})
<1>1. n \in Nat /\ active[t] \in Nat
  <2>1. IsFiniteSet({p \in ps : t \in Counted(q[p].type, q[p].st)})
    BY SlotsFinite, FS_Subset
  <2> QED BY <2>1, FS_CardinalityType DEF DInv, CountsOK
<1>2. AfterRemoving(ps)[t] = IF n < active[t] THEN active[t] - n ELSE 0
  BY DEF AfterRemoving
<1> HIDE DEF n
<1> QED BY <1>1, <1>2

LEMMA ResetDInv ==
  ASSUME DInv, Reset
  PROVE  DInv'
<1>1. /\ up' = "down" /\ q' = FreshQ /\ uncounted' = {} /\ failed' = {}
      /\ devs' = Destroyed(devs)
      /\ qdata' = [h \in Slots |-> IF h \in DirSlots THEN NoData ELSE qdata[h]]
      /\ \E ps \in SUBSET Slots : active' = AfterRemoving(ps)
  BY SlotOnto DEF Reset, CleanUp
<1>2. devs' \in [DevIds -> DevRec \cup {NoDev}] /\ \A d \in DevIds : devs'[d] = NoDev
  BY <1>1, AllDestroyed DEF Destroyed
<1>3. active' \in [Types -> Nat]
  BY <1>1, AfterRemovingType
<1>4. ASSUME NEW h \in Slots
      PROVE  /\ qdata'[h] = NoData \/ qdata'[h] = qdata[h]
             /\ qdata'[h] \in {NoData} \cup {[hndl |-> g, dev |-> 0] : g \in Slots}
  <2>1. CASE h \in DirSlots
    BY <1>1, <2>1
  <2>2. CASE h \notin DirSlots
    <3>1. qdata'[h] = qdata[h] /\ qdata[h] \in [hndl : Slots, dev : DevIds \cup {0}]
      BY <1>1, <2>2 DEF DInv, DType
    <3>2. PICK t \in Types, i \in Indexes : h = Slot(t, i)
      BY SlotOnto
    <3>3. t \notin Dirs
      BY <2>2, <3>2, SlotOnto
    <3>4. qdata[h].dev = 0
      BY <3>2, <3>3 DEF DInv, KnownOK
    <3> QED BY <3>1, <3>4
  <2> QED BY <2>1, <2>2
<1>5. qdata' \in [Slots -> {NoData} \cup {[hndl |-> g, dev |-> 0] : g \in Slots}]
  BY <1>1, <1>4
<1> QED BY <1>1, <1>2, <1>3, <1>4, <1>5, NothingLeft

LEMMA SetQmaxDInv ==
  ASSUME DInv, SetQmax
  PROVE  DInv'
<1>1. /\ up # "down" /\ up' = "up" /\ q' = FreshQ /\ uncounted' = {} /\ failed' = {}
      /\ devs' = devs /\ qdata' = [h \in Slots |-> NoData]
      /\ \A t \in Types : active[t] = 0
      /\ \E ps \in SUBSET Slots : active' = AfterRemoving(ps)
  BY SlotOnto DEF SetQmax, CleanUp
<1>2. \A d \in DevIds : devs'[d] = NoDev
  BY <1>1, UncountedHasNone
<1>3. devs' \in [DevIds -> DevRec \cup {NoDev}]
  BY <1>1 DEF DInv, DType
<1>4. active' \in [Types -> Nat] /\ \A t \in Types : active'[t] = 0
  BY <1>1, AfterRemovingType
<1>5. /\ qdata' \in [Slots -> {NoData} \cup {[hndl |-> g, dev |-> 0] : g \in Slots}]
      /\ \A h \in Slots : qdata'[h] = NoData
  BY <1>1
<1> QED BY <1>1, <1>2, <1>3, <1>4, <1>5, NothingLeft

LEMMA OnlineDInv ==
  ASSUME DInv, Online \/ UNCHANGED vars
  PROVE  DInv'
<1>1. /\ q' = q /\ active' = active /\ qdata' = qdata /\ devs' = devs
      /\ failed' = failed /\ uncounted' = uncounted
  BY DEF Online, vars, qvars, front, history
<1>2. up' = up \/ (up = "down" /\ up' = "bare")
  BY DEF Online, vars
<1>3. /\ QType' /\ DType' /\ OneDevice' /\ \A d \in DevIds : DevOK(d)'
      /\ \A i \in Indexes : CmptOK(i)'
  BY <1>1 DEF DInv, QType, DType, OneDevice, DevOK, CmptOK, InUse
<1>4. \A t \in Types, i \in Indexes : KnownOK(t, i)'
  BY <1>1, <1>2 DEF DInv, KnownOK, Healthy, InUse
<1>5. Idle'
  BY <1>1, <1>2 DEF DInv, Idle, InUse
<1>6. CountsOK'
  <2>1. \A t \in Types : CountedBy(t)' = CountedBy(t)
    BY <1>1 DEF CountedBy, InUse
  <2> QED BY <1>1, <1>2, <2>1 DEF DInv, CountsOK
<1> QED BY <1>3, <1>4, <1>5, <1>6 DEF DInv

LEMMA StepDInv ==
  ASSUME ~AnyAuto, DInv, [Next]_vars
  PROVE  DInv'
BY AddDInv, FailedDInv, StartStopDInv, DeleteDInv, ResetDInv, SetQmaxDInv, OnlineDInv
   DEF Next

\* Devices, handles and descqs tell one story in every state of DInv.
LEMMA DevicesOf == DInv => DevicesMatch
<1> SUFFICES ASSUME DInv PROVE DevicesMatch
  OBVIOUS
<1>1. ASSUME NEW d \in DevIds, devs[d] # NoDev
      PROVE  /\ devs[d].init # {}
             /\ \A t \in devs[d].init :
                  LET h == devs[d].hndl[t]
                  IN /\ q[h].idx = devs[d].idx /\ q[h].type = t /\ InUse(h)
                     /\ qdata[h] = [hndl |-> h, dev |-> d]
  <2>1. DevOK(d) /\ devs[d] \in DevRec
    BY <1>1 DEF DInv, DType
  <2>2. ASSUME NEW t \in devs[d].init
        PROVE  LET h == devs[d].hndl[t]
               IN /\ q[h].idx = devs[d].idx /\ q[h].type = t /\ InUse(h)
                  /\ qdata[h] = [hndl |-> h, dev |-> d]
    <3> DEFINE h == Slot(t, devs[d].idx)
    <3>1. t \in Types /\ devs[d].idx \in Indexes /\ h \in Slots
      BY <2>1, <2>2, SlotFacts DEF DevRec, Dirs, Types
    <3>2. devs[d].hndl[t] = h /\ qdata[h].dev = d /\ InUse(h) /\ d # 0
      BY <1>1, <2>1, <2>2, SizeAssumption DEF DevOK, DevIds
    <3>3. qdata[h] # NoData /\ KnownOK(t, devs[d].idx)
      BY <3>1, <3>2 DEF NoData, DInv
    <3>4. qdata[h].hndl = h /\ q[h].idx = devs[d].idx /\ q[h].type = t
      BY <3>2, <3>3 DEF KnownOK
    <3>5. qdata[h] = [hndl |-> qdata[h].hndl, dev |-> qdata[h].dev]
      BY <3>1 DEF DInv, DType
    <3> QED BY <3>2, <3>4, <3>5
  <2> QED BY <1>1, <2>1, <2>2 DEF DevOK
<1>2. ASSUME NEW h \in DirSlots, qdata[h].dev # 0
      PROVE  \E t \in devs[qdata[h].dev].init : devs[qdata[h].dev].hndl[t] = h
  <2>1. PICK t \in Dirs, i \in Indexes : h = Slot(t, i)
    BY SlotOnto
  <2>2. KnownOK(t, i) /\ qdata[h].dev \in DevIds
    BY <1>2, <2>1, SlotOnto DEF DInv, DType, Dirs, Types
  <2>3. t \in devs[qdata[h].dev].init /\ devs[qdata[h].dev] # NoDev /\ devs[qdata[h].dev].idx = i
    BY <1>2, <2>1, <2>2 DEF KnownOK
  <2>4. devs[qdata[h].dev].hndl[t] = h
    BY <2>1, <2>2, <2>3 DEF DInv, DevOK
  <2> QED BY <2>3, <2>4
<1>3. ASSUME NEW p \in Slots, Healthy(p) PROVE qdata[p].hndl = p
  <2>1. PICK t \in Types, i \in Indexes : p = Slot(t, i)
    BY SlotOnto
  <2> QED BY <1>3, <2>1 DEF DInv, KnownOK
<1>4. ASSUME NEW i \in Indexes, Healthy(Slot("H2C", i)), Healthy(Slot("C2H", i))
      PROVE  qdata[Slot("H2C", i)].dev = qdata[Slot("C2H", i)].dev
  <2>1. KnownOK("H2C", i) /\ KnownOK("C2H", i) /\ "H2C" \in Dirs /\ "C2H" \in Dirs
    BY DEF DInv, Types, Dirs
  <2> QED BY <1>4, <2>1 DEF DInv, KnownOK, OneDevice
<1> QED BY <1>1, <1>2, <1>3, <1>4 DEF DevicesMatch

\* Unless an index past 0 is left to the driver to choose, what a process
\* reads or writes through a device reaches the queue of its index and
\* direction, the front end and libqdma know the same queues, and a pair has
\* one device, through additions that fail half-way, deletions, resets and
\* changes of qmax (xpdev_queue_add, xpdev_queue_delete, xpdev_device_cleanup,
\* qdma_set_qmax).
THEOREM DevicesAlwaysMatch == ASSUME ~AnyAuto PROVE Spec => []DevicesMatch
<1>1. Init => DInv
  BY InitDInv
<1>2. DInv /\ [Next]_vars => DInv'
  BY StepDInv
<1>3. DInv => DevicesMatch
  BY DevicesOf
<1> QED BY <1>1, <1>2, <1>3, PTL DEF Spec

-----------------------------------------------------------------------------
(* Workers, vectors and the rest of the books.                             *)

\* One turn of the loop over the counts, from the places f it has held so far.
Turn(cnt, f, v) ==
  IF v = 1 THEN 1
  ELSE IF cnt[f[v - 1]] # 0 /\ cnt[v] < cnt[f[v - 1]] THEN v
  ELSE f[v - 1]

\* The loop has a run over the first n counts.
LEMMA LoopRuns ==
  ASSUME NEW cnt, NEW n \in Nat \ {0}
  PROVE  \E f : f = [v \in 1 .. n |-> Turn(cnt, f, v)]
<1> DEFINE Bad == {m \in Nat \ {0} : ~(\E f : f = [v \in 1 .. m |-> Turn(cnt, f, v)])}
<1> SUFFICES ASSUME Bad # {} PROVE FALSE
  BY Zenon
<1>1. Bad \subseteq Nat /\ \A m \in Bad : m # 0
  OBVIOUS
<1>2. PICK m \in Bad : \A k \in Bad : m <= k
  <2> HIDE DEF Bad
  <2> QED BY <1>1, LeastOf
<1>3. ~(\E f : f = [v \in 1 .. m |-> Turn(cnt, f, v)]) /\ m \in Nat \ {0}
  BY <1>2, Zenon
<1>4. CASE m = 1
  <2> DEFINE g == [v \in 1 .. 1 |-> 1]
  <2>1. g = [v \in 1 .. 1 |-> Turn(cnt, g, v)]
    BY DEF Turn
  <2> QED BY <1>3, <1>4, <2>1, Zenon
<1>5. CASE m # 1
  <2>1. m - 1 \in Nat \ {0} /\ m - 1 < m
    BY <1>3, <1>5
  <2>2. m - 1 \notin Bad
    BY <1>2, <2>1, <1>3
  <2>3. PICK f : f = [v \in 1 .. m - 1 |-> Turn(cnt, f, v)]
    BY <2>1, <2>2, Zenon
  <2> HIDE DEF Bad
  <2> DEFINE g == [v \in 1 .. m |-> IF v < m THEN f[v] ELSE Turn(cnt, f, m)]
  <2>4. \A v \in 1 .. m - 1 : g[v] = f[v] /\ f[v] = Turn(cnt, f, v)
    BY <1>3, <2>1, <2>3
  <2>5. g[m] = Turn(cnt, f, m)
    BY <1>3
  <2>6. \A v \in 1 .. m : Turn(cnt, g, v) = Turn(cnt, f, v)
    <3> SUFFICES ASSUME NEW v \in 1 .. m, v # 1 PROVE g[v - 1] = f[v - 1]
      BY DEF Turn
    <3>1. v - 1 \in 1 .. m - 1
      BY <1>3
    <3> QED BY <2>4, <3>1
  <2>7. \A v \in 1 .. m : g[v] = Turn(cnt, g, v)
    <3> SUFFICES ASSUME NEW v \in 1 .. m PROVE g[v] = Turn(cnt, g, v)
      OBVIOUS
    <3>1. v \in 1 .. m - 1 \/ v = m
      BY <1>3
    <3> HIDE DEF g
    <3> QED BY <2>4, <2>5, <2>6, <3>1
  <2>8. g = [v \in 1 .. m |-> g[v]]
    OBVIOUS
  <2>9. g = [v \in 1 .. m |-> Turn(cnt, g, v)]
    <3> HIDE DEF g
    <3> QED BY <2>7, <2>8
  <2> QED BY <1>3, <2>9, Zenon
<1> QED BY <1>4, <1>5

\* The loop ends at a count no other is smaller than.
LEMMA FirstLeastIsLeast ==
  ASSUME NEW n \in Nat \ {0}, NEW cnt \in [1 .. n -> Nat]
  PROVE  /\ FirstLeast(cnt, n) \in 1 .. n
         /\ \A u \in 1 .. n : cnt[FirstLeast(cnt, n)] <= cnt[u]
<1> DEFINE best == CHOOSE f : f = [v \in 1 .. n |-> Turn(cnt, f, v)]
<1>1. best = [v \in 1 .. n |-> Turn(cnt, best, v)]
  BY LoopRuns, Zenon
<1>2. FirstLeast(cnt, n) = best[n]
  BY Zenon DEF FirstLeast, Turn
<1> HIDE DEF best
<1>3. \A v \in 1 .. n : best[v] = Turn(cnt, best, v)
  BY <1>1
<1> DEFINE Least(v) == best[v] \in 1 .. v /\ \A u \in 1 .. v : cnt[best[v]] <= cnt[u]
           Bad == {v \in 1 .. n : ~Least(v)}
<1>4. ASSUME NEW v \in 1 .. n, v = 1 \/ Least(v - 1) PROVE Least(v)
  <2>1. CASE v = 1
    <3>1. best[v] = 1 /\ cnt[1] \in Nat
      BY <1>3, <2>1 DEF Turn
    <3> QED BY <2>1, <3>1
  <2>2. CASE v # 1
    <3> DEFINE b == best[v - 1]
    <3>1. b \in 1 .. v - 1 /\ \A u \in 1 .. v - 1 : cnt[b] <= cnt[u]
      BY <1>4, <2>2
    <3>2. best[v] = IF cnt[b] # 0 /\ cnt[v] < cnt[b] THEN v ELSE b
      BY <1>3, <2>2 DEF Turn
    <3> HIDE DEF b
    <3>3. \A u \in 1 .. n : cnt[u] \in Nat
      OBVIOUS
    <3>4. \A u \in 1 .. v : u \in 1 .. v - 1 \/ u = v
      OBVIOUS
    <3>5. b \in 1 .. n /\ cnt[b] \in Nat /\ cnt[v] \in Nat
      BY <3>1, <3>3
    <3>6. CASE cnt[b] # 0 /\ cnt[v] < cnt[b]
      <4>1. ASSUME NEW u \in 1 .. v PROVE cnt[v] <= cnt[u]
        BY <3>1, <3>3, <3>4, <3>5, <3>6
      <4> QED BY <3>2, <3>6, <4>1
    <3>7. CASE ~(cnt[b] # 0 /\ cnt[v] < cnt[b])
      <4>1. cnt[b] <= cnt[v]
        BY <3>5, <3>7
      <4> QED BY <3>1, <3>2, <3>4, <3>5, <3>7, <4>1
    <3> QED BY <3>6, <3>7
  <2> QED BY <2>1, <2>2
<1>5. Bad = {}
  <2> SUFFICES ASSUME Bad # {} PROVE FALSE
    OBVIOUS
  <2>1. Bad \subseteq Nat
    OBVIOUS
  <2>2. PICK v \in Bad : \A u \in Bad : v <= u
    <3> HIDE DEF Bad
    <3> QED BY <2>1, LeastOf
  <2>3. v \in 1 .. n /\ ~Least(v)
    BY <2>2
  <2>4. v # 1 => v - 1 \in 1 .. n /\ ~(v <= v - 1)
    BY <2>3
  <2>5. v = 1 \/ Least(v - 1)
    BY <2>2, <2>4
  <2> QED BY <1>4, <2>3, <2>5
<1>6. Least(n)
  BY <1>5
<1> QED BY <1>2, <1>6

\* The queues on worker w and those on the list of vector v.
OnWorker(w) == {p \in Slots : worker[p] = w}
OnVector(v) == {p \in Slots : vec[p] = v}

WType ==
  /\ mode \in Modes /\ up \in {"up", "down", "bare"}
  /\ worker \in [Slots -> 0 .. Workers] /\ load \in [1 .. Workers -> Nat]
  /\ vec \in [Slots -> 0 .. Vectors] /\ vecCnt \in [1 .. Vectors -> Nat]
  /\ lost \subseteq Slots \ DirSlots

LoadsOK ==
  /\ \A w \in 1 .. Workers : load[w] = Cardinality(OnWorker(w))
  /\ \A v \in 1 .. Vectors : vecCnt[v] = Cardinality(OnVector(v))

\* An online queue is on a worker and counted; what else a worker holds was
\* freed by a reset, and the function is not up again.
Attached ==
  \A p \in Slots :
    /\ q[p].state = "ONLINE" => (worker[p] # 0 /\ p \notin uncounted)
    /\ worker[p] # 0 => (q[p].state = "ONLINE" \/ (p \in lost /\ up # "up"))
    /\ vec[p] # 0 <=> (worker[p] # 0 /\ mode = "direct")

\* What a reset leaves of the queues of both directions: nothing; it counts
\* no more completion queues than there are.
Emptied ==
  up # "up" =>
    /\ active["H2C"] = 0 /\ active["C2H"] = 0 /\ active["CMPT"] <= QMax
    /\ \A p \in DirSlots : p \notin legacy.list /\ worker[p] = 0

BInv ==
  /\ DInv /\ LInv /\ WType /\ LoadsOK /\ Attached /\ Emptied

\* A thread is chosen among those there are.
LEMMA PickThreadType ==
  ASSUME NEW cnt \in [1 .. Workers -> Nat]
  PROVE  PickThread(cnt) \in 1 .. Workers
<1> DEFINE idle  == {w \in 2 .. Workers : cnt[w] = 0}
           below == {w \in 2 .. Workers : cnt[w] < cnt[1]}
           gaps  == {Workers - w : w \in below}
<1>1. CASE idle # {}
  <2>1. idle \subseteq Nat
    OBVIOUS
  <2>2. \E w \in idle : \A v \in idle : w <= v
    <3> HIDE DEF idle
    <3> QED BY <1>1, <2>1, LeastOf
  <2>3. (CHOOSE w \in idle : \A v \in idle : w <= v) \in idle
    <3> HIDE DEF idle
    <3> QED BY <2>2
  <2> QED BY <1>1, <2>3, SizeAssumption DEF PickThread
<1>2. CASE idle = {} /\ below # {}
  <2>1. gaps \subseteq Nat /\ gaps # {}
    BY <1>2, SizeAssumption
  <2>2. PICK g \in gaps : \A k \in gaps : g <= k
    <3> HIDE DEF gaps
    <3> QED BY <2>1, LeastOf
  <2>3. PICK b \in below : g = Workers - b
    BY <2>2
  <2>4. ASSUME NEW v \in below PROVE v <= b
    <3>1. g <= Workers - v
      BY <2>2, <2>4
    <3> QED BY <2>3, <3>1, SizeAssumption
  <2>5. (CHOOSE w \in below : \A v \in below : v <= w) \in below
    <3> HIDE DEF below
    <3> QED BY <2>3, <2>4
  <2> QED BY <1>2, <2>5, SizeAssumption DEF PickThread
<1>3. CASE idle = {} /\ below = {}
  BY <1>3, SizeAssumption DEF PickThread
<1> QED BY <1>1, <1>2, <1>3

\* The processor chosen has the fewest queues, the vector serves the fewest.
LEMMA PickCpuLeast ==
  ASSUME NEW cnt \in [1 .. Workers -> Nat]
  PROVE  /\ PickCpu(cnt) \in 1 .. Workers
         /\ \A w \in 1 .. Workers : cnt[PickCpu(cnt)] <= cnt[w]
<1> DEFINE rev == [w \in 1 .. Workers |-> cnt[Workers + 1 - w]]
           k   == FirstLeast(rev, Workers)
<1>1. rev \in [1 .. Workers -> Nat] /\ Workers \in Nat \ {0}
  BY SizeAssumption
<1>2. k \in 1 .. Workers /\ \A u \in 1 .. Workers : rev[k] <= rev[u]
  <2> HIDE DEF rev
  <2> QED BY <1>1, FirstLeastIsLeast
<1>3. PickCpu(cnt) = Workers + 1 - k
  BY DEF PickCpu
<1> HIDE DEF k
<1>4. PickCpu(cnt) \in 1 .. Workers /\ rev[k] = cnt[PickCpu(cnt)]
  BY <1>1, <1>2, <1>3
<1>5. ASSUME NEW w \in 1 .. Workers PROVE rev[Workers + 1 - w] = cnt[w] /\ Workers + 1 - w \in 1 .. Workers
  <2>1. Workers + 1 - w \in 1 .. Workers /\ Workers + 1 - (Workers + 1 - w) = w
    BY <1>1
  <2> QED BY <2>1
<1> HIDE DEF rev
<1> QED BY <1>2, <1>4, <1>5

LEMMA PickVectorLeast ==
  ASSUME NEW cnt \in [1 .. Vectors -> Nat]
  PROVE  /\ PickVector(cnt) \in 1 .. Vectors
         /\ \A v \in 1 .. Vectors : cnt[PickVector(cnt)] <= cnt[v]
BY FirstLeastIsLeast, SizeAssumption DEF PickVector

\* What starting the queue of handle h does to workers and vectors.
LEMMA Started ==
  ASSUME BInv, NEW h \in Slots, Start(h)
  PROVE  \E w \in 1 .. Workers, v \in 1 .. Vectors :
           /\ worker[h] = 0 /\ q[h].state = "ENABLED" /\ up = "up"
           /\ worker' = [worker EXCEPT ![h] = w] /\ load' = [load EXCEPT ![w] = @ + 1]
           /\ \/ /\ mode = "direct" /\ vec' = [vec EXCEPT ![h] = v]
                 /\ vecCnt' = [vecCnt EXCEPT ![v] = @ + 1]
              \/ mode # "direct" /\ vec' = vec /\ vecCnt' = vecCnt
           /\ \A u \in 1 .. Vectors : vecCnt[v] <= vecCnt[u]
           /\ mode # "poll" => \A u \in 1 .. Workers : load[w] <= load[u]
           /\ q' = [q EXCEPT ![h].state = "ONLINE"]
           /\ qdata[h] # NoData
<1> DEFINE w == IF mode = "poll" THEN PickThread(load) ELSE PickCpu(load)
           v == PickVector(vecCnt)
<1>1. qdata[h].hndl = h /\ qdata[h] # NoData
  BY HandleIsSlot DEF BInv, Start
<1>2. /\ up = "up" /\ q[h].state = "ENABLED"
      /\ worker' = [worker EXCEPT ![h] = w] /\ load' = [load EXCEPT ![w] = @ + 1]
      /\ IF mode = "direct"
         THEN /\ vec' = [vec EXCEPT ![h] = v] /\ vecCnt' = [vecCnt EXCEPT ![v] = @ + 1]
         ELSE vec' = vec /\ vecCnt' = vecCnt
      /\ q' = [q EXCEPT ![h].state = "ONLINE"]
  BY <1>1, Zenon DEF Start
<1>3. /\ w \in 1 .. Workers
      /\ mode # "poll" => \A u \in 1 .. Workers : load[w] <= load[u]
  <2>1. load \in [1 .. Workers -> Nat]
    BY DEF BInv, WType
  <2> QED BY <2>1, PickThreadType, PickCpuLeast
<1>4. v \in 1 .. Vectors /\ \A u \in 1 .. Vectors : vecCnt[v] <= vecCnt[u]
  <2>1. vecCnt \in [1 .. Vectors -> Nat]
    BY DEF BInv, WType
  <2> QED BY <2>1, PickVectorLeast
<1>5. worker[h] = 0
  BY <1>2 DEF BInv, Attached
<1> HIDE DEF w, v
<1> QED BY <1>1, <1>2, <1>3, <1>4, <1>5

\* Two counted queues of one type have different indices, so no type counts
\* more queues than it has.
LEMMA CountBound ==
  ASSUME DInv, NEW t \in Types
  PROVE  Cardinality(CountedBy(t)) <= QMax
<1> DEFINE f == [p \in CountedBy(t) |-> q[p].idx]
<1>1. ASSUME NEW p \in CountedBy(t)
      PROVE  \E u \in Types, i \in Indexes :
               /\ p = Slot(u, i) /\ q[p].idx = i /\ q[p].type = u
               /\ u = t \/ (t = "CMPT" /\ u = "C2H" /\ q[p].st)
  <2>1. p \in Slots /\ InUse(p) /\ p \notin uncounted /\ t \in Counted(q[p].type, q[p].st)
    BY DEF CountedBy
  <2>2. PICK u \in Types, i \in Indexes : p = Slot(u, i)
    BY <2>1, SlotOnto
  <2>3. q[p].idx = i /\ q[p].type = u
    BY <2>1, <2>2 DEF DInv, KnownOK
  <2> QED BY <2>1, <2>2, <2>3 DEF Counted
<1>2. \A p \in CountedBy(t) : f[p] \in Indexes
  BY <1>1
<1>3. ASSUME NEW p \in CountedBy(t), NEW r \in CountedBy(t), f[p] = f[r]
      PROVE  p = r
  <2>1. PICK u \in Types, i \in Indexes :
          /\ p = Slot(u, i) /\ q[p].idx = i /\ q[p].type = u
          /\ u = t \/ (t = "CMPT" /\ u = "C2H" /\ q[p].st)
    BY <1>1
  <2>2. PICK v \in Types, j \in Indexes :
          /\ r = Slot(v, j) /\ q[r].idx = j /\ q[r].type = v
          /\ v = t \/ (t = "CMPT" /\ v = "C2H" /\ q[r].st)
    BY <1>1
  <2>3. i = j /\ CmptOK(i)
    BY <1>3, <2>1, <2>2 DEF DInv
  <2>4. InUse(p) /\ InUse(r) /\ p \notin uncounted /\ r \notin uncounted
    BY DEF CountedBy
  <2>5. CASE u = v
    BY <2>1, <2>2, <2>3, <2>5
  <2>6. CASE u # v
    BY <2>1, <2>2, <2>3, <2>4, <2>6 DEF CmptOK
  <2> QED BY <2>5, <2>6
<1>4. f \in Injection(CountedBy(t), Indexes)
  BY <1>2, <1>3 DEF Injection, IsInjective
<1>5. IsFiniteSet(Indexes) /\ Cardinality(Indexes) = QMax
  BY FS_Interval, SizeAssumption DEF Indexes
<1> QED BY <1>4, <1>5, FS_Injection

\* The n counts are the numbers of queues that are on each of n lists.
Counting(n, cnt, of) ==
  /\ of \in [Slots -> 0 .. n] /\ cnt \in [1 .. n -> Nat]
  /\ \A u \in 1 .. n : cnt[u] = Cardinality({p \in Slots : of[p] = u})

\* They are so after one more queue was put on a list.
LEMMA OneMore ==
  ASSUME NEW n \in Nat, NEW cnt, NEW of, Counting(n, cnt, of),
         NEW h \in Slots, NEW w \in 1 .. n, of[h] = 0
  PROVE  Counting(n, [cnt EXCEPT ![w] = @ + 1], [of EXCEPT ![h] = w])
<1> DEFINE new    == [of EXCEPT ![h] = w]
           cntNew == [cnt EXCEPT ![w] = @ + 1]
<1>0. /\ of \in [Slots -> 0 .. n] /\ cnt \in [1 .. n -> Nat]
      /\ \A u \in 1 .. n : cnt[u] = Cardinality({p \in Slots : of[p] = u})
  BY DEF Counting
<1>1. new \in [Slots -> 0 .. n] /\ cntNew \in [1 .. n -> Nat]
  BY <1>0
<1> DEFINE S(u) == {p \in Slots : of[p] = u}
           T(u) == {p \in Slots : new[p] = u}
<1>2. ASSUME NEW u \in 1 .. n PROVE cntNew[u] = Cardinality(T(u))
  <2>1. IsFiniteSet(S(u)) /\ h \notin S(u) /\ cnt[u] = Cardinality(S(u))
    BY <1>0, SlotsFinite, FS_Subset
  <2>2. CASE u = w
    <3>1. T(u) = S(u) \cup {h}
      BY <1>0, <2>2
    <3>2. cntNew[u] = cnt[u] + 1
      BY <1>0, <2>2
    <3>3. Cardinality(S(u) \cup {h}) = Cardinality(S(u)) + 1
      BY <2>1, FS_AddElement
    <3> HIDE DEF S, T
    <3> QED BY <2>1, <3>1, <3>2, <3>3
  <2>3. CASE u # w
    <3>1. T(u) = S(u)
      BY <1>0, <2>3
    <3>2. cntNew[u] = cnt[u]
      BY <1>0, <2>3
    <3> HIDE DEF S, T
    <3> QED BY <2>1, <3>1, <3>2
  <2> QED BY <2>2, <2>3
<1> QED BY <1>1, <1>2 DEF Counting

\* And after the queues ps have been taken off.
LEMMA SomeLess ==
  ASSUME NEW n \in Nat, NEW cnt, NEW of, Counting(n, cnt, of),
         NEW ps, ps \subseteq Slots
  PROVE  Counting(n, Unloaded(cnt, of, ps), [p \in Slots |-> IF p \in ps THEN 0 ELSE of[p]])
<1> DEFINE new == [p \in Slots |-> IF p \in ps THEN 0 ELSE of[p]]
<1>0. /\ of \in [Slots -> 0 .. n] /\ cnt \in [1 .. n -> Nat]
      /\ \A u \in 1 .. n : cnt[u] = Cardinality({p \in Slots : of[p] = u})
  BY DEF Counting
<1> DEFINE S(u) == {p \in Slots : of[p] = u}
           T(u) == {p \in Slots : new[p] = u}
<1>1. new \in [Slots -> 0 .. n]
  BY <1>0
<1>2. Unloaded(cnt, of, ps) =
        [u \in 1 .. n |-> cnt[u] - Cardinality({p \in ps : of[p] = u})]
  BY <1>0 DEF Unloaded
<1>3. ASSUME NEW u \in 1 .. n
      PROVE  /\ cnt[u] - Cardinality({p \in ps : of[p] = u}) = Cardinality(T(u))
             /\ Cardinality(T(u)) \in Nat
  <2>1. IsFiniteSet(S(u)) /\ cnt[u] = Cardinality(S(u))
    BY <1>0, SlotsFinite, FS_Subset
  <2>2. T(u) = S(u) \ ps /\ S(u) \cap ps = {p \in ps : of[p] = u}
    BY <1>0
  <2> HIDE DEF S, T
  <2>3. /\ IsFiniteSet(S(u) \ ps)
        /\ Cardinality(S(u) \ ps) = Cardinality(S(u)) - Cardinality(S(u) \cap ps)
    BY <2>1, FS_Difference
  <2>4. Cardinality(T(u)) \in Nat
    BY <2>2, <2>3, FS_CardinalityType
  <2> QED BY <2>1, <2>2, <2>3, <2>4
<1>4. \A u \in 1 .. n : Unloaded(cnt, of, ps)[u] = Cardinality(T(u))
  BY <1>2, <1>3
<1>5. Unloaded(cnt, of, ps) \in [1 .. n -> Nat]
  BY <1>2, <1>3
<1> QED BY <1>1, <1>4, <1>5 DEF Counting

\* Detaching queues keeps the loads and the lists of the vectors together.
LEMMA Detached ==
  ASSUME WType, LoadsOK, NEW ps, ps \subseteq Slots, Detach(ps)
  PROVE  /\ worker' \in [Slots -> 0 .. Workers] /\ load' \in [1 .. Workers -> Nat]
         /\ vec' \in [Slots -> 0 .. Vectors] /\ vecCnt' \in [1 .. Vectors -> Nat]
         /\ LoadsOK'
         /\ \A p \in Slots : /\ p \in ps => worker'[p] = 0 /\ vec'[p] = 0
                             /\ p \notin ps => worker'[p] = worker[p] /\ vec'[p] = vec[p]
<1>1. /\ load' = Unloaded(load, worker, ps) /\ vecCnt' = Unloaded(vecCnt, vec, ps)
      /\ worker' = [p \in Slots |-> IF p \in ps THEN 0 ELSE worker[p]]
      /\ vec' = [p \in Slots |-> IF p \in ps THEN 0 ELSE vec[p]]
  BY DEF Detach
<1>2. Counting(Workers, load, worker) /\ Counting(Vectors, vecCnt, vec)
  BY DEF WType, LoadsOK, OnWorker, OnVector, Counting
<1>3. Counting(Workers, load', worker') /\ Counting(Vectors, vecCnt', vec')
  BY <1>1, <1>2, SomeLess, SizeAssumption
<1>4. LoadsOK'
  BY <1>3 DEF LoadsOK, OnWorker, OnVector, Counting
<1> QED BY <1>1, <1>3, <1>4 DEF Counting

\* No type counts more queues than it has, whatever the function is doing.
LEMMA ActiveBound ==
  ASSUME BInv, NEW t \in Types
  PROVE  active[t] \in 0 .. QMax
<1>1. active \in [Types -> Nat]
  BY DEF BInv, DInv, CountsOK
<1>2. CASE up = "up"
  <2>1. active[t] = Cardinality(CountedBy(t)) /\ Cardinality(CountedBy(t)) <= QMax
    BY <1>2, CountBound DEF BInv, DInv, CountsOK
  <2> QED BY <1>1, <2>1, SizeAssumption
<1>3. CASE up # "up"
  BY <1>1, <1>3, SizeAssumption DEF BInv, Emptied, Types
<1> QED BY <1>2, <1>3

\* An addition touches no worker and no vector.
LEMMA AddBInv ==
  ASSUME ~AnyAuto, BInv, NEW t \in Types, NEW st \in BOOLEAN, NEW i \in Indexes,
         NEW p \in Slots,
         \/ Add(t, st, i, p)
         \/ AddFailsPreparing(t, st, i, p)
         \/ AddFailsCounting(t, st, i, p)
         \/ AddFailsDevice(t, st, i, p)
  PROVE  BInv'
<1>1. Next
  BY DEF Next
<1>2. DInv' /\ LInv'
  BY <1>1, StepDInv, StepLInv DEF BInv
<1>3. /\ AddGuard(t, st, i, p) /\ mode' = mode /\ up' = up /\ worker' = worker
      /\ load' = load /\ vec' = vec /\ vecCnt' = vecCnt /\ lost' = lost
      /\ uncounted' \subseteq uncounted \cup {p}
  BY DEF Add, AddFailsPreparing, AddFailsCounting, AddFailsDevice, books, history
<1>4. p = Slot(t, i) /\ ~InUse(p) /\ up = "up"
  BY <1>3, AddHere
<1>5. q'[p].state = "ENABLED" /\ \A r \in Slots \ {p} : q'[r] = q[r]
  <2>1. CASE q' = [q EXCEPT ![p].state = "ENABLED"]
    BY <2>1 DEF BInv, DInv, QType, QRec
  <2>2. ASSUME NEW old \in BOOLEAN, q' = Enabled(p, t, old, i)
        PROVE  q'[p].state = "ENABLED" /\ \A r \in Slots \ {p} : q'[r] = q[r]
    BY <2>2, EnabledType DEF BInv, DInv
  <2>3. \/ q' = [q EXCEPT ![p].state = "ENABLED"]
        \/ \E old \in BOOLEAN : q' = Enabled(p, t, old, i)
    BY DEF Add, AddFailsPreparing, AddFailsCounting, AddFailsDevice
  <2> QED BY <2>1, <2>2, <2>3
<1>6. WType' /\ LoadsOK' /\ Emptied'
  BY <1>3, <1>4 DEF BInv, WType, LoadsOK, OnWorker, OnVector, Emptied
<1>7. Attached'
  <2> SUFFICES ASSUME NEW r \in Slots
               PROVE  /\ q'[r].state = "ONLINE" => (worker'[r] # 0 /\ r \notin uncounted')
                      /\ worker'[r] # 0 => (q'[r].state = "ONLINE" \/ (r \in lost' /\ up' # "up"))
                      /\ vec'[r] # 0 <=> (worker'[r] # 0 /\ mode' = "direct")
    BY DEF Attached
  <2>1. CASE r = p
    <3>1. q[p].state = "DISABLED"
      BY <1>4 DEF InUse
    <3> QED BY <1>3, <1>4, <1>5, <2>1, <3>1 DEF BInv, Attached
  <2>2. CASE r # p
    BY <1>3, <1>5, <2>2 DEF BInv, Attached
  <2> QED BY <2>1, <2>2
<1> QED BY <1>2, <1>6, <1>7 DEF BInv

LEMMA StartBInv ==
  ASSUME ~AnyAuto, BInv, NEW h \in Slots, Start(h)
  PROVE  BInv'
<1>1. Next
  BY DEF Next
<1>2. DInv' /\ LInv'
  BY <1>1, StepDInv, StepLInv DEF BInv
<1>3. PICK w \in 1 .. Workers, v \in 1 .. Vectors :
        /\ worker[h] = 0 /\ q[h].state = "ENABLED" /\ up = "up"
        /\ worker' = [worker EXCEPT ![h] = w] /\ load' = [load EXCEPT ![w] = @ + 1]
        /\ \/ /\ mode = "direct" /\ vec' = [vec EXCEPT ![h] = v]
              /\ vecCnt' = [vecCnt EXCEPT ![v] = @ + 1]
           \/ mode # "direct" /\ vec' = vec /\ vecCnt' = vecCnt
        /\ \A u \in 1 .. Vectors : vecCnt[v] <= vecCnt[u]
        /\ mode # "poll" => \A u \in 1 .. Workers : load[w] <= load[u]
        /\ q' = [q EXCEPT ![h].state = "ONLINE"]
        /\ qdata[h] # NoData
  BY Started
<1>4. /\ mode' = mode /\ up' = up /\ active' = active /\ legacy' = legacy
      /\ lost' = lost /\ uncounted' = uncounted
  BY DEF Start, history
<1>5. vec[h] = 0
  BY <1>3 DEF BInv, Attached
<1>6. Counting(Workers, load', worker') /\ Counting(Vectors, vecCnt', vec')
  <2>1. Counting(Workers, load, worker) /\ Counting(Vectors, vecCnt, vec)
    BY DEF BInv, WType, LoadsOK, OnWorker, OnVector, Counting
  <2>2. Counting(Workers, load', worker')
    BY <1>3, <2>1, OneMore, SizeAssumption
  <2>3. CASE vec' = [vec EXCEPT ![h] = v] /\ vecCnt' = [vecCnt EXCEPT ![v] = @ + 1]
    <3>1. Counting(Vectors, vecCnt', vec')
      BY <1>5, <2>1, <2>3, OneMore, SizeAssumption
    <3> QED BY <2>2, <3>1
  <2>4. CASE mode # "direct" /\ vec' = vec /\ vecCnt' = vecCnt
    BY <2>1, <2>2, <2>4
  <2> QED BY <1>3, <2>3, <2>4
<1>7. WType' /\ LoadsOK' /\ Emptied'
  BY <1>3, <1>4, <1>6 DEF BInv, WType, LoadsOK, OnWorker, OnVector, Counting, Emptied
<1>8. /\ q'[h].state = "ONLINE" /\ \A r \in Slots : r # h => q'[r] = q[r]
      /\ worker'[h] = w /\ \A r \in Slots : r # h => worker'[r] = worker[r]
      /\ vec'[h] = IF mode = "direct" THEN v ELSE 0
      /\ \A r \in Slots : r # h => vec'[r] = vec[r]
  BY <1>3, <1>5 DEF BInv, DInv, QType, QRec, WType
<1>9. h \notin uncounted /\ w # 0 /\ v # 0
  <2>1. PICK t \in Types, i \in Indexes : h = Slot(t, i)
    BY SlotOnto
  <2> QED BY <1>3, <2>1 DEF BInv, DInv, KnownOK
<1>10. Attached'
  <2> SUFFICES ASSUME NEW r \in Slots
               PROVE  /\ q'[r].state = "ONLINE" => (worker'[r] # 0 /\ r \notin uncounted')
                      /\ worker'[r] # 0 => (q'[r].state = "ONLINE" \/ (r \in lost' /\ up' # "up"))
                      /\ vec'[r] # 0 <=> (worker'[r] # 0 /\ mode' = "direct")
    BY DEF Attached
  <2>1. CASE r = h
    BY <1>4, <1>8, <1>9, <2>1
  <2>2. CASE r # h
    BY <1>4, <1>8, <2>2 DEF BInv, Attached
  <2> QED BY <2>1, <2>2
<1> QED BY <1>2, <1>7, <1>10 DEF BInv

LEMMA StopBInv ==
  ASSUME ~AnyAuto, BInv, NEW h \in Slots, Stop(h)
  PROVE  BInv'
<1>1. Next
  BY DEF Next
<1>2. DInv' /\ LInv'
  BY <1>1, StepDInv, StepLInv DEF BInv
<1>3. qdata[h].hndl = h
  BY HandleIsSlot DEF BInv, Stop
<1>4. /\ up = "up" /\ mode' = mode /\ up' = up /\ active' = active /\ legacy' = legacy
      /\ lost' = lost /\ uncounted' = uncounted /\ Detach({h})
      /\ q' = [q EXCEPT ![h].state = "ENABLED"]
  BY <1>3 DEF Stop, history
<1>5. /\ worker' \in [Slots -> 0 .. Workers] /\ load' \in [1 .. Workers -> Nat]
      /\ vec' \in [Slots -> 0 .. Vectors] /\ vecCnt' \in [1 .. Vectors -> Nat]
      /\ LoadsOK'
      /\ \A p \in Slots : /\ p \in {h} => worker'[p] = 0 /\ vec'[p] = 0
                          /\ p \notin {h} => worker'[p] = worker[p] /\ vec'[p] = vec[p]
  BY <1>4, Detached DEF BInv
<1>6. WType' /\ Emptied'
  BY <1>4, <1>5 DEF BInv, WType, Emptied
<1>7. q'[h].state = "ENABLED" /\ \A r \in Slots : r # h => q'[r] = q[r]
  BY <1>4 DEF BInv, DInv, QType, QRec
<1>8. Attached'
  <2> SUFFICES ASSUME NEW r \in Slots
               PROVE  /\ q'[r].state = "ONLINE" => (worker'[r] # 0 /\ r \notin uncounted')
                      /\ worker'[r] # 0 => (q'[r].state = "ONLINE" \/ (r \in lost' /\ up' # "up"))
                      /\ vec'[r] # 0 <=> (worker'[r] # 0 /\ mode' = "direct")
    BY DEF Attached
  <2>1. CASE r = h
    BY <1>5, <1>7, <2>1
  <2>2. CASE r # h
    BY <1>4, <1>5, <1>7, <2>2 DEF BInv, Attached
  <2> QED BY <2>1, <2>2
<1> QED BY <1>2, <1>5, <1>6, <1>8 DEF BInv

LEMMA DeleteBInv ==
  ASSUME ~AnyAuto, BInv, NEW t \in Types, NEW i \in Indexes, Delete(t, i)
  PROVE  BInv'
<1> DEFINE h == Slot(t, i)
<1>1. Next /\ h \in Slots
  BY SlotFacts DEF Next
<1>2. DInv' /\ LInv'
  BY <1>1, StepDInv, StepLInv DEF BInv
<1>3. qdata[h].hndl = h
  BY <1>1, HandleIsSlot DEF BInv, Delete
<1>4. /\ up = "up" /\ mode' = mode /\ up' = up /\ worker' = worker /\ load' = load
      /\ vec' = vec /\ vecCnt' = vecCnt /\ lost' = lost
      /\ uncounted' \subseteq uncounted
      /\ q' = [q EXCEPT ![h] = Fresh] /\ q[h].state = "ENABLED"
  BY <1>3 DEF Delete, books
<1>5. q'[h].state = "DISABLED" /\ \A r \in Slots : r # h => q'[r] = q[r]
  BY <1>1, <1>4 DEF BInv, DInv, QType, Fresh
<1>6. WType' /\ LoadsOK' /\ Emptied'
  BY <1>4 DEF BInv, WType, LoadsOK, OnWorker, OnVector, Emptied
<1>7. Attached'
  BY <1>4, <1>5 DEF BInv, Attached
<1> QED BY <1>2, <1>6, <1>7 DEF BInv


\* Removing queues takes at least those that are counted off the count.
LEMMA RemovedCount ==
  ASSUME BInv, NEW ps \in SUBSET Slots, NEW t \in Types
  PROVE  /\ AfterRemoving(ps)[t] \in 0 .. QMax
         /\ (up = "up" /\ CountedBy(t) \subseteq ps) => AfterRemoving(ps)[t] = 0
<1> DEFINE S == {p \in ps : t \in Counted(q[p].type, q[p].st)}
           n == Cardinality(S)
<1>1. IsFiniteSet(S) /\ n \in Nat
  <2>1. IsFiniteSet(S)
    BY SlotsFinite, FS_Subset
  <2> QED BY <2>1, FS_CardinalityType
<1>2. active[t] \in 0 .. QMax
  BY ActiveBound
<1>3. AfterRemoving(ps)[t] = IF n < active[t] THEN active[t] - n ELSE 0
  BY DEF AfterRemoving
<1>4. ASSUME up = "up", CountedBy(t) \subseteq ps PROVE active[t] <= n
  <2>1. CountedBy(t) \subseteq S
    BY <1>4 DEF CountedBy
  <2>2. active[t] = Cardinality(CountedBy(t))
    BY <1>4 DEF BInv, DInv, CountsOK
  <2> HIDE DEF S
  <2> QED BY <1>1, <2>1, <2>2, FS_Subset
<1> HIDE DEF n
<1> QED BY <1>1, <1>2, <1>3, <1>4, SizeAssumption

\* A queue of a direction counts in no other direction.
LEMMA CountedInPlace ==
  ASSUME BInv, NEW t \in Dirs
  PROVE  CountedBy(t) \subseteq {p \in DirSlots : InUse(p)}
<1> SUFFICES ASSUME NEW p \in CountedBy(t) PROVE p \in DirSlots /\ InUse(p)
  OBVIOUS
<1>1. p \in Slots /\ InUse(p) /\ p \notin uncounted /\ t \in Counted(q[p].type, q[p].st)
  BY DEF CountedBy
<1>2. PICK u \in Types, i \in Indexes : p = Slot(u, i)
  BY <1>1, SlotOnto
<1>3. q[p].type = u
  BY <1>1, <1>2 DEF BInv, DInv, KnownOK
<1>4. u = t
  BY <1>1, <1>3 DEF Counted, Dirs
<1> QED BY <1>1, <1>2, <1>4, SlotOnto

\* What cleaning up does to workers, vectors, counts and the interrupt.
LEMMA CleanedUp ==
  ASSUME BInv, CleanUp
  PROVE  /\ worker' \in [Slots -> 0 .. Workers] /\ load' \in [1 .. Workers -> Nat]
         /\ vec' \in [Slots -> 0 .. Vectors] /\ vecCnt' \in [1 .. Vectors -> Nat]
         /\ lost' \subseteq Slots \ DirSlots /\ lost \subseteq lost'
         /\ LoadsOK'
         /\ \A p \in DirSlots : worker'[p] = 0 /\ vec'[p] = 0 /\ p \notin legacy'.list
         /\ \A p \in Slots \ DirSlots :
              /\ worker'[p] = worker[p] /\ vec'[p] = vec[p]
              /\ worker[p] # 0 => p \in lost'
         /\ \A t \in Types : active'[t] \in 0 .. QMax
         /\ (up = "up" \/ (active["H2C"] = 0 /\ active["C2H"] = 0)) =>
              (active'["H2C"] = 0 /\ active'["C2H"] = 0)
         /\ \A p \in Slots : q'[p].state = "DISABLED"
<1> DEFINE used == {p \in DirSlots : InUse(p)}
           ps   == {p \in used : q[p].state = "ONLINE"}
<1>1. /\ Detach(ps) /\ active' = AfterRemoving(used)
      /\ legacy' = LegacyCleared(used \cap legacy.list)
      /\ lost' = lost \cup {p \in Slots \ DirSlots : InUse(p)} /\ q' = FreshQ
  BY DEF CleanUp
<1>2. DirSlots \subseteq Slots
  BY SizeAssumption DEF DirSlots, Slots
<1>3. /\ worker' \in [Slots -> 0 .. Workers] /\ load' \in [1 .. Workers -> Nat]
      /\ vec' \in [Slots -> 0 .. Vectors] /\ vecCnt' \in [1 .. Vectors -> Nat]
      /\ LoadsOK'
      /\ \A p \in Slots : /\ p \in ps => worker'[p] = 0 /\ vec'[p] = 0
                          /\ p \notin ps => worker'[p] = worker[p] /\ vec'[p] = vec[p]
  <2>1. ps \subseteq Slots
    BY <1>2
  <2>2. WType /\ LoadsOK
    BY DEF BInv
  <2> HIDE DEF ps
  <2> QED BY <1>1, <2>1, <2>2, Detached
<1>4. lost \subseteq Slots \ DirSlots
  BY DEF BInv, WType
<1>5. ASSUME NEW p \in DirSlots
      PROVE  worker'[p] = 0 /\ vec'[p] = 0 /\ p \notin legacy'.list
  <2>1. CASE p \in ps
    <3>1. legacy'.list = legacy.list \ (used \cap legacy.list)
      BY <1>1 DEF LegacyCleared
    <3> QED BY <1>2, <1>3, <2>1, <3>1
  <2>2. CASE p \notin ps
    <3>1. legacy'.list = legacy.list \ (used \cap legacy.list)
      BY <1>1 DEF LegacyCleared
    <3>2. q[p].state # "ONLINE"
      BY <2>2 DEF InUse
    <3>3. p \notin lost
      BY <1>4
    <3>4. worker[p] = 0 /\ vec[p] = 0
      BY <1>2, <3>2, <3>3 DEF BInv, Attached
    <3>5. p \in legacy.list => InUse(p)
      BY <3>3 DEF BInv, LInv, LegacyOK
    <3> QED BY <1>2, <1>3, <2>2, <3>1, <3>4, <3>5
  <2> QED BY <2>1, <2>2
<1>6. ASSUME NEW p \in Slots \ DirSlots
      PROVE  /\ worker'[p] = worker[p] /\ vec'[p] = vec[p]
             /\ worker[p] # 0 => p \in lost'
  <2>1. worker[p] # 0 => InUse(p) \/ p \in lost
    BY DEF BInv, Attached, InUse
  <2> QED BY <1>1, <1>3, <2>1
<1>7. \A t \in Types : active'[t] \in 0 .. QMax
  BY <1>1, <1>2, RemovedCount
<1>8. (up = "up" \/ (active["H2C"] = 0 /\ active["C2H"] = 0)) =>
        (active'["H2C"] = 0 /\ active'["C2H"] = 0)
  <2>1. ASSUME up = "up", NEW t \in Dirs PROVE active'[t] = 0
    BY <1>1, <1>2, <2>1, CountedInPlace, RemovedCount DEF Dirs, Types
  <2>2. ASSUME NEW t \in Dirs, active[t] = 0 PROVE active'[t] = 0
    BY <1>1, <1>2, <2>2, AfterRemovingType DEF BInv, Dirs, Types
  <2> QED BY <2>1, <2>2 DEF Dirs
<1>9. \A p \in Slots : q'[p].state = "DISABLED"
  BY <1>1 DEF FreshQ, Fresh
<1>10. lost' \subseteq Slots \ DirSlots /\ lost \subseteq lost'
  BY <1>1, <1>4
<1> QED BY <1>3, <1>5, <1>6, <1>7, <1>8, <1>9, <1>10

LEMMA ResetBInv ==
  ASSUME ~AnyAuto, BInv, Reset \/ SetQmax
  PROVE  BInv'
<1>1. Next
  BY DEF Next
<1>2. DInv' /\ LInv'
  BY <1>1, StepDInv, StepLInv DEF BInv
<1>3. /\ CleanUp /\ mode' = mode
      /\ \/ up # "down" /\ up' = "down"
         \/ /\ up' = "up" /\ up # "down" /\ lost = {} /\ \A t \in Types : active[t] = 0
  BY DEF Reset, SetQmax
<1>4. /\ worker' \in [Slots -> 0 .. Workers] /\ load' \in [1 .. Workers -> Nat]
      /\ vec' \in [Slots -> 0 .. Vectors] /\ vecCnt' \in [1 .. Vectors -> Nat]
      /\ lost' \subseteq Slots \ DirSlots /\ lost \subseteq lost'
      /\ LoadsOK'
      /\ \A p \in DirSlots : worker'[p] = 0 /\ vec'[p] = 0 /\ p \notin legacy'.list
      /\ \A p \in Slots \ DirSlots :
           /\ worker'[p] = worker[p] /\ vec'[p] = vec[p]
           /\ worker[p] # 0 => p \in lost'
      /\ \A t \in Types : active'[t] \in 0 .. QMax
      /\ (up = "up" \/ (active["H2C"] = 0 /\ active["C2H"] = 0)) =>
           (active'["H2C"] = 0 /\ active'["C2H"] = 0)
      /\ \A p \in Slots : q'[p].state = "DISABLED"
  BY <1>3, CleanedUp
<1>5. WType'
  BY <1>3, <1>4 DEF BInv, WType
<1>6. Emptied'
  BY <1>4, SizeAssumption DEF BInv, Emptied, Types
<1>7. Attached'
  <2>1. ASSUME up' = "up", NEW p \in Slots PROVE worker[p] = 0
    <3>1. lost = {} /\ \A t \in Types : active[t] = 0
      BY <1>3, <2>1
    <3>2. SUFFICES ASSUME q[p].state = "ONLINE" PROVE FALSE
      BY <3>1 DEF BInv, Attached
    <3>3. PICK t \in Types, i \in Indexes : p = Slot(t, i)
      BY SlotOnto
    <3>4. InUse(p) /\ p \notin uncounted
      BY <3>2 DEF BInv, Attached, InUse
    <3>5. up = "up"
      BY <3>4 DEF BInv, DInv, Idle
    <3>6. p \in CountedBy(t)
      BY <3>3, <3>4 DEF BInv, DInv, KnownOK, CountedBy, Counted
    <3>7. Cardinality(CountedBy(t)) = 0 /\ IsFiniteSet(CountedBy(t))
      BY <3>1, <3>5, SlotsFinite, FS_Subset DEF BInv, DInv, CountsOK, CountedBy
    <3>8. CountedBy(t) = {}
      BY <3>7, FS_EmptySet
    <3> QED BY <3>6, <3>8
  <2> SUFFICES ASSUME NEW p \in Slots
               PROVE  /\ worker'[p] # 0 => (p \in lost' /\ up' # "up")
                      /\ vec'[p] # 0 <=> (worker'[p] # 0 /\ mode' = "direct")
    BY <1>4 DEF Attached
  <2>2. CASE p \in DirSlots
    BY <1>4, <2>2
  <2>3. CASE p \notin DirSlots
    <3>1. vec[p] # 0 <=> (worker[p] # 0 /\ mode = "direct")
      BY DEF BInv, Attached
    <3> QED BY <1>3, <1>4, <2>1, <2>3, <3>1
  <2> QED BY <2>2, <2>3
<1> QED BY <1>2, <1>4, <1>5, <1>6, <1>7 DEF BInv

LEMMA OnlineBInv ==
  ASSUME ~AnyAuto, BInv, Online \/ UNCHANGED vars
  PROVE  BInv'
<1>1. DInv' /\ LInv'
  BY StepDInv, StepLInv DEF BInv, Next
<1>2. /\ mode' = mode /\ q' = q /\ active' = active /\ worker' = worker /\ load' = load
      /\ vec' = vec /\ vecCnt' = vecCnt /\ legacy' = legacy /\ lost' = lost
      /\ uncounted' = uncounted
      /\ up' = up \/ (up = "down" /\ up' = "bare")
  BY DEF Online, vars, qvars, books, history
<1>3. WType' /\ LoadsOK' /\ Attached' /\ Emptied'
  BY <1>2 DEF BInv, WType, LoadsOK, OnWorker, OnVector, Attached, Emptied
<1> QED BY <1>1, <1>3 DEF BInv

LEMMA InitBInv == Init => BInv
<1> SUFFICES ASSUME Init PROVE BInv
  OBVIOUS
<1>1. DInv
  BY InitDInv
<1>2. LInv
  <2>1. QType
    BY <1>1 DEF DInv
  <2> QED BY <2>1 DEF Init, LInv, LegacyOK
<1>3. WType
  BY SizeAssumption DEF Init, WType
<1>5. Attached /\ Emptied
  <2>1. \A p \in Slots : worker[p] = 0 /\ vec[p] = 0 /\ q[p].state = "DISABLED"
    BY DEF Init, FreshQ, Fresh
  <2>2. up = "up"
    BY DEF Init
  <2> QED BY <2>1, <2>2 DEF Attached, Emptied
<1>4. LoadsOK
  <2>1. \A w \in 1 .. Workers : OnWorker(w) = {}
    BY DEF Init, OnWorker
  <2>2. \A v \in 1 .. Vectors : OnVector(v) = {}
    BY DEF Init, OnVector
  <2> QED BY <2>1, <2>2, FS_EmptySet DEF Init, LoadsOK
<1> QED BY <1>1, <1>2, <1>3, <1>4, <1>5 DEF BInv

LEMMA StepBInv ==
  ASSUME ~AnyAuto, BInv, [Next]_vars
  PROVE  BInv'
BY AddBInv, StartBInv, StopBInv, DeleteBInv, ResetBInv, OnlineBInv DEF Next


\* The books of BInv are the books of the runs.
LEMMA BooksOf ==
  BInv => (TypeOK /\ CountsMatch /\ WorkersMatch /\ ResetLeavesNothing)
<1> SUFFICES ASSUME BInv PROVE TypeOK /\ CountsMatch /\ WorkersMatch /\ ResetLeavesNothing
  OBVIOUS
<1>1. TypeOK
  <2>1. active \in [Types -> 0 .. QMax]
    <3>1. active \in [Types -> Nat]
      BY DEF BInv, DInv, CountsOK
    <3> QED BY <3>1, ActiveBound
  <2>2. \A d \in DevIds : devs[d] = NoDev \/
          devs[d] \in [idx : Indexes, hndl : [Dirs -> Slots], init : SUBSET Dirs]
    BY DEF BInv, DInv, DType, DevRec
  <2>3. q \in [Slots -> [state : {"DISABLED", "ENABLED", "ONLINE"}, st : BOOLEAN,
                         type : Types, idx : Indexes]]
    BY DEF BInv, DInv, QType, QRec
  <2>4. legacy \in [list : SUBSET Slots, irq : BOOLEAN]
    <3>1. CASE legacy = [list |-> {}, irq |-> FALSE]
      BY <3>1
    <3>2. ASSUME NEW p \in Slots, legacy = [list |-> {p}, irq |-> TRUE]
          PROVE  legacy \in [list : SUBSET Slots, irq : BOOLEAN]
      BY <3>2
    <3> QED BY <3>1, <3>2 DEF BInv, LInv, LegacyOK
  <2>5. /\ mode \in Modes /\ up \in {"up", "down", "bare"}
        /\ worker \in [Slots -> 0 .. Workers] /\ load \in [1 .. Workers -> Nat]
        /\ vec \in [Slots -> 0 .. Vectors] /\ vecCnt \in [1 .. Vectors -> Nat]
        /\ lost \subseteq Slots
    BY DEF BInv, WType
  <2>6. /\ qdata \in [Slots -> [hndl : Slots, dev : DevIds \cup {0}]]
        /\ uncounted \subseteq failed /\ failed \subseteq Slots
    BY DEF BInv, DInv, DType
  <2> QED BY <2>1, <2>2, <2>3, <2>4, <2>5, <2>6 DEF TypeOK
<1>2. CountsMatch
  <2> SUFFICES ASSUME up = "up", NEW t \in Types
               PROVE  CountedBy(t) =
                        {p \in Slots : /\ InUse(p) /\ p \notin uncounted
                                       /\ \/ q[p].type = t
                                          \/ t = "CMPT" /\ q[p].type = "C2H" /\ q[p].st}
    BY DEF BInv, DInv, CountsOK, CountsMatch
  <2> QED BY DEF CountedBy, Counted
<1>3. WorkersMatch
  <2>1. \A p \in Slots \ lost : (worker[p] # 0) <=> (q[p].state = "ONLINE")
    BY DEF BInv, Attached
  <2>2. \A p \in Slots : (vec[p] # 0) <=> (worker[p] # 0 /\ mode = "direct")
    BY DEF BInv, Attached
  <2> QED BY <2>1, <2>2 DEF BInv, LoadsOK, OnWorker, OnVector, WorkersMatch
<1>4. ResetLeavesNothing
  <2>1. ASSUME up # "up", NEW d \in DevIds PROVE devs[d] = NoDev
    <3>1. SUFFICES ASSUME devs[d] # NoDev PROVE FALSE
      OBVIOUS
    <3>2. devs[d] \in DevRec /\ DevOK(d)
      BY <3>1 DEF BInv, DInv, DType
    <3>3. PICK t \in devs[d].init : InUse(Slot(t, devs[d].idx))
      BY <3>1, <3>2 DEF DevOK
    <3>4. Slot(t, devs[d].idx) \in Slots
      BY <3>2, SlotFacts DEF DevRec, Types, Dirs
    <3> QED BY <2>1, <3>3, <3>4 DEF BInv, DInv, Idle
  <2>2. DirSlots \subseteq Slots
    BY SizeAssumption DEF DirSlots, Slots
  <2> QED BY <2>1, <2>2 DEF BInv, Emptied, ResetLeavesNothing
<1> QED BY <1>1, <1>2, <1>3, <1>4

\* Only starting a queue puts it on a worker.
LEMMA OnlyStartPuts ==
  ASSUME ~AnyAuto, BInv, [Next]_vars, NEW p \in Slots, worker[p] = 0, worker'[p] # 0
  PROVE  Start(p)
<1>1. ASSUME NEW h \in Slots, Start(h) PROVE Start(p)
  <2>1. PICK w \in 1 .. Workers : worker' = [worker EXCEPT ![h] = w]
    BY <1>1, Started
  <2>2. p = h
    BY <2>1 DEF BInv, WType
  <2> QED BY <1>1, <2>2
<1>2. ASSUME NEW h \in Slots, Stop(h) PROVE FALSE
  <2>1. worker' = [r \in Slots |-> IF r \in {qdata[h].hndl} THEN 0 ELSE worker[r]]
    BY <1>2 DEF Stop, Detach
  <2> QED BY <2>1
<1>3. ASSUME Reset \/ SetQmax PROVE FALSE
  <2>1. \E ps : worker' = [r \in Slots |-> IF r \in ps THEN 0 ELSE worker[r]]
    BY <1>3 DEF Reset, SetQmax, CleanUp, Detach
  <2> QED BY <2>1
<1>4. ASSUME worker' = worker PROVE FALSE
  BY <1>4
<1>5. ASSUME NEW t \in Types, NEW st \in BOOLEAN, NEW i \in Indexes, NEW r \in Slots,
             \/ Add(t, st, i, r)
             \/ AddFailsPreparing(t, st, i, r)
             \/ AddFailsCounting(t, st, i, r)
             \/ AddFailsDevice(t, st, i, r)
      PROVE  worker' = worker
  BY <1>5 DEF Add, AddFailsPreparing, AddFailsCounting, AddFailsDevice, books
<1>6. ASSUME NEW t \in Types, NEW i \in Indexes, Delete(t, i) PROVE worker' = worker
  BY <1>6 DEF Delete, books
<1>7. ASSUME Online \/ UNCHANGED vars PROVE worker' = worker
  BY <1>7 DEF Online, vars, books
<1> QED BY <1>1, <1>2, <1>3, <1>4, <1>5, <1>6, <1>7 DEF Next

\* The vector and the processor a queue starts on are the least used.
LEMMA SpreadStep ==
  ASSUME ~AnyAuto, BInv, [Next]_vars, NEW p \in Slots, worker[p] = 0, worker'[p] # 0
  PROVE  /\ mode = "direct" =>
              \A v \in 1 .. Vectors : vecCnt[vec'[p]] <= vecCnt[v]
         /\ mode # "poll" =>
              \A w \in 1 .. Workers : load[worker'[p]] <= load[w]
<1>1. Start(p)
  BY OnlyStartPuts
<1>2. PICK w \in 1 .. Workers, v \in 1 .. Vectors :
        /\ worker' = [worker EXCEPT ![p] = w]
        /\ mode = "direct" => vec' = [vec EXCEPT ![p] = v]
        /\ \A u \in 1 .. Vectors : vecCnt[v] <= vecCnt[u]
        /\ mode # "poll" => \A u \in 1 .. Workers : load[w] <= load[u]
  BY <1>1, Started
<1>3. worker'[p] = w /\ (mode = "direct" => vec'[p] = v)
  BY <1>2 DEF BInv, WType
<1> QED BY <1>2, <1>3

\* Every table that names queues names those there are, every count that
\* shares them out is true and a queue that starts goes to the least used
\* vector and processor, for any number of queues, threads and vectors and
\* whichever additions failed (qdma_queue_add, qdma_queue_start,
\* qdma_queue_stop, qdma_queue_remove, qdma_device_cleanup, qdma_set_qmax).
THEOREM BooksAlwaysMatch == ASSUME ~AnyAuto PROVE Spec => BooksMatch
<1>1. Init => BInv
  BY InitBInv
<1>2. BInv /\ [Next]_vars => BInv'
  BY StepBInv
<1>3. BInv => (TypeOK /\ CountsMatch /\ WorkersMatch /\ ResetLeavesNothing)
  BY BooksOf
<1>4. BInv /\ [Next]_vars =>
        [\A p \in Slots : (worker[p] = 0 /\ worker'[p] # 0) =>
           /\ mode = "direct" =>
                \A v \in 1 .. Vectors : vecCnt[vec'[p]] <= vecCnt[v]
           /\ mode # "poll" =>
                \A w \in 1 .. Workers : load[worker'[p]] <= load[w]]_vars
  BY SpreadStep
<1> QED BY <1>1, <1>2, <1>3, <1>4, PTL DEF Spec, BooksMatch, EvenlySpread
=============================================================================
