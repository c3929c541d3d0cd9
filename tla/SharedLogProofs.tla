--------------------------- MODULE SharedLogProofs ---------------------------
(***************************************************************************)
(* Theorems about SharedLog, for any servers and any number of units: the  *)
(* head's lock does what it should, whoever dies, and no unit in use is    *)
(* given again unless destroyObj has moved the size below it.              *)
(***************************************************************************)
EXTENDS SharedLog, TLAPS

-----------------------------------------------------------------------------
(* The lock of the head. *)

StepsTyped == step \in [Writer -> {"down", "log", "check", "lock", "create"}]

\* w goes on, and not with a unit in its hands.
Leaves(w) ==
    /\ StepsTyped' /\ step'[w] # "create"
    /\ \A v \in Writer \ {w} : step'[v] = step[v]

\* A server that goes on to one of these steps is not creating a unit.
LEMMA StepTo ==
    ASSUME StepsTyped, NEW w \in Writer, NEW st \in {"down", "log", "check", "lock"},
           step' = [step EXCEPT ![w] = st]
    PROVE  Leaves(w)
  BY SMT DEF Leaves, StepsTyped

\* Neither is one that has got a unit,
LEMMA GetLeaves ==
    ASSUME StepsTyped, NEW w \in Writer, NEW u, Get(w, u)
    PROVE  Leaves(w)
  <1>1. CASE Want(w, "first file") \/ Want(w, "standby")
    BY <1>1, StepTo DEF Want
  <1>2. CASE Resume(w)
    BY <1>2, StepTo DEF Resume
  <1> QED
    <2>1. Want(w, "first file") \/ Want(w, "standby") \/ Resume(w)
      <3>1. CASE goal[w] = "first standby"
        BY <3>1 DEF Get
      <3>2. CASE goal[w] = "file"
        BY <3>2 DEF Get
      <3>3. CASE goal[w] # "first standby" /\ goal[w] # "file"
        BY <3>3 DEF Get
      <3> QED
        BY <3>1, <3>2, <3>3
    <2> QED
      BY <1>1, <1>2, <2>1

\* or has got none.
LEMMA GetNoneLeaves ==
    ASSUME StepsTyped, NEW w \in Writer, GetNone(w)
    PROVE  Leaves(w)
  <1>1. CASE Want(w, "first file")
    BY <1>1, StepTo DEF Want
  <1>2. CASE Resume(w)
    BY <1>2, StepTo DEF Resume
  <1>3. CASE step' = [step EXCEPT ![w] = "down"]
    BY <1>3, StepTo
  <1> QED
    <2>1. Want(w, "first file") \/ Resume(w) \/ step' = [step EXCEPT ![w] = "down"]
      <3>1. CASE goal[w] = "first standby"
        BY <3>1 DEF GetNone
      <3>2. CASE goal[w] = "first file"
        BY <3>2 DEF GetNone
      <3>3. CASE goal[w] # "first standby" /\ goal[w] # "first file"
        BY <3>3 DEF GetNone
      <3> QED
        BY <3>1, <3>2, <3>3
    <2> QED
      BY <1>1, <1>2, <1>3, <2>1

\* A server's step keeps the head with one process.
LEMMA HeadWriterStep ==
    ASSUME SharedLogAssumption, StepsTyped, HeadOwned,
           NEW w \in Writer, WriterStep(w)
    PROVE  StepsTyped' /\ HeadOwned'
  <1> USE DEF SharedLogAssumption, StepsTyped, HeadOwned, head, server
  <1>1. CASE TryLockHead(w)
    BY <1>1, SMT DEF TryLockHead
  <1>2. CASE CreateObj(w)
    <2>1. step[w] = "create" /\ lock' = Free /\ phase' = phase /\ Leaves(w)
      BY <1>2, GetLeaves DEF CreateObj
    <2> QED
      BY <2>1, SMT DEF Leaves
  <1>3. CASE CreateBeyond(w)
    BY <1>3, SMT DEF CreateBeyond
  <1>4. CASE Leaves(w) /\ lock' = lock /\ phase' = phase
    BY <1>4, SMT DEF Leaves
  <1>5. ASSUME CheckPool(w) PROVE Leaves(w) /\ lock' = lock /\ phase' = phase
    BY <1>5, GetNoneLeaves, StepTo DEF CheckPool
  <1>6. ASSUME LockBusy(w) PROVE Leaves(w) /\ lock' = lock /\ phase' = phase
    BY <1>6, GetNoneLeaves DEF LockBusy
  <1>7. ASSUME Start(w) PROVE Leaves(w) /\ lock' = lock /\ phase' = phase
    BY <1>7, StepTo DEF Start, Want
  <1>8. ASSUME Rotate(w) PROVE Leaves(w) /\ lock' = lock /\ phase' = phase
    <2>1. Want(w, "file") \/ Want(w, "standby")
      BY <1>8 DEF Rotate
    <2> QED
      BY <1>8, <2>1, StepTo DEF Rotate, Want
  <1>9. ASSUME Retry(w) PROVE Leaves(w) /\ lock' = lock /\ phase' = phase
    <2>1. Want(w, "file") \/ Want(w, "standby")
      BY <1>9 DEF Retry
    <2> QED
      BY <1>9, <2>1, StepTo DEF Retry, Want
  <1>13. ASSUME Log(w) PROVE StepsTyped' /\ HeadOwned'
    BY <1>13 DEF Log, writers
  <1>10. ASSUME Refill(w) PROVE Leaves(w) /\ lock' = lock /\ phase' = phase
    BY <1>10, StepTo DEF Refill, Want
  <1>11. ASSUME Stop(w) PROVE Leaves(w) /\ lock' = lock /\ phase' = phase
    BY <1>11, StepTo DEF Stop
  <1>12. ASSUME Crash(w) PROVE Leaves(w) /\ lock' = lock /\ phase' = phase
    BY <1>12, StepTo DEF Crash
  <1> QED
    BY <1>1, <1>2, <1>3, <1>4, <1>5, <1>6, <1>7, <1>8, <1>9, <1>10, <1>11, <1>12, <1>13 DEF WriterStep

\* So does a step of the log server.
LEMMA HeadServerStep ==
    ASSUME SharedLogAssumption, StepsTyped, HeadOwned, ServerStep
    PROVE  StepsTyped' /\ HeadOwned'
  <1> USE DEF SharedLogAssumption, StepsTyped, HeadOwned, head, writers
  <1>1. CASE LockDestroy
    BY <1>1, SMT DEF LockDestroy
  <1>2. CASE DestroyObj
    BY <1>2, SMT DEF DestroyObj
  <1>3. CASE BeginScan \/ ScanUnit \/ EndScan \/ CheckDestroy \/ DestroyBusy \/ DestroyBeyond \/ EndDestroy
    <2>1. UNCHANGED <<step, lock>> /\ phase' # "swap"
      BY <1>3, SMT DEF BeginScan, ScanUnit, EndScan, CheckDestroy, DestroyBusy, DestroyBeyond, EndDestroy
    <2> QED
      BY <2>1
  <1> QED
    BY <1>1, <1>2, <1>3 DEF ServerStep

\* One process at a time creates or destroys a unit: tryLockHead, a compare and
\* swap, and tryUnLockHead, also when servers die or find no unit left.
THEOREM OneAtTheHead ==
    ASSUME SharedLogAssumption
    PROVE  Spec => []HeadOwned
  <1>1. Init => StepsTyped /\ HeadOwned
    BY SMT DEF Init, StepsTyped, HeadOwned
  <1>2. StepsTyped /\ HeadOwned /\ [Next]_vars => StepsTyped' /\ HeadOwned'
    <2> SUFFICES ASSUME StepsTyped, HeadOwned, [Next]_vars PROVE StepsTyped' /\ HeadOwned'
      OBVIOUS
    <2>1. CASE Next
      BY <2>1, HeadWriterStep, HeadServerStep DEF Next
    <2>2. CASE UNCHANGED vars
      BY <2>2 DEF vars, head, writers, server, StepsTyped, HeadOwned
    <2> QED
      BY <2>1, <2>2
  <1> QED
    BY <1>1, <1>2, PTL DEF Spec

-----------------------------------------------------------------------------
(* What the servers hold. *)

\* What w's step does to the units and the size: w keeps, gives back, or has the
\* one at the size.
Serves(w) ==
    /\ \A v \in Writer \ {w} : file'[v] = file[v] /\ standby'[v] = standby[v]
    /\ file' \in [Writer -> Unit \cup {None}] /\ standby' \in [Writer -> Unit \cup {None}]
    /\ size' \in Nat /\ size' >= size
    /\ \A u \in Held(w)' : u \in Held(w) \/ (u = size /\ u < size')
    /\ size \notin Held(w) /\ (file[w] # None => file[w] # standby[w])
          => (file'[w] # None => file'[w] # standby'[w])

\* Units are numbers below the capacity.
LEMMA UnitsAreNumbers ==
    ASSUME SharedLogAssumption
    PROVE  Unit \subseteq Nat /\ None \notin Unit /\ (\A n \in Nat : n < Capacity => n \in Unit)
  BY SMT DEF SharedLogAssumption, Unit

\* Giving units back, or keeping them.
LEMMA KeepsServes ==
    ASSUME SharedLogAssumption, TypeOK, NEW w \in Writer, size' = size,
           \/ UNCHANGED <<file, standby>>
           \/ file' = [file EXCEPT ![w] = None] /\ standby' = [standby EXCEPT ![w] = None]
           \/ file' = [file EXCEPT ![w] = None] /\ UNCHANGED standby
           \/ standby' = [standby EXCEPT ![w] = None] /\ UNCHANGED file
           \/ file' = [file EXCEPT ![w] = standby[w]] /\ standby' = [standby EXCEPT ![w] = None]
    PROVE  Serves(w)
  <1>1. size \in Nat /\ size >= size
    BY SMT DEF TypeOK
  <1>2. /\ file' \in [Writer -> Unit \cup {None}] /\ standby' \in [Writer -> Unit \cup {None}]
        /\ \A v \in Writer \ {w} : file'[v] = file[v] /\ standby'[v] = standby[v]
        /\ \/ file'[w] = file[w] /\ standby'[w] = standby[w]
           \/ file'[w] = None /\ standby'[w] = None
           \/ file'[w] = None /\ standby'[w] = standby[w]
           \/ file'[w] = file[w] /\ standby'[w] = None
           \/ file'[w] = standby[w] /\ standby'[w] = None
    BY DEF TypeOK
  <1>3. Held(w)' \subseteq Held(w)
    BY <1>2 DEF Held
  <1>4. (file[w] # None => file[w] # standby[w]) => (file'[w] # None => file'[w] # standby'[w])
    BY <1>2
  <1> QED
    BY <1>1, <1>2, <1>3, <1>4 DEF Serves

\* createObj gives the unit at the size.
LEMMA CreateServes ==
    ASSUME SharedLogAssumption, IInv, NEW w \in Writer, CreateObj(w)
    PROVE  Serves(w)
  <1>1. /\ position[w] = size /\ size \in Nat /\ size < Capacity /\ size' = size + 1
        /\ Get(w, position[w])
    BY DEF CreateObj, IInv, TypeOK, PositionsCurrent
  <1>2. size \in Unit /\ size # None /\ size' \in Nat /\ size' >= size /\ size < size'
    BY <1>1, UnitsAreNumbers, SMT
  <1>3. file \in [Writer -> Unit \cup {None}] /\ standby \in [Writer -> Unit \cup {None}]
    BY DEF IInv, TypeOK
  <1>4. CASE standby' = [standby EXCEPT ![w] = size] /\ file' = file
    <2>1. /\ file' \in [Writer -> Unit \cup {None}] /\ standby' \in [Writer -> Unit \cup {None}]
          /\ \A v \in Writer \ {w} : file'[v] = file[v] /\ standby'[v] = standby[v]
          /\ file'[w] = file[w] /\ standby'[w] = size
      BY <1>2, <1>3, <1>4
    <2>2. \A u \in Held(w)' : u \in Held(w) \/ u = size
      BY <2>1 DEF Held
    <2>3. size \notin Held(w) /\ (file[w] # None => file[w] # standby[w])
             => (file'[w] # None => file'[w] # standby'[w])
      BY <2>1 DEF Held
    <2> QED
      BY <1>2, <2>1, <2>2, <2>3 DEF Serves
  <1>5. CASE file' = [file EXCEPT ![w] = size] /\ standby' = standby
    <2>1. /\ file' \in [Writer -> Unit \cup {None}] /\ standby' \in [Writer -> Unit \cup {None}]
          /\ \A v \in Writer \ {w} : file'[v] = file[v] /\ standby'[v] = standby[v]
          /\ file'[w] = size /\ standby'[w] = standby[w]
      BY <1>2, <1>3, <1>5
    <2>2. \A u \in Held(w)' : u \in Held(w) \/ u = size
      BY <2>1 DEF Held
    <2>3. size \notin Held(w) /\ (file[w] # None => file[w] # standby[w])
             => (file'[w] # None => file'[w] # standby'[w])
      BY <1>2, <2>1 DEF Held
    <2> QED
      BY <1>2, <2>1, <2>2, <2>3 DEF Serves
  <1> QED
    BY <1>1, <1>4, <1>5 DEF Get

\* Every step of a server is of that kind.
LEMMA WriterServes ==
    ASSUME SharedLogAssumption, IInv, NEW w \in Writer, WriterStep(w)
    PROVE  Serves(w)
  <1>0. TypeOK /\ size \in Nat
    BY DEF IInv, TypeOK
  <1>1. ASSUME GetNone(w), size' = size PROVE Serves(w)
    BY <1>0, <1>1, KeepsServes DEF GetNone
  <1>2. CASE CheckPool(w)
    <2>1. size' = size
      BY <1>2 DEF CheckPool, head
    <2>2. CASE size < Capacity
      BY <1>0, <1>2, <2>1, <2>2, KeepsServes DEF CheckPool
    <2>3. CASE ~(size < Capacity)
      BY <1>1, <1>2, <2>1, <2>3 DEF CheckPool
    <2> QED
      BY <2>2, <2>3
  <1>3. CASE TryLockHead(w) \/ Start(w) \/ Log(w) \/ Refill(w) \/ Stop(w) \/ Crash(w)
    BY <1>0, <1>3, KeepsServes DEF TryLockHead, Start, Log, Refill, Stop, Crash, head, writers
  <1>4. CASE LockBusy(w)
    BY <1>1, <1>4 DEF LockBusy, head
  <1>5. CASE CreateObj(w)
    BY <1>5, CreateServes
  <1>6. CASE CreateBeyond(w)
    <2>1. size' = size \/ size' = size + 1
      BY <1>6 DEF CreateBeyond, IInv, PositionsCurrent, head
    <2>2. size' \in Nat /\ size' >= size
      BY <1>0, <2>1, SMT
    <2>3. /\ file' \in [Writer -> Unit \cup {None}] /\ standby' \in [Writer -> Unit \cup {None}]
          /\ \A v \in Writer \ {w} : file'[v] = file[v] /\ standby'[v] = standby[v]
          /\ file'[w] = None /\ standby'[w] = None
      BY <1>0, <1>6 DEF CreateBeyond, TypeOK
    <2>4. Held(w)' = {}
      BY <2>3 DEF Held
    <2> QED
      BY <2>2, <2>3, <2>4 DEF Serves
  <1>7. CASE Rotate(w)
    BY <1>0, <1>7, KeepsServes DEF Rotate, head
  <1>8. CASE Retry(w)
    BY <1>0, <1>8, KeepsServes DEF Retry, head
  <1> QED
    BY <1>2, <1>3, <1>4, <1>5, <1>6, <1>7, <1>8 DEF WriterStep

\* The size read under the lock stays true: nobody else changes it.
LEMMA WriterPositions ==
    ASSUME SharedLogAssumption, IInv, NEW w \in Writer, WriterStep(w)
    PROVE  PositionsCurrent' /\ position' \in [Writer -> Nat] /\ last' \in Int
  <1> USE DEF SharedLogAssumption, head, server, writers
  <1>0. /\ size \in Nat /\ position \in [Writer -> Nat] /\ last \in Int /\ StepsTyped
        /\ HeadOwned /\ PositionsCurrent
    BY DEF IInv, TypeOK, StepsTyped
  <1>1. phase' = phase /\ last' = last
    <2>1. CASE CheckPool(w) \/ TryLockHead(w) \/ LockBusy(w) \/ CreateObj(w) \/ CreateBeyond(w)
      BY <2>1 DEF CheckPool, TryLockHead, LockBusy, CreateObj, CreateBeyond
    <2>2. CASE Start(w) \/ Log(w) \/ Rotate(w) \/ Retry(w) \/ Refill(w) \/ Stop(w) \/ Crash(w)
      BY <2>2 DEF Start, Log, Rotate, Retry, Refill, Stop, Crash
    <2> QED
      BY <2>1, <2>2 DEF WriterStep
  <1>2. CASE TryLockHead(w)
    BY <1>0, <1>1, <1>2, SMT DEF TryLockHead, PositionsCurrent, HeadOwned, StepsTyped
  <1>3. ASSUME step[w] = "create", lock' = Free PROVE \A v \in Writer : step'[v] # "create"
    <2>1. StepsTyped' /\ HeadOwned'
      BY <1>0, HeadWriterStep
    <2> QED
      BY <1>3, <2>1 DEF HeadOwned
  <1>4. CASE CreateObj(w) \/ CreateBeyond(w)
    <2>1. step[w] = "create" /\ lock = w /\ phase # "swap" /\ UNCHANGED position
      BY <1>0, <1>4 DEF CreateObj, CreateBeyond, HeadOwned
    <2>2. CASE lock' = Free
      BY <1>0, <1>1, <1>3, <2>1, <2>2 DEF PositionsCurrent
    <2>3. CASE UNCHANGED <<size, lock>>
      <3>1. \A v \in Writer : step'[v] = "create" => step[v] = "create"
        <4>1. step' = [step EXCEPT ![w] = "down"] \/ lock' = Free
          BY <1>4 DEF CreateObj, CreateBeyond
        <4> QED
          BY <1>0, <1>3, <2>1, <4>1 DEF StepsTyped
      <3> QED
        BY <1>0, <1>1, <2>1, <2>3, <3>1 DEF PositionsCurrent
    <2> QED
      BY <1>4, <2>2, <2>3 DEF CreateObj, CreateBeyond
  <1>5. CASE UNCHANGED <<size, position>> /\ \A v \in Writer : step'[v] = "create" => step[v] = "create"
    BY <1>0, <1>1, <1>5 DEF PositionsCurrent
  <1>6. ASSUME Leaves(w) PROVE \A v \in Writer : step'[v] = "create" => step[v] = "create"
    BY <1>6 DEF Leaves
  <1>7. CASE CheckPool(w)
    BY <1>0, <1>5, <1>6, <1>7, GetNoneLeaves, StepTo DEF CheckPool
  <1>8. CASE LockBusy(w)
    BY <1>0, <1>5, <1>6, <1>8, GetNoneLeaves DEF LockBusy
  <1>9. CASE Rotate(w) \/ Retry(w) \/ Start(w) \/ Refill(w)
    <2>1. (\E g \in {"file", "standby", "first standby"} : Want(w, g)) /\ UNCHANGED <<size, position>>
      BY <1>9 DEF Rotate, Retry, Start, Refill
    <2>2. Leaves(w)
      BY <1>0, <2>1, StepTo DEF Want
    <2> QED
      BY <1>5, <1>6, <2>1, <2>2
  <1>10. CASE Stop(w) \/ Crash(w)
    <2>1. step' = [step EXCEPT ![w] = "down"] /\ UNCHANGED <<size, position>>
      BY <1>10 DEF Stop, Crash
    <2>2. Leaves(w)
      BY <1>0, <2>1, StepTo
    <2> QED
      BY <1>5, <1>6, <2>1, <2>2
  <1>11. CASE Log(w)
    BY <1>5, <1>11 DEF Log
  <1> QED
    BY <1>2, <1>4, <1>7, <1>8, <1>9, <1>10, <1>11 DEF WriterStep

\* A step of the log server leaves the servers alone, and only destroyObj
\* changes the size, by one.
LEMMA ServerSize ==
    ASSUME SharedLogAssumption, IInv, ServerStep
    PROVE  /\ UNCHANGED <<step, position, file, standby>>
           /\ size' = size \/ (DestroyObj /\ size' = last /\ last = size - 1 /\ last \in Nat)
           /\ PositionsCurrent' /\ last' \in Int
  <1> USE DEF SharedLogAssumption, head, writers
  <1>0. size \in Nat /\ last \in Int /\ HeadOwned /\ PositionsCurrent
    BY DEF IInv, TypeOK
  <1>1. CASE DestroyObj
    <2>1. /\ UNCHANGED <<step, position, file, standby, last>> /\ size' = last /\ phase' = "destroy"
          /\ phase = "swap" /\ last \in Unit
      BY <1>1 DEF DestroyObj
    <2>2. last \in Nat /\ last = size - 1 /\ lock = Self
      BY <1>0, <2>1, UnitsAreNumbers DEF PositionsCurrent, HeadOwned
    <2>3. \A w \in Writer : step[w] # "create"
      BY <1>0, <2>2 DEF HeadOwned
    <2> QED
      BY <1>0, <1>1, <2>1, <2>2, <2>3 DEF PositionsCurrent
  <1>2. CASE LockDestroy
    BY <1>0, <1>2, SMT DEF LockDestroy, PositionsCurrent
  <1>3. CASE BeginScan \/ ScanUnit \/ EndScan \/ CheckDestroy \/ DestroyBusy \/ DestroyBeyond \/ EndDestroy
    <2>1. UNCHANGED <<step, position, file, standby, size, last>> /\ phase' # "swap"
      BY <1>3, SMT DEF BeginScan, ScanUnit, EndScan, CheckDestroy, DestroyBusy, DestroyBeyond, EndDestroy
    <2> QED
      BY <1>0, <2>1 DEF PositionsCurrent
  <1> QED
    BY <1>1, <1>2, <1>3 DEF ServerStep

\* The invariant: the types, one process at the head, and the sizes it has read.
LEMMA Inductive ==
    ASSUME SharedLogAssumption
    PROVE  Spec => []IInv
  <1>1. Init => IInv
    BY SMT DEF Init, IInv, TypeOK, HeadOwned, PositionsCurrent
  <1>2. IInv /\ [Next]_vars => IInv'
    <2> SUFFICES ASSUME IInv, [Next]_vars PROVE IInv'
      OBVIOUS
    <2>1. StepsTyped /\ HeadOwned
      BY DEF IInv, TypeOK, StepsTyped
    <2>2. CASE \E w \in Writer : WriterStep(w)
      <3>1. PICK w \in Writer : WriterStep(w)
        BY <2>2
      <3>2. StepsTyped' /\ HeadOwned'
        BY <2>1, <3>1, HeadWriterStep
      <3>3. Serves(w) /\ PositionsCurrent' /\ position' \in [Writer -> Nat] /\ last' \in Int
        BY <3>1, WriterServes, WriterPositions
      <3> QED
        BY <3>2, <3>3 DEF IInv, TypeOK, Serves, StepsTyped
    <2>3. CASE ServerStep
      <3>1. StepsTyped' /\ HeadOwned'
        BY <2>1, <2>3, HeadServerStep
      <3>2. /\ UNCHANGED <<step, position, file, standby>>
            /\ size' = size \/ (size' = last /\ last \in Nat)
            /\ PositionsCurrent' /\ last' \in Int
        BY <2>3, ServerSize
      <3> QED
        BY <3>1, <3>2 DEF IInv, TypeOK
    <2>4. CASE UNCHANGED vars
      BY <2>4 DEF vars, head, units, writers, server, IInv, TypeOK, HeadOwned, PositionsCurrent
    <2> QED
      BY <2>2, <2>3, <2>4 DEF Next
  <1> QED
    BY <1>1, <1>2, PTL DEF Spec

\* Units that nobody else can be given.
LEMMA HeldNumbers ==
    ASSUME SharedLogAssumption, TypeOK
    PROVE  \A w \in Writer : \A u \in Held(w) : u \in Nat /\ u \in Occupied
  BY UnitsAreNumbers DEF TypeOK, Held, Occupied

\* A unit in use is given to a server only if it is stranded.
LEMMA StepGiven ==
    ASSUME SharedLogAssumption, IInv, [Next]_vars
    PROVE  GivenAgain
  <1> SUFFICES ASSUME NEW w \in Writer, NEW u \in Held(w)' \ Held(w), u \in Occupied
               PROVE  u \in Stranded
    BY DEF GivenAgain
  <1>1. CASE ServerStep
    BY <1>1, ServerSize DEF Held
  <1>2. CASE UNCHANGED vars
    BY <1>2 DEF vars, writers, Held
  <1>3. CASE \E v \in Writer : WriterStep(v)
    <2>1. PICK v \in Writer : WriterStep(v)
      BY <1>3
    <2>2. Serves(v)
      BY <2>1, WriterServes
    <2>3. v = w
      BY <2>2 DEF Serves, Held
    <2>4. u = size
      BY <2>2, <2>3 DEF Serves
    <2>5. size \in Nat
      BY DEF IInv, TypeOK
    <2>6. u >= size
      BY <2>4, <2>5
    <2> QED
      BY <2>6 DEF Stranded
  <1> QED
    BY <1>1, <1>2, <1>3 DEF Next

\* A unit is stranded only by destroyObj.
LEMMA StepStranded ==
    ASSUME SharedLogAssumption, IInv, [Next]_vars
    PROVE  StrandedByDestroy
  <1>0. TypeOK /\ size \in Nat
    BY DEF IInv, TypeOK
  <1>1. CASE ServerStep
    <2>1. Occupied' = Occupied
      BY <1>1, ServerSize DEF Occupied, Held
    <2>2. CASE size' = size
      BY <2>1, <2>2 DEF StrandedByDestroy, Stranded
    <2>3. CASE DestroyObj /\ size' = last /\ last = size - 1 /\ last \in Nat
      <3>1. \A u \in Occupied : u \in Nat
        BY <1>0, HeldNumbers DEF Occupied
      <3>2. \A u \in Nat : u >= last <=> u >= size \/ u = last
        BY <1>0, <2>3
      <3>3. \A u \in Occupied : u \in Stranded' <=> u \in Stranded \/ u = last
        BY <2>1, <2>3, <3>1, <3>2 DEF Stranded
      <3>4. Stranded' \subseteq Occupied /\ Stranded \subseteq Occupied
        BY <2>1 DEF Stranded
      <3> SUFFICES ASSUME NEW u \in Stranded' \ Stranded
                   PROVE  u = last /\ u \in Occupied /\ Stranded' = Stranded \cup {last}
        BY <2>3 DEF StrandedByDestroy
      <3>5. u = last /\ u \in Occupied
        BY <3>3, <3>4
      <3> QED
        BY <3>3, <3>4, <3>5
    <2> QED
      BY <1>1, <2>2, <2>3, ServerSize
  <1>2. CASE UNCHANGED vars
    BY <1>2 DEF vars, writers, head, Held, Occupied, Stranded, StrandedByDestroy
  <1>3. CASE \E v \in Writer : WriterStep(v)
    <2>1. PICK v \in Writer : WriterStep(v)
      BY <1>3
    <2>2. Serves(v)
      BY <2>1, WriterServes
    <2> SUFFICES ASSUME NEW u \in Stranded', u \notin Stranded PROVE FALSE
      BY DEF StrandedByDestroy
    <2>3. PICK w \in Writer : u \in Held(w)'
      BY DEF Stranded, Occupied
    <2>4. u >= size' /\ size' \in Nat /\ size' >= size
      BY <2>2 DEF Stranded, Serves
    <2>5. CASE u \in Held(w)
      <3>1. u \in Nat /\ u \in Occupied
        BY <1>0, <2>5, HeldNumbers
      <3>2. u >= size
        BY <1>0, <2>4, <3>1
      <3> QED
        BY <3>1, <3>2 DEF Stranded
    <2>6. CASE u \notin Held(w)
      <3>1. w = v
        BY <2>2, <2>3, <2>6 DEF Serves, Held
      <3>2. u = size /\ u < size'
        BY <2>2, <2>3, <2>6, <3>1 DEF Serves
      <3> QED
        BY <1>0, <2>4, <3>2
    <2> QED
      BY <2>5, <2>6
  <1> QED
    BY <1>1, <1>2, <1>3 DEF Next

\* While none is stranded, units stay exclusive.
LEMMA StepExclusive ==
    ASSUME SharedLogAssumption, IInv, [Next]_vars
    PROVE  ExclusiveUntilStranded
  <1> SUFFICES ASSUME UnitsExclusive, Stranded = {} PROVE UnitsExclusive'
    BY DEF ExclusiveUntilStranded
  <1>0. TypeOK /\ size \in Nat
    BY DEF IInv, TypeOK
  <1>1. CASE UNCHANGED <<file, standby>>
    BY <1>1 DEF UnitsExclusive, Held
  <1>2. CASE \E v \in Writer : WriterStep(v)
    <2>1. PICK w \in Writer : WriterStep(w)
      BY <1>2
    <2>2. Serves(w)
      BY <2>1, WriterServes
    <2>3. size \notin Occupied
      <3>1. size >= size
        BY <1>0
      <3> QED
        BY <3>1 DEF Stranded
    <2>4. \A v \in Writer : size \notin Held(v)
      BY <2>3 DEF Occupied
    <2>5. \A v \in Writer \ {w} : Held(v)' = Held(v) /\ file'[v] = file[v] /\ standby'[v] = standby[v]
      BY <2>2 DEF Serves, Held
    <2>6. \A u \in Held(w)' : u \in Held(w) \/ u = size
      BY <2>2 DEF Serves
    <2>7. \A v, x \in Writer : v # x => Held(v) \cap Held(x) = {}
      BY DEF UnitsExclusive
    <2>8. \A v, x \in Writer : v # x => Held(v)' \cap Held(x)' = {}
      BY <2>4, <2>5, <2>6, <2>7
    <2>9. \A v \in Writer : file'[v] # None => file'[v] # standby'[v]
      BY <2>2, <2>4, <2>5 DEF Serves, UnitsExclusive
    <2> QED
      BY <2>8, <2>9 DEF UnitsExclusive
  <1> QED
    BY <1>1, <1>2, ServerSize DEF Next, vars, writers

-----------------------------------------------------------------------------
\* A unit in use comes to a second server only if it lies beyond the size: the lock keeps the position that createObj reads right,
\* whatever the others do and whoever dies.
THEOREM GivenOnce ==
    ASSUME SharedLogAssumption
    PROVE  Spec => [][GivenAgain]_vars
  <1>1. IInv /\ [Next]_vars => [GivenAgain]_vars
    BY StepGiven
  <1> QED
    BY <1>1, Inductive, PTL DEF Spec

\* The size passes below a unit in use only in destroyObj, one unit at a time,
\* and that is the unit at the last position of the servers' arrays.
THEOREM StrandedByDestroyOnly ==
    ASSUME SharedLogAssumption
    PROVE  Spec => [][StrandedByDestroy]_vars
  <1>1. IInv /\ [Next]_vars => [StrandedByDestroy]_vars
    BY StepStranded
  <1> QED
    BY <1>1, Inductive, PTL DEF Spec

\* No step gives a unit twice while every unit in use is below the size.
THEOREM ExclusiveWhileBelow ==
    ASSUME SharedLogAssumption
    PROVE  Spec => [][ExclusiveUntilStranded]_vars
  <1>1. IInv /\ [Next]_vars => [ExclusiveUntilStranded]_vars
    BY StepExclusive
  <1> QED
    BY <1>1, Inductive, PTL DEF Spec
=============================================================================
