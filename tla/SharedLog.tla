------------------------------ MODULE SharedLog ------------------------------
(***************************************************************************)
(* The shared memory that the servers of a machine log to, and the log     *)
(* server that writes it to files.  The segment is an array of units; the  *)
(* first "size" of them are given out.  Each process has its own table     *)
(* m_pObjs from positions to units.  A server takes the unit at position   *)
(* "size" (createObj), fills it, releases it and goes on with its standby  *)
(* unit; the log server saves what is released and swaps it with the last  *)
(* unit given out (destroyObj) -- in its own table.                        *)
(*                                                                         *)
(* What is logged is left out, and so are the units' own locks, which      *)
(* nothing depends on: createObj ignores the result of tryLock.            *)
(***************************************************************************)
EXTENDS Integers, Sequences, Functions

CONSTANTS
    Writer,         \* the servers
    Capacity,       \* m_nUnitCapacity, ND_LOG_SMU_MAX
    Self, Free,     \* eNDSMU_OWN_TYPE_SELF, the log server; eNDSMU_OWN_TYPE_FREE
    HeldAge,        \* may a unit that a server holds look three minutes old?  In the
                    \* code it may: the server logs nothing for so long, or it logs
                    \* after the log server has read the clock, and the unsigned
                    \* difference wraps.  FALSE leaves these behaviours out.
    None

SharedLogAssumption ==
    /\ Capacity \in Nat
    /\ Self \notin Writer /\ Free \notin Writer /\ Self # Free
    /\ None \notin Nat
    /\ HeldAge \in BOOLEAN

Unit == 0..Capacity - 1

VARIABLES
    size, lock,             \* m_nUnitPosition and m_nOwnType of the segment's head
    status, poolID, used,   \* m_nUseStatus, m_nPoolID, m_nSaveTime # 0 of each unit
    step, goal,             \* what a server does, and what it wants a unit for
    position,               \* createObj's nPosition, read under the lock
    file, standby,          \* its units: m_pNDShareMemoryLogFile's, m_pStandbyShareLogCacheSMU
    table,                  \* m_pObjs of the log server; that of a server never changes
    phase, index, limit,    \* what the log server does, and its i and nPoolSize
    batch, del, last        \* NDShareLogCacheSMUVec; destroyObj's nDelIndex, nPosition

head    == <<size, lock>>
units   == <<status, poolID, used>>
writers == <<step, goal, position, file, standby>>
server  == <<table, phase, index, limit, batch, del, last>>
vars    == <<head, units, writers, server>>

Init ==
    /\ size = 0 /\ lock = Free
    /\ status = [u \in Unit |-> "free"]
    /\ poolID = [u \in Unit |-> None] /\ used = [u \in Unit |-> FALSE]
    /\ step = [w \in Writer |-> "down"] /\ goal = [w \in Writer |-> "standby"]
    /\ position = [w \in Writer |-> 0]
    /\ file = [w \in Writer |-> None] /\ standby = [w \in Writer |-> None]
    /\ table = [u \in Unit |-> u]
    /\ phase = "idle" /\ index = 0 /\ limit = 0
    /\ batch = <<>> /\ del = 0 /\ last = 0

Held(w)   == {file[w], standby[w]} \ {None}
Occupied  == UNION {Held(w) : w \in Writer}

\* The status of the units in S.
Mark(S, st) == status' = [u \in Unit |-> IF u \in S THEN st ELSE status[u]]

-----------------------------------------------------------------------------
(* createObj, in a server. *)

\* The server wants a unit.
Want(w, g) == step' = [step EXCEPT ![w] = "check"] /\ goal' = [goal EXCEPT ![w] = g]

Resume(w) == step' = [step EXCEPT ![w] = "log"] /\ UNCHANGED goal

\* It gets one: init() has its first standby unit and then its first file's,
\* write() a file's and then a standby unit.
Get(w, u) ==
    /\ Mark({u}, "hold")
    /\ IF goal[w] \in {"first standby", "standby"}
       THEN standby' = [standby EXCEPT ![w] = u] /\ UNCHANGED file
       ELSE file' = [file EXCEPT ![w] = u] /\ UNCHANGED standby
    /\ CASE goal[w] = "first standby" -> Want(w, "first file")
         [] goal[w] = "file"          -> Want(w, "standby")
         [] OTHER                     -> Resume(w)

\* It does not.  Without a first file the server does not start, and its
\* destructor releases the standby unit.
GetNone(w) ==
    /\ CASE goal[w] = "first standby" -> Want(w, "first file")
         [] goal[w] = "first file"    -> step' = [step EXCEPT ![w] = "down"] /\ UNCHANGED goal
         [] OTHER                     -> Resume(w)
    /\ IF goal[w] = "first file"
       THEN Mark(Held(w), "readfree") /\ standby' = [standby EXCEPT ![w] = None]
       ELSE UNCHANGED <<status, standby>>
    /\ UNCHANGED file

\* Is there a unit left?
CheckPool(w) ==
    /\ step[w] = "check"
    /\ IF size < Capacity
       THEN /\ step' = [step EXCEPT ![w] = "lock"]
            /\ UNCHANGED <<status, goal, file, standby>>
       ELSE GetNone(w)
    /\ UNCHANGED <<head, poolID, used, position, server>>

TryLockHead(w) ==
    /\ step[w] = "lock" /\ lock = Free
    /\ lock' = w
    /\ position' = [position EXCEPT ![w] = size]
    /\ step' = [step EXCEPT ![w] = "create"]
    /\ UNCHANGED <<size, units, goal, file, standby, server>>

\* spin_lock_unlock gives up after some milliseconds.
LockBusy(w) ==
    /\ step[w] = "lock" /\ lock # Free
    /\ GetNone(w)
    /\ UNCHANGED <<head, poolID, used, position, server>>

CreateObj(w) ==
    /\ step[w] = "create" /\ position[w] < Capacity
    /\ poolID' = [poolID EXCEPT ![position[w]] = position[w]]
    /\ used' = [used EXCEPT ![position[w]] = TRUE]
    /\ Get(w, position[w])
    /\ size' = position[w] + 1 /\ lock' = Free
    /\ UNCHANGED <<position, server>>

\* Another server took the last unit after the check: what is behind the table
\* is no unit.  The server dies of it, before it gives back the lock or later.
CreateBeyond(w) ==
    /\ step[w] = "create" /\ position[w] >= Capacity
    /\ \/ UNCHANGED head
       \/ size' = position[w] + 1 /\ lock' = Free
    /\ step' = [step EXCEPT ![w] = "down"]
    /\ file' = [file EXCEPT ![w] = None] /\ standby' = [standby EXCEPT ![w] = None]
    /\ UNCHANGED <<units, goal, position, server>>

-----------------------------------------------------------------------------
(* A server. *)

\* InitLogMgr
Start(w) ==
    /\ step[w] = "down"
    /\ Want(w, "first standby")
    /\ UNCHANGED <<head, units, position, file, standby, server>>

\* write() finds its unit full, or the file long enough.
Rotate(w) ==
    /\ step[w] = "log" /\ file[w] # None
    /\ IF standby[w] = None
       THEN /\ Mark({file[w]}, "readfree")
            /\ file' = [file EXCEPT ![w] = None]
            /\ Want(w, "file") /\ UNCHANGED standby
       ELSE /\ status' = [status EXCEPT ![file[w]] = "readfree", ![standby[w]] = "hold"]
            /\ file' = [file EXCEPT ![w] = standby[w]]
            /\ standby' = [standby EXCEPT ![w] = None]
            /\ Want(w, "standby")
    /\ used' = [u \in Unit |-> used[u] \/ u = standby[w]]
    /\ UNCHANGED <<head, poolID, position, server>>

\* write() without a unit tries again for a file that is long enough, and with a
\* standby unit takes that.
Retry(w) ==
    /\ step[w] = "log" /\ file[w] = None
    /\ IF standby[w] = None
       THEN Want(w, "file") /\ UNCHANGED <<status, file, standby>>
       ELSE /\ Mark({standby[w]}, "hold")
            /\ file' = [file EXCEPT ![w] = standby[w]]
            /\ standby' = [standby EXCEPT ![w] = None]
            /\ Want(w, "standby")
    /\ used' = [u \in Unit |-> used[u] \/ u = standby[w]]
    /\ UNCHANGED <<head, poolID, position, server>>

\* A message is put in the server's unit: the save times of its units are set,
\* also when they have been collected meanwhile.
Log(w) ==
    /\ step[w] = "log"
    /\ used' = [u \in Unit |-> used[u] \/ u \in Held(w)]
    /\ UNCHANGED <<head, status, poolID, writers, server>>

\* Each write() without a standby unit asks for one.
Refill(w) ==
    /\ step[w] = "log" /\ standby[w] = None
    /\ Want(w, "standby")
    /\ UNCHANGED <<head, units, position, file, standby, server>>

\* The server ends: the destructors release its units.
Stop(w) ==
    /\ step[w] = "log"
    /\ Mark(Held(w), "readfree")
    /\ step' = [step EXCEPT ![w] = "down"]
    /\ file' = [file EXCEPT ![w] = None] /\ standby' = [standby EXCEPT ![w] = None]
    /\ UNCHANGED <<head, poolID, used, goal, position, server>>

\* The server dies where it is.
Crash(w) ==
    /\ step[w] # "down"
    /\ step' = [step EXCEPT ![w] = "down"]
    /\ file' = [file EXCEPT ![w] = None] /\ standby' = [standby EXCEPT ![w] = None]
    /\ UNCHANGED <<head, units, goal, position, server>>

WriterStep(w) ==
    \/ CheckPool(w) \/ TryLockHead(w) \/ LockBusy(w) \/ CreateObj(w) \/ CreateBeyond(w)
    \/ Start(w) \/ Log(w) \/ Rotate(w) \/ Retry(w) \/ Refill(w) \/ Stop(w) \/ Crash(w)

-----------------------------------------------------------------------------
(* The log server. *)

BeginScan ==
    /\ phase = "idle"
    /\ phase' = "scan" /\ index' = 0 /\ limit' = size
    /\ UNCHANGED <<head, units, writers, table, batch, del, last>>

\* May the unit's last use be long ago?  A unit that was given to a server that
\* died always is, some day.
MayBeOld(u) == used[u] /\ (HeldAge \/ u \notin Occupied)

Released(u) == used[u] /\ status[u] = "readfree"

\* The log server looks at the next unit: one that was released is collected, and
\* so is one whose last use is long ago, released or not.
ScanUnit ==
    /\ phase = "scan" /\ index < limit
    /\ index' = index + 1
    /\ \/ /\ index \in Unit /\ (Released(table[index]) \/ MayBeOld(table[index]))
          /\ Mark({table[index]}, "free") /\ batch' = Append(batch, table[index])
       \/ /\ ~(index \in Unit /\ Released(table[index]))
          /\ UNCHANGED <<status, batch>>
    /\ UNCHANGED <<head, poolID, used, writers, table, phase, limit, del, last>>

EndScan ==
    /\ phase = "scan" /\ index >= limit
    /\ phase' = "destroy"
    /\ UNCHANGED <<head, units, writers, table, index, limit, batch, del, last>>

\* destroyObj of the next unit.
CheckDestroy ==
    /\ phase = "destroy" /\ batch # <<>>
    /\ IF poolID[Head(batch)] \in 0..size - 1
       THEN phase' = "lock" /\ del' = poolID[Head(batch)] /\ UNCHANGED batch
       ELSE batch' = Tail(batch) /\ UNCHANGED <<phase, del>>
    /\ UNCHANGED <<head, units, writers, table, index, limit, last>>

LockDestroy ==
    /\ phase = "lock" /\ lock = Free
    /\ lock' = Self /\ last' = size - 1
    /\ phase' = "swap"
    /\ UNCHANGED <<size, units, writers, table, index, limit, batch, del>>

DestroyBusy ==
    /\ phase = "lock" /\ lock # Free
    /\ phase' = "destroy" /\ batch' = Tail(batch)
    /\ UNCHANGED <<head, units, writers, table, index, limit, del, last>>

DestroyObj ==
    /\ phase = "swap" /\ last \in Unit
    /\ table' = [table EXCEPT ![del] = table[last], ![last] = table[del]]
    /\ poolID' = [poolID EXCEPT ![table'[del]] = del, ![table'[last]] = None]
    /\ used' = [used EXCEPT ![table'[last]] = FALSE]
    /\ size' = last /\ lock' = Free
    /\ phase' = "destroy" /\ batch' = Tail(batch)
    /\ UNCHANGED <<status, writers, index, limit, del, last>>

\* There are more units given out than there are: the log server dies.
DestroyBeyond ==
    /\ phase = "swap" /\ last \notin Unit
    /\ phase' = "dead"
    /\ UNCHANGED <<head, units, writers, table, index, limit, batch, del, last>>

EndDestroy ==
    /\ phase = "destroy" /\ batch = <<>>
    /\ phase' = "idle"
    /\ UNCHANGED <<head, units, writers, table, index, limit, batch, del, last>>

ServerStep ==
    \/ BeginScan \/ ScanUnit \/ EndScan
    \/ CheckDestroy \/ LockDestroy \/ DestroyBusy \/ DestroyObj \/ DestroyBeyond \/ EndDestroy

-----------------------------------------------------------------------------
Next == ServerStep \/ \E w \in Writer : WriterStep(w)

Spec == Init /\ [][Next]_vars

-----------------------------------------------------------------------------
\* A unit is one server's, and for one purpose: "lock this unit as owned by
\* nLockType".
UnitsExclusive ==
    /\ \A w \in Writer : file[w] # None => file[w] # standby[w]
    /\ \A v, w \in Writer : v # w => Held(v) \cap Held(w) = {}

\* One process at a time works with the head.
HeadOwned ==
    /\ \A w \in Writer : step[w] = "create" => lock = w
    /\ phase = "swap" => lock = Self

\* Units in use at positions from which units are given out.
Stranded == {u \in Occupied : u >= size}

\* A unit in use is given to another server only when it is stranded,
GivenAgain == \A w \in Writer : \A u \in Held(w)' \ Held(w) : u \in Occupied => u \in Stranded

\* and it is stranded only by destroyObj, when it is the one at the last position
\* in the servers' arrays and in use: the log server has collected a unit that is
\* in use, or another one, with which the last has changed places in its own
\* array only.
StrandedByDestroy ==
    \A u \in Stranded' \ Stranded : DestroyObj /\ u = last /\ u \in Occupied /\ Stranded' = Stranded \cup {last}

\* While none is, no step makes units shared, or one unit a server's both.
ExclusiveUntilStranded == UnitsExclusive /\ Stranded = {} => UnitsExclusive'

-----------------------------------------------------------------------------
(* What SharedLogProofs' invariant consists of. *)

\* Types of what the theorems are about.
TypeOK ==
    /\ size \in Nat /\ last \in Int
    /\ step \in [Writer -> {"down", "log", "check", "lock", "create"}]
    /\ position \in [Writer -> Nat]
    /\ file \in [Writer -> Unit \cup {None}] /\ standby \in [Writer -> Unit \cup {None}]

\* The size that was read under the lock is still true.
PositionsCurrent ==
    /\ \A w \in Writer : step[w] = "create" => position[w] = size
    /\ phase = "swap" => last = size - 1

IInv == TypeOK /\ HeadOwned /\ PositionsCurrent
=============================================================================
