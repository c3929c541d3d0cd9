----------------------------- MODULE TimerWheel -----------------------------
(***************************************************************************)
(* NDTimerEventManager: the timers of a server, in wheels of spokes.  A    *)
(* spoke of wheel 0 is Granularity milliseconds, one of wheel w + 1 all of *)
(* wheel w.  detectTimerList turns wheel 0 spoke by spoke up to the time   *)
(* it read when it was called; whenever a wheel has gone round, cascade    *)
(* deals the timers of the next spoke of the next wheel again.             *)
(*                                                                         *)
(* The clock goes on while the main loop is at any of its steps.           *)
(***************************************************************************)
EXTENDS Integers

CONSTANTS
    Timer,
    Granularity,        \* GRANULARITY
    WheelNum,           \* WHEEL_NUM
    Size1, Size2,       \* WHEEL_SIZE1, of wheel 0; WHEEL_SIZE2, of the others
    TimeMod,            \* 2^64, what an NDTime counts to
    Steps, Delays,      \* m_nStepMSTimes, and the time to the first event
    MaxLag,             \* how far detectTimerList may fall behind the clock
    MaxTime             \* bound: the clock stops

ASSUME TimerAssumption ==
    /\ Granularity \in Nat \ {0} /\ WheelNum \in Nat \ {0}
    /\ Size1 \in Nat \ {0} /\ Size2 \in Nat \ {0}
    /\ Steps \subseteq Nat /\ Delays \subseteq Nat
    /\ MaxLag \in Nat /\ MaxTime \in Nat
    /\ TimeMod \in Nat \ {0}

Wheel   == 0..WheelNum - 1
Size(w) == IF w = 0 THEN Size1 ELSE Size2

\* The first interval of wheel w, in spokes of wheel 0.  All wheels together
\* cover what an NDUint32 counts to.
Threshold(w) == IF w = 0 THEN 0 ELSE Size1 * Size2 ^ (w - 1)
Intervals    == Size1 * Size2 ^ (WheelNum - 1)

\* What ^ computes, which the provers do not know.
ASSUME PowerAssumption ==
    /\ Size2 ^ 0 = 1
    /\ \A n \in 0..WheelNum : Size2 ^ n \in Nat \ {0} /\ Size2 ^ (n + 1) = Size2 ^ n * Size2

\* Where a timer may be besides in a spoke: in m_readnodes, or deleted.
Ready == <<WheelNum, 0>>
Off   == <<WheelNum, 1>>

VARIABLES
    now,            \* getCurMSTimeOfUTC
    start,          \* m_nStartMSTime
    spokeindex,     \* of each wheel
    place,          \* timer -> <<wheel, spoke>>, Ready or Off
    due, step,      \* m_nProcessMSTimes, m_nStepMSTimes
    connected,      \* the timers that are not disconnected
    phase, loops,   \* where detectTimerList is, and how many spokes it has to do
    level           \* nWheelIndex of cascade

timers == <<place, due, step, connected>>
turn   == <<start, spokeindex, loops, level>>
vars   == <<now, turn, timers, phase>>

Init ==
    /\ now = 0 /\ start = 0
    /\ spokeindex = [w \in Wheel |-> 0]
    /\ place = [t \in Timer |-> Off]
    /\ due = [t \in Timer |-> 0] /\ step = [t \in Timer |-> 0]
    /\ connected = {}
    /\ phase = "idle" /\ loops = 0 /\ level = 0

-----------------------------------------------------------------------------
(* addTimerNode *)

\* The wheel of an interval, and its spoke.
WheelOf(i) ==
    CHOOSE w \in Wheel : Threshold(w) <= i /\ (w + 1 \in Wheel => i < Threshold(w + 1))

\* Mutant of SpokeOf: the spokes are counted from the first one.
SpokeFromFirst(w, i) == IF w = 0 THEN i ELSE ((i - Threshold(w)) \div Threshold(w)) % Size2

SpokeOf(w, i) ==
    IF w = 0
    THEN (i + spokeindex'[0]) % Size1
    ELSE ((i - Threshold(w) + spokeindex'[w] * Threshold(w)) \div Threshold(w)) % Size2

\* ms is what a subtraction of two NDTimes gives, and the interval an NDUint32.
Node(ms) ==
    LET i == ((ms % TimeMod) \div Granularity) % Intervals
    IN <<WheelOf(i), SpokeOf(WheelOf(i), i)>>

-----------------------------------------------------------------------------
(* What the program does with its timers, in the main loop or a callback. *)

AddTimer(t, s, d) ==
    /\ phase \in {"idle", "fire"} /\ place[t] = Off
    /\ now + d <= MaxTime
    /\ due' = [due EXCEPT ![t] = now + d]
    /\ step' = [step EXCEPT ![t] = s]
    /\ connected' = connected \cup {t}
    /\ UNCHANGED <<now, turn, phase>>
    /\ place' = [place EXCEPT ![t] = Node(now + d - start)]

\* The timer stays where it is until it is due.
Disconnect(t) ==
    /\ phase \in {"idle", "fire"} /\ t \in connected
    /\ connected' = connected \ {t}
    /\ UNCHANGED <<now, turn, place, due, step, phase>>

-----------------------------------------------------------------------------
(* detectTimerList *)

DetectTimerList ==
    /\ phase = "idle"
    /\ phase' = "turn"
    /\ loops' = (now - start) \div Granularity
    /\ UNCHANGED <<now, start, spokeindex, timers, level>>

\* Mutant of Cascaded: the wheel above is not turned.
CascadedNever(w) == FALSE

\* Has wheel w gone round, and is there one above it?
Cascaded(w) == spokeindex[w] + 1 >= Size(w) /\ w + 1 \in Wheel

\* Mutant of Advanced: the index is not reset.
AdvancedPast(w) == [spokeindex EXCEPT ![w] = @ + 1]

Advanced(w) == [spokeindex EXCEPT ![w] = (@ + 1) % Size(w)]

\* Goes on with wheel w + 1 after wheel w, or with the next spoke of wheel 0.
GoOn(w) ==
    IF Cascaded(w)
    THEN phase' = "cascade" /\ level' = w + 1 /\ UNCHANGED <<start, loops>>
    ELSE phase' = "turn" /\ level' = 0 /\ start' = start + Granularity /\ loops' = loops - 1

\* The timers of the current spoke of wheel 0 are ready.
Turn ==
    /\ phase = "turn" /\ loops > 0
    /\ place' = [t \in Timer |-> IF place[t] = <<0, spokeindex[0]>> THEN Ready ELSE place[t]]
    /\ spokeindex' = Advanced(0)
    /\ GoOn(0)
    /\ UNCHANGED <<now, due, step, connected>>

\* Those of the current spoke of a higher wheel are ready too, or dealt again
\* by the time that is left.
Cascade ==
    /\ phase = "cascade"
    /\ spokeindex' = Advanced(level)
    /\ place' = [t \in Timer |->
                     IF place[t] # <<level, spokeindex[level]>> THEN place[t]
                     ELSE IF due[t] <= now THEN Ready
                     ELSE Node(due[t] - now)]
    /\ GoOn(level)
    /\ UNCHANGED <<now, due, step, connected>>

EndTurn ==
    /\ phase = "turn" /\ loops = 0
    /\ phase' = "fire"
    /\ UNCHANGED <<now, turn, timers>>

\* doTimeOutCallBack calls back, and puts a timer with a step into the wheels
\* again.  (The order of the timers that are ready together is left open.)
Fire(t) ==
    /\ phase = "fire" /\ place[t] = Ready /\ t \in connected
    /\ UNCHANGED <<now, turn, step, phase>>
    /\ IF step[t] # 0
       THEN /\ due' = [due EXCEPT ![t] = @ + step[t]]
            /\ place' = [place EXCEPT ![t] = Node(due[t] + step[t] - start)]
            /\ UNCHANGED connected
       ELSE /\ place' = [place EXCEPT ![t] = Off]
            /\ connected' = connected \ {t}
            /\ UNCHANGED due

\* One that was disconnected is deleted instead.
Drop(t) ==
    /\ phase = "fire" /\ place[t] = Ready /\ t \notin connected
    /\ place' = [place EXCEPT ![t] = Off]
    /\ UNCHANGED <<now, turn, due, step, connected, phase>>

EndFire ==
    /\ phase = "fire" /\ \A t \in Timer : place[t] # Ready
    /\ phase' = "idle"
    /\ UNCHANGED <<now, turn, timers>>

LoopStep ==
    \/ DetectTimerList \/ Turn \/ Cascade \/ EndTurn
    \/ \E t \in Timer : Fire(t) \/ Drop(t)
    \/ EndFire

-----------------------------------------------------------------------------
\* The clock.
Tick ==
    /\ now < MaxTime /\ now < start + MaxLag
    /\ now' = now + 1
    /\ UNCHANGED <<turn, timers, phase>>

Next ==
    \/ LoopStep
    \/ Tick
    \/ \E t \in Timer :
           \/ \E s \in Steps, d \in Delays : AddTimer(t, s, d)
           \/ Disconnect(t)

\* Time passes, and the main loop calls detectTimerList again and again.
Spec     == Init /\ [][Next]_vars
FairSpec == Spec /\ WF_vars(LoopStep) /\ WF_vars(Tick)

-----------------------------------------------------------------------------
(* Properties. *)

TypeOK ==
    /\ now \in Nat /\ start \in Nat
    /\ spokeindex \in [Wheel -> Nat] /\ \A w \in Wheel : spokeindex[w] < Size(w)
    /\ \A t \in Timer :
           \/ place[t] \in {Ready, Off}
           \/ place[t][1] \in Wheel /\ place[t][2] \in 0..Size(place[t][1]) - 1
    /\ due \in [Timer -> Nat] /\ step \in [Timer -> Steps \cup {0}]
    /\ connected \in SUBSET Timer
    /\ phase \in {"idle", "turn", "cascade", "fire"}
    /\ loops \in Nat /\ level \in Wheel

\* The event of t is called back.
Fired(t) == phase = "fire" /\ place[t] = Ready /\ t \in connected /\ place'[t] # Ready

\* ... not long before its time.
FiredLateEnough ==
    \A t \in Timer : Fired(t) => due[t] <= now \/ due[t] < now + (MaxLag - Granularity)

\* No event comes before its time unless the loop was behind by more than the
\* spoke it takes to turn, and then by no more than that: an event that is dealt
\* out several times by a clock ahead of the wheels is not early several times.
EarlyBounded == [][FiredLateEnough]_vars

\* When the wheels have been turned past a timer's time, it is not in them: as
\* long as the loop is never behind by a whole step.
OnTime == \A t \in Timer : phase = "idle" /\ place[t] # Off => start <= due[t]

\* Every event whose time comes is over at some time: its timer does not wait
\* for it any more.
DueFires ==
    \A t \in Timer, d \in 0..MaxTime - Granularity :
        (place[t] # Off /\ due[t] = d) ~> ~(place[t] # Off /\ due[t] = d)
-----------------------------------------------------------------------------
(* The inductive invariants of TimerWheelProofs. *)

\* Wheel w turns by a spoke every Period(w) milliseconds.
Period(w) == IF w = 0 THEN Granularity ELSE Threshold(w) * Granularity

\* The spokes that wheel w turns before spoke s is the current one.
Ahead(w, s) == IF s >= spokeindex[w] THEN s - spokeindex[w] ELSE s - spokeindex[w] + Size(w)

\* While cascade is at its work, m_nStartMSTime is behind the wheels it turned.
Turning == IF phase = "cascade" THEN Granularity ELSE 0

\* turns[w] is what m_nStartMSTime will be when wheel w has turned next: wheel
\* w + 1 turns with the last spoke of wheel w.
Odometer(turns) ==
    /\ turns[0] = start + Granularity + Turning
    /\ phase = "cascade" => turns[level] = start + Granularity
    /\ \A w \in Wheel : w + 1 \in Wheel =>
           turns[w + 1] + (IF phase = "cascade" /\ level = w + 1 THEN Period(w + 1) ELSE 0)
               = turns[w] + (Size(w) - 1 - spokeindex[w]) * Period(w)
    /\ \A v, w \in Wheel :
           v <= w /\ (phase = "cascade" => w < level \/ level <= v) => turns[v] <= turns[w]
    /\ \A w \in Wheel : turns[w] <= start + Period(w) + Turning

\* A timer's spoke is turned by the time of its event: wheel 0 fires the timers
\* of the spoke that begins then, a higher wheel has turned to deal them before.
DealtInTime(turns, t) ==
    place[t][1] \in Wheel =>
        LET w == place[t][1]
        IN turns[w] + Ahead(w, place[t][2]) * Period(w) <= due[t] + (IF w = 0 THEN Granularity ELSE 0)

\* A timer that is ready was not overtaken by more than the lag.
ReadyInTime(t) == place[t] = Ready => start + loops * Granularity <= due[t] + MaxLag

\* The time it takes to turn the wheels up to the clock is bounded by the lag.
Behind ==
    /\ start + loops * Granularity <= now /\ loops * Granularity <= MaxLag
    /\ now <= start + MaxLag
    /\ phase \in {"idle", "fire"} => loops = 0
    /\ phase = "cascade" => loops > 0 /\ level # 0

Spoke == {x \in Wheel \X Nat : x[2] < Size(x[1])}

Placed ==
    /\ place \in [Timer -> {Ready, Off} \cup Spoke]
    /\ phase = "idle" => \A t \in Timer : place[t] # Ready

\* When the timers of a spoke of wheel 0 have been turned, ...
Turned(s) == start + Granularity + Turning + Ahead(0, s) * Granularity

\* ... it is not long before their events, ...
DealtLate(t) ==
    place[t][1] = 0 =>
        \/ due[t] < Turned(place[t][2])
        \/ due[t] < Turned(place[t][2]) + (MaxLag - Granularity)

\* ... and the wheels cover the time to all events.
Covered(t) ==
    /\ place[t] # Off => due[t] < start + Intervals * Granularity
    /\ place[t] = Ready => due[t] <= now \/ due[t] < now + (MaxLag - Granularity)

LateInv == \A t \in Timer : DealtLate(t) /\ Covered(t)

\* The loop is never behind by a whole step.
StepsOutlastLag == \A s \in Steps \ {0} : MaxLag <= s

\* What a timer may have to wait fits in the wheels, and in an NDTime.
WaitsFit ==
    /\ Intervals * Granularity <= TimeMod
    /\ \A d \in Delays : d + MaxLag < Intervals * Granularity
    /\ \A s \in Steps : s + 2 * MaxLag < Intervals * Granularity
=============================================================================
