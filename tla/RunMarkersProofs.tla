--------------------------- MODULE RunMarkersProofs ---------------------------
(***************************************************************************)
(* Proofs about RunMarkers for every number of windows, process ids, runs   *)
(* and instants.                                                            *)
(***************************************************************************)
EXTENDS RunMarkers, TLAPS

Undisturbed == ~ raced /\ ~ outlived /\ ~ misread

(* Windows at work are open, on ids of their own, and one at most is in a   *)
(* hold, for a run dated now.                                               *)
OneHold ==
    /\ \A w \in Window : pc[w] # "idle" \/ Going(w) => IsOpen(w)
    /\ \A v, w \in Window : IsOpen(v) /\ IsOpen(w) /\ v # w => pid[v] # pid[w]
    /\ \A v, w \in Window : pc[v] # "idle" /\ pc[w] # "idle" => v = w
    /\ \A w \in Window : pc[w] # "idle" =>
          ~ Going(w) /\ mine[w] \in Run /\ mine[w].owner = w /\ mine[w].at = now
    /\ \A w \in Window : pc[w] = "idle" => attempt[w] = 0

(* A run going that is not kept in memory is the one the marker names,      *)
(* whole and believed.                                                      *)
MarkerOfRun ==
    \A w \in Window : Marked(w) =>
        /\ marker = held[w] /\ whole
        /\ held[w].owner = w
        /\ now < held[w].at + Lifetime

(* What a hold knows of the marked runs going, at each of its steps.        *)
HoldKnows ==
    \A w \in Window :
        /\ pc[w] = "write" =>
              marker = mine[w] /\ ~ whole /\ \A v \in Window : ~ Marked(v)
        /\ pc[w] = "judge" => \A v \in Window : Marked(v) => seen[w] = held[v]
        /\ pc[w] = "remove" => \A v \in Window : ~ Marked(v)

(* A marker written names a run that is going, or one whose release failed  *)
(* to remove it, or a window that ended.                                    *)
MarkerAccounted ==
    marker # NoRun /\ whole =>
        \/ Marked(marker.owner) /\ held[marker.owner] = marker
        \/ stuck # {}
        \/ status[marker.owner] = "gone"

(* What a hold that read a marker, or is at its last try, may conclude.     *)
Reasons ==
    \A w \in Window :
        /\ pc[w] = "judge" /\ seen[w] # NoRun =>
              \/ Marked(seen[w].owner) /\ held[seen[w].owner] = seen[w]
              \/ marker # seen[w]
              \/ stuck # {}
              \/ status[seen[w].owner] = "gone"
        /\ pc[w] \in {"create", "read", "judge", "remove"} /\ attempt[w] # 0 =>
              w \in stuck \/ marker = NoRun

(* A failure to remove concerns the marker there is. *)
StuckIsThere == stuck # {} => marker # NoRun

Told == OneHold /\ MarkerAccounted /\ Reasons

Apart == OneHold /\ MarkerOfRun /\ HoldKnows

IInv ==
    /\ TypeOK /\ StuckIsThere
    /\ ~ raced => Told
    /\ Undisturbed => Apart

-----------------------------------------------------------------------------
(* The state keeps its types through every step of every window and of the  *)
(* clock.                                                                   *)
LEMMA TypeStep == ASSUME TypeOK, [Next]_vars PROVE TypeOK'
<1> USE RunAssumption, NoRunAssumption DEF TypeOK
<1>1. ASSUME NEW w \in Window, Open(w) PROVE TypeOK'
  BY <1>1 DEF Open, budget, history
<1>2. ASSUME NEW w \in Window, Crash(w) PROVE TypeOK'
  BY <1>2 DEF Crash, history
<1>3. CASE Tick
  BY <1>3 DEF Tick
<1>4. ASSUME NEW w \in Window, Begin(w) PROVE TypeOK'
  <2>1. [owner |-> w, n |-> runs[w], at |-> now] \in Run
    BY DEF Run
  <2> QED BY <1>4, <2>1 DEF Begin, machine, budget
<1>5. ASSUME NEW w \in Window, Create(w) PROVE TypeOK'
  BY <1>5 DEF Create, machine, budget, history
<1>6. ASSUME NEW w \in Window, Write(w) PROVE TypeOK'
  BY <1>6 DEF Write, StartRun, Return, machine, history
<1>7. ASSUME NEW w \in Window, Read(w) PROVE TypeOK'
  BY <1>7 DEF Read, machine, budget
<1>8. ASSUME NEW w \in Window, Judge(w) PROVE TypeOK'
  BY <1>8 DEF Judge, Return, machine, budget, history
<1>9. ASSUME NEW w \in Window, Remove(w) PROVE TypeOK'
  <2>1. /\ marker' \in Run \cup {NoRun} /\ whole' \in BOOLEAN /\ stuck' \in SUBSET Window
        /\ UNCHANGED <<status, pid, now, held, inMemory, runs, used, waiting, raced,
                       outlived, misread>>
    BY <1>9 DEF Remove, removeQuietly, machine, budget
  <2>2. /\ pc' \in [Window -> {"idle", "create", "write", "read", "judge", "remove"}]
        /\ attempt' \in [Window -> Nat]
        /\ mine' \in [Window -> Run \cup {NoRun}]
        /\ seen' \in [Window -> Run \cup {NoRun}]
    BY <1>9 DEF Remove, Return
  <2> QED BY <2>1, <2>2
<1>10. ASSUME NEW w \in Window, KeepInMemory(w) PROVE TypeOK'
  BY <1>10 DEF KeepInMemory, StartRun, Return, machine, history
<1>11. ASSUME NEW w \in Window, End(w) PROVE TypeOK'
  BY <1>11 DEF End, removeQuietly, machine
<1>12. ASSUME NEW w \in Window, HoldBudget(w) \/ ResumeBudget(w) PROVE TypeOK'
  BY <1>12 DEF HoldBudget, ResumeBudget, machine, history
<1>13. CASE UNCHANGED vars
  BY <1>13 DEF vars
<1> QED
  BY <1>1, <1>2, <1>3, <1>4, <1>5, <1>6, <1>7, <1>8, <1>9, <1>10, <1>11, <1>12,
     <1>13 DEF Next, InHold

(* A race, a marker misread or a run that outlived its marker is not        *)
(* forgotten.                                                               *)
LEMMA DisturbedStays ==
    ASSUME TypeOK, [Next]_vars
    PROVE  (Undisturbed' => Undisturbed) /\ (~ raced' => ~ raced)
  BY DEF Next, InHold, Open, Crash, Tick, Begin, Create, Write, Read, Judge, Remove,
         KeepInMemory, End, HoldBudget, ResumeBudget, vars, history, Undisturbed, TypeOK

(* A failure to remove the marker is forgotten with the marker.             *)
LEMMA StuckStep ==
    ASSUME TypeOK, StuckIsThere, [Next]_vars PROVE StuckIsThere'
  BY NoRunAssumption
  DEF Next, InHold, Open, Crash, Tick, Begin, Create, Write, Read, Judge, Remove,
      removeQuietly, KeepInMemory, End, HoldBudget, ResumeBudget, vars, history,
      StuckIsThere, TypeOK, Run

(* The marker of a run that is going is believed by every other window.     *)
LEMMA RunIsLive ==
    ASSUME TypeOK, OneHold, MarkerOfRun, NEW v \in Window, NEW w \in Window,
           v # w, Marked(v), IsOpen(w)
    PROVE  isLive(w, held[v])
  BY DEF OneHold, MarkerOfRun, Marked, isLive, processIsAlive

(* A step without a race keeps one window in a hold, and what it may        *)
(* conclude.                                                                *)
LEMMA ToldStep ==
    ASSUME TypeOK, StuckIsThere, Told, ~ raced', [Next]_vars PROVE Told'
<1> USE RunAssumption, NoRunAssumption
    DEF TypeOK, StuckIsThere, Told, OneHold, MarkerAccounted, Reasons, Going, Marked, IsOpen
<1>0. \A r \in Run : r # NoRun /\ r.owner \in Window /\ r.at \in Nat
  BY DEF Run
<1>1. ASSUME NEW w \in Window, Open(w) PROVE Told'
  BY <1>0, <1>1 DEF Open, processIsAlive, budget, history
<1>2. ASSUME NEW w \in Window, Crash(w) PROVE Told'
  BY <1>0, <1>2 DEF Crash, history
<1>3. CASE Tick
  BY <1>0, <1>3 DEF Tick
<1>4. ASSUME NEW w \in Window, Begin(w) PROVE Told'
  <2>1. \A v \in Window : pc[v] = "idle"
    BY <1>4 DEF Begin
  <2>2. [owner |-> w, n |-> runs[w], at |-> now] \in Run
    BY DEF Run
  <2>3. attempt[w] = 0
    BY <1>4, <2>1
  <2> QED BY <1>0, <1>4, <2>1, <2>2, <2>3 DEF Begin, machine, budget
<1>5. ASSUME NEW w \in Window, Create(w) PROVE Told'
  BY <1>0, <1>5 DEF Create, machine, budget, history
<1>6. ASSUME NEW w \in Window, Write(w) PROVE Told'
  BY <1>0, <1>6 DEF Write, StartRun, Return, machine, history
<1>7. ASSUME NEW w \in Window, Read(w) PROVE Told'
  BY <1>0, <1>7 DEF Read, machine, budget
<1>8. ASSUME NEW w \in Window, Judge(w) PROVE Told'
  BY <1>0, <1>8 DEF Judge, Return, machine, budget, history
<1>9. ASSUME NEW w \in Window, Remove(w) PROVE Told'
  BY <1>0, <1>9 DEF Remove, removeQuietly, Return, machine, budget
<1>10. ASSUME NEW w \in Window, KeepInMemory(w) PROVE Told'
  BY <1>0, <1>10 DEF KeepInMemory, StartRun, Return, machine, history
<1>11. ASSUME NEW w \in Window, End(w) PROVE Told'
  <2>1. /\ held' = [held EXCEPT ![w] = NoRun]
        /\ inMemory' = [inMemory EXCEPT ![w] = FALSE]
        /\ IsOpen(w) /\ Going(w)
        /\ UNCHANGED <<machine, pc, attempt, mine, seen, runs, raced>>
    BY <1>11 DEF End
  <2>2. OneHold'
    BY <2>1 DEF machine
  <2>3. CASE inMemory[w]
    <3>1. UNCHANGED <<marker, whole, stuck>>
      BY <1>11, <2>3 DEF End
    <3> QED BY <1>0, <2>1, <2>2, <2>3, <3>1 DEF machine
  <2>4. CASE ~ inMemory[w] /\ marker' = NoRun /\ whole' = FALSE /\ stuck' = {}
    <3>1. \A v \in Window : seen[v] # NoRun => marker' # seen[v]
      BY <2>4
    <3> QED BY <1>0, <2>1, <2>2, <2>4, <3>1
  <2>5. CASE /\ ~ inMemory[w]
             /\ UNCHANGED <<marker, whole>> /\ stuck' = stuck \cup {w}
    BY <1>0, <2>1, <2>2, <2>5
  <2> QED BY <1>11, <2>3, <2>4, <2>5 DEF End, removeQuietly
<1>12. ASSUME NEW w \in Window, HoldBudget(w) \/ ResumeBudget(w) PROVE Told'
  BY <1>12 DEF HoldBudget, ResumeBudget, machine, history
<1>13. CASE UNCHANGED vars
  BY <1>13 DEF vars
<1> QED
  BY <1>1, <1>2, <1>3, <1>4, <1>5, <1>6, <1>7, <1>8, <1>9, <1>10, <1>11, <1>12,
     <1>13 DEF Next, InHold

(* One undisturbed step keeps the runs apart. *)
LEMMA ApartStep ==
    ASSUME TypeOK, Apart, OneHold', Undisturbed, Undisturbed',
           [Next]_vars
    PROVE  Apart'
<1> USE RunAssumption, NoRunAssumption
    DEF TypeOK, Apart, OneHold, MarkerOfRun, HoldKnows, Undisturbed,
        Going, Marked, IsOpen
<1>0. \A r \in Run : r # NoRun /\ r.owner \in Window /\ r.at \in Nat
  BY DEF Run
<1>1. ASSUME NEW w \in Window, Open(w) PROVE Apart'
  BY <1>0, <1>1 DEF Open, processIsAlive, budget
<1>2. ASSUME NEW w \in Window, Crash(w) PROVE Apart'
  BY <1>0, <1>2 DEF Crash
<1>3. CASE Tick
  <2>1. \A w \in Window : Marked(w) => now' < held[w].at + Lifetime
    BY <1>0, <1>3 DEF Tick
  <2> QED BY <1>3, <2>1 DEF Tick
<1>4. ASSUME NEW w \in Window, Begin(w) PROVE Apart'
  <2>1. \A v \in Window : pc[v] = "idle"
    BY <1>4 DEF Begin
  <2>2. [owner |-> w, n |-> runs[w], at |-> now] \in Run
    BY DEF Run
  <2> QED BY <1>0, <1>4, <2>1, <2>2 DEF Begin, machine, budget
<1>5. ASSUME NEW w \in Window, Create(w) PROVE Apart'
  BY <1>0, <1>5 DEF Create, machine, budget, history
<1>6. ASSUME NEW w \in Window, Write(w) PROVE Apart'
  <2>1. /\ pc[w] = "write" /\ marker = mine[w] /\ \A v \in Window : ~ Marked(v)
        /\ \A v \in Window : v # w => pc[v] = "idle"
    BY <1>6 DEF Write
  <2>2. /\ held' = [held EXCEPT ![w] = mine[w]]
        /\ inMemory' = [inMemory EXCEPT ![w] = FALSE]
        /\ pc' = [pc EXCEPT ![w] = "idle"]
        /\ UNCHANGED <<marker, status, pid, now>>
    BY <1>6 DEF Write, StartRun, Return, machine
  <2>3. whole'
    BY <1>6, <2>1 DEF Write
  <2>4. \A v \in Window : pc'[v] = "idle"
    BY <2>1, <2>2
  <2>5. OneHold'
    BY <1>6, <2>2, <2>4 DEF Write
  <2>6. MarkerOfRun'
    BY <1>0, <2>1, <2>2, <2>3
  <2>7. HoldKnows'
    BY <1>0, <2>1, <2>2, <2>4
  <2> QED BY <2>5, <2>6, <2>7
<1>7. ASSUME NEW w \in Window, Read(w) PROVE Apart'
  BY <1>0, <1>7 DEF Read, machine, budget
<1>8. ASSUME NEW w \in Window, Judge(w) PROVE Apart'
  <2>1. CASE seen[w] # NoRun /\ isLive(w, seen[w])
    <3>1. /\ pc' = [pc EXCEPT ![w] = "idle"]
          /\ \A v \in Window : v # w => pc[v] = "idle"
          /\ pc[w] = "judge"
          /\ UNCHANGED <<marker, whole, held, inMemory, status, pid, now>>
      BY <1>8, <2>1 DEF Judge, Return, machine
    <3>2. \A v \in Window : pc'[v] = "idle"
      BY <3>1
    <3>3. OneHold' /\ MarkerOfRun' /\ HoldKnows'
      BY <3>1, <3>2
    <3> QED BY <3>3
  <2>2. CASE ~ (seen[w] # NoRun /\ isLive(w, seen[w]))
    <3>1. \A v \in Window : ~ Marked(v)
      BY <1>8, <2>2, RunIsLive DEF Judge
    <3>2. /\ pc' = [pc EXCEPT ![w] = "remove"] /\ pc[w] = "judge"
          /\ UNCHANGED <<marker, whole, held, inMemory, status, pid, now, mine>>
      BY <1>8, <2>2 DEF Judge, machine
    <3>3. OneHold' /\ MarkerOfRun'
      BY <3>2
    <3>4. HoldKnows'
      BY <3>1, <3>2
    <3> QED BY <3>3, <3>4
  <2> QED BY <2>1, <2>2
<1>9. ASSUME NEW w \in Window, Remove(w) PROVE Apart'
  BY <1>0, <1>9 DEF Remove, removeQuietly, Return, machine, budget
<1>10. ASSUME NEW w \in Window, KeepInMemory(w) PROVE Apart'
  <2>1. /\ held' = [held EXCEPT ![w] = mine[w]]
        /\ inMemory' = [inMemory EXCEPT ![w] = TRUE]
        /\ pc' = [pc EXCEPT ![w] = "idle"]
        /\ pc[w] \in {"create", "write"}
        /\ UNCHANGED <<marker, whole, status, pid, now>>
    BY <1>10 DEF KeepInMemory, StartRun, Return, machine
  <2>2. \A v \in Window : pc'[v] = "idle"
    BY <2>1
  <2>3. \A v \in Window : Marked(v)' <=> Marked(v)
    BY <2>1
  <2>4. \A v \in Window : Marked(v) => held'[v] = held[v]
    BY <2>1
  <2>5. OneHold'
    BY <2>1, <2>2
  <2>6. MarkerOfRun'
    BY <2>1, <2>3, <2>4
  <2>7. HoldKnows'
    BY <1>0, <2>1, <2>2, <2>3
  <2> QED BY <2>5, <2>6, <2>7
<1>11. ASSUME NEW w \in Window, End(w) PROVE Apart'
  BY <1>0, <1>11 DEF End, removeQuietly, machine
<1>12. ASSUME NEW w \in Window, HoldBudget(w) \/ ResumeBudget(w) PROVE Apart'
  BY <1>12 DEF HoldBudget, ResumeBudget, machine
<1>13. CASE UNCHANGED vars
  BY <1>13 DEF vars
<1> QED
  BY <1>1, <1>2, <1>3, <1>4, <1>5, <1>6, <1>7, <1>8, <1>9, <1>10, <1>11, <1>12,
     <1>13 DEF Next, InHold

LEMMA ApartAlways == Spec => []IInv
<1>1. Init => IInv
  <2> SUFFICES ASSUME Init PROVE IInv
    OBVIOUS
  <2>1. TypeOK
    BY DEF Init, TypeOK
  <2>2. OneHold /\ MarkerOfRun
    BY DEF Init, OneHold, MarkerOfRun, Going, Marked, IsOpen
  <2>3. HoldKnows /\ MarkerAccounted /\ Reasons /\ StuckIsThere
    BY DEF Init, HoldKnows, MarkerAccounted, Reasons, StuckIsThere
  <2> QED BY <2>1, <2>2, <2>3 DEF IInv, Apart, Told
<1>2. IInv /\ [Next]_vars => IInv'
  <2> SUFFICES ASSUME IInv, [Next]_vars PROVE IInv'
    OBVIOUS
  <2>1. TypeOK' /\ StuckIsThere'
    BY TypeStep, StuckStep DEF IInv
  <2>2. ~ raced' => Told'
    BY DisturbedStays, ToldStep DEF IInv
  <2>3. Undisturbed' => Apart'
    BY <2>2, DisturbedStays, ApartStep DEF IInv, Undisturbed, Told
  <2> QED BY <2>1, <2>2, <2>3 DEF IInv
<1> QED BY <1>1, <1>2, PTL DEF Spec

(* Holds of any number of windows that do not overlap start one run at a    *)
(* time, through windows that end at any step, process ids reused and       *)
(* markers that could not be written or removed, as long as no run outlives *)
(* its marker, none is kept in memory and no marker of one is misread.      *)
THEOREM MarkersKeepRunsApart == Spec => []OneRunUnlessRaced
<1>1. IInv => OneRunUnlessRaced
  BY DEF IInv, OneRunUnlessRaced, OneRunAtATime, Undisturbed, Apart, MarkerOfRun, Marked
<1> QED BY <1>1, ApartAlways, PTL

(* Holds of any number of windows that do not overlap are refused for a run *)
(* that is going, that ended since its marker was read, whose marker could  *)
(* not be removed or whose window ended, and for nothing else; a hold is at *)
(* the end of its tries only when it failed to remove the marker.           *)
THEOREM HoldsRefusedForAReason == Spec => []RefusedForAReason
<1>1. IInv => RefusedForAReason
  <2> SUFFICES ASSUME IInv, ~ raced PROVE RefusedForAReason
    BY DEF RefusedForAReason
  <2>1. Reasons /\ TypeOK
    BY DEF IInv, Told
  <2>2. \A w \in Window : attempt[w] + 1 = Tries => attempt[w] # 0
    BY <2>1 DEF Tries, TypeOK
  <2> QED BY <2>1, <2>2 DEF RefusedForAReason, Reasons
<1> QED BY <1>1, ApartAlways, PTL
=============================================================================
