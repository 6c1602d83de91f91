------------------------- MODULE BundlingModeProofs -------------------------
(* Proofs about BundlingMode, for any number of callers and loops. *)
EXTENDS BundlingMode, TLAPS

\* Start makes one loop and then serves the callers (private.go:179).
LEMMA ModeInit == Init => ModeInv
  <1> SUFFICES ASSUME Init PROVE ModeInv
    OBVIOUS
  <1>1. PICK l \in Loops :
          /\ isRunning = TRUE /\ stop = l
          /\ at      = [d \in Callers |-> "idle"]
          /\ mine    = [d \in Callers |-> l]
          /\ loop    = [k \in Loops |-> IF k = l THEN "select" ELSE "none"]
          /\ ticking = {l} /\ tick = {}
          /\ overlapped = FALSE
    BY DEF Init
  <1>2. TypeOK
    BY <1>1 DEF TypeOK
  <1>3. Live = {stop}
    BY <1>1 DEF Live
  <1> QED
    BY <1>1, <1>2, <1>3 DEF ModeInv, Exact

\* A call that begins while all are idle (bundler.go:211, 240) is the only one.
LEMMA BeginsAlone ==
    ASSUME ModeInv, NEW c \in Callers, RunCheck(c) \/ StopCheck(c) PROVE ModeInv'
  <1>1. TypeOK'
    BY DEF ModeInv, TypeOK, RunCheck, StopCheck, Goto
  <1>2. Live' = Live
    BY DEF RunCheck, StopCheck, Live
  <1>3. ~ overlapped' => ~ overlapped /\ AllIdle
    BY DEF RunCheck, StopCheck, ModeInv, TypeOK
  <1>4. \A d \in Callers : at'[d] = IF d = c THEN (IF RunCheck(c) THEN "spawn" ELSE "clearRunning") ELSE at[d]
    BY DEF ModeInv, TypeOK, RunCheck, StopCheck, Goto
  <1>5. ~ AllIdle'
    BY <1>4 DEF AllIdle
  <1>6. RunCheck(c) => ~ isRunning'
    BY DEF RunCheck
  <1>7. ~ RunCheck(c) => isRunning' /\ stop' = stop /\ ticking' = ticking
    BY DEF StopCheck
  <1> QED
    BY <1>1, <1>2, <1>3, <1>4, <1>5, <1>6, <1>7 DEF ModeInv, Exact, AllIdle, RunCheck, StopCheck

\* The statements of a call under way, alone unless calls have overlapped.
LEMMA GoesOn ==
    ASSUME ModeInv, NEW c \in Callers,
           RunSpawn(c) \/ RunSetRunning(c) \/ RunSetStop(c)
             \/ StopClearRunning(c) \/ StopTicker(c) \/ SendDone(c)
    PROVE  ModeInv'
  <1>1. TypeOK'
    <2>1. CASE RunSpawn(c)
      BY <2>1 DEF ModeInv, TypeOK, RunSpawn, Goto
    <2>2. CASE RunSetRunning(c)
      BY <2>2 DEF ModeInv, TypeOK, RunSetRunning, Goto
    <2>3. CASE RunSetStop(c)
      BY <2>3 DEF ModeInv, TypeOK, RunSetStop, Goto
    <2>4. CASE StopClearRunning(c)
      BY <2>4 DEF ModeInv, TypeOK, StopClearRunning, Goto
    <2>5. CASE StopTicker(c)
      BY <2>5 DEF ModeInv, TypeOK, StopTicker, Goto
    <2>6. CASE SendDone(c)
      BY <2>6 DEF ModeInv, TypeOK, SendDone, Goto
    <2> QED
      BY <2>1, <2>2, <2>3, <2>4, <2>5, <2>6
  <1>2. overlapped' = overlapped
    BY DEF RunSpawn, RunSetRunning, RunSetStop, StopClearRunning, StopTicker, SendDone
  <1>3. CASE overlapped
    BY <1>1, <1>2, <1>3 DEF ModeInv
  <1>4. CASE ~ overlapped
    <2>1. at[c] # "idle" /\ \A d \in Callers : d # c => at[d] = "idle" /\ at'[d] = "idle"
      BY <1>4 DEF ModeInv, TypeOK, Goto, RunSpawn, RunSetRunning, RunSetStop,
                  StopClearRunning, StopTicker, SendDone
    <2>2. SUFFICES /\ at'[c] = "idle" => Exact'
                   /\ at'[c] = "spawn" => ~ isRunning' /\ Live' = {}
                   /\ at'[c] \in {"setRunning", "setStop"} =>
                        /\ Live' = {mine'[c]} /\ mine'[c] \in ticking'
                        /\ isRunning' <=> at'[c] = "setStop"
                   /\ at'[c] = "clearRunning" =>
                        isRunning' /\ Live' = {stop'} /\ stop' \in ticking'
                   /\ at'[c] \in {"stopTicker", "send"} => ~ isRunning' /\ Live' = {stop'}
      BY <1>1, <2>1 DEF ModeInv, AllIdle
    <2>3. CASE RunSpawn(c)
      <3>1. PICK l \in Loops \ Live :
              /\ loop'    = [loop EXCEPT ![l] = "select"]
              /\ ticking' = ticking \union {l}
              /\ mine'    = [mine EXCEPT ![c] = l]
        BY <2>3 DEF RunSpawn
      <3>2. Live = {} /\ ~ isRunning
        BY <1>4, <2>3 DEF RunSpawn, Goto, ModeInv
      <3>3. Live' = {l}
        BY <3>1, <3>2 DEF ModeInv, TypeOK, Live
      <3> QED
        BY <2>3, <3>1, <3>2, <3>3 DEF RunSpawn, Goto, ModeInv, TypeOK
    <2>4. CASE RunSetRunning(c)
      BY <1>4, <2>4 DEF RunSetRunning, Goto, ModeInv, TypeOK, Live
    <2>5. CASE RunSetStop(c)
      BY <1>4, <2>5 DEF RunSetStop, Goto, ModeInv, TypeOK, Live, Exact
    <2>6. CASE StopClearRunning(c)
      BY <1>4, <2>6 DEF StopClearRunning, Goto, ModeInv, TypeOK, Live
    <2>7. CASE StopTicker(c)
      BY <1>4, <2>7 DEF StopTicker, Goto, ModeInv, TypeOK, Live
    <2>8. CASE SendDone(c)
      <3>1. PICK l \in Loops : loop[l] = "select" /\ loop' = [loop EXCEPT ![l] = "none"]
        BY <2>8 DEF SendDone
      <3>2. Live = {stop} /\ ~ isRunning
        BY <1>4, <2>8 DEF SendDone, Goto, ModeInv
      <3>3. Live = {l}
        BY <3>1, <3>2 DEF Live
      <3>4. Live' = {}
        BY <3>1, <3>3 DEF ModeInv, TypeOK, Live
      <3> QED
        BY <2>8, <3>2, <3>4 DEF SendDone, Goto, ModeInv, TypeOK, Exact
    <2> QED
      BY <2>3, <2>4, <2>5, <2>6, <2>7, <2>8
  <1> QED
    BY <1>3, <1>4

\* Ticks and runs (bundler.go:219-229) leave the set of loops as it is.
LEMMA LoopsGoOn ==
    ASSUME ModeInv, (\E l \in Loops : LoopStep(l)) \/ UNCHANGED vars PROVE ModeInv'
  <1>1. TypeOK'
    BY DEF ModeInv, TypeOK, LoopStep, Tick, Process, Processed, vars
  <1>2. Live' = Live
    BY DEF ModeInv, TypeOK, LoopStep, Tick, Process, Processed, vars, Live
  <1>3. UNCHANGED <<isRunning, stop, at, mine, ticking, overlapped>>
    BY DEF LoopStep, Tick, Process, Processed, vars
  <1> QED
    BY <1>1, <1>2, <1>3 DEF ModeInv, Exact, AllIdle

\* For each statement of Run and Stop (bundler.go:210-247): which loops live and
\* whose ticker runs, unless two calls have overlapped.
THEOREM ModeInductive == Spec => []ModeInv
  <1>1. ModeInv /\ [Next]_vars => ModeInv'
    BY BeginsAlone, GoesOn, LoopsGoOn DEF Next, CallerStep
  <1> QED
    BY ModeInit, <1>1, PTL DEF Spec

\* Run and Stop (bundler.go:210, 239), called by any number of goroutines,
\* leave one loop whose ticker Stop would stop, or none at all, as long as no
\* two calls have overlapped.
THEOREM ModeCorrect == Spec => []ModeIsExact
  <1>1. ModeInv => ModeIsExact
    BY DEF ModeInv, ModeIsExact
  <1> QED
    BY ModeInductive, <1>1, PTL
=============================================================================
