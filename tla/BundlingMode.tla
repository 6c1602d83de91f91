---------------------------- MODULE BundlingMode ----------------------------
(***************************************************************************)
(* Bundler.Run and Bundler.Stop, as debug_bundler_setBundlingMode calls    *)
(* them from the goroutines of the RPC server, and the goroutines that Run *)
(* starts.  No lock protects isRunning and stop, so every access to them   *)
(* is a step; done is an unbuffered channel, so sending on it is one step  *)
(* with receiving.  A ticker is named by the loop it was made for.         *)
(***************************************************************************)
EXTENDS Naturals, FiniteSets

CONSTANTS
    Callers,   \* goroutines that may call Run or Stop
    Loops      \* goroutines that Run may start: as many may live at a time

ASSUME BundlingModeAssumption == Loops # {}

VARIABLES
    isRunning,   \* i.isRunning
    stop,        \* the loop whose ticker i.stop stops
    at,          \* the statement each caller is at
    mine,        \* the ticker a caller in Run has made
    loop,        \* what each loop is doing
    ticking,     \* the tickers that have not been stopped
    tick,        \* the tickers whose channel holds a tick
    overlapped   \* history: a call began while another was under way

vars == <<isRunning, stop, at, mine, loop, ticking, tick, overlapped>>

Live == {l \in Loops : loop[l] # "none"}

\* Start calls Run before it serves requests (start/private.go:179).
Init ==
    \E l \in Loops :
        /\ isRunning = TRUE /\ stop = l
        /\ at      = [c \in Callers |-> "idle"]
        /\ mine    = [c \in Callers |-> l]
        /\ loop    = [k \in Loops |-> IF k = l THEN "select" ELSE "none"]
        /\ ticking = {l} /\ tick = {}
        /\ overlapped = FALSE

AllIdle == \A c \in Callers : at[c] = "idle"

Goto(c, from, to) == at[c] = from /\ at' = [at EXCEPT ![c] = to]
-----------------------------------------------------------------------------
(* Run: returns at once when isRunning is set.                             *)

RunCheck(c) ==
    /\ ~ isRunning
    /\ Goto(c, "idle", "spawn")
    /\ overlapped' = (overlapped \/ ~ AllIdle)
    /\ UNCHANGED <<isRunning, stop, mine, loop, ticking, tick>>

\* NewTicker, and the goroutine.
RunSpawn(c) ==
    /\ Goto(c, "spawn", "setRunning")
    /\ \E l \in Loops \ Live :
        /\ loop'    = [loop EXCEPT ![l] = "select"]
        /\ ticking' = ticking \union {l}
        /\ tick'    = tick \ {l}
        /\ mine'    = [mine EXCEPT ![c] = l]
    /\ UNCHANGED <<isRunning, stop, overlapped>>

RunSetRunning(c) ==
    /\ Goto(c, "setRunning", "setStop")
    /\ isRunning' = TRUE
    /\ UNCHANGED <<stop, mine, loop, ticking, tick, overlapped>>

\* Mistake: i.stop is left as it was.
RunSetStop_Skips(c) ==
    /\ Goto(c, "setStop", "idle")
    /\ UNCHANGED <<isRunning, stop, mine, loop, ticking, tick, overlapped>>

RunSetStop(c) ==
    /\ Goto(c, "setStop", "idle")
    /\ stop' = mine[c]
    /\ UNCHANGED <<isRunning, mine, loop, ticking, tick, overlapped>>
-----------------------------------------------------------------------------
(* Stop: returns at once unless isRunning is set.                          *)

StopCheck(c) ==
    /\ isRunning
    /\ Goto(c, "idle", "clearRunning")
    /\ overlapped' = (overlapped \/ ~ AllIdle)
    /\ UNCHANGED <<isRunning, stop, mine, loop, ticking, tick>>

StopClearRunning(c) ==
    /\ Goto(c, "clearRunning", "stopTicker")
    /\ isRunning' = FALSE
    /\ UNCHANGED <<stop, mine, loop, ticking, tick, overlapped>>

\* Mistake: Stop stops the ticker and leaves the loop waiting for it.
StopTicker_Only(c) ==
    /\ Goto(c, "stopTicker", "idle")
    /\ ticking' = ticking \ {stop}
    /\ UNCHANGED <<isRunning, stop, mine, loop, tick, overlapped>>

\* A tick that is in the channel stays there.
StopTicker(c) ==
    /\ Goto(c, "stopTicker", "send")
    /\ ticking' = ticking \ {stop}
    /\ UNCHANGED <<isRunning, stop, mine, loop, tick, overlapped>>

\* i.done <- true: any loop that waits in its select may receive it.
SendDone(c) ==
    /\ Goto(c, "send", "idle")
    /\ \E l \in Loops :
        /\ loop[l] = "select"
        /\ loop' = [loop EXCEPT ![l] = "none"]
    /\ UNCHANGED <<isRunning, stop, mine, ticking, tick, overlapped>>
-----------------------------------------------------------------------------
(* The loops.                                                              *)

Tick(l) ==
    /\ l \in ticking \ tick
    /\ tick' = tick \union {l}
    /\ UNCHANGED <<isRunning, stop, at, mine, loop, ticking, overlapped>>

\* The loop takes the tick and calls Process for each EntryPoint.
Process(l) ==
    /\ loop[l] = "select" /\ l \in tick
    /\ tick' = tick \ {l}
    /\ loop' = [loop EXCEPT ![l] = "process"]
    /\ UNCHANGED <<isRunning, stop, at, mine, ticking, overlapped>>

\* Mistake: the loop does not come back to its select.
Processed_Stuck(l) ==
    /\ loop[l] = "process"
    /\ loop' = [loop EXCEPT ![l] = "process"]
    /\ UNCHANGED <<isRunning, stop, at, mine, ticking, tick, overlapped>>

Processed(l) ==
    /\ loop[l] = "process"
    /\ loop' = [loop EXCEPT ![l] = "select"]
    /\ UNCHANGED <<isRunning, stop, at, mine, ticking, tick, overlapped>>

CallerStep(c) ==
    \/ RunCheck(c) \/ RunSpawn(c) \/ RunSetRunning(c) \/ RunSetStop(c)
    \/ StopCheck(c) \/ StopClearRunning(c) \/ StopTicker(c) \/ SendDone(c)

LoopStep(l) == Tick(l) \/ Process(l) \/ Processed(l)

Next == (\E c \in Callers : CallerStep(c)) \/ (\E l \in Loops : LoopStep(l))

Spec == Init /\ [][Next]_vars

\* A call goes on, a run ends, and a select in which both channels are ready
\* takes either of them at random: the sender is not passed over for ever.
FairSpec ==
    /\ Spec
    /\ \A c \in Callers : SF_vars(SendDone(c)) /\ WF_vars(at[c] # "idle" /\ CallerStep(c))
    /\ \A l \in Loops : WF_vars(Process(l)) /\ WF_vars(Processed(l))
-----------------------------------------------------------------------------
(* Properties *)

\* The types of the variables.
TypeOK ==
    /\ isRunning \in BOOLEAN /\ stop \in Loops
    /\ at   \in [Callers -> {"idle", "spawn", "setRunning", "setStop",
                             "clearRunning", "stopTicker", "send"}]
    /\ mine \in [Callers -> Loops]
    /\ loop \in [Loops -> {"none", "select", "process"}]
    /\ ticking \subseteq Loops /\ tick \subseteq Loops
    /\ overlapped \in BOOLEAN

\* One loop, whose ticker runs and is the one Stop would stop; or none.
Exact == IF isRunning THEN Live = {stop} /\ stop \in ticking ELSE Live = {}

\* Whoever calls Run and Stop, and whatever ticks and runs come between their
\* statements: unless two calls overlapped, between calls the mode is what was
\* asked for.  In auto mode (Run, bundler.go:210) there is one loop, in manual
\* mode (Stop, bundler.go:239) there is none and no Process is under way, not
\* even one begun by a tick that was in the channel when its ticker stopped.
ModeIsExact == AllIdle /\ ~ overlapped => Exact

\* How the statements of Run and Stop take the bundler from one mode to the
\* other when no other call is under way: what ModeIsExact rests on.
ModeInv ==
    /\ TypeOK
    /\ ~ overlapped =>
        /\ AllIdle => Exact
        /\ \A c \in Callers :
            /\ at[c] # "idle" => \A d \in Callers : at[d] # "idle" => d = c
            /\ at[c] = "spawn" => ~ isRunning /\ Live = {}
            /\ at[c] \in {"setRunning", "setStop"} =>
                Live = {mine[c]} /\ mine[c] \in ticking /\ (isRunning <=> at[c] = "setStop")
            /\ at[c] = "clearRunning" => isRunning /\ Live = {stop} /\ stop \in ticking
            /\ at[c] \in {"stopTicker", "send"} => ~ isRunning /\ Live = {stop}

\* A caller of Stop waits for the end of the Process that is under way
\* (bundler.go:246) and no longer, as long as there is a loop to receive.
StopGetsThrough ==
    \A c \in Callers : at[c] = "send" ~> at[c] # "send" \/ Live = {}
=============================================================================
