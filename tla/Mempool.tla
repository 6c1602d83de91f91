------------------------------- MODULE Mempool -------------------------------
(***************************************************************************)
(* pkg/mempool: the pool of pending UserOperations, held twice.  The       *)
(* embedded DB (badger) is one transactional map; the in-memory queue has, *)
(* per EntryPoint, a `set' object: the sorted set `all' (what Dump reads)  *)
(* and the map `senders' of a sorted set per sender (what GetOps reads).   *)
(* Sets and senders' sets are created by the first goroutine that misses   *)
(* them.  Nothing locks the queue: the RPC handlers (Clients) and the      *)
(* bundler runs (Bundlers) call the mempool from goroutines of their own,  *)
(* so every statement that touches shared state is a step here.            *)
(*                                                                         *)
(* An operation is its sender, nonce and fee: two ops of one key differ in *)
(* the fee, which stands for MaxFeePerGas and MaxPriorityFeePerGas alike.  *)
(***************************************************************************)
EXTENDS Naturals, FiniteSets

CONSTANTS
    EntryPoints,     \* the supported EntryPoint contracts
    Senders, Nonces, \* what a UserOperation is keyed by
    Fees,            \* the fees a UserOperation may offer
    Staked,          \* the senders with a stake
    MaxOpsUnstaked,  \* maxOpsForUnstakedSender
    Clients,         \* goroutines serving RPC calls
    Bundlers,        \* goroutines that run Bundler.Process
    Debug,           \* whether the debug RPC methods are served
    SetIds,          \* identities of the heap's `set' objects
    SortedIds,       \* identities of the sorted sets of senders
    KeyRank,         \* the byte order of the DB keys
    None

Keys    == EntryPoints \X Senders \X Nonces
Ops     == [sender : Senders, nonce : Nonces, fee : Fees]
Threads == Clients \union Bundlers

\* Objects for the elements of S, each its own.
Objects(S, Ids) == {f \in [S -> Ids] : \A a, b \in S : f[a] = f[b] => a = b}

ASSUME MempoolAssumption ==
    /\ Fees \subseteq Nat /\ MaxOpsUnstaked \in Nat
    /\ None \notin Ops \union SetIds \union SortedIds \union Keys \union EntryPoints
    /\ KeyRank \in [Keys -> Nat]
    /\ IsFiniteSet(Keys)
    /\ Objects(EntryPoints, SetIds) # {}
    /\ Objects(EntryPoints \X Senders, SortedIds) # {}
    /\ Clients \intersect Bundlers = {}
    /\ Debug \in BOOLEAN

VARIABLES
    db,      \* the badger DB: key -> UserOperation
    queue,   \* m.queue.setsByEntryPoint: EntryPoint -> `set' object
    all,     \* set.all of each object: key -> UserOperation
    score,   \* the sorted set's score of each key in `all'
    senders, \* set.senders of each object: sender -> sorted set
    sorted,  \* what each of these sorted sets holds: key -> UserOperation
    call,    \* the mempool call each thread is in
    step,    \* the statement of that call it executes next
    ep, op,  \* its arguments
    todo,    \* the keys the call still has to put or remove
    key,     \* the key of the op it is about
    ref,     \* eps: the object getEntryPointSet returned
    sss,     \* the sorted set getSenderSortedSet returned
    live,    \* whether m.queue is still the one the thread works on
    raced    \* history: the keys two calls changed at the same time, or whose
             \* set two calls created

store  == <<db, queue, all, score, senders, sorted>>
thread == <<call, step, ep, op, todo, key, ref, sss, live>>
vars   == <<store, thread, raced>>

Empty == [k \in Keys |-> None]
KeysOf(e) == {k \in Keys : k[1] = e}
NoSenders == [x \in Senders |-> None]
\* Mistake: the parts of the key in another order.
KeyOf_Swapped(e, o) == <<o.sender, e, o.nonce>>
KeyOf(e, o) == <<e, o.sender, o.nonce>>

\* Where All() lists k and k2 of one set: by score, then by key.
Before(s, k, k2) ==
    \/ score[s][k] < score[s][k2]
    \/ score[s][k] = score[s][k2] /\ KeyRank[k] < KeyRank[k2]

\* t is between the DB write of a call that changes k and its last queue write.
Mutating(t, k) ==
    \/ call[t] \in {"add", "rm"} /\ step[t] # "db" /\ k \in todo[t]
    \/ call[t] = "clear" /\ step[t] = "queue"
-----------------------------------------------------------------------------
Init ==
    /\ db    = Empty
    /\ queue = [e \in EntryPoints |-> None]
    /\ all   = [s \in SetIds |-> Empty]
    /\ score = [s \in SetIds |-> [k \in Keys |-> 0]]
    /\ senders = [s \in SetIds |-> NoSenders]
    /\ sorted  = [d \in SortedIds |-> Empty]
    /\ call  = [t \in Threads |-> "none"]
    /\ step  = [t \in Threads |-> "none"]
    /\ ep    = [t \in Threads |-> None]
    /\ op    = [t \in Threads |-> None]
    /\ todo  = [t \in Threads |-> {}]
    /\ key   = [t \in Threads |-> None]
    /\ ref   = [t \in Threads |-> None]
    /\ sss   = [t \in Threads |-> None]
    /\ live  = [t \in Threads |-> FALSE]
    /\ raced = {}

Goto(t, c, s) == call' = [call EXCEPT ![t] = c] /\ step' = [step EXCEPT ![t] = s]

\* The call returns: what it held in local variables is gone.
Return(t) ==
    /\ Goto(t, "none", "none")
    /\ ep'   = [ep EXCEPT ![t] = None]
    /\ op'   = [op EXCEPT ![t] = None]
    /\ todo' = [todo EXCEPT ![t] = {}]
    /\ key'  = [key EXCEPT ![t] = None]
    /\ ref'  = [ref EXCEPT ![t] = None]
    /\ sss'  = [sss EXCEPT ![t] = None]
    /\ live' = [live EXCEPT ![t] = FALSE]
-----------------------------------------------------------------------------
(* getEntryPointSet: a Load and, when it misses, a Store of a new set.     *)

\* What follows: All reads the set, the other calls ask it for a sender's set.
UseSet(c) == IF c = "dump" THEN "use" ELSE "sender"

LoadSet(t) ==
    /\ step[t] = "load"
    /\ live' = [live EXCEPT ![t] = TRUE]
    /\ ref'  = [ref EXCEPT ![t] = queue[ep[t]]]
    /\ Goto(t, call[t], IF queue[ep[t]] = None THEN "store" ELSE UseSet(call[t]))
    /\ UNCHANGED <<store, ep, op, todo, key, sss, raced>>

Referenced(s) == \/ \E e \in EntryPoints : queue[e] = s
                 \/ \E t \in Threads : ref[t] = s

StoreSet(t) ==
    /\ step[t] = "store"
    /\ \E s \in SetIds :
        /\ ~ Referenced(s)
        /\ all'     = [all EXCEPT ![s] = Empty]
        /\ score'   = [score EXCEPT ![s] = [k \in Keys |-> 0]]
        /\ senders' = [senders EXCEPT ![s] = NoSenders]
        /\ ref'     = [ref EXCEPT ![t] = s]
        /\ queue'   = IF live[t] THEN [queue EXCEPT ![ep[t]] = s] ELSE queue
    /\ raced' = IF live[t] /\ queue[ep[t]] # None THEN raced \union KeysOf(ep[t]) ELSE raced
    /\ Goto(t, call[t], UseSet(call[t]))
    /\ UNCHANGED <<db, sorted, ep, op, todo, key, sss, live>>
-----------------------------------------------------------------------------
(* getSenderSortedSet: a lookup in a plain map and, when it misses, a store *)
(* of a new sorted set; what it returns is looked up once more.             *)

\* The ops that the statement may be about: RemoveOps takes one after the other.
Current(t) == IF call[t] = "rm" /\ key[t] = None THEN todo[t] ELSE {key[t]}

FetchSender(t) ==
    /\ step[t] = "sender"
    /\ \E k \in Current(t) :
        LET found == senders[ref[t]][k[2]]
        IN  /\ key' = [key EXCEPT ![t] = k]
            /\ sss' = [sss EXCEPT ![t] = found]
            /\ Goto(t, call[t], IF found = None THEN "make" ELSE "use")
    /\ UNCHANGED <<store, ep, op, todo, ref, live, raced>>

InUse(d) == \/ \E s \in SetIds, x \in Senders : Referenced(s) /\ senders[s][x] = d
            \/ \E t \in Threads : sss[t] = d

\* Who stores over the sorted set of another takes its ops out of the queue.
MakeSender(t) ==
    /\ step[t] = "make"
    /\ LET x == key[t][2]
       IN  /\ \E d \in SortedIds :
                /\ ~ InUse(d)
                /\ senders' = [senders EXCEPT ![ref[t]][x] = d]
                /\ sorted'  = [sorted EXCEPT ![d] = Empty]
           /\ raced' = IF senders[ref[t]][x] = None THEN raced
                       ELSE raced \union {k \in Keys : queue[k[1]] = ref[t] /\ k[2] = x}
    /\ Goto(t, call[t], "sender")
    /\ UNCHANGED <<db, queue, all, score, ep, op, todo, key, ref, sss, live>>
-----------------------------------------------------------------------------
(* Client.SendUserOperation: GetOps, the checks on what it returned, AddOp. *)

SendUserOperation(t, e, o) ==
    /\ call[t] = "none"
    /\ ep' = [ep EXCEPT ![t] = e]
    /\ op' = [op EXCEPT ![t] = o]
    /\ key' = [key EXCEPT ![t] = KeyOf(e, o)]
    /\ Goto(t, "get", "load")
    /\ UNCHANGED <<store, todo, ref, sss, live, raced>>

NewThreshold(fee) == (110 * fee) \div 100

\* Mistake: a replacement need not pay more.
ValidatePendingOps_AnyFee(o, k, pen) ==
    \/ pen[k] # None
    \/ Cardinality({k2 \in Keys : pen[k2] # None}) < MaxOpsUnstaked

\* ValidatePendingOps, on the pending ops `pen' of the sender and the key k of o.
ValidatePendingOps(o, k, pen) ==
    LET n == Cardinality({k2 \in Keys : pen[k2] # None})
    IN  IF pen[k] # None THEN o.fee >= NewThreshold(pen[k].fee)
        ELSE n = 0 \/ o.sender \in Staked \/ n < MaxOpsUnstaked

\* GetOps reads its snapshot; the checks that follow, long as they take, use
\* nothing of the mempool but the snapshot.
GetOps(t) ==
    /\ call[t] = "get" /\ step[t] = "use"
    /\ ValidatePendingOps(op[t], key[t], sorted[sss[t]])
    /\ todo' = [todo EXCEPT ![t] = {key[t]}]
    /\ ref'  = [ref EXCEPT ![t] = None]
    /\ sss'  = [sss EXCEPT ![t] = None]
    /\ live' = [live EXCEPT ![t] = FALSE]
    /\ Goto(t, "add", "db")
    /\ UNCHANGED <<store, ep, op, key, raced>>

\* The pending ops, or any other check of the client's module stack, reject it.
Rejected(t) ==
    /\ call[t] = "get" /\ step[t] = "use"
    /\ Return(t)
    /\ UNCHANGED <<store, raced>>

OthersMutating(t) == {k \in Keys : \E u \in Threads \ {t} : Mutating(u, k)}

\* Mistake: an entry of the DB is kept when its op is replaced.
AddOpDB_Keeps(t) ==
    /\ call[t] = "add" /\ step[t] = "db"
    /\ db'    = [db EXCEPT ![key[t]] = IF @ = None THEN op[t] ELSE @]
    /\ raced' = raced \union (todo[t] \intersect OthersMutating(t))
    /\ Goto(t, "add", "load")
    /\ UNCHANGED <<queue, all, score, senders, sorted, ep, op, todo, key, ref, sss, live>>

AddOpDB(t) ==
    /\ call[t] = "add" /\ step[t] = "db"
    /\ db'    = [db EXCEPT ![key[t]] = op[t]]
    /\ raced' = raced \union (todo[t] \intersect OthersMutating(t))
    /\ Goto(t, "add", "load")
    /\ UNCHANGED <<queue, all, score, senders, sorted, ep, op, todo, key, ref, sss, live>>

\* AddOrUpdate of eps.all, with the number of entries as the score.
AddOpAll(t) ==
    /\ call[t] = "add" /\ step[t] = "use"
    /\ LET s == ref[t]
       IN  /\ all'   = [all EXCEPT ![s][key[t]] = op[t]]
           /\ score' = [score EXCEPT ![s][key[t]] =
                            Cardinality({k \in Keys : all[s][k] # None})]
    /\ Goto(t, "add", "snd")
    /\ UNCHANGED <<db, queue, senders, sorted, ep, op, todo, key, ref, sss, live, raced>>

AddOpSender(t) ==
    /\ call[t] = "add" /\ step[t] = "snd"
    /\ sorted' = [sorted EXCEPT ![sss[t]][key[t]] = op[t]]
    /\ Return(t)
    /\ UNCHANGED <<db, queue, all, score, senders, raced>>
-----------------------------------------------------------------------------
(* Bundler.Process as the mempool sees it: Dump, then RemoveOps of some.   *)

Process(t, e) ==
    /\ call[t] = "none"
    /\ ep' = [ep EXCEPT ![t] = e]
    /\ Goto(t, "dump", "load")
    /\ UNCHANGED <<store, op, todo, key, ref, sss, live, raced>>

Dump(t) ==
    /\ call[t] = "dump" /\ step[t] = "use"
    /\ LET batch == {all[ref[t]][k] : k \in Keys} \ {None}
       IN  /\ batch # {}
           /\ \E R \in SUBSET batch :
                todo' = [todo EXCEPT ![t] = {KeyOf(ep[t], o) : o \in R}]
    /\ ref'  = [ref EXCEPT ![t] = None]
    /\ live' = [live EXCEPT ![t] = FALSE]
    /\ Goto(t, "rm", "db")
    /\ UNCHANGED <<store, ep, op, key, sss, raced>>

\* The run ends without removing: an empty batch, or an error of a module.
RunFailed(t) ==
    /\ call[t] = "dump" /\ step[t] = "use"
    /\ Return(t)
    /\ UNCHANGED <<store, raced>>

RemoveOpsDB(t) ==
    /\ call[t] = "rm" /\ step[t] = "db"
    /\ db'    = [k \in Keys |-> IF k \in todo[t] THEN None ELSE db[k]]
    /\ raced' = raced \union (todo[t] \intersect OthersMutating(t))
    /\ Goto(t, "rm", "load")
    /\ UNCHANGED <<queue, all, score, senders, sorted, ep, op, todo, key, ref, sss, live>>

\* A write transaction of badger fails: AddOp and RemoveOps return its error.
TxnFailed(t) ==
    /\ call[t] \in {"add", "rm"} /\ step[t] = "db"
    /\ Return(t)
    /\ UNCHANGED <<store, raced>>

RemoveOpsAll(t) ==
    /\ call[t] = "rm" /\ step[t] = "use"
    /\ all' = [all EXCEPT ![ref[t]][key[t]] = None]
    /\ Goto(t, "rm", "snd")
    /\ UNCHANGED <<db, queue, score, senders, sorted, ep, op, todo, key, ref, sss, live, raced>>

\* The loop goes on with the next op.
NextOp(t) ==
    /\ todo' = [todo EXCEPT ![t] = @ \ {key[t]}]
    /\ key'  = [key EXCEPT ![t] = None]
    /\ sss'  = [sss EXCEPT ![t] = None]
    /\ Goto(t, "rm", "sender")

\* Mistake: the op stays in the set of its sender.
RemoveOpsSender_Keeps(t) ==
    /\ call[t] = "rm" /\ step[t] = "snd"
    /\ NextOp(t)
    /\ UNCHANGED <<store, ep, op, ref, live, raced>>

RemoveOpsSender(t) ==
    /\ call[t] = "rm" /\ step[t] = "snd"
    /\ sorted' = [sorted EXCEPT ![sss[t]][key[t]] = None]
    /\ NextOp(t)
    /\ UNCHANGED <<db, queue, all, score, senders, ep, op, ref, live, raced>>

RemoveOpsDone(t) ==
    /\ call[t] = "rm" /\ step[t] = "sender" /\ todo[t] = {}
    /\ Return(t)
    /\ UNCHANGED <<store, raced>>
-----------------------------------------------------------------------------
(* Debug.ClearState: the DB is dropped, then a new queue replaces the old. *)

ClearDB(t) ==
    /\ Debug /\ call[t] = "none"
    /\ db'    = Empty
    /\ raced' = raced \union OthersMutating(t)
    /\ Goto(t, "clear", "queue")
    /\ UNCHANGED <<queue, all, score, senders, sorted, ep, op, todo, key, ref, sss, live>>

ClearQueue(t) ==
    /\ call[t] = "clear" /\ step[t] = "queue"
    /\ queue' = [e \in EntryPoints |-> None]
    /\ live'  = [u \in Threads |-> FALSE]
    /\ Goto(t, "none", "none")
    /\ UNCHANGED <<db, all, score, senders, sorted, ep, op, todo, key, ref, sss, raced>>
-----------------------------------------------------------------------------
\* loadFromDisk: the queue of what the DB holds, in the objects f of the
\* EntryPoints and g of their senders; each EntryPoint's ops come in the order
\* of their keys.
LoadFromDisk(f, g) ==
    LET held(e) == {k \in KeysOf(e) : db[k] # None}
    IN  /\ queue' = [e \in EntryPoints |-> IF held(e) = {} THEN None ELSE f[e]]
        /\ all'   = [s \in SetIds |->
                        [k \in Keys |-> IF s = f[k[1]] THEN db[k] ELSE None]]
        /\ senders' = [s \in SetIds |-> [x \in Senders |->
                        LET loaded == {e \in EntryPoints : f[e] = s /\
                                            \E k \in held(e) : k[2] = x}
                        IN  IF loaded = {} THEN None ELSE g[<<CHOOSE e \in loaded : TRUE, x>>]]]
        /\ sorted'  = [d \in SortedIds |->
                        [k \in Keys |-> IF d = g[<<k[1], k[2]>>] THEN db[k] ELSE None]]
        /\ score' = [s \in SetIds |-> [k \in Keys |->
                        IF s = f[k[1]] /\ db[k] # None
                        THEN Cardinality({k2 \in held(k[1]) : KeyRank[k2] < KeyRank[k]})
                        ELSE 0]]
        /\ UNCHANGED db

\* The process dies and comes back: New loads the queue before anything else
\* runs.
Restart ==
    /\ LoadFromDisk(CHOOSE f \in Objects(EntryPoints, SetIds) : TRUE,
                    CHOOSE g \in Objects(EntryPoints \X Senders, SortedIds) : TRUE)
    /\ call'  = [t \in Threads |-> "none"]
    /\ step'  = [t \in Threads |-> "none"]
    /\ ep'    = [t \in Threads |-> None]
    /\ op'    = [t \in Threads |-> None]
    /\ todo'  = [t \in Threads |-> {}]
    /\ key'   = [t \in Threads |-> None]
    /\ ref'   = [t \in Threads |-> None]
    /\ sss'   = [t \in Threads |-> None]
    /\ live'  = [t \in Threads |-> FALSE]
    /\ raced' = {}

ClientStep(t) ==
    \/ \E e \in EntryPoints, o \in Ops : SendUserOperation(t, e, o)
    \/ GetOps(t) \/ Rejected(t)
    \/ AddOpDB(t) \/ AddOpAll(t) \/ AddOpSender(t)
    \/ ClearDB(t) \/ ClearQueue(t)

BundlerStep(t) ==
    \/ \E e \in EntryPoints : Process(t, e)
    \/ Dump(t) \/ RunFailed(t)
    \/ RemoveOpsDB(t) \/ RemoveOpsAll(t) \/ RemoveOpsSender(t) \/ RemoveOpsDone(t)

AnyStep(t) == LoadSet(t) \/ StoreSet(t) \/ FetchSender(t) \/ MakeSender(t) \/ TxnFailed(t)

Next ==
    \/ \E t \in Clients  : ClientStep(t)
    \/ \E t \in Bundlers : BundlerStep(t)
    \/ \E t \in Threads  : AnyStep(t)
    \/ Restart

Spec == Init /\ [][Next]_vars
-----------------------------------------------------------------------------
(* Properties *)

\* The types of the variables; KeyOf arguments are what the call works on.
TypeOK ==
    /\ db    \in [Keys -> Ops \union {None}]
    /\ queue \in [EntryPoints -> SetIds \union {None}]
    /\ all   \in [SetIds -> [Keys -> Ops \union {None}]]
    /\ score \in [SetIds -> [Keys -> Nat]]
    /\ senders \in [SetIds -> [Senders -> SortedIds \union {None}]]
    /\ sorted  \in [SortedIds -> [Keys -> Ops \union {None}]]
    /\ call  \in [Threads -> {"none", "get", "add", "dump", "rm", "clear"}]
    /\ step  \in [Threads -> {"none", "db", "load", "store", "sender", "make", "use", "snd",
                          "queue"}]
    /\ ep    \in [Threads -> EntryPoints \union {None}]
    /\ op    \in [Threads -> Ops \union {None}]
    /\ todo  \in [Threads -> SUBSET Keys]
    /\ key   \in [Threads -> Keys \union {None}]
    /\ ref   \in [Threads -> SetIds \union {None}]
    /\ sss   \in [Threads -> SortedIds \union {None}]
    /\ live  \in [Threads -> BOOLEAN]
    /\ raced \subseteq Keys

\* The op the queue holds under k, as Dump and as GetOps would find it.
Dumped(k) == IF queue[k[1]] = None THEN None ELSE all[queue[k[1]]][k]
Listed(k) == IF queue[k[1]] = None THEN None
             ELSE LET d == senders[queue[k[1]]][k[2]]
                  IN  IF d = None THEN None ELSE sorted[d][k]

\* The DB, the ops Dump returns and the ops GetOps returns are one and the
\* same under every key that no call is changing, except where two calls
\* changed the key at the same time, or the first two users of the EntryPoint
\* or of the sender both created its set (queue.go:35, 18), since the last
\* restart.  AddOp and RemoveOps write the DB, `all' and the sender's set one
\* after the other (instance.go:64, 86; queue.go:46, 78), with pointers to sets
\* that may have been replaced meanwhile, and everything else relies on them
\* agreeing.
AgreeUnlessRaced ==
    \A k \in Keys \ raced :
        (\A t \in Threads : ~ Mutating(t, k)) => Dumped(k) = db[k] /\ Listed(k) = db[k]

\* What "increase maxFeePerGas and MaxPriorityFeePerGas by >= 10%"
\* (pendingops.go:54) comes to in whole numbers: short of a tenth by less than 1.
PaysATenthMore(new, old) == new >= old /\ 10 * (new - old + 1) > old

\* A replacement never lowers what an op pays: a key that goes from one op to
\* another without the op being removed in between gets a tenth more, though
\* the handler checked a snapshot (client.go:130), read from a set that may be
\* replaced meanwhile, and the DB is written much later (client.go:144).  It
\* holds while one goroutine at a time serves eth_sendUserOperation.
ReplacementBumpsFee ==
    [][\A k \in Keys \ raced :
        db[k] # None /\ db'[k] # None /\ db'[k] # db[k]
            => PaysATenthMore(db'[k].fee, db[k].fee)]_vars

\* "Dump will return a list of UserOperations from the mempool by EntryPoint
\* in the order it arrived" (instance.go:93): an op that enters the set goes
\* behind every op that waits there.
DumpsInArrivalOrder ==
    [][\A t \in Clients : AddOpAll(t) =>
        \A k \in Keys \ {key[t]} :
            all[ref[t]][k] # None => Before(ref[t], k, key[t])']_vars
=============================================================================
