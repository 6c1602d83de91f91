---------------------------- MODULE MempoolProofs ----------------------------
(***************************************************************************)
(* What TLAPS proves of Mempool for every choice of the constants: the     *)
(* types, that the copies of the pool agree under every key that is not    *)
(* raced, and that a replacement pays more while one client adds.          *)
(***************************************************************************)
EXTENDS Mempool, FiniteSetTheorems, TLAPS

\* The control state of a thread determines which of its locals are set.
Local(t) ==
    /\ call[t] = "none" => step[t] = "none"
    /\ call[t] = "clear" => step[t] = "queue"
    /\ call[t] \in {"none", "clear", "dump"} => key[t] = None
    /\ call[t] \in {"get", "add", "dump", "rm"} => ep[t] \in EntryPoints
    /\ call[t] \in {"get", "add"} => op[t] \in Ops /\ key[t] = KeyOf(ep[t], op[t])
    /\ call[t] = "add" => todo[t] = {key[t]}
    /\ call[t] = "rm" => /\ todo[t] \subseteq KeysOf(ep[t])
                         /\ key[t] \in todo[t] \union {None}
                         /\ step[t] \in {"make", "use", "snd"} => key[t] \in todo[t]
    /\ step[t] \in {"load", "store", "use"} => call[t] \in {"get", "add", "dump", "rm"}
    /\ step[t] \in {"sender", "make"} => call[t] \in {"get", "add", "rm"}
    /\ step[t] = "snd" => call[t] \in {"add", "rm"}
    /\ step[t] \in {"sender", "make", "use", "snd"} => ref[t] \in SetIds
    /\ step[t] \in {"use", "snd"} /\ call[t] # "dump" => sss[t] \in SortedIds

Typed == TypeOK /\ \A t \in Threads : Local(t)

\* While t changes k, and nobody else has: t is alone, the DB already holds
\* the result, t works on the objects the queue holds, and what t wrote to
\* `all' is the result.
InFlight(t, k) ==
    Mutating(t, k) =>
        /\ \A u \in Threads \ {t} : ~ Mutating(u, k)
        /\ db[k] = IF call[t] = "add" THEN op[t] ELSE None
        /\ step[t] = "store" => live[t]
        /\ step[t] \in {"sender", "make", "use", "snd"} => ref[t] = queue[k[1]]
        /\ step[t] \in {"use", "snd"} /\ key[t] = k => sss[t] = senders[ref[t]][k[2]]
        /\ step[t] = "snd" /\ key[t] = k => all[ref[t]][k] = db[k]

Alone == \A t \in Threads : \A k \in Keys \ raced : InFlight(t, k)

IInv == Typed /\ Alone /\ AgreeUnlessRaced
-----------------------------------------------------------------------------
\* getUniqueKey (db.go:17): the key of an op of an EntryPoint is one of its keys.
LEMMA KeyOfType ==
    ASSUME NEW e \in EntryPoints, NEW o \in Ops
    PROVE  KeyOf(e, o) \in Keys /\ KeyOf(e, o) \in KeysOf(e) /\ KeyOf(e, o)[1] = e
BY DEF KeyOf, KeysOf, Keys, Ops

\* The keys a call is about are keys of the EntryPoint it was called with.
LEMMA CallKeys ==
    ASSUME Typed, NEW t \in Threads
    PROVE  /\ call[t] \in {"get", "add"} => key[t] \in KeysOf(ep[t])
           /\ call[t] = "add" => todo[t] \subseteq KeysOf(ep[t])
BY KeyOfType DEF Typed, Local, KeysOf

\* A sender's set is made for the key of an op, in a set of the heap.
LEMMA MadeFor ==
    ASSUME Typed, NEW t \in Threads, step[t] = "make"
    PROVE  ref[t] \in SetIds /\ key[t] \in Keys /\ key[t][2] \in Senders
<1>1. call[t] \in {"get", "add", "rm"} /\ ref[t] \in SetIds
  BY DEF Typed, Local
<1>2. key[t] \in Keys
  BY <1>1, CallKeys DEF Typed, TypeOK, Local, KeysOf
<1> QED
  BY <1>1, <1>2 DEF Keys

\* A score is the number of some of the keys.
LEMMA KeyCount ==
    ASSUME NEW S \in SUBSET Keys
    PROVE  Cardinality(S) \in Nat
BY MempoolAssumption, FS_Subset, FS_CardinalityType

\* A new mempool (instance.go:20), which no call is using, is of these types.
LEMMA TypedInit == Init => Typed
BY MempoolAssumption DEF Init, Typed, TypeOK, Local, Empty, NoSenders

\* The objects of a restart are there, one for each set the DB has ops for.
LEMMA RestartObjects ==
    ASSUME Restart
    PROVE  \E f \in Objects(EntryPoints, SetIds),
             g \in Objects(EntryPoints \X Senders, SortedIds) : LoadFromDisk(f, g)
BY MempoolAssumption DEF Restart

\* No step of a client, a run or a restart breaks the types or leaves a call
\* (instance.go:54-106) without the local variables its next statement needs.
LEMMA TypedNext == Typed /\ [Next]_vars => Typed'
<1> SUFFICES ASSUME Typed, [Next]_vars PROVE Typed'
  OBVIOUS
<1> USE MempoolAssumption DEF Typed, TypeOK, Threads
<1>1. ASSUME NEW t \in Threads, LoadSet(t) PROVE Typed'
  BY <1>1 DEF LoadSet, UseSet, Goto, Local, store
<1>2. ASSUME NEW t \in Threads, StoreSet(t) PROVE Typed'
  <2>1. ep[t] \in EntryPoints /\ KeysOf(ep[t]) \subseteq Keys
    BY <1>2 DEF StoreSet, Local, KeysOf
  <2>2. TypeOK'
    <3>1. PICK s \in SetIds :
            /\ all'     = [all EXCEPT ![s] = Empty]
            /\ score'   = [score EXCEPT ![s] = [k \in Keys |-> 0]]
            /\ senders' = [senders EXCEPT ![s] = NoSenders]
            /\ ref'     = [ref EXCEPT ![t] = s]
            /\ queue'   = IF live[t] THEN [queue EXCEPT ![ep[t]] = s] ELSE queue
      BY <1>2 DEF StoreSet
    <3>2. /\ all' \in [SetIds -> [Keys -> Ops \union {None}]]
          /\ score' \in [SetIds -> [Keys -> Nat]]
          /\ senders' \in [SetIds -> [Senders -> SortedIds \union {None}]]
      BY <3>1 DEF Empty, NoSenders
    <3>3. /\ ref' \in [Threads -> SetIds \union {None}]
          /\ queue' \in [EntryPoints -> SetIds \union {None}]
      BY <2>1, <3>1
    <3> QED
      BY <1>2, <2>1, <3>2, <3>3 DEF StoreSet, UseSet, Goto
  <2>3. ASSUME NEW u \in Threads PROVE Local(u)'
    BY <1>2 DEF StoreSet, UseSet, Goto, Local
  <2> QED
    BY <2>2, <2>3
<1>3. ASSUME NEW t \in Clients, NEW e \in EntryPoints, NEW o \in Ops, SendUserOperation(t, e, o)
      PROVE Typed'
  BY <1>3, KeyOfType DEF SendUserOperation, Goto, Local, store
<1>4. ASSUME NEW t \in Clients, GetOps(t) PROVE Typed'
  BY <1>4, KeyOfType DEF GetOps, Goto, Local, store
<1>5. ASSUME NEW t \in Threads, Return(t), UNCHANGED <<store, raced>> PROVE Typed'
  BY <1>5 DEF Return, Goto, Local, store
<1>6. ASSUME NEW t \in Clients, AddOpDB(t) PROVE Typed'
  BY <1>6 DEF AddOpDB, Goto, Local, OthersMutating
<1>7. ASSUME NEW t \in Clients, AddOpAll(t) PROVE Typed'
  <2>1. ref[t] \in SetIds /\ op[t] \in Ops /\ key[t] \in Keys
    BY <1>7, KeyOfType DEF AddOpAll, Local
  <2>2. Cardinality({k \in Keys : all[ref[t]][k] # None}) \in Nat
    BY KeyCount
  <2>3. TypeOK'
    BY <1>7, <2>1, <2>2 DEF AddOpAll, Goto
  <2>4. ASSUME NEW u \in Threads PROVE Local(u)'
    BY <1>7 DEF AddOpAll, Goto, Local
  <2>5. QED
    BY <2>3, <2>4
<1>8. ASSUME NEW t \in Clients, AddOpSender(t) PROVE Typed'
  <2>1. op[t] \in Ops /\ key[t] \in Keys
    BY <1>8, KeyOfType DEF AddOpSender, Local
  <2> QED
    BY <1>8, <2>1 DEF AddOpSender, Return, Goto, Local
<1>9. ASSUME NEW t \in Bundlers, NEW e \in EntryPoints, Process(t, e) PROVE Typed'
  BY <1>9 DEF Process, Goto, Local, store
<1>10. ASSUME NEW t \in Bundlers, Dump(t) PROVE Typed'
  BY <1>10, KeyOfType DEF Dump, Goto, Local, store
<1>11. ASSUME NEW t \in Bundlers, RemoveOpsDB(t) PROVE Typed'
  BY <1>11 DEF RemoveOpsDB, Goto, Local, OthersMutating
<1>12. ASSUME NEW t \in Bundlers, RemoveOpsAll(t) PROVE Typed'
  <2>1. ref[t] \in SetIds /\ key[t] \in Keys
    BY <1>12 DEF RemoveOpsAll, Local, KeysOf
  <2> QED
    BY <1>12, <2>1 DEF RemoveOpsAll, Goto, Local
<1>13. ASSUME NEW t \in Bundlers, RemoveOpsSender(t) PROVE Typed'
  BY <1>13 DEF RemoveOpsSender, NextOp, Goto, Local
<1>14. ASSUME NEW t \in Clients, ClearDB(t) PROVE Typed'
  BY <1>14 DEF ClearDB, Goto, Local, OthersMutating, Empty
<1>15. ASSUME NEW t \in Clients, ClearQueue(t) PROVE Typed'
  BY <1>15 DEF ClearQueue, Goto, Local
<1>16. CASE Restart
  <2>1. PICK f \in [EntryPoints -> SetIds], g \in [EntryPoints \X Senders -> SortedIds] :
            LoadFromDisk(f, g)
    BY <1>16, RestartObjects DEF Objects
  <2>2. ASSUME NEW k \in Keys
        PROVE Cardinality({k2 \in {k3 \in KeysOf(k[1]) : db[k3] # None} :
                                                KeyRank[k2] < KeyRank[k]}) \in Nat
    <3>1. {k2 \in {k3 \in KeysOf(k[1]) : db[k3] # None} : KeyRank[k2] < KeyRank[k]}
            \in SUBSET Keys
      BY DEF KeysOf
    <3>2. QED
      BY <3>1, KeyCount
  <2>3. score' \in [SetIds -> [Keys -> Nat]]
    BY <2>1, <2>2 DEF LoadFromDisk
  <2>4. /\ queue' \in [EntryPoints -> SetIds \union {None}]
        /\ all' \in [SetIds -> [Keys -> Ops \union {None}]]
        /\ sorted' \in [SortedIds -> [Keys -> Ops \union {None}]]
        /\ db' = db
    BY <2>1 DEF LoadFromDisk
  <2>5. ASSUME NEW s \in SetIds, NEW x \in Senders
        PROVE  senders'[s][x] \in SortedIds \union {None}
    <3> DEFINE loaded == {e \in EntryPoints : f[e] = s /\
                             \E k \in {k2 \in KeysOf(e) : db[k2] # None} : k[2] = x}
    <3>1. loaded # {} => (CHOOSE e \in loaded : TRUE) \in EntryPoints
      OBVIOUS
    <3>2. senders'[s][x] = IF loaded = {} THEN None ELSE g[<<CHOOSE e \in loaded : TRUE, x>>]
      BY <2>1 DEF LoadFromDisk
    <3> QED
      BY <3>1, <3>2
  <2>6. senders' \in [SetIds -> [Senders -> SortedIds \union {None}]]
    <3>1. senders' = [s \in SetIds |-> senders'[s]] /\ \A s \in SetIds :
              senders'[s] = [x \in Senders |-> senders'[s][x]]
      BY <2>1 DEF LoadFromDisk
    <3>2. ASSUME NEW s \in SetIds PROVE senders'[s] \in [Senders -> SortedIds \union {None}]
      BY <2>5, <3>1
    <3> QED
      BY <3>1, <3>2
  <2> QED
    BY <1>16, <2>3, <2>4, <2>6 DEF Restart, Local
<1>17. CASE UNCHANGED vars
  BY <1>17 DEF vars, store, thread, Local
<1>18. ASSUME NEW t \in Threads, FetchSender(t) PROVE Typed'
  <2>1. PICK k \in Current(t) : /\ key' = [key EXCEPT ![t] = k]
                                /\ sss' = [sss EXCEPT ![t] = senders[ref[t]][k[2]]]
                                /\ Goto(t, call[t], IF senders[ref[t]][k[2]] = None
                                                    THEN "make" ELSE "use")
    BY <1>18 DEF FetchSender
  <2>2. /\ call[t] \in {"get", "add", "rm"} /\ ref[t] \in SetIds
        /\ k \in Keys /\ (call[t] # "rm" => k = key[t]) /\ (call[t] = "rm" => k \in todo[t])
    BY <1>18, KeyOfType DEF FetchSender, Current, Local
  <2>3. k[2] \in Senders
    BY <2>2 DEF Keys
  <2>4. senders[ref[t]][k[2]] \in SortedIds \union {None}
    BY <2>2, <2>3
  <2>5. TypeOK'
    BY <1>18, <2>1, <2>2, <2>4 DEF FetchSender, Goto, store
  <2>6. ASSUME NEW u \in Threads PROVE Local(u)'
    BY <1>18, <2>1, <2>2, <2>4 DEF FetchSender, Goto, Local, store
  <2> QED
    BY <2>5, <2>6
<1>19. ASSUME NEW t \in Threads, MakeSender(t) PROVE Typed'
  <2>1. PICK d \in SortedIds : /\ senders' = [senders EXCEPT ![ref[t]][key[t][2]] = d]
                               /\ sorted'  = [sorted EXCEPT ![d] = Empty]
    BY <1>19 DEF MakeSender
  <2>2. TypeOK'
    BY <1>19, <2>1 DEF MakeSender, Goto, Empty
  <2>3. ASSUME NEW u \in Threads PROVE Local(u)'
    BY <1>19 DEF MakeSender, Goto, Local
  <2> QED
    BY <2>2, <2>3
<1> QED
  BY <1>1, <1>2, <1>3, <1>4, <1>5, <1>6, <1>7, <1>8, <1>9, <1>10, <1>11, <1>12,
     <1>13, <1>14, <1>15, <1>16, <1>17, <1>18, <1>19
  DEF Next, ClientStep, BundlerStep, AnyStep, Rejected, RunFailed, TxnFailed, RemoveOpsDone

\* The variables always have their types, and a thread's control state says
\* which of its local variables are set.
THEOREM TypeCorrect == Spec => []TypeOK
<1>1. Spec => []Typed
  BY TypedInit, TypedNext, PTL DEF Spec
<1>2. Typed => TypeOK
  BY DEF Typed
<1>3. QED
  BY <1>1, <1>2, PTL
-----------------------------------------------------------------------------
\* A new mempool (queue.go:83) is empty in both stores, and nothing has raced.
LEMMA AloneInit == Init => Alone /\ AgreeUnlessRaced
BY DEF Init, Alone, InFlight, Mutating, AgreeUnlessRaced, Dumped, Listed, Empty, Keys

\* What thread u has in hand does not change.
Still(u) == UNCHANGED <<call[u], step[u], todo[u], op[u], key[u], ref[u], sss[u], live[u]>>

\* While no store changes and no call begins or ends, they agree as before.
LEMMA AgreementKept ==
    ASSUME AgreeUnlessRaced, UNCHANGED <<store, raced>>,
           \A u \in Threads : \A k \in Keys : Mutating(u, k)' = Mutating(u, k)
    PROVE  AgreeUnlessRaced'
<1>1. ASSUME NEW k \in Keys
      PROVE  Dumped(k)' = Dumped(k) /\ Listed(k)' = Listed(k) /\ db'[k] = db[k]
  BY DEF Dumped, Listed, store
<1> QED
  BY <1>1 DEF AgreeUnlessRaced

\* A step of t that touches no shared state, when t changes no key before or
\* after it.
LEMMA QuietStep ==
    ASSUME NEW t \in Threads, Alone, AgreeUnlessRaced,
           UNCHANGED <<store, raced>>,
           \A u \in Threads \ {t} : Still(u),
           \A k \in Keys : ~ Mutating(t, k) /\ ~ Mutating(t, k)'
    PROVE  Alone' /\ AgreeUnlessRaced'
<1>1. \A u \in Threads : \A k \in Keys : Mutating(u, k)' = Mutating(u, k)
  BY DEF Still, Mutating
<1>2. Alone'
  BY <1>1 DEF Alone, InFlight, Still, store
<1>3. AgreeUnlessRaced'
  BY <1>1, AgreementKept
<1>4. QED
  BY <1>2, <1>3

\* A thread changes keys of the EntryPoint it was called with.
LEMMA MutatesOwn ==
    ASSUME Typed, NEW t \in Threads, NEW k \in Keys, Mutating(t, k)
    PROVE  \/ call[t] \in {"add", "rm"} /\ k[1] = ep[t]
           \/ call[t] = "clear" /\ step[t] = "queue"
BY CallKeys DEF Typed, Mutating, Local, KeysOf

\* A Load of getEntryPointSet (queue.go:29) changes neither store.
LEMMA LoadSetStep ==
    ASSUME NEW t \in Threads, Typed, Alone, AgreeUnlessRaced, LoadSet(t)
    PROVE  Alone' /\ AgreeUnlessRaced'
<1> USE DEF Typed, TypeOK
<1>1. \A u \in Threads : \A k \in Keys : Mutating(u, k)' = Mutating(u, k)
  BY DEF LoadSet, Goto, UseSet, Mutating, store
<1>2. ASSUME NEW u \in Threads, NEW k \in Keys \ raced', Mutating(u, k) PROVE InFlight(u, k)'
  <2>1. InFlight(u, k)
    BY DEF Alone, LoadSet
  <2>2. CASE u = t
    <3>1. call[t] \in {"add", "rm"} /\ k[1] = ep[t]
      BY <1>2, <2>2, MutatesOwn DEF LoadSet
    <3>2. /\ call' = call /\ step'[t] \in {"store", "sender"}
          /\ live'[t] /\ ref'[t] = queue[k[1]] /\ UNCHANGED <<store, op>>
      BY <3>1 DEF LoadSet, Goto, UseSet
    <3> QED
      BY <1>1, <1>2, <2>1, <2>2, <3>2 DEF InFlight, store
  <2>3. CASE u # t
    <3>1. Still(u) /\ UNCHANGED store
      BY <2>3 DEF LoadSet, Goto, Still
    <3> QED
      BY <1>1, <1>2, <2>1, <3>1 DEF InFlight, Still, store
  <2> QED
    BY <2>2, <2>3
<1>3. AgreeUnlessRaced'
  BY <1>1, AgreementKept DEF LoadSet
<1> QED
  BY <1>1, <1>2, <1>3 DEF Alone, InFlight

\* A Store of getEntryPointSet (queue.go:35) puts an empty set where there was
\* none, or races with the calls that use the one it replaces.
LEMMA StoreSetStep ==
    ASSUME NEW t \in Threads, Typed, Alone, AgreeUnlessRaced, StoreSet(t)
    PROVE  Alone' /\ AgreeUnlessRaced'
<1> USE DEF Typed, TypeOK
<1>1. \A u \in Threads : \A k \in Keys : Mutating(u, k)' = Mutating(u, k)
  BY DEF StoreSet, Goto, UseSet, Mutating
<1>2. ASSUME NEW k \in Keys, Mutating(t, k) PROVE call[t] \in {"add", "rm"} /\ k[1] = ep[t]
  BY <1>2, MutatesOwn DEF StoreSet
<1>3. PICK s \in SetIds :
        /\ ~ Referenced(s)
        /\ all'   = [all EXCEPT ![s] = Empty]
        /\ senders' = [senders EXCEPT ![s] = NoSenders]
        /\ ref'   = [ref EXCEPT ![t] = s]
        /\ queue' = IF live[t] THEN [queue EXCEPT ![ep[t]] = s] ELSE queue
  BY DEF StoreSet
<1>4. ep[t] \in EntryPoints
  BY DEF StoreSet, Local
<1>5. raced \subseteq raced'
  BY DEF StoreSet
<1>6. ASSUME NEW k \in Keys \ raced', k[1] # ep[t] \/ ~ live[t]
      PROVE  queue'[k[1]] = queue[k[1]]
  BY <1>3, <1>4, <1>6
<1>7. ASSUME NEW k \in Keys \ raced', k[1] = ep[t], live[t]
      PROVE  queue[k[1]] = None /\ queue'[k[1]] = s
  BY <1>3, <1>4, <1>7 DEF StoreSet, KeysOf, Keys
<1>8. ASSUME NEW k \in Keys, queue[k[1]] # None
      PROVE  queue[k[1]] # s
  BY <1>3 DEF Referenced, Keys
<1>9. ASSUME NEW u \in Threads, NEW k \in Keys \ raced' PROVE InFlight(u, k)'
  <2> SUFFICES ASSUME Mutating(u, k) PROVE InFlight(u, k)'
    BY <1>1 DEF InFlight
  <2>1. InFlight(u, k)
    BY <1>5 DEF Alone
  <2>2. CASE u = t
    <3>1. /\ call' = call /\ step'[t] = "sender" /\ ref'[t] = s /\ UNCHANGED <<db, op>>
          /\ call[t] \in {"add", "rm"} /\ k[1] = ep[t]
      BY <1>2, <1>3, <2>2 DEF StoreSet, Goto, UseSet
    <3>2. live[t] /\ queue'[k[1]] = s
      BY <2>1, <2>2, <3>1, <1>7 DEF InFlight, StoreSet
    <3> QED
      BY <2>1, <2>2, <3>1, <3>2, <1>1 DEF InFlight
  <2>3. CASE u # t
    <3>1. step[u] \in {"sender", "make", "use", "snd"} => ref[u] \in SetIds /\ ref[u] # s
      BY <1>3 DEF Referenced, Local
    <3>2. step[u] \in {"sender", "make", "use", "snd"} => queue'[k[1]] = queue[k[1]]
      BY <3>1, <2>1, <1>6, <1>7, MempoolAssumption DEF InFlight
    <3>3. Still(u) /\ UNCHANGED db
      BY <2>3, <1>3 DEF StoreSet, Goto, Still
    <3>4. step[u] \in {"use", "snd"} => all'[ref[u]] = all[ref[u]] /\ senders'[ref[u]] = senders[ref[u]]
      BY <3>1, <1>3
    <3>5. QED
      BY <2>1, <3>2, <3>3, <3>4, <1>1 DEF InFlight, Still
  <2>4. QED
    BY <2>2, <2>3
<1>10. ASSUME NEW k \in Keys \ raced', \A u \in Threads : ~ Mutating(u, k)
       PROVE  Dumped(k)' = db'[k] /\ Listed(k)' = db'[k]
  <2>1. Dumped(k) = db[k] /\ Listed(k) = db[k] /\ db' = db
    BY <1>5, <1>10 DEF AgreeUnlessRaced, StoreSet
  <2>2. CASE k[1] = ep[t] /\ live[t]
    <3>1. /\ k[1] \in EntryPoints /\ k[2] \in Senders /\ s # None
          /\ queue[k[1]] = None /\ queue'[k[1]] = s
      BY <2>2, <1>7, MempoolAssumption DEF Keys
    <3>2. all'[s] = Empty /\ senders'[s] = NoSenders
      BY <1>3
    <3> QED
      BY <2>1, <3>1, <3>2 DEF Dumped, Listed, Empty, NoSenders
  <2>3. CASE ~ (k[1] = ep[t] /\ live[t])
    <3>1. queue'[k[1]] = queue[k[1]] /\ k[1] \in EntryPoints
      BY <2>3, <1>6 DEF Keys
    <3>2. queue[k[1]] # None => /\ all'[queue[k[1]]] = all[queue[k[1]]]
                                /\ senders'[queue[k[1]]] = senders[queue[k[1]]]
      BY <3>1, <1>3, <1>8
    <3>3. sorted' = sorted
      BY DEF StoreSet
    <3>4. Dumped(k)' = Dumped(k)
      BY <3>1, <3>2 DEF Dumped
    <3>5. Listed(k)' = Listed(k)
      BY <3>1, <3>2, <3>3 DEF Listed
    <3> QED
      BY <2>1, <3>4, <3>5
  <2>4. QED
    BY <2>2, <2>3
<1>11. QED
  BY <1>1, <1>9, <1>10 DEF Alone, AgreeUnlessRaced

\* The lookup of getSenderSortedSet (queue.go:17, 21) changes nothing.
LEMMA FetchSenderStep ==
    ASSUME NEW t \in Threads, Typed, Alone, AgreeUnlessRaced, FetchSender(t)
    PROVE  Alone' /\ AgreeUnlessRaced'
<1> USE DEF Typed, TypeOK
<1>1. /\ call' = call /\ UNCHANGED <<store, op, todo, ref, live, raced>>
      /\ step[t] = "sender" /\ step'[t] \in {"make", "use"}
      /\ sss'[t] = senders[ref[t]][key'[t][2]]
      /\ \A u \in Threads \ {t} : Still(u)
  BY DEF FetchSender, Goto, Still
<1>2. \A u \in Threads : \A k \in Keys : Mutating(u, k)' = Mutating(u, k)
  BY <1>1 DEF Mutating, Still
<1>3. ASSUME NEW u \in Threads, NEW k \in Keys \ raced', Mutating(u, k) PROVE InFlight(u, k)'
  <2>1. InFlight(u, k)
    BY <1>1 DEF Alone
  <2>2. CASE u = t
    BY <1>1, <1>2, <1>3, <2>1, <2>2 DEF InFlight, store
  <2>3. CASE u # t
    BY <1>1, <1>2, <1>3, <2>1, <2>3 DEF InFlight, Still, store
  <2> QED
    BY <2>2, <2>3
<1>4. AgreeUnlessRaced'
  BY <1>1, <1>2, AgreementKept
<1> QED
  BY <1>2, <1>3, <1>4 DEF Alone, InFlight

\* The store of getSenderSortedSet (queue.go:18) puts an empty sorted set where
\* there was none, or races with the calls that use the one it replaces.
LEMMA MakeSenderStep ==
    ASSUME NEW t \in Threads, Typed, Alone, AgreeUnlessRaced, MakeSender(t)
    PROVE  Alone' /\ AgreeUnlessRaced'
<1> USE DEF Typed, TypeOK
<1> DEFINE x == key[t][2]
<1>1. PICK d \in SortedIds : /\ ~ InUse(d)
                             /\ senders' = [senders EXCEPT ![ref[t]][x] = d]
                             /\ sorted'  = [sorted EXCEPT ![d] = Empty]
  BY DEF MakeSender
<1>2. /\ call' = call /\ UNCHANGED <<db, queue, all, op, todo, key, ref, sss, live>>
      /\ step[t] = "make" /\ step'[t] = "sender"
      /\ raced \subseteq raced' /\ \A u \in Threads \ {t} : Still(u)
  BY DEF MakeSender, Goto, Still
<1>3. \A u \in Threads : \A k \in Keys : Mutating(u, k)' = Mutating(u, k)
  BY <1>2 DEF Mutating, Still
<1>4. ref[t] \in SetIds /\ x \in Senders
  BY <1>2, MadeFor
<1>5. ASSUME NEW k \in Keys \ raced', queue[k[1]] = ref[t], k[2] = x
      PROVE  senders[ref[t]][x] = None
  BY <1>5 DEF MakeSender
<1>6. ASSUME NEW s \in SetIds, NEW y \in Senders, s # ref[t] \/ y # x
      PROVE  senders'[s][y] = senders[s][y]
  BY <1>1, <1>4, <1>6
<1> HIDE DEF x
<1>7. ASSUME NEW u \in Threads, NEW k \in Keys \ raced', Mutating(u, k) PROVE InFlight(u, k)'
  <2>1. InFlight(u, k)
    BY <1>2 DEF Alone
  <2>2. CASE u = t
    BY <1>2, <1>3, <1>7, <2>1, <2>2 DEF InFlight
  <2>3. CASE u # t
    <3>1. Still(u)
      BY <1>2, <2>3
    <3>2. ASSUME step[u] \in {"use", "snd"}, key[u] = k
          PROVE  senders'[ref[u]][k[2]] = senders[ref[u]][k[2]]
      <4>1. call[u] # "dump"
        BY <1>7, <3>2 DEF Mutating
      <4>2. /\ ref[u] = queue[k[1]] /\ sss[u] = senders[ref[u]][k[2]]
            /\ sss[u] # None /\ ref[u] \in SetIds /\ k[2] \in Senders
        BY <1>7, <2>1, <3>2, <4>1, MempoolAssumption DEF InFlight, Local, Keys
      <4> QED
        BY <4>2, <1>5, <1>6
    <3> QED
      BY <1>2, <1>3, <1>7, <2>1, <3>1, <3>2 DEF InFlight, Still
  <2> QED
    BY <2>2, <2>3
<1>8. ASSUME NEW k \in Keys \ raced', \A u \in Threads : ~ Mutating(u, k)
      PROVE  Dumped(k)' = db'[k] /\ Listed(k)' = db'[k]
  <2>1. Dumped(k) = db[k] /\ Listed(k) = db[k]
    BY <1>2, <1>8 DEF AgreeUnlessRaced
  <2>2. k[1] \in EntryPoints /\ k[2] \in Senders
    BY DEF Keys
  <2>3. CASE queue[k[1]] = None
    BY <1>2, <2>1, <2>3 DEF Dumped, Listed
  <2>4. CASE queue[k[1]] # None /\ queue[k[1]] = ref[t] /\ k[2] = x
    <3>1. senders[ref[t]][x] = None /\ senders'[ref[t]][x] = d /\ sorted'[d] = Empty /\ d # None
      BY <1>1, <1>4, <1>5, <2>4, MempoolAssumption
    <3> QED
      BY <1>2, <2>1, <2>4, <3>1 DEF Dumped, Listed, Empty
  <2>5. CASE queue[k[1]] # None /\ ~ (queue[k[1]] = ref[t] /\ k[2] = x)
    <3>1. queue[k[1]] \in SetIds /\ senders'[queue[k[1]]][k[2]] = senders[queue[k[1]]][k[2]]
      BY <2>2, <2>5, <1>6
    <3>2. senders[queue[k[1]]][k[2]] # d
      BY <1>1, <2>2, <3>1 DEF InUse, Referenced
    <3>3. senders[queue[k[1]]][k[2]] # None =>
            sorted'[senders[queue[k[1]]][k[2]]] = sorted[senders[queue[k[1]]][k[2]]]
      BY <1>1, <2>2, <3>1, <3>2
    <3> QED
      BY <1>2, <2>1, <2>5, <3>1, <3>3 DEF Dumped, Listed
  <2> QED
    BY <2>3, <2>4, <2>5
<1> QED
  BY <1>3, <1>7, <1>8 DEF Alone, InFlight, AgreeUnlessRaced
-----------------------------------------------------------------------------
\* The DB write with which t starts to change the keys of todo: those another
\* call is changing are raced from here on.
LEMMA DBStep ==
    ASSUME NEW t \in Threads, Typed, Alone, AgreeUnlessRaced,
           step[t] = "db", call[t] \in {"add", "rm"},
           db' = [k \in Keys |-> IF k \in todo[t]
                                 THEN IF call[t] = "add" THEN op[t] ELSE None
                                 ELSE db[k]],
           raced' = raced \union (todo[t] \intersect OthersMutating(t)),
           Goto(t, call[t], "load"),
           UNCHANGED <<queue, all, senders, sorted, op, todo, key, ref, sss, live>>
    PROVE  Alone' /\ AgreeUnlessRaced'
<1> USE DEF Typed, TypeOK
<1>1. \A u \in Threads \ {t} : \A k \in Keys : Mutating(u, k)' = Mutating(u, k)
  BY DEF Goto, Mutating
<1>2. \A k \in Keys : Mutating(t, k)' <=> k \in todo[t]
  BY DEF Goto, Mutating
<1>3. \A k \in Keys : ~ Mutating(t, k)
  BY DEF Mutating
<1>4. ASSUME NEW u \in Threads, NEW k \in Keys \ raced' PROVE InFlight(u, k)'
  <2> SUFFICES ASSUME Mutating(u, k)' PROVE InFlight(u, k)'
    BY DEF InFlight
  <2>1. CASE u = t
    BY <2>1, <1>1, <1>2 DEF InFlight, OthersMutating, Goto
  <2>2. CASE u # t
    <3>1. InFlight(u, k) /\ Mutating(u, k)
      BY <2>2, <1>1 DEF Alone
    <3>2. k \notin todo[t]
      BY <2>2, <3>1 DEF OthersMutating
    <3>3. Still(u) /\ db'[k] = db[k]
      BY <2>2, <3>2 DEF Goto, Still
    <3>4. \A v \in Threads \ {u} : ~ Mutating(v, k)'
      BY <3>1, <3>2, <1>1, <1>2 DEF InFlight
    <3>5. UNCHANGED <<queue, all, senders>>
      OBVIOUS
    <3>6. QED
      BY <3>1, <3>3, <3>4, <3>5 DEF InFlight, Still
  <2>3. QED
    BY <2>1, <2>2
<1>5. ASSUME NEW k \in Keys \ raced', \A u \in Threads : ~ Mutating(u, k)'
      PROVE  Dumped(k)' = db'[k] /\ Listed(k)' = db'[k]
  <2>1. db'[k] = db[k] /\ \A u \in Threads : ~ Mutating(u, k)
    BY <1>1, <1>2, <1>3, <1>5
  <2>2. QED
    BY <2>1 DEF AgreeUnlessRaced, Dumped, Listed
<1>6. QED
  BY <1>4, <1>5 DEF Alone, AgreeUnlessRaced

\* A write of t to the set it works on, under a key it is changing.
LEMMA AllStep ==
    ASSUME NEW t \in Threads, Typed, Alone, AgreeUnlessRaced,
           step[t] = "use", call[t] \in {"add", "rm"},
           all' = [all EXCEPT ![ref[t]][key[t]] = IF call[t] = "add" THEN op[t] ELSE None],
           Goto(t, call[t], "snd"),
           UNCHANGED <<db, queue, senders, sorted, op, todo, key, ref, sss, live, raced>>
    PROVE  Alone' /\ AgreeUnlessRaced'
<1> USE DEF Typed, TypeOK
<1>1. \A u \in Threads : \A k \in Keys : Mutating(u, k)' = Mutating(u, k)
  BY DEF Goto, Mutating
<1>2. Mutating(t, key[t]) /\ ref[t] \in SetIds /\ key[t] \in Keys
  BY DEF Mutating, Local
<1>3. ASSUME NEW k \in Keys, k # key[t], NEW s \in SetIds PROVE all'[s][k] = all[s][k]
  BY <1>3
<1>4. ASSUME NEW u \in Threads, NEW k \in Keys \ raced' PROVE InFlight(u, k)'
  <2> SUFFICES ASSUME Mutating(u, k) PROVE InFlight(u, k)'
    BY <1>1 DEF InFlight
  <2>1. InFlight(u, k)
    BY DEF Alone
  <2>2. CASE u = t
    BY <2>1, <2>2, <1>1, <1>2 DEF InFlight, Goto
  <2>3. CASE u # t
    <3>1. k # key[t]
      BY <2>1, <2>3, <1>2 DEF InFlight
    <3>2. Still(u)
      BY <2>3 DEF Goto, Still
    <3>3. step[u] = "snd" => all'[ref[u]][k] = all[ref[u]][k]
      BY <1>3, <3>1 DEF Local
    <3>4. QED
      BY <2>1, <3>2, <3>3, <1>1 DEF InFlight, Still
  <2>4. QED
    BY <2>2, <2>3
<1>5. ASSUME NEW k \in Keys \ raced', \A u \in Threads : ~ Mutating(u, k)'
      PROVE  Dumped(k)' = db'[k] /\ Listed(k)' = db'[k]
  <2>1. k # key[t] /\ \A u \in Threads : ~ Mutating(u, k)
    BY <1>1, <1>2, <1>5
  <2>2. Dumped(k) = db[k] /\ Listed(k) = db[k]
    BY <2>1 DEF AgreeUnlessRaced
  <2>3. k[1] \in EntryPoints
    BY DEF Keys
  <2>4. QED
    BY <2>1, <2>2, <2>3, <1>3 DEF Dumped, Listed
<1>6. QED
  BY <1>4, <1>5 DEF Alone, AgreeUnlessRaced

\* The last write of t under key[t].
LEMMA SenderStep ==
    ASSUME NEW t \in Threads, Typed, Alone, AgreeUnlessRaced,
           step[t] = "snd",
           sorted' = [sorted EXCEPT ![sss[t]][key[t]] = IF call[t] = "add" THEN op[t] ELSE None],
           \A u \in Threads \ {t} : Still(u),
           \A k \in Keys : Mutating(t, k)' <=> Mutating(t, k) /\ k # key[t],
           \A k \in Keys : Mutating(t, k)' =>
                call'[t] = "rm" /\ call[t] = "rm" /\ step'[t] = "sender" /\ ref'[t] = ref[t],
           UNCHANGED <<db, queue, all, senders, raced>>
    PROVE  Alone' /\ AgreeUnlessRaced'
<1> USE DEF Typed, TypeOK
<1>1. \A u \in Threads \ {t} : \A k \in Keys : Mutating(u, k)' = Mutating(u, k)
  BY DEF Still, Mutating
<1>2. Mutating(t, key[t]) /\ ref[t] \in SetIds /\ sss[t] \in SortedIds /\ key[t] \in Keys
  BY DEF Mutating, Local
<1>3. ASSUME NEW k \in Keys, k # key[t], NEW d \in SortedIds PROVE sorted'[d][k] = sorted[d][k]
  BY <1>3
<1>4. ASSUME NEW u \in Threads, NEW k \in Keys \ raced' PROVE InFlight(u, k)'
  <2> SUFFICES ASSUME Mutating(u, k)' PROVE InFlight(u, k)'
    BY DEF InFlight
  <2>1. InFlight(u, k) /\ Mutating(u, k)
    BY <1>1 DEF Alone
  <2>2. CASE u = t
    BY <2>1, <2>2, <1>1 DEF InFlight
  <2>3. CASE u # t
    BY <2>1, <2>3, <1>1, ZenonT(30) DEF InFlight, Still
  <2>4. QED
    BY <2>2, <2>3
<1>5. ASSUME NEW k \in Keys \ raced', \A u \in Threads : ~ Mutating(u, k)'
      PROVE  Dumped(k)' = db'[k] /\ Listed(k)' = db'[k]
  <2> DEFINE e == k[1]
  <2>1. e \in EntryPoints
    BY DEF Keys
  <2>2. CASE k = key[t]
    <3>1. InFlight(t, k) /\ Mutating(t, k)
      BY <2>2, <1>2 DEF Alone
    <3>2. queue[e] = ref[t] /\ queue[e] # None /\ all[ref[t]][k] = db[k]
          /\ senders[ref[t]][k[2]] = sss[t] /\ sss[t] # None
      BY <3>1, <2>2, <1>2, MempoolAssumption DEF InFlight
    <3>3. sorted'[sss[t]][k] = db[k]
      BY <3>1, <2>2, <1>2 DEF InFlight
    <3>4. QED
      BY <3>2, <3>3 DEF Dumped, Listed
  <2>3. CASE k # key[t]
    <3>1. \A u \in Threads : ~ Mutating(u, k)
      BY <2>3, <1>1, <1>5
    <3>2. Dumped(k) = db[k] /\ Listed(k) = db[k]
      BY <3>1 DEF AgreeUnlessRaced
    <3>3. QED
      BY <3>2, <2>1, <2>3, <1>3 DEF Dumped, Listed, Keys
  <2>4. QED
    BY <2>2, <2>3
<1>6. QED
  BY <1>4, <1>5 DEF Alone, AgreeUnlessRaced
-----------------------------------------------------------------------------
\* DropAll (instance.go:100) empties the DB: keys another call is changing are
\* raced, and the queue follows in the next step of the same call.
LEMMA ClearDBStep ==
    ASSUME NEW t \in Clients, Typed, Alone, AgreeUnlessRaced, ClearDB(t)
    PROVE  Alone' /\ AgreeUnlessRaced'
<1> USE DEF Typed, TypeOK, Threads
<1>1. \A u \in Threads \ {t} : \A k \in Keys : Mutating(u, k)' = Mutating(u, k)
  BY DEF ClearDB, Goto, Mutating
<1>2. \A k \in Keys : Mutating(t, k)'
  BY DEF ClearDB, Goto, Mutating
<1>3. \A u \in Threads \ {t} : \A k \in Keys \ raced' : ~ Mutating(u, k)
  BY DEF ClearDB, OthersMutating
<1>4. call'[t] = "clear" /\ step'[t] = "queue"
  BY DEF ClearDB, Goto
<1>5. \A k \in Keys : db'[k] = None
  BY DEF ClearDB, Empty
<1>6. Alone'
  <2> SUFFICES ASSUME NEW u \in Threads, NEW k \in Keys \ raced', Mutating(u, k)'
               PROVE  InFlight(u, k)'
    BY DEF Alone, InFlight
  <2>1. u = t /\ \A v \in Threads \ {t} : ~ Mutating(v, k)'
    BY <1>1, <1>3
  <2>2. QED
    BY <2>1, <1>4, <1>5 DEF InFlight
<1>7. AgreeUnlessRaced'
  BY <1>2 DEF AgreeUnlessRaced
<1>8. QED
  BY <1>6, <1>7

\* The new queue of Clear (instance.go:103) is as empty as the DB.
LEMMA ClearQueueStep ==
    ASSUME NEW t \in Clients, Typed, Alone, AgreeUnlessRaced, ClearQueue(t)
    PROVE  Alone' /\ AgreeUnlessRaced'
<1> USE DEF Typed, TypeOK, Threads
<1>1. \A u \in Threads \ {t} : \A k \in Keys : Mutating(u, k)' = Mutating(u, k)
  BY DEF ClearQueue, Goto, Mutating
<1>2. \A k \in Keys : Mutating(t, k) /\ ~ Mutating(t, k)'
  BY DEF ClearQueue, Goto, Mutating
<1>3. ASSUME NEW k \in Keys \ raced'
      PROVE  db[k] = None /\ \A u \in Threads \ {t} : ~ Mutating(u, k)
  <2>1. k \in Keys \ raced /\ InFlight(t, k) /\ call[t] = "clear"
    BY DEF ClearQueue, Alone
  <2>2. QED
    BY <2>1, <1>2 DEF InFlight
<1>4. \A u \in Threads : \A k \in Keys \ raced' : ~ Mutating(u, k)'
  BY <1>1, <1>2, <1>3
<1>5. Alone'
  BY <1>4 DEF Alone, InFlight
<1>6. ASSUME NEW k \in Keys \ raced' PROVE Dumped(k)' = db'[k] /\ Listed(k)' = db'[k]
  BY <1>3 DEF ClearQueue, Dumped, Listed, Keys
<1>7. QED
  BY <1>5, <1>6 DEF AgreeUnlessRaced

\* loadFromDisk (db.go:42) makes the queue what the DB is.
LEMMA RestartStep ==
    ASSUME Typed, Restart
    PROVE  Alone' /\ AgreeUnlessRaced'
<1> USE DEF Typed, TypeOK
<1>1. PICK f \in Objects(EntryPoints, SetIds), g \in Objects(EntryPoints \X Senders, SortedIds) :
        LoadFromDisk(f, g)
  BY RestartObjects
<1>2. Alone'
  BY DEF Restart, Alone, InFlight, Mutating
<1>3. ASSUME NEW k \in Keys PROVE Dumped(k)' = db'[k] /\ Listed(k)' = db'[k]
  <2> DEFINE e == k[1]
             d == g[<<e, k[2]>>]
             loaded == {e2 \in EntryPoints : f[e2] = f[e] /\
                            \E k2 \in {k3 \in KeysOf(e2) : db[k3] # None} : k2[2] = k[2]}
  <2>1. e \in EntryPoints /\ k[2] \in Senders /\ k \in KeysOf(e) /\ db' = db
        /\ f[e] \in SetIds /\ d \in SortedIds
    BY <1>1 DEF Keys, KeysOf, LoadFromDisk, Objects
  <2>2. all'[f[e]][k] = db[k] /\ sorted'[d][k] = db[k]
    BY <1>1, <2>1 DEF LoadFromDisk
  <2>3. queue'[e] = IF {k2 \in KeysOf(e) : db[k2] # None} = {} THEN None ELSE f[e]
    BY <1>1, <2>1 DEF LoadFromDisk
  <2>4. senders'[f[e]][k[2]] = IF loaded = {} THEN None ELSE g[<<CHOOSE e2 \in loaded : TRUE, k[2]>>]
    BY <1>1, <2>1 DEF LoadFromDisk
  <2>5. loaded \subseteq {e}
    BY <1>1, <2>1 DEF Objects
  <2>6. senders'[f[e]][k[2]] = IF loaded = {} THEN None ELSE d
    BY <2>4, <2>5
  <2>7. db[k] # None => {k2 \in KeysOf(e) : db[k2] # None} # {} /\ loaded # {}
    BY <2>1
  <2> HIDE DEF e, d, loaded
  <2>8. Dumped(k)' = db'[k]
    BY <2>1, <2>2, <2>3, <2>7, MempoolAssumption DEF Dumped, e
  <2>9. Listed(k)' = db'[k]
    BY <2>1, <2>2, <2>3, <2>6, <2>7, MempoolAssumption DEF Listed, e
  <2> QED
    BY <2>8, <2>9
<1>4. QED
  BY <1>2, <1>3 DEF AgreeUnlessRaced

\* No step of the code separates the stores under a key that one call at a
\* time has changed: the inductive step behind AgreementCorrect.
LEMMA AloneNext == Typed /\ Alone /\ AgreeUnlessRaced /\ [Next]_vars
                        => Alone' /\ AgreeUnlessRaced'
<1> SUFFICES ASSUME Typed, Alone, AgreeUnlessRaced, [Next]_vars
             PROVE  Alone' /\ AgreeUnlessRaced'
  OBVIOUS
<1> USE DEF Typed, TypeOK, Threads
<1>1. ASSUME NEW t \in Clients, NEW e \in EntryPoints, NEW o \in Ops, SendUserOperation(t, e, o)
      PROVE  Alone' /\ AgreeUnlessRaced'
  <2>1. UNCHANGED <<store, raced>> /\ \A u \in Threads \ {t} : Still(u)
    BY <1>1 DEF SendUserOperation, Goto, Still, store
  <2>2. \A k \in Keys : ~ Mutating(t, k) /\ ~ Mutating(t, k)'
    BY <1>1 DEF SendUserOperation, Goto, Mutating
  <2>3. QED
    BY <2>1, <2>2, QuietStep
<1>2. ASSUME NEW t \in Bundlers, NEW e \in EntryPoints, Process(t, e)
      PROVE  Alone' /\ AgreeUnlessRaced'
  <2>1. UNCHANGED <<store, raced>> /\ \A u \in Threads \ {t} : Still(u)
    BY <1>2 DEF Process, Goto, Still, store
  <2>2. \A k \in Keys : ~ Mutating(t, k) /\ ~ Mutating(t, k)'
    BY <1>2 DEF Process, Goto, Mutating
  <2>3. QED
    BY <2>1, <2>2, QuietStep
<1>3. ASSUME NEW t \in Clients, GetOps(t) PROVE Alone' /\ AgreeUnlessRaced'
  <2>1. UNCHANGED <<store, raced>> /\ \A u \in Threads \ {t} : Still(u)
    BY <1>3 DEF GetOps, Goto, Still, store
  <2>2. \A k \in Keys : ~ Mutating(t, k) /\ ~ Mutating(t, k)'
    BY <1>3 DEF GetOps, Goto, Mutating
  <2>3. QED
    BY <2>1, <2>2, QuietStep
<1>4. ASSUME NEW t \in Bundlers, Dump(t) PROVE Alone' /\ AgreeUnlessRaced'
  <2>1. UNCHANGED <<store, raced>> /\ \A u \in Threads \ {t} : Still(u)
    BY <1>4 DEF Dump, Goto, Still, store
  <2>2. \A k \in Keys : ~ Mutating(t, k) /\ ~ Mutating(t, k)'
    BY <1>4 DEF Dump, Goto, Mutating
  <2>3. QED
    BY <2>1, <2>2, QuietStep
<1>5. ASSUME NEW t \in Threads, Return(t), UNCHANGED <<store, raced>>,
             \A k \in Keys : ~ Mutating(t, k)
      PROVE  Alone' /\ AgreeUnlessRaced'
  <2>1. \A u \in Threads \ {t} : Still(u)
    BY <1>5 DEF Return, Goto, Still
  <2>2. \A k \in Keys : ~ Mutating(t, k)'
    BY <1>5 DEF Return, Goto, Mutating
  <2>3. QED
    BY <2>1, <2>2, <1>5, QuietStep
<1>6. ASSUME NEW t \in Threads, Rejected(t) \/ RunFailed(t) \/ TxnFailed(t) \/ RemoveOpsDone(t)
      PROVE  Alone' /\ AgreeUnlessRaced'
  <2>1. \A k \in Keys : ~ Mutating(t, k)
    BY <1>6 DEF Rejected, RunFailed, TxnFailed, RemoveOpsDone, Mutating
  <2>2. Return(t) /\ UNCHANGED <<store, raced>>
    BY <1>6 DEF Rejected, RunFailed, TxnFailed, RemoveOpsDone
  <2>3. QED
    BY <2>1, <2>2, <1>5
<1>7. ASSUME NEW t \in Clients, AddOpDB(t) PROVE Alone' /\ AgreeUnlessRaced'
  <2>1. t \in Threads /\ todo[t] = {key[t]}
    BY <1>7 DEF AddOpDB, Local
  <2>2. db' = [k \in Keys |-> IF k \in todo[t]
                              THEN IF call[t] = "add" THEN op[t] ELSE None
                              ELSE db[k]]
    BY <1>7, <2>1 DEF AddOpDB
  <2>3. /\ step[t] = "db" /\ call[t] = "add"
        /\ raced' = raced \union (todo[t] \intersect OthersMutating(t))
        /\ Goto(t, call[t], "load")
        /\ UNCHANGED <<queue, all, senders, sorted, op, todo, key, ref, sss, live>>
    BY <1>7 DEF AddOpDB
  <2>4. QED
    BY <2>1, <2>2, <2>3, DBStep
<1>8. ASSUME NEW t \in Bundlers, RemoveOpsDB(t) PROVE Alone' /\ AgreeUnlessRaced'
  <2>1. db' = [k \in Keys |-> IF k \in todo[t]
                              THEN IF call[t] = "add" THEN op[t] ELSE None
                              ELSE db[k]]
    BY <1>8 DEF RemoveOpsDB
  <2>2. /\ step[t] = "db" /\ call[t] = "rm"
        /\ raced' = raced \union (todo[t] \intersect OthersMutating(t))
        /\ Goto(t, call[t], "load")
        /\ UNCHANGED <<queue, all, senders, sorted, op, todo, key, ref, sss, live>>
    BY <1>8 DEF RemoveOpsDB
  <2>3. QED
    BY <2>1, <2>2, DBStep
<1>9. ASSUME NEW t \in Clients, AddOpAll(t) PROVE Alone' /\ AgreeUnlessRaced'
  BY <1>9, AllStep DEF AddOpAll
<1>10. ASSUME NEW t \in Bundlers, RemoveOpsAll(t) PROVE Alone' /\ AgreeUnlessRaced'
  BY <1>10, AllStep DEF RemoveOpsAll
<1>11. ASSUME NEW t \in Clients, AddOpSender(t) PROVE Alone' /\ AgreeUnlessRaced'
  <2>1. \A u \in Threads \ {t} : Still(u)
    BY <1>11 DEF AddOpSender, Return, Goto, Still
  <2>2. \A k \in Keys : ~ Mutating(t, k)' /\ (Mutating(t, k) => k = key[t])
    BY <1>11 DEF AddOpSender, Return, Goto, Mutating, Local
  <2>3. QED
    BY <1>11, <2>1, <2>2, SenderStep DEF AddOpSender
<1>12. ASSUME NEW t \in Bundlers, RemoveOpsSender(t) PROVE Alone' /\ AgreeUnlessRaced'
  <2>1. \A u \in Threads \ {t} : Still(u)
    BY <1>12 DEF RemoveOpsSender, NextOp, Goto, Still
  <2>2. \A k \in Keys : Mutating(t, k)' <=> Mutating(t, k) /\ k # key[t]
    BY <1>12 DEF RemoveOpsSender, NextOp, Goto, Mutating
  <2>3. call'[t] = "rm" /\ call[t] = "rm" /\ step'[t] = "sender" /\ ref'[t] = ref[t]
    BY <1>12 DEF RemoveOpsSender, NextOp, Goto
  <2>4. QED
    BY <1>12, <2>1, <2>2, <2>3, SenderStep DEF RemoveOpsSender
<1>13. CASE UNCHANGED vars
  <2>1. Alone'
    BY <1>13 DEF vars, store, thread, Alone, InFlight, Mutating
  <2>2. AgreeUnlessRaced'
    BY <1>13 DEF vars, store, thread, Mutating, AgreeUnlessRaced, Dumped, Listed
  <2> QED
    BY <2>1, <2>2
<1>14. QED
  BY <1>1, <1>2, <1>3, <1>4, <1>6, <1>7, <1>8, <1>9, <1>10, <1>11, <1>12, <1>13,
     LoadSetStep, StoreSetStep, FetchSenderStep, MakeSenderStep, ClearDBStep, ClearQueueStep, RestartStep
  DEF Next, ClientStep, BundlerStep, AnyStep

\* Memory and disk agree under every key but the raced ones, however many
\* handlers, runs, EntryPoints and restarts there are: overlapping calls on
\* one key and overlapping first uses of an EntryPoint or of a sender
\* (queue.go:16-37) are the only ways to divergence.
THEOREM AgreementCorrect == Spec => []AgreeUnlessRaced
<1>1. Init => IInv
  BY TypedInit, AloneInit DEF IInv
<1>2. IInv /\ [Next]_vars => IInv'
  BY TypedNext, AloneNext DEF IInv
<1>3. IInv => AgreeUnlessRaced
  BY DEF IInv
<1>4. QED
  BY <1>1, <1>2, <1>3, PTL DEF Spec
-----------------------------------------------------------------------------
(* Replacements, while one goroutine serves eth_sendUserOperation.         *)

OneClient == \A a, b \in Clients : a = b

\* Only clients add, only runs remove.
Roles == \A u \in Bundlers : call[u] \in {"none", "dump", "rm"}

\* GetOps reads the sets that the queue holds, and an op on its way to the DB
\* pays enough to replace what is there under its key, if anything still is.
Outbids(c) ==
    /\ call[c] = "get" =>
            /\ step[c] \in {"load", "store", "sender", "make", "use"}
            /\ step[c] = "store" => live[c]
            /\ key[c] \notin raced =>
                 /\ step[c] \in {"sender", "make", "use"} => queue[ep[c]] = ref[c]
                 /\ step[c] = "use" => sss[c] = senders[ref[c]][key[c][2]]
    /\ call[c] = "add" /\ step[c] = "db" /\ key[c] \notin raced =>
            db[key[c]] = None \/ op[c].fee >= NewThreshold(db[key[c]].fee)

OutbidInv == IInv /\ Roles /\ \A c \in Clients : Outbids(c)

\* client.go:107 and bundler.go:126: a handler never removes, a run never adds.
LEMMA RolesStep == Typed /\ Roles /\ [Next]_vars => Roles'
<1> SUFFICES ASSUME Typed, Roles, [Next]_vars, NEW u \in Bundlers
             PROVE  call'[u] \in {"none", "dump", "rm"}
  BY DEF Roles
<1> USE MempoolAssumption DEF Typed, TypeOK, Roles, Threads, Goto
<1>1. ASSUME NEW t \in Threads, AnyStep(t) PROVE call'[u] \in {"none", "dump", "rm"}
  <2>1. call' = [call EXCEPT ![t] = call[t]] \/ call' = [call EXCEPT ![t] = "none"]
    BY <1>1 DEF AnyStep, LoadSet, StoreSet, FetchSender, MakeSender, TxnFailed, Return
  <2> QED
    BY <2>1
<1>2. ASSUME NEW t \in Clients, ClientStep(t) PROVE call'[u] \in {"none", "dump", "rm"}
  <2>1. u # t
    OBVIOUS
  <2>2. \E c : call' = [call EXCEPT ![t] = c]
    BY <1>2 DEF ClientStep, SendUserOperation, GetOps, Rejected, Return, AddOpDB, AddOpAll,
                AddOpSender, ClearDB, ClearQueue
  <2> QED
    BY <2>1, <2>2
<1>3. ASSUME NEW t \in Bundlers, BundlerStep(t) PROVE call'[u] \in {"none", "dump", "rm"}
  <2>1. \E c \in {"none", "dump", "rm"} : call' = [call EXCEPT ![t] = c]
    BY <1>3 DEF BundlerStep, Process, Dump, RunFailed, Return, RemoveOpsDB, RemoveOpsAll,
                RemoveOpsSender, NextOp, RemoveOpsDone
  <2> QED
    BY <2>1
<1>4. CASE Restart
  BY <1>4 DEF Restart
<1>5. CASE UNCHANGED vars
  BY <1>5 DEF vars, thread
<1> QED
  BY <1>1, <1>2, <1>3, <1>4, <1>5 DEF Next

\* What c has in hand does not change.
InHand(c) == UNCHANGED <<call[c], step[c], ep[c], op[c], key[c], ref[c], sss[c], live[c]>>

\* What others do between a client's checks and its write (client.go:130-144):
\* entries are removed, and more keys are raced.
LEMMA OutbidsAside ==
  ASSUME NEW c \in Clients, Typed, Outbids(c), InHand(c),
         raced \subseteq raced', \A k \in Keys : db'[k] \in {db[k], None},
         UNCHANGED <<queue, senders>>
  PROVE  Outbids(c)'
<1>1. call[c] = "add" => key[c] \in Keys
  BY KeyOfType DEF Typed, Local, Threads
<1> QED
  BY <1>1 DEF Outbids, InHand

\* client.go:130 and pendingops.go:30-66: what the checks compare the op with is
\* what the DB holds under its key, or that is being removed.
LEMMA GetOpsOutbids ==
  ASSUME NEW c \in Clients, IInv, Roles, OneClient, Outbids(c), GetOps(c)
  PROVE  Outbids(c)'
<1> DEFINE k == key[c]
<1>1. c \in Threads /\ op[c] \in Ops /\ ref[c] \in SetIds /\ sss[c] \in SortedIds
      /\ k = KeyOf(ep[c], op[c]) /\ ep[c] \in EntryPoints
  BY DEF GetOps, IInv, Typed, Local, Threads
<1>2. k \in Keys /\ k[1] = ep[c] /\ k[2] = op[c].sender
  BY <1>1, KeyOfType DEF KeyOf
<1>3. call'[c] = "add" /\ step'[c] = "db" /\ UNCHANGED <<key, op, raced, db>>
  BY <1>1 DEF GetOps, Goto, IInv, Typed, TypeOK, store
<1>4. ASSUME k \notin raced, db[k] # None PROVE op[c].fee >= NewThreshold(db[k].fee)
  <2>1. queue[k[1]] = ref[c] /\ senders[ref[c]][k[2]] = sss[c]
    BY <1>2, <1>4 DEF GetOps, Outbids
  <2>2. ASSUME NEW u \in Threads PROVE ~ Mutating(u, k)
    <3>1. CASE u \in Clients
      <4>1. u = c
        BY <3>1 DEF OneClient
      <4> QED
        BY <4>1 DEF GetOps, Mutating
    <3>2. CASE u \in Bundlers
      <4>1. InFlight(u, k)
        BY <1>2, <1>4 DEF IInv, Alone
      <4>2. call[u] # "add"
        BY <3>2 DEF Roles
      <4> QED
        BY <4>1, <4>2, <1>4 DEF InFlight
    <3> QED
      BY <3>1, <3>2 DEF Threads
  <2>3. sorted[sss[c]][k] = db[k]
    <3>1. Listed(k) = db[k]
      BY <1>2, <1>4, <2>2 DEF IInv, AgreeUnlessRaced
    <3> QED
      BY <3>1, <2>1, <1>4 DEF Listed
  <2> QED
    BY <2>3, <1>2, <1>4 DEF GetOps, ValidatePendingOps
<1> HIDE DEF k
<1> QED
  BY <1>3, <1>4 DEF Outbids, k

\* queue.go:29-37: a client that stores a set is in the queue with it, and who
\* replaces the set of another races.
LEMMA StoreSetOutbids ==
  ASSUME NEW c \in Clients, Typed, Outbids(c), NEW t \in Threads, StoreSet(t)
  PROVE  Outbids(c)'
<1> USE DEF Typed, TypeOK, Threads
<1>1. PICK s \in SetIds :
        /\ ~ Referenced(s)
        /\ ref' = [ref EXCEPT ![t] = s]
        /\ senders' = [senders EXCEPT ![s] = NoSenders]
        /\ queue' = IF live[t] THEN [queue EXCEPT ![ep[t]] = s] ELSE queue
  BY DEF StoreSet
<1>2. /\ step[t] = "store" /\ call' = call /\ step' = [step EXCEPT ![t] = UseSet(call[t])]
      /\ raced' = IF live[t] /\ queue[ep[t]] # None THEN raced \union KeysOf(ep[t]) ELSE raced
      /\ UNCHANGED <<db, ep, op, todo, key, sss, live>>
  BY DEF StoreSet, Goto
<1>3. ep[t] \in EntryPoints
  BY <1>2 DEF Local
<1>4. CASE t = c
  BY <1>1, <1>2, <1>3, <1>4 DEF Outbids, UseSet
<1>5. CASE t # c
  <2>1. InHand(c) /\ raced \subseteq raced'
    BY <1>1, <1>2, <1>5 DEF InHand
  <2>2. ASSUME call[c] = "get", step[c] \in {"sender", "make", "use"}, key[c] \notin raced'
        PROVE  queue'[ep[c]] = ref[c] /\ senders'[ref[c]] = senders[ref[c]]
    <3>1. ref[c] \in SetIds /\ ref[c] # s /\ queue[ep[c]] = ref[c]
      BY <2>1, <2>2, <1>1 DEF Outbids, Local, Referenced
    <3>2. key[c] \in KeysOf(ep[c])
      BY <2>2, CallKeys
    <3>3. live[t] => ep[t] # ep[c]
      BY <2>2, <3>1, <3>2, <1>2, MempoolAssumption
    <3> QED
      BY <3>1, <3>3, <1>1, <1>3
  <2>3. call[c] = "add" => key[c] \in Keys
    BY CallKeys DEF KeysOf
  <2> QED
    BY <2>1, <2>2, <2>3, <1>2 DEF Outbids, InHand
<1> QED
  BY <1>4, <1>5

\* queue.go:16-22: who replaces the sorted set of another races.
LEMMA MakeSenderOutbids ==
  ASSUME NEW c \in Clients, Typed, Outbids(c), NEW t \in Threads, MakeSender(t)
  PROVE  Outbids(c)'
<1> USE DEF Typed, TypeOK, Threads
<1> DEFINE x == key[t][2]
<1>1. PICK d \in SortedIds : senders' = [senders EXCEPT ![ref[t]][x] = d]
  BY DEF MakeSender
<1>2. /\ step[t] = "make" /\ call' = call /\ step' = [step EXCEPT ![t] = "sender"]
      /\ raced \subseteq raced' /\ UNCHANGED <<db, queue, ep, op, key, ref, sss, live>>
  BY DEF MakeSender, Goto
<1>3. CASE t = c
  BY <1>2, <1>3 DEF Outbids
<1>4. CASE t # c
  <2>1. InHand(c)
    BY <1>2, <1>4 DEF InHand
  <2> HIDE DEF x
  <2>2. ASSUME call[c] = "get", step[c] = "use", key[c] \notin raced'
        PROVE  senders'[ref[c]][key[c][2]] = senders[ref[c]][key[c][2]]
    <3>1. /\ key[c] \in Keys /\ key[c][1] = ep[c] /\ queue[ep[c]] = ref[c] /\ ref[c] \in SetIds
          /\ senders[ref[c]][key[c][2]] = sss[c] /\ sss[c] # None
      BY <2>2, <1>2, CallKeys, MempoolAssumption DEF Outbids, Local, KeysOf
    <3>2. ~ (ref[t] = ref[c] /\ x = key[c][2])
      BY <2>2, <3>1 DEF MakeSender, x
    <3>3. ref[t] \in SetIds /\ x \in Senders /\ key[c][2] \in Senders
      BY <1>2, <3>1, MadeFor DEF Keys, x
    <3>4. key[c][2] # x \/ ref[c] # ref[t]
      BY <3>2
    <3> QED
      BY <3>1, <3>3, <3>4, <1>1
  <2>3. call[c] = "add" => key[c] \in Keys
    BY CallKeys DEF KeysOf
  <2> QED
    BY <2>1, <2>2, <2>3, <1>2 DEF Outbids, InHand
<1> QED
  BY <1>3, <1>4

\* Whatever the other goroutines do, what a client checked holds when it writes.
LEMMA OutbidsStep ==
  ASSUME NEW c \in Clients, IInv, Roles, OneClient, Outbids(c), [Next]_vars
  PROVE  Outbids(c)'
<1> USE MempoolAssumption DEF IInv, Typed, TypeOK, Threads
<1>1. ASSUME NEW t \in Threads, AnyStep(t) PROVE Outbids(c)'
  <2>1. CASE LoadSet(t)
    <3>1. CASE t = c
      BY <2>1, <3>1 DEF LoadSet, UseSet, Goto, Outbids, Local, store
    <3>2. CASE t # c
      BY <2>1, <3>2 DEF LoadSet, Goto, Outbids, store
    <3> QED
      BY <3>1, <3>2
  <2>2. CASE StoreSet(t)
    BY <2>2, StoreSetOutbids
  <2>3. CASE FetchSender(t)
    <3>1. CASE t = c
      <4>1. call[c] = "get" => sss'[c] = senders[ref[c]][key[c][2]] /\ key'[c] = key[c]
        BY <2>3, <3>1 DEF FetchSender, Current
      <4> QED
        BY <2>3, <3>1, <4>1 DEF FetchSender, Goto, Outbids, store
    <3>2. CASE t # c
      BY <2>3, <3>2 DEF FetchSender, Goto, Outbids, store
    <3> QED
      BY <3>1, <3>2
  <2>4. CASE MakeSender(t)
    BY <2>4, MakeSenderOutbids
  <2>5. CASE TxnFailed(t)
    BY <2>5 DEF TxnFailed, Return, Goto, Outbids, store
  <2> QED
    BY <1>1, <2>1, <2>2, <2>3, <2>4, <2>5 DEF AnyStep
<1>2. ASSUME NEW t \in Clients, ClientStep(t) PROVE Outbids(c)'
  <2>1. t = c
    BY DEF OneClient
  <2>2. CASE GetOps(c)
    BY <2>2, GetOpsOutbids
  <2>3. CASE \E e \in EntryPoints, o \in Ops : SendUserOperation(c, e, o)
    BY <2>3 DEF SendUserOperation, Goto, Outbids
  <2>4. CASE Rejected(c) \/ AddOpSender(c)
    BY <2>4 DEF Rejected, AddOpSender, Return, Goto, Outbids
  <2>5. CASE AddOpDB(c) \/ AddOpAll(c)
    BY <2>5 DEF AddOpDB, AddOpAll, Goto, Outbids
  <2>6. CASE ClearDB(c) \/ ClearQueue(c)
    BY <2>6 DEF ClearDB, ClearQueue, Goto, Outbids
  <2> QED
    BY <1>2, <2>1, <2>2, <2>3, <2>4, <2>5, <2>6 DEF ClientStep
<1>3. ASSUME NEW t \in Bundlers, BundlerStep(t) PROVE Outbids(c)'
  <2>1. c # t
    OBVIOUS
  <2>2. CASE RemoveOpsDB(t)
    <3>1. /\ InHand(c) /\ UNCHANGED <<queue, senders>>
          /\ raced \subseteq raced' /\ \A k \in Keys : db'[k] \in {db[k], None}
      BY <2>1, <2>2 DEF RemoveOpsDB, Goto, InHand
    <3> QED
      BY <3>1, OutbidsAside
  <2>3. CASE ~ RemoveOpsDB(t)
    <3>1. InHand(c) /\ UNCHANGED <<raced, db, queue, senders>>
      BY <1>3, <2>1, <2>3 DEF BundlerStep, Process, Dump, RunFailed, RemoveOpsAll, RemoveOpsSender,
                              NextOp, RemoveOpsDone, Return, Goto, InHand, store
    <3> QED
      BY <3>1, OutbidsAside
  <2> QED
    BY <2>2, <2>3
<1>4. CASE Restart
  BY <1>4 DEF Restart, Outbids
<1>5. CASE UNCHANGED vars
  BY <1>5 DEF vars, store, thread, Outbids
<1> QED
  BY <1>1, <1>2, <1>3, <1>4, <1>5 DEF Next

\* A fee that passes the threshold of NewThreshold (pendingops.go:17-23) pays a
\* tenth more, in whole numbers.
LEMMA ThresholdPays ==
  ASSUME NEW old \in Nat, NEW new \in Nat, new >= NewThreshold(old)
  PROVE  PaysATenthMore(new, old)
<1>1. 100 * NewThreshold(old) <= 110 * old /\ 110 * old < 100 * (NewThreshold(old) + 1)
      /\ NewThreshold(old) \in Nat
  BY DEF NewThreshold
<1> QED
  BY <1>1 DEF PaysATenthMore

\* client.go:130 and :144: while one goroutine at a time serves
\* eth_sendUserOperation, a replacement pays a tenth more than the op that it
\* replaces, however many runs remove ops between the check and the write and
\* whatever sets they store over others (ReplacementBumpsFee).
THEOREM ReplacementsPay == OneClient => (Spec => ReplacementBumpsFee)
<1> SUFFICES ASSUME OneClient PROVE Spec => ReplacementBumpsFee
  OBVIOUS
<1> DEFINE Pays == \A k \in Keys \ raced :
                     db[k] # None /\ db'[k] # None /\ db'[k] # db[k]
                        => PaysATenthMore(db'[k].fee, db[k].fee)
<1>1. Init => OutbidInv
  <2>1. Init => IInv
    BY TypedInit, AloneInit DEF IInv
  <2> QED
    BY <2>1 DEF OutbidInv, Init, Roles, Outbids, Threads
<1>2. OutbidInv /\ [Next]_vars => OutbidInv'
  BY TypedNext, AloneNext, RolesStep, OutbidsStep DEF OutbidInv, IInv
<1>3. OutbidInv /\ [Next]_vars => [Pays]_vars
  <2> SUFFICES ASSUME OutbidInv, [Next]_vars, NEW k \in Keys \ raced,
                      db[k] # None, db'[k] # None, db'[k] # db[k]
               PROVE  PaysATenthMore(db'[k].fee, db[k].fee)
    OBVIOUS
  <2> USE DEF OutbidInv, IInv, Typed, TypeOK, Threads
  <2>1. PICK c \in Clients : AddOpDB(c)
    <3>1. ASSUME NEW t \in Threads, AnyStep(t) PROVE db' = db
      BY <3>1 DEF AnyStep, LoadSet, StoreSet, FetchSender, MakeSender, TxnFailed, store
    <3>2. ASSUME NEW t \in Clients, ClientStep(t)
          PROVE  AddOpDB(t) \/ ClearDB(t) \/ db' = db
      BY <3>2 DEF ClientStep, SendUserOperation, GetOps, Rejected, AddOpAll, AddOpSender, ClearQueue,
                  store
    <3>3. ASSUME NEW t \in Bundlers, BundlerStep(t) PROVE RemoveOpsDB(t) \/ db' = db
      BY <3>3 DEF BundlerStep, Process, Dump, RunFailed, RemoveOpsAll, RemoveOpsSender,
                  RemoveOpsDone, store
    <3>4. ASSUME NEW t \in Threads, ClearDB(t) \/ RemoveOpsDB(t) PROVE db'[k] \in {db[k], None}
      BY <3>4 DEF ClearDB, RemoveOpsDB, Empty
    <3>5. Restart \/ UNCHANGED vars => db' = db
      BY DEF Restart, LoadFromDisk, vars, store
    <3> QED
      BY <3>1, <3>2, <3>3, <3>4, <3>5 DEF Next
  <2>2. k = key[c] /\ db'[k] = op[c]
    BY <2>1 DEF AddOpDB, Local
  <2>3. db'[k].fee >= NewThreshold(db[k].fee)
    BY <2>1, <2>2 DEF AddOpDB, Outbids
  <2>4. db[k] \in Ops /\ op[c] \in Ops
    BY <2>1 DEF AddOpDB, Local
  <2> QED
    BY <2>2, <2>3, <2>4, MempoolAssumption, ThresholdPays DEF Ops
<1> HIDE DEF Pays
<1>4. Spec => [][Pays]_vars
  BY <1>1, <1>2, <1>3, PTL DEF Spec
<1> QED
  BY <1>4 DEF ReplacementBumpsFee, Pays
=============================================================================
