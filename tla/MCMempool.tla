------------------------------ MODULE MCMempool ------------------------------
(* Small instances of Mempool for TLC. *)
EXTENDS Mempool, TLC, SequencesExt

CONSTANTS e1, e2, s1, s2

\* The keys in the byte order of their EntryPoint, sender and nonce.
KeyLess(a, b) ==
    LET r(x) == CASE x \in {e1, s1} -> 1 [] x \in {e2, s2} -> 2
    IN  \/ r(a[1]) < r(b[1])
        \/ r(a[1]) = r(b[1]) /\ r(a[2]) < r(b[2])
        \/ r(a[1]) = r(b[1]) /\ r(a[2]) = r(b[2]) /\ a[3] < b[3]

MCKeyRank == [k \in Keys |-> Cardinality({k2 \in Keys : KeyLess(k2, k)})]

\* An object of the heap is known by who refers to it: the queue or a thread to
\* a `set', a `set' or a thread to a sorted set.  An object nothing refers to is
\* garbage.  Scores order Dump's result and influence no state.
SetUsers(s)    == <<{e \in EntryPoints : queue[e] = s}, {t \in Threads : ref[t] = s}>>
Sets           == {s \in SetIds : Referenced(s)}
SortedUsers(d) ==
    <<{<<SetUsers(s), x>> : <<s, x>> \in {p \in Sets \X Senders : senders[p[1]][p[2]] = d}},
      {t \in Threads : sss[t] = d}>>

Heap == <<{<<SetUsers(s), all[s]>> : s \in Sets},
          {<<SortedUsers(d), sorted[d]>> : d \in {d \in SortedIds : InUse(d)}}>>

\* TypeOK is one value in every state: it makes TLC evaluate what the view leaves out.
NoGarbage == <<db, Heap, call, step, ep, op, todo, key, live, raced, TypeOK>>

Symmetry == Permutations(Clients)
=============================================================================
