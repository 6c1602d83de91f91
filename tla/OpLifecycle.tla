----------------------------- MODULE OpLifecycle -----------------------------
(***************************************************************************)
(* What the bundler promises of a UserOperation, whatever runs, crashes,   *)
(* timeouts and races it takes: a pending op is taken into batches, sent   *)
(* from a batch only, included at most once per sender and nonce, and not  *)
(* forgotten before a batch has held an op of its key.                     *)
(***************************************************************************)
CONSTANTS
    Ops         \* UserOperations: records with a sender and a nonce

VARIABLES
    pending,    \* ops the mempool keeps
    taken,      \* ops that some run of the bundler holds
    sent,       \* ops that some handleOps transaction carries
    included    \* ops of the transactions that succeeded

vars == <<pending, taken, sent, included>>

SameKey(o, p) == o.sender = p.sender /\ o.nonce = p.nonce

OneOfAKey(S) == \A o, p \in S : SameKey(o, p) => o = p

Init == pending = {} /\ taken = {} /\ sent = {} /\ included = {}

\* A new op takes the place of the op of its key.
Accept(o) ==
    /\ pending' = {p \in pending : ~ SameKey(o, p)} \union {o}
    /\ UNCHANGED <<taken, sent, included>>

\* A run takes ops out of the pool, where they stay.
Take ==
    /\ taken \subseteq taken' /\ taken' \ taken \subseteq pending
    /\ UNCHANGED <<pending, sent, included>>

\* A run sends some of what is held.
Send ==
    /\ sent \subseteq sent' /\ sent' \ sent \subseteq taken
    /\ UNCHANGED <<pending, taken, included>>

\* The chain includes ops that were sent, of new keys.
Include ==
    /\ included \subseteq included' /\ included' \subseteq sent
    /\ OneOfAKey(included')
    /\ UNCHANGED <<pending, taken, sent>>

\* A run lets go of ops; what leaves the pool has a key that was held.
Release ==
    /\ taken' \subseteq taken /\ pending' \subseteq pending
    /\ \A o \in pending \ pending' : \E p \in taken : SameKey(o, p)
    /\ UNCHANGED <<sent, included>>

Next == (\E o \in Ops : Accept(o)) \/ Take \/ Send \/ Include \/ Release

Spec == Init /\ [][Next]_vars
-----------------------------------------------------------------------------
(* Properties *)

\* One op per sender and nonce is pending, and one at most is included: no
\* user pays twice for a nonce (mempool/db.go:17 keys the pool by it).
OncePerKey == OneOfAKey(pending) /\ OneOfAKey(included)

\* What the chain includes it got from the bundler: the sent ops only grow.
IncludedWereSent == included \subseteq sent
=============================================================================
