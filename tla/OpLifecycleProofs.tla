-------------------------- MODULE OpLifecycleProofs --------------------------
(* The promise of OpLifecycle, for any set of ops. *)
EXTENDS OpLifecycle, TLAPS

Inv == OncePerKey /\ IncludedWereSent

LEMMA InitInv == Init => Inv
BY DEF Init, Inv, OncePerKey, IncludedWereSent, OneOfAKey

\* A replaced op leaves no other of its key behind, and everything but Include
\* leaves what is included alone.
LEMMA NextInv == Inv /\ [Next]_vars => Inv'
<1> SUFFICES ASSUME Inv, [Next]_vars PROVE Inv'
  OBVIOUS
<1> USE DEF Inv, OncePerKey, IncludedWereSent, OneOfAKey
<1>1. ASSUME NEW o \in Ops, Accept(o) PROVE Inv'
  <2>1. ASSUME NEW p \in pending', NEW q \in pending', SameKey(p, q)
        PROVE  p = q
    BY <1>1, <2>1 DEF Accept, SameKey
  <2> QED
    BY <1>1, <2>1 DEF Accept
<1>2. CASE Take
  BY <1>2 DEF Take
<1>3. CASE Send
  BY <1>3 DEF Send
<1>4. CASE Include
  BY <1>4 DEF Include
<1>5. CASE Release
  BY <1>5 DEF Release
<1>6. CASE UNCHANGED vars
  BY <1>6 DEF vars
<1> QED
  BY <1>1, <1>2, <1>3, <1>4, <1>5, <1>6 DEF Next

\* At most one op of a sender and nonce is pending, and at most one is ever
\* included: what Bundler, and so the bundler, gets from implementing
\* OpLifecycle (ImplementsLifecycle).
THEOREM Promise == Spec => [](OncePerKey /\ IncludedWereSent)
<1>1. Spec => []Inv
  BY InitInv, NextInv, PTL DEF Spec
<1> QED
  BY <1>1, PTL DEF Inv
=============================================================================
