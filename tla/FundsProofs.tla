---------------------------- MODULE FundsProofs ----------------------------
(***************************************************************************)
(* Players' money outside the table, for any number of users, withdrawals, *)
(* deposits and faults, any bracket and any club war.                      *)
(*                                                                         *)
(* Withdrawals.  A withdrawal comes out once, a rejected one came back,    *)
(* and the caps on automatic payouts hold.  PaidOnce is not inductive: it  *)
(* does not say where a payout call may be when the provider has, or has   *)
(* not, taken the request in; Tracked adds that.  CapsHold is not          *)
(* inductive either: the totals a route compares are read before it        *)
(* claims, and CapsInv says that they still leave room for the claim.      *)
(*                                                                         *)
(* Deposits (WalletInv).  A deposit is credited once and limits read       *)
(* before the money moves hold when it has moved, because two capped       *)
(* deposits of one user are never being committed at once.                 *)
(*                                                                         *)
(* Tournaments (CupInv) and club wars (WarInv).  A pool leaves the escrow  *)
(* once, as prizes or as refunds, because a refund or a settlement that is *)
(* under way, or was cut short, is the only one the row allows.            *)
(***************************************************************************)
EXTENDS Withdrawals, MCPools, FiniteSetTheorems, TLAPS

-----------------------------------------------------------------------------
(* Adding up.  Induction over finite sets by a least counterexample: the   *)
(* proper-subset relation is well founded on them.                         *)

\* Among the subsets of a finite set some are least.
LEMMA LeastSubset ==
  ASSUME NEW X, IsFiniteSet(X), NEW B \in SUBSET SUBSET X, B # {}
  PROVE  \E T \in B : \A U \in B : U \subseteq T => U = T
<1>1. IsWellFoundedOn(StrictSubsetOrdering(X), FiniteSubsetsOf(X))
  BY FS_StrictSubsetOrderingWellFounded
<1>2. B \subseteq FiniteSubsetsOf(X)
  BY FS_Subset DEF FiniteSubsetsOf
<1>3. PICK T \in B : \A U \in B : <<U, T>> \notin StrictSubsetOrdering(X)
  BY <1>1, <1>2, WFMin
<1> QED BY <1>3 DEF StrictSubsetOrdering

Pick(S) == CHOOSE w \in S : TRUE

\* g adds up f over the subsets of T.
Adds(f, g, T) ==
    g = [s \in SUBSET T |-> IF s = {} THEN 0 ELSE f[Pick(s)] + g[s \ {Pick(s)}]]

\* What a summing function returns for a non-empty set.
LEMMA AddsApart ==
  ASSUME NEW f, NEW g, NEW T, Adds(f, g, T), NEW s \in SUBSET T
  PROVE  g[s] = IF s = {} THEN 0 ELSE f[Pick(s)] + g[s \ {Pick(s)}]
BY DEF Adds

\* The sum does not depend on the function that computes it.
LEMMA AddsUnique ==
  ASSUME NEW X, IsFiniteSet(X), NEW f, NEW T \in SUBSET X, NEW U \in SUBSET X, NEW g, NEW h,
         Adds(f, g, T), Adds(f, h, U), NEW s \in SUBSET (T \cap U)
  PROVE  g[s] = h[s]
<1> DEFINE B == {r \in SUBSET (T \cap U) : g[r] # h[r]}
<1> SUFFICES ASSUME B # {} PROVE FALSE
  OBVIOUS
<1>1. PICK r \in B : \A q \in B : q \subseteq r => q = r
  <2>1. B \in SUBSET SUBSET X
    OBVIOUS
  <2> HIDE DEF B
  <2> QED BY <2>1, LeastSubset
<1>2. r # {}
  BY AddsApart
<1>3. Pick(r) \in r
  BY <1>2 DEF Pick
<1>4. g[r \ {Pick(r)}] = h[r \ {Pick(r)}]
  BY <1>1, <1>3
<1>5. g[r] = h[r]
  BY <1>2, <1>4, AddsApart
<1> QED BY <1>5

\* The sum of a part is the same within the whole.
LEMMA AddsPart ==
  ASSUME NEW X, IsFiniteSet(X), NEW f, NEW h, Adds(f, h, X), NEW T \in SUBSET X, NEW g, Adds(f, g, T)
  PROVE  g[T] = h[T]
<1>1. X \in SUBSET X /\ T \in SUBSET (T \cap X)
  OBVIOUS
<1>2. \A s \in SUBSET (T \cap X) : g[s] = h[s]
  BY <1>1, AddsUnique
<1> QED BY <1>1, <1>2

\* Some function adds up every finite set: there is no least set without.
LEMMA AddsExists ==
  ASSUME NEW X, IsFiniteSet(X), NEW f
  PROVE  \E g : Adds(f, g, X)
<1> DEFINE B == {r \in SUBSET X : ~\E g : Adds(f, g, r)}
<1> SUFFICES ASSUME B # {} PROVE FALSE
  OBVIOUS
<1>1. PICK T \in B : \A q \in B : q \subseteq T => q = T
  <2>1. B \in SUBSET SUBSET X
    OBVIOUS
  <2> HIDE DEF B
  <2> QED BY <2>1, LeastSubset
<1> DEFINE h(r) == CHOOSE g : Adds(f, g, r)
           G == [s \in SUBSET T |-> IF s = {} THEN 0 ELSE f[Pick(s)] + h(s \ {Pick(s)})[s \ {Pick(s)}]]
<1>2. \A r : r \subseteq T /\ r # T => Adds(f, h(r), r)
  <2> SUFFICES ASSUME NEW r, r \subseteq T, r # T PROVE Adds(f, h(r), r)
    OBVIOUS
  <2>1. \E g : Adds(f, g, r)
    BY <1>1
  <2> QED BY <2>1
<1> HIDE DEF h
<1>3. \A s \in SUBSET T : G[s] = IF s = {} THEN 0 ELSE f[Pick(s)] + h(s \ {Pick(s)})[s \ {Pick(s)}]
  OBVIOUS
<1>4. ASSUME NEW u, u \subseteq T, u # T PROVE G[u] = h(u)[u]
  <2>0. Adds(f, h(u), u) /\ u \in SUBSET X
    BY <1>1, <1>2, <1>4
  <2>1. CASE u = {}
    BY <1>3, <2>0, <2>1, AddsApart
  <2>2. CASE u # {}
    <3> DEFINE v == u \ {Pick(u)}
    <3>1. Pick(u) \in u
      BY <2>2 DEF Pick
    <3>2. Adds(f, h(v), v)
      BY <1>2, <1>4, <3>1
    <3>3. h(u)[v] = h(v)[v]
      BY <2>0, <3>2, AddsUnique
    <3>4. h(u)[u] = f[Pick(u)] + h(u)[v]
      BY <2>0, <2>2, AddsApart
    <3>5. G[u] = f[Pick(u)] + h(v)[v]
      BY <1>3, <1>4, <2>2
    <3> QED BY <3>3, <3>4, <3>5
  <2> QED BY <2>1, <2>2
<1>5. Adds(f, G, T)
  <2>1. \A s \in SUBSET T : s # {} => G[s \ {Pick(s)}] = h(s \ {Pick(s)})[s \ {Pick(s)}]
    <3> SUFFICES ASSUME NEW s \in SUBSET T, s # {}
                 PROVE  G[s \ {Pick(s)}] = h(s \ {Pick(s)})[s \ {Pick(s)}]
      OBVIOUS
    <3>1. Pick(s) \in s
      BY DEF Pick
    <3>2. s \ {Pick(s)} \subseteq T /\ s \ {Pick(s)} # T
      BY <3>1
    <3> QED BY <1>4, <3>2
  <2>2. \A s \in SUBSET T : G[s] = IF s = {} THEN 0 ELSE f[Pick(s)] + G[s \ {Pick(s)}]
    BY <1>3, <2>1
  <2>3. G = [s \in SUBSET T |-> G[s]]
    OBVIOUS
  <2> HIDE DEF G
  <2> QED BY <2>2, <2>3 DEF Adds
<1> QED BY <1>1, <1>5

\* A function that is chosen as a summing function is one.
LEMMA AddsChosen ==
  ASSUME NEW X, IsFiniteSet(X), NEW f
  PROVE  Adds(f, CHOOSE g : Adds(f, g, X), X)
BY AddsExists

\* Sums of natural numbers are natural numbers.
LEMMA SumNat ==
  ASSUME NEW X, IsFiniteSet(X), NEW f, \A x \in X : f[x] \in Nat, NEW g, Adds(f, g, X)
  PROVE  g \in [SUBSET X -> Nat]
<1> DEFINE B == {r \in SUBSET X : g[r] \notin Nat}
<1>1. ASSUME B # {} PROVE FALSE
  <2>1. PICK r \in B : \A q \in B : q \subseteq r => q = r
    <3>1. B \in SUBSET SUBSET X
      OBVIOUS
    <3> HIDE DEF B
    <3> QED BY <1>1, <3>1, LeastSubset
  <2>7. r \in SUBSET X
    BY <2>1
  <2>2. g[r] = IF r = {} THEN 0 ELSE f[Pick(r)] + g[r \ {Pick(r)}]
    BY <2>7, AddsApart
  <2>3. r # {}
    BY <2>1, <2>2
  <2>4. Pick(r) \in r
    BY <2>3 DEF Pick
  <2>5. g[r \ {Pick(r)}] \in Nat
    BY <2>1, <2>4
  <2>6. f[Pick(r)] \in Nat
    BY <2>1, <2>4
  <2> QED BY <2>2, <2>3, <2>5, <2>6
<1>2. g = [s \in SUBSET X |-> g[s]]
  BY DEF Adds
<1> QED BY <1>1, <1>2

\* One summand more or less.
LEMMA SumWithout ==
  ASSUME NEW X, IsFiniteSet(X), NEW f, \A x \in X : f[x] \in Nat, NEW g, Adds(f, g, X),
         NEW S \in SUBSET X, NEW x \in S
  PROVE  g[S] = f[x] + g[S \ {x}]
<1> DEFINE B == {r \in SUBSET X : \E y \in r : g[r] # f[y] + g[r \ {y}]}
<1> SUFFICES ASSUME B # {} PROVE FALSE
  OBVIOUS
<1>1. PICK r \in B : \A q \in B : q \subseteq r => q = r
  <2>1. B \in SUBSET SUBSET X
    OBVIOUS
  <2> HIDE DEF B
  <2> QED BY <2>1, LeastSubset
<1>2. PICK y \in r : g[r] # f[y] + g[r \ {y}]
  OBVIOUS
<1> DEFINE c == Pick(r)
<1>3. c \in r /\ g[r] = f[c] + g[r \ {c}]
  <2>1. c \in r
    BY <1>2 DEF Pick
  <2>2. g[r] = IF r = {} THEN 0 ELSE f[Pick(r)] + g[r \ {Pick(r)}]
    BY AddsApart
  <2> QED BY <2>1, <2>2
<1> HIDE DEF c
<1>4. y # c
  BY <1>2, <1>3
<1>5. g[r \ {c}] = f[y] + g[(r \ {c}) \ {y}]
  BY <1>1, <1>2, <1>3, <1>4
<1>6. g[r \ {y}] = f[c] + g[(r \ {y}) \ {c}]
  BY <1>1, <1>2, <1>3, <1>4
<1>7. (r \ {y}) \ {c} = (r \ {c}) \ {y}
  OBVIOUS
<1>8. g \in [SUBSET X -> Nat]
  BY SumNat
<1>9. f[y] \in Nat /\ f[c] \in Nat /\ g[(r \ {c}) \ {y}] \in Nat
  BY <1>1, <1>2, <1>3, <1>8
<1>10. g[r] = f[y] + g[r \ {y}]
  <2> DEFINE t == g[(r \ {c}) \ {y}]
             tc == g[r \ {c}]
             ty == g[r \ {y}]
  <2>1. ty = f[c] + t /\ tc = f[y] + t /\ g[r] = f[c] + tc
    BY <1>3, <1>5, <1>6, <1>7
  <2>2. t \in Nat
    BY <1>9
  <2> HIDE DEF t, tc, ty
  <2>3. g[r] = f[y] + ty
    BY <1>9, <2>1, <2>2
  <2> QED BY <2>3 DEF ty
<1> QED BY <1>2, <1>10

\* Fewer summands add up to no more.
LEMMA SumMonotone ==
  ASSUME NEW X, IsFiniteSet(X), NEW f, \A x \in X : f[x] \in Nat, NEW g, Adds(f, g, X),
         NEW T \in SUBSET X, NEW S \in SUBSET T
  PROVE  g[S] <= g[T]
<1> DEFINE B == {r \in SUBSET X : \E q \in SUBSET r : ~(g[q] <= g[r])}
<1> SUFFICES ASSUME B # {} PROVE FALSE
  OBVIOUS
<1>1. PICK r \in B : \A q \in B : q \subseteq r => q = r
  <2>1. B \in SUBSET SUBSET X
    OBVIOUS
  <2> HIDE DEF B
  <2> QED BY <2>1, LeastSubset
<1>2. PICK q \in SUBSET r : ~(g[q] <= g[r])
  OBVIOUS
<1>0. g \in [SUBSET X -> Nat]
  BY SumNat
<1>3. g[q] \in Nat /\ g[r] \in Nat
  BY <1>0, <1>1
<1>4. PICK x \in r : x \notin q
  BY <1>2, <1>3
<1>5. g[r] = f[x] + g[r \ {x}]
  BY <1>1, SumWithout
<1>6. g[q] <= g[r \ {x}]
  <2>1. r \ {x} \in SUBSET X /\ q \in SUBSET (r \ {x}) /\ r \ {x} # r /\ r \ {x} \subseteq r
    BY <1>1, <1>4
  <2> QED BY <1>1, <2>1
<1>7. f[x] \in Nat /\ g[r \ {x}] \in Nat
  BY <1>0, <1>1, <1>4
<1> QED BY <1>2, <1>3, <1>5, <1>6, <1>7

\* Equal summands.
LEMMA SumConstant ==
  ASSUME NEW X, IsFiniteSet(X), NEW f, NEW k \in Nat, NEW g, Adds(f, g, X), \A x \in X : f[x] \in Nat,
         NEW S \in SUBSET X, \A x \in S : f[x] = k
  PROVE  g[S] = k * Cardinality(S)
<1> DEFINE B == {r \in SUBSET S : g[r] # k * Cardinality(r)}
<1> SUFFICES ASSUME B # {} PROVE FALSE
  OBVIOUS
<1>1. PICK r \in B : \A q \in B : q \subseteq r => q = r
  <2>1. B \in SUBSET SUBSET X
    OBVIOUS
  <2> HIDE DEF B
  <2> QED BY <2>1, LeastSubset
<1>2. IsFiniteSet(r) /\ Cardinality(r) \in Nat /\ r \in SUBSET X
  BY <1>1, FS_Subset, FS_CardinalityType
<1>10. g[{}] = 0 /\ Cardinality({}) = 0
  BY AddsApart, FS_EmptySet
<1>11. g[r] # k * Cardinality(r)
  BY <1>1
<1>12. k * 0 = 0
  OBVIOUS
<1>3. r # {}
  BY <1>10, <1>11, <1>12
<1>4. PICK x \in r : TRUE
  BY <1>3
<1>13. f[x] = k
  BY <1>1, <1>4
<1>5. g[r] = k + g[r \ {x}]
  <2>1. \A a \in r : g[r] = f[a] + g[r \ {a}]
    BY <1>2, SumWithout
  <2> QED BY <1>4, <1>13, <2>1
<1>6. r \ {x} # r /\ r \ {x} \subseteq r
  OBVIOUS
<1>7. g[r \ {x}] = k * Cardinality(r \ {x})
  BY <1>1, <1>6
<1>8. Cardinality(r \ {x}) = Cardinality(r) - 1
  BY <1>2, FS_RemoveElement
<1>9. \A n \in Nat : k + k * (n - 1) = k * n
  OBVIOUS
<1> QED BY <1>2, <1>5, <1>7, <1>8, <1>9, <1>11

-----------------------------------------------------------------------------
(* Withdrawals.                                                            *)

\* What the row, the payout call and the reconciler know of the provider and
\* of the ledger.
Tracked(w) ==
    /\ row[w] \in {"none", "pending"} =>
         task[w] = "idle" /\ provider[w] = "none" /\ w \notin garbled /\ ~Refunded(w) /\ ~Reversed(w)
    /\ task[w] = "sending" => provider[w] = "none" /\ w \notin garbled /\ ~Refunded(w) /\ ~Reversed(w)
    /\ task[w] = "reached" => provider[w] # "none" /\ ~Refunded(w)
    /\ task[w] = "refund" => w \in garbled \/ provider[w] = "none"
    /\ task[w] = "reverse" => Refunded(w)
    /\ recon[w] = "credit" => provider[w] = "failed"
    /\ recon[w] = "mark" => Reversed(w)
    /\ Refunded(w) => w \in garbled \/ provider[w] = "none"
    /\ Reversed(w) => provider[w] = "failed"
    /\ row[w] = "rejected" => Refunded(w) \/ Reversed(w)

IInv == TypeOK /\ \A w \in Ids : Tracked(w)

\* The references of two withdrawals, and the two references of one, differ.
LEMMA RefsDiffer ==
    \A v, w : /\ RefundRef(v) # ReversalRef(w)
              /\ RefundRef(v) = RefundRef(w) => v = w
              /\ ReversalRef(v) = ReversalRef(w) => v = w
BY DEF RefundRef, ReversalRef

\* The invariant holds before the first request.
LEMMA InitIInv == Init => IInv
<1> SUFFICES ASSUME Init PROVE IInv
  OBVIOUS
<1>1. TypeOK
  BY BoundsAssumption DEF Init, TypeOK
<1>2. ASSUME NEW w \in Ids PROVE Tracked(w)
  BY DEF Init, Tracked, Refunded, Reversed
<1>. QED
  BY <1>1, <1>2 DEF IInv

\* The credit of a withdrawal keeps the types of what it changes.
LEMMA CreditTypes ==
    ASSUME TypeOK, NEW w \in Ids, NEW ref, Credit(w, ref), ref \in {RefundRef(w), ReversalRef(w)}
    PROVE  /\ balance' \in [Users -> Int]
           /\ refs' \subseteq Refs
<1>1. AmountOf[w] \in Int /\ userOf[w] \in Users
  BY AmountsAssumption, OwnersAssumption DEF TypeOK
<1>2. balance' \in [Users -> Int]
  BY <1>1 DEF TypeOK, Credit
<1>3. ref \in Refs
  BY Zenon DEF Refs
<1>4. refs' \subseteq Refs
  BY <1>3 DEF TypeOK, Credit
<1>. QED
  BY <1>2, <1>4

\* Every step keeps the types.
LEMMA TypeStep == TypeOK /\ [Next]_vars => TypeOK'
<1> SUFFICES ASSUME TypeOK, [Next]_vars PROVE TypeOK'
  OBVIOUS
<1> USE AmountsAssumption, OwnersAssumption, BoundsAssumption
<1>1. ASSUME NEW w \in Ids, Route(w) PROVE TypeOK'
  <2>1. CASE request(w)
    <3>1. AmountOf[w] \in Int /\ userOf[w] \in Users
      BY DEF TypeOK
    <3>. QED
      BY <2>1, <3>1 DEF TypeOK, request, given
  <2>2. CASE autoPayout(w)
    BY <2>2 DEF TypeOK, autoPayout, setStatusIfPending, given
  <2>3. ASSUME NEW fail \in BOOLEAN, NEW received \in BOOLEAN, classify(w, fail, received)
        PROVE  TypeOK'
    BY <2>3 DEF TypeOK, classify, given
  <2>. QED
    BY <1>1, <2>1, <2>2, <2>3 DEF Route
<1>2. ASSUME NEW w \in Ids, Admin(w) PROVE TypeOK'
  <2>1. CASE payoutNow(w)
    BY <2>1 DEF TypeOK, payoutNow, setStatusIfPending, given
  <2>2. CASE approve(w)
    BY <2>2 DEF TypeOK, approve, setStatusIfPending, given, callVars
  <2>3. CASE reject(w)
    <3>1. Credit(w, RefundRef(w))
      BY <2>3 DEF reject
    <3>. QED
      BY <2>3, <3>1, CreditTypes DEF TypeOK, reject, setStatusIfPending, given, callVars
  <2>. QED
    BY <1>2, <2>1, <2>2, <2>3 DEF Admin
<1>3. ASSUME NEW w \in Ids, Payout(w) PROVE TypeOK'
  <2>1. CASE reaches(w) \/ answerStands(w) \/ answerRefuses(w) \/ answerUnreadable(w)
    BY <2>1 DEF TypeOK, reaches, answerStands, answerRefuses, answerUnreadable, Ends, given
  <2>2. CASE refund(w)
    <3>1. Credit(w, RefundRef(w))
      BY <2>2 DEF refund
    <3>. QED
      BY <2>2, <3>1, CreditTypes DEF TypeOK, refund, given
  <2>3. CASE reverse(w) \/ payoutFails(w) \/ providerSettles(w)
    BY <2>3 DEF TypeOK, reverse, payoutFails, providerSettles, markReversed, Ends, given, callVars
  <2>. QED
    BY <1>3, <2>1, <2>2, <2>3 DEF Payout
<1>4. ASSUME NEW w \in Ids, Reconcile(w) \/ reconcileFails(w) PROVE TypeOK'
  <2>1. CASE reconcileFind(w) \/ reconcileMark(w) \/ reconcileFails(w)
    BY <2>1 DEF TypeOK, reconcileFind, reconcileMark, reconcileFails, markReversed, given
  <2>2. CASE reconcileReverse(w)
    <3>1. Credit(w, ReversalRef(w))
      BY <2>2 DEF reconcileReverse
    <3>. QED
      BY <2>2, <3>1, CreditTypes DEF TypeOK, reconcileReverse, given
  <2>. QED
    BY <1>4, <2>1, <2>2 DEF Reconcile
<1>5. CASE Crash
  BY <1>5 DEF TypeOK, Crash, given
<1>6. CASE UNCHANGED vars
  BY <1>6 DEF TypeOK, vars, given
<1>. QED
  BY <1>1, <1>2, <1>3, <1>4, <1>5, <1>6 DEF Next

-----------------------------------------------------------------------------
(* Every step keeps Tracked, for the withdrawal it is about and for the    *)
(* others.                                                                 *)

\* A credit adds its own reference and no other.
LEMMA CreditRefs ==
    ASSUME NEW v, NEW w, NEW ref, Credit(w, ref)
    PROVE  /\ ref = RefundRef(w) =>
                /\ Refunded(v)' <=> Refunded(v) \/ v = w
                /\ Reversed(v)' <=> Reversed(v)
           /\ ref = ReversalRef(w) =>
                /\ Refunded(v)' <=> Refunded(v)
                /\ Reversed(v)' <=> Reversed(v) \/ v = w
<1>1. refs' = refs \cup {ref}
  BY DEF Credit
<1>2. Refunded(v)' <=> RefundRef(v) \in refs'
  BY DEF Refunded, RefundRef
<1>3. Reversed(v)' <=> ReversalRef(v) \in refs'
  BY DEF Reversed, ReversalRef
<1>. QED
  BY <1>1, <1>2, <1>3, RefsDiffer DEF Refunded, Reversed

\* A step that leaves the ledger alone adds no reference.
LEMMA SameRefs ==
    ASSUME NEW v, refs' = refs
    PROVE  (Refunded(v)' <=> Refunded(v)) /\ (Reversed(v)' <=> Reversed(v))
BY DEF Refunded, Reversed, RefundRef, ReversalRef

\* Every step keeps what is known of each withdrawal, one case per kind of step.
LEMMA TrackedStep ==
    ASSUME IInv, [Next]_vars, NEW v \in Ids
    PROVE  Tracked(v)'
<1>0. TypeOK /\ Tracked(v)
  BY DEF IInv
<1> USE DEF Tracked
<1>1. ASSUME NEW w \in Ids, Route(w) PROVE Tracked(v)'
  <2>1. refs' = refs /\ provider' = provider /\ garbled' = garbled /\ recon' = recon
    BY <1>1 DEF Route, request, autoPayout, classify, given
  <2>2. CASE request(w)
    BY <2>1, <2>2, <1>0, SameRefs DEF request, TypeOK
  <2>3. CASE autoPayout(w)
    BY <2>1, <2>3, <1>0, SameRefs DEF autoPayout, setStatusIfPending, TypeOK
  <2>4. ASSUME NEW fail \in BOOLEAN, NEW received \in BOOLEAN, classify(w, fail, received)
        PROVE  Tracked(v)'
    BY <2>1, <2>4, <1>0, SameRefs DEF classify
  <2>. QED
    BY <1>1, <2>2, <2>3, <2>4 DEF Route
<1>2. ASSUME NEW w \in Ids, Admin(w) PROVE Tracked(v)'
  <2>1. CASE payoutNow(w)
    BY <2>1, <1>0, SameRefs DEF payoutNow, setStatusIfPending, TypeOK
  <2>2. CASE approve(w)
    BY <2>2, <1>0, SameRefs DEF approve, setStatusIfPending, TypeOK, callVars
  <2>3. CASE reject(w)
    BY <2>3, <1>0, CreditRefs DEF reject, setStatusIfPending, TypeOK, callVars
  <2>. QED
    BY <1>2, <2>1, <2>2, <2>3 DEF Admin
<1>3. ASSUME NEW w \in Ids, Payout(w) PROVE Tracked(v)'
  <2>1. CASE reaches(w)
    BY <2>1, <1>0, SameRefs DEF reaches, TypeOK
  <2>2. CASE answerStands(w) \/ payoutFails(w)
    BY <2>2, <1>0, SameRefs DEF answerStands, payoutFails, Ends, TypeOK
  <2>3. CASE answerRefuses(w) \/ answerUnreadable(w)
    BY <2>3, <1>0, SameRefs DEF answerRefuses, answerUnreadable, TypeOK
  <2>4. CASE refund(w)
    BY <2>4, <1>0, CreditRefs DEF refund, TypeOK
  <2>5. CASE reverse(w)
    BY <2>5, <1>0, SameRefs DEF reverse, markReversed, Ends, TypeOK
  <2>6. CASE providerSettles(w)
    BY <2>6, <1>0, SameRefs DEF providerSettles, callVars, TypeOK
  <2>. QED
    BY <1>3, <2>1, <2>2, <2>3, <2>4, <2>5, <2>6 DEF Payout
<1>4. ASSUME NEW w \in Ids, Reconcile(w) \/ reconcileFails(w) PROVE Tracked(v)'
  <2>1. CASE reconcileFind(w) \/ reconcileFails(w)
    BY <2>1, <1>0, SameRefs DEF reconcileFind, reconcileFails, TypeOK
  <2>2. CASE reconcileReverse(w)
    BY <2>2, <1>0, CreditRefs DEF reconcileReverse, TypeOK
  <2>3. CASE reconcileMark(w)
    BY <2>3, <1>0, SameRefs DEF reconcileMark, markReversed, TypeOK
  <2>. QED
    BY <1>4, <2>1, <2>2, <2>3 DEF Reconcile
<1>5. CASE Crash
  BY <1>5, <1>0, SameRefs DEF Crash, TypeOK
<1>6. CASE UNCHANGED vars
  BY <1>6, <1>0, SameRefs DEF vars
<1>. QED
  BY <1>1, <1>2, <1>3, <1>4, <1>5, <1>6 DEF Next

\* The invariant, from which the two theorems below follow.
THEOREM Invariance == Spec => []IInv
<1>1. IInv /\ [Next]_vars => IInv'
  <2> SUFFICES ASSUME IInv, [Next]_vars PROVE IInv'
    OBVIOUS
  <2>1. TypeOK'
    BY TypeStep DEF IInv
  <2>2. \A v \in Ids : Tracked(v)'
    BY TrackedStep
  <2>. QED
    BY <2>1, <2>2 DEF IInv
<1>. QED
  BY InitIInv, <1>1, PTL DEF Spec

\* The withdrawal service keeps its types.
THEOREM TypeCorrect == Spec => []TypeOK
BY Invariance, PTL DEF IInv

\* However payouts, rejections, lost answers, the reconciler and crashes
\* interleave, a withdrawal is not both paid and given back, nor given back
\* twice, unless the provider's answer could not be read.
THEOREM WithdrawnOnce == Spec => []PaidOnce
<1>1. IInv => PaidOnce
  BY DEF IInv, Tracked, PaidOnce, MoneyLeft
<1>. QED
  BY Invariance, <1>1, PTL

\* A rejected row was refunded or reversed.
THEOREM RejectedRefunded == Spec => []RejectedIsRefunded
<1>1. IInv => RejectedIsRefunded
  BY DEF IInv, Tracked, RejectedIsRefunded
<1>. QED
  BY Invariance, <1>1, PTL
-----------------------------------------------------------------------------
(* The totals of withdrawals.                                              *)

\* Total, defined by recursion, adds up the amounts.
LEMMA TotalAdds ==
    /\ Adds(AmountOf, Total, Ids)
    /\ IsFiniteSet(Ids) /\ \A x \in Ids : AmountOf[x] \in Nat
<1>1. IsFiniteSet(Ids) /\ \A x \in Ids : AmountOf[x] \in Nat
  BY IdsAssumption, AmountsAssumption
<1>2. Total = CHOOSE g : Adds(AmountOf, g, Ids)
  BY DEF Total, Adds, Pick
<1> QED BY <1>1, <1>2, AddsChosen

\* Totals are natural numbers.
LEMMA TotalNat == Total \in [SUBSET Ids -> Nat]
BY TotalAdds, SumNat

\* One withdrawal more or less.
LEMMA TotalWithout ==
  ASSUME NEW S \in SUBSET Ids, NEW x \in S
  PROVE  Total[S] = AmountOf[x] + Total[S \ {x}]
BY TotalAdds, SumWithout

\* Fewer withdrawals add up to no more.
LEMMA TotalMonotone ==
  ASSUME NEW T \in SUBSET Ids, NEW S \in SUBSET T
  PROVE  Total[S] <= Total[T]
BY TotalAdds, SumMonotone

-----------------------------------------------------------------------------
(* The caps.  They are compared with totals that are read before the       *)
(* payout, so CapsHold is not inductive: it rests on the critical section, *)
(* which keeps what was read true until the row is claimed.                *)

OfUser(u) == {w \in Ids : userOf[w] = u}
ToDest(w) == {v \in Ids : DestOf[v] = DestOf[w]}
Counted(u) == {w \in Ids : userOf[w] = u /\ row[w] \in {"pending", "completed"}}

\* No two routes are in the critical section of one user, or of all users.
Exclusive ==
    \A v, w \in Ids : v # w /\ route[v] # "out" /\ route[w] # "out" =>
                       userOf[v] # userOf[w] /\ conf.global = 0 /\ conf.dest = 0

\* What the caps were compared with still leaves room for the payout.
Fits(w) ==
    route[w] = "auto" /\ row[w] = "pending" =>
      /\ conf.daily = 0 \/ Total[Counted(userOf[w])] <= conf.daily
      /\ conf.global = 0 \/ Total[AutoPaid] + AmountOf[w] <= conf.global
      /\ conf.dest = 0 \/ Total[AutoPaid \cap ToDest(w)] + AmountOf[w] <= conf.dest

\* The caps hold of all the automatic path has claimed and not reversed.
ClaimsFit ==
    /\ \A u \in Users : conf.daily = 0 \/ Total[AutoPaid \cap OfUser(u)] <= conf.daily
    /\ conf.global = 0 \/ Total[AutoPaid] <= conf.global
    /\ \A w \in Ids : conf.dest = 0 \/ Total[AutoPaid \cap ToDest(w)] <= conf.dest

CapsInv == Exclusive /\ ClaimsFit /\ \A w \in Ids : Fits(w)

\* The claims that are on their way are among those the caps count.
LEMMA SentIsCounted ==
  ASSUME IInv, NEW w \in Ids \ garbled, payer[w] = "auto", MoneyLeft(w)
  PROVE  w \in AutoPaid
BY DEF IInv, TypeOK, Tracked, MoneyLeft, AutoPaid

\* Nothing is claimed before the first request.
LEMMA FitsInitially == Init => CapsInv
<1> SUFFICES ASSUME Init PROVE CapsInv
  OBVIOUS
<1>1. AutoPaid = {}
  BY DEF Init, AutoPaid
<1>2. Total[{}] = 0
  BY TotalAdds, AmountsAssumption, AddsApart
<1>3. \A S : AutoPaid \cap S = {}
  BY <1>1
<1>4. conf.daily \in Nat /\ conf.global \in Nat /\ conf.dest \in Nat
  BY DeploymentsAssumption DEF Init
<1>5. ClaimsFit
  BY <1>1, <1>2, <1>3, <1>4 DEF ClaimsFit
<1> QED BY <1>5 DEF Init, CapsInv, Exclusive, Fits

\* Less fits where more did.
LEMMA AtMost ==
  \A m, n, cap, a \in Nat : m <= n => /\ (n <= cap => m <= cap)
                                     /\ (n + a <= cap => m + a <= cap)
OBVIOUS

\* A step that claims nothing for the automatic path, opens no route past
\* another and counts nothing more for a user whose route is waiting.
LEMMA QuietStep ==
  ASSUME TypeOK, CapsInv, UNCHANGED given, AutoPaid' \subseteq AutoPaid, Exclusive',
         \A w \in Ids : \/ Fits(w)'
                        \/ /\ route[w] = "auto" /\ row[w] = "pending"
                           /\ Counted(userOf[w])' \subseteq Counted(userOf[w])
  PROVE  CapsInv'
<1>1. /\ conf' = conf /\ userOf' = userOf
      /\ conf.daily \in Nat /\ conf.global \in Nat /\ conf.dest \in Nat
  BY DeploymentsAssumption DEF given, TypeOK
<1>2. /\ AutoPaid \in SUBSET Ids /\ \A u : Counted(u) \in SUBSET Ids
      /\ AutoPaid' \in SUBSET Ids
  BY DEF AutoPaid, Counted
<1>3. \A S : Total[AutoPaid' \cap S] <= Total[AutoPaid \cap S]
  <2> SUFFICES ASSUME NEW S PROVE Total[AutoPaid' \cap S] <= Total[AutoPaid \cap S]
    OBVIOUS
  <2>1. AutoPaid \cap S \in SUBSET Ids /\ AutoPaid' \cap S \in SUBSET (AutoPaid \cap S)
    BY <1>2
  <2> QED BY <2>1, TotalMonotone
<1>4. Total[AutoPaid'] <= Total[AutoPaid]
  BY <1>2, TotalMonotone
<1>5. /\ Total[AutoPaid] \in Nat /\ Total[AutoPaid'] \in Nat
      /\ \A S : Total[AutoPaid \cap S] \in Nat /\ Total[AutoPaid' \cap S] \in Nat
      /\ \A w \in Ids : AmountOf[w] \in Nat
  <2>1. \A S : AutoPaid \cap S \in SUBSET Ids /\ AutoPaid' \cap S \in SUBSET Ids
    BY <1>2
  <2> QED BY <1>2, <2>1, TotalNat, AmountsAssumption
<1>6. /\ \A u : OfUser(u)' = OfUser(u)
      /\ \A w : ToDest(w)' = ToDest(w)
  BY <1>1 DEF OfUser, ToDest
<1>7. ClaimsFit'
  <2>1. ASSUME NEW u \in Users
        PROVE  conf.daily = 0 \/ Total[AutoPaid' \cap OfUser(u)] <= conf.daily
    <3> DEFINE before == Total[AutoPaid \cap OfUser(u)]
               after == Total[AutoPaid' \cap OfUser(u)]
    <3>1. conf.daily = 0 \/ before <= conf.daily
      BY DEF CapsInv, ClaimsFit
    <3>2. after <= before /\ before \in Nat /\ after \in Nat
      BY <1>3, <1>5
    <3> HIDE DEF before, after
    <3>3. conf.daily = 0 \/ after <= conf.daily
      BY <1>1, <3>1, <3>2
    <3> QED BY <3>3 DEF after
  <2>2. conf.global = 0 \/ Total[AutoPaid'] <= conf.global
    BY <1>1, <1>4, <1>5 DEF CapsInv, ClaimsFit
  <2>3. ASSUME NEW w \in Ids
        PROVE  conf.dest = 0 \/ Total[AutoPaid' \cap ToDest(w)] <= conf.dest
    <3> DEFINE before == Total[AutoPaid \cap ToDest(w)]
               after == Total[AutoPaid' \cap ToDest(w)]
    <3>1. conf.dest = 0 \/ before <= conf.dest
      BY DEF CapsInv, ClaimsFit
    <3>2. after <= before /\ before \in Nat /\ after \in Nat
      BY <1>3, <1>5
    <3> HIDE DEF before, after
    <3>3. conf.dest = 0 \/ after <= conf.dest
      BY <1>1, <3>1, <3>2
    <3> QED BY <3>3 DEF after
  <2> QED BY <1>1, <1>6, <2>1, <2>2, <2>3 DEF ClaimsFit
<1>8. ASSUME NEW w \in Ids PROVE Fits(w)'
  <2> SUFFICES ASSUME /\ route[w] = "auto" /\ row[w] = "pending"
                      /\ Counted(userOf[w])' \subseteq Counted(userOf[w])
               PROVE  /\ conf.daily = 0 \/ Total[Counted(userOf[w])'] <= conf.daily
                      /\ conf.global = 0 \/ Total[AutoPaid'] + AmountOf[w] <= conf.global
                      /\ conf.dest = 0 \/ Total[AutoPaid' \cap ToDest(w)] + AmountOf[w] <= conf.dest
    BY <1>1, <1>6 DEF Fits
  <2>1. /\ conf.daily = 0 \/ Total[Counted(userOf[w])] <= conf.daily
        /\ conf.global = 0 \/ Total[AutoPaid] + AmountOf[w] <= conf.global
        /\ conf.dest = 0 \/ Total[AutoPaid \cap ToDest(w)] + AmountOf[w] <= conf.dest
    BY DEF CapsInv, Fits
  <2>2. Total[Counted(userOf[w])'] <= Total[Counted(userOf[w])]
    BY <1>2, TotalMonotone
  <2>3. Total[Counted(userOf[w])'] \in Nat /\ Total[Counted(userOf[w])] \in Nat
    BY <1>2, TotalNat
  <2>4. conf.daily = 0 \/ Total[Counted(userOf[w])'] <= conf.daily
    BY <1>1, <2>1, <2>2, <2>3, AtMost
  <2>5. conf.global = 0 \/ Total[AutoPaid'] + AmountOf[w] <= conf.global
    BY <1>1, <1>4, <1>5, <2>1, AtMost
  <2>6. conf.dest = 0 \/ Total[AutoPaid' \cap ToDest(w)] + AmountOf[w] <= conf.dest
    <3> DEFINE before == Total[AutoPaid \cap ToDest(w)]
               after == Total[AutoPaid' \cap ToDest(w)]
    <3>1. after <= before /\ before \in Nat /\ after \in Nat /\ AmountOf[w] \in Nat
      BY <1>3, <1>5
    <3>2. conf.dest = 0 \/ before + AmountOf[w] <= conf.dest
      BY <2>1
    <3> HIDE DEF before, after
    <3>3. conf.dest = 0 \/ after + AmountOf[w] <= conf.dest
      BY <1>1, <3>1, <3>2
    <3> QED BY <3>3 DEF after
  <2> QED BY <2>4, <2>5, <2>6
<1> QED BY <1>7, <1>8 DEF CapsInv

\* The totals classifyWithdrawal reads leave room for the withdrawal it sends to
\* the automatic path: its own amount is in the user's total and is taken out.
LEMMA ClassifyStep ==
  ASSUME TypeOK, CapsInv, NEW w \in Ids, NEW fail \in BOOLEAN, NEW received \in BOOLEAN,
         classify(w, fail, received)
  PROVE  CapsInv'
<1>1. /\ UNCHANGED <<given, row, payer>> /\ route[w] = "requested"
      /\ route' = [route EXCEPT ![w] = route'[w]] /\ route'[w] \in {"auto", "out"}
  BY DEF classify, TypeOK
<1>2. AutoPaid' = AutoPaid /\ \A u : Counted(u)' = Counted(u)
  BY <1>1 DEF AutoPaid, Counted, given
<1>3. Exclusive'
  BY <1>1 DEF CapsInv, Exclusive, given, TypeOK
<1>4. \A v \in Ids : v # w => route'[v] = route[v]
  BY <1>1 DEF TypeOK
<1>5. ASSUME route'[w] = "auto", row[w] = "pending"
      PROVE  /\ conf.daily = 0 \/ Total[Counted(userOf[w])] <= conf.daily
             /\ conf.global = 0 \/ Total[AutoPaid] + AmountOf[w] <= conf.global
             /\ conf.dest = 0 \/ Total[AutoPaid \cap ToDest(w)] + AmountOf[w] <= conf.dest
  <2> DEFINE prior == Total[Counted(userOf[w])]
             others == IF prior >= AmountOf[w] THEN prior - AmountOf[w] ELSE 0
  <2>1. classifyWithdrawal(w, received) = "auto"
    BY <1>5 DEF classify, TypeOK
  <2>2. /\ Under(conf.daily, others, w)
        /\ Under(conf.global, autoPaidSince(Ids), w)
        /\ Under(conf.dest, autoPaidSince(ToDest(w)), w)
    BY <2>1 DEF classifyWithdrawal, sumUserSince, Counted, ToDest
  <2>3. Counted(userOf[w]) \in SUBSET Ids /\ w \in Counted(userOf[w])
    BY <1>5 DEF Counted
  <2>4. prior = AmountOf[w] + Total[Counted(userOf[w]) \ {w}]
    BY <2>3, TotalWithout
  <2>5. Total[Counted(userOf[w]) \ {w}] \in Nat /\ AmountOf[w] \in Nat /\ prior \in Nat
    BY <2>3, TotalNat, AmountsAssumption
  <2> HIDE DEF prior
  <2>6. others + AmountOf[w] = prior
    BY <2>4, <2>5
  <2>7. AutoPaid \cap Ids = AutoPaid
    BY DEF AutoPaid
  <2> HIDE DEF others
  <2> QED BY <2>2, <2>6, <2>7 DEF Under, autoPaidSince, prior
<1>6. Fits(w)'
  BY <1>1, <1>2, <1>5 DEF Fits, given, ToDest
<1>7. ASSUME NEW v \in Ids, v # w
      PROVE  Fits(v)' \/ (route[v] = "auto" /\ row[v] = "pending")
  BY <1>1, <1>4, <1>7 DEF Fits
<1>8. \A v \in Ids : Counted(userOf[v])' = Counted(userOf[v])
  BY <1>1, <1>2 DEF given, Counted
<1>9. \A v \in Ids : \/ Fits(v)'
                     \/ /\ route[v] = "auto" /\ row[v] = "pending"
                        /\ Counted(userOf[v])' \subseteq Counted(userOf[v])
  BY <1>6, <1>7, <1>8
<1> QED BY <1>1, <1>2, <1>3, <1>9, QuietStep

\* The claim takes the room that was left for it.
LEMMA ClaimStep ==
  ASSUME TypeOK, CapsInv, NEW w \in Ids, autoPayout(w), row[w] = "pending"
  PROVE  CapsInv'
<1>1. /\ UNCHANGED given /\ route[w] = "auto"
      /\ row' = [row EXCEPT ![w] = "completed"] /\ payer' = [payer EXCEPT ![w] = "auto"]
      /\ route' = [route EXCEPT ![w] = "paying"]
  BY DEF autoPayout, setStatusIfPending
<1>2. /\ conf' = conf /\ userOf' = userOf
      /\ conf.daily \in Nat /\ conf.global \in Nat /\ conf.dest \in Nat
  BY <1>1, DeploymentsAssumption DEF given, TypeOK
<1>3. AutoPaid' = AutoPaid \cup {w} /\ w \notin AutoPaid /\ AutoPaid \in SUBSET Ids
  BY <1>1 DEF AutoPaid, TypeOK
<1>4. \A u : Counted(u)' = Counted(u) /\ Counted(u) \in SUBSET Ids
  BY <1>1, <1>2 DEF Counted, TypeOK
<1>5. /\ conf.daily = 0 \/ Total[Counted(userOf[w])] <= conf.daily
      /\ conf.global = 0 \/ Total[AutoPaid] + AmountOf[w] <= conf.global
      /\ conf.dest = 0 \/ Total[AutoPaid \cap ToDest(w)] + AmountOf[w] <= conf.dest
  BY <1>1 DEF CapsInv, Fits
<1>6. \A S : IF w \in S THEN Total[AutoPaid' \cap S] = Total[AutoPaid \cap S] + AmountOf[w]
              ELSE AutoPaid' \cap S = AutoPaid \cap S
  <2> SUFFICES ASSUME NEW S, w \in S
               PROVE  Total[AutoPaid' \cap S] = Total[AutoPaid \cap S] + AmountOf[w]
    BY <1>3
  <2>1. /\ AutoPaid' \cap S \in SUBSET Ids /\ w \in AutoPaid' \cap S
        /\ (AutoPaid' \cap S) \ {w} = AutoPaid \cap S
    BY <1>3
  <2>2. Total[AutoPaid' \cap S] = AmountOf[w] + Total[AutoPaid \cap S]
    BY <2>1, TotalWithout
  <2>3. Total[AutoPaid \cap S] \in Nat /\ AmountOf[w] \in Nat
    BY <1>3, TotalNat, AmountsAssumption
  <2> QED BY <2>2, <2>3
<1>7. ASSUME NEW u \in Users PROVE conf.daily = 0 \/ Total[AutoPaid' \cap OfUser(u)] <= conf.daily
  <2>1. CASE u = userOf[w]
    <3>1. AutoPaid' \cap OfUser(u) \in SUBSET Counted(u)
      BY <1>1, <1>3 DEF AutoPaid, OfUser, Counted
    <3>2. Total[AutoPaid' \cap OfUser(u)] <= Total[Counted(u)]
      BY <1>4, <3>1, TotalMonotone
    <3>3. Total[AutoPaid' \cap OfUser(u)] \in Nat /\ Total[Counted(u)] \in Nat
      BY <1>3, <1>4, TotalNat
    <3> QED BY <1>2, <1>5, <2>1, <3>2, <3>3
  <2>2. CASE u # userOf[w]
    <3>1. w \notin OfUser(u)
      BY <2>2 DEF OfUser
    <3> QED BY <1>6, <3>1 DEF CapsInv, ClaimsFit
  <2> QED BY <2>1, <2>2
<1>8. conf.global = 0 \/ Total[AutoPaid'] <= conf.global
  <2>1. AutoPaid' \cap Ids = AutoPaid' /\ AutoPaid \cap Ids = AutoPaid
    BY <1>3
  <2> QED BY <1>5, <1>6, <2>1
<1>9. ASSUME NEW v \in Ids PROVE conf.dest = 0 \/ Total[AutoPaid' \cap ToDest(v)] <= conf.dest
  <2>1. CASE w \in ToDest(v)
    <3>1. ToDest(v) = ToDest(w)
      BY <2>1 DEF ToDest
    <3> QED BY <1>5, <1>6, <2>1, <3>1
  <2>2. CASE w \notin ToDest(v)
    BY <1>6, <2>2 DEF CapsInv, ClaimsFit
  <2> QED BY <2>1, <2>2
<1>10. ClaimsFit'
  <2>1. /\ \A u : OfUser(u)' = OfUser(u)
        /\ \A v : ToDest(v)' = ToDest(v)
    BY <1>2 DEF OfUser, ToDest
  <2> QED BY <1>2, <1>7, <1>8, <1>9, <2>1 DEF ClaimsFit
<1>11. Exclusive'
  BY <1>1, <1>2 DEF CapsInv, Exclusive, TypeOK
<1>12. ASSUME NEW v \in Ids PROVE Fits(v)'
  <2> SUFFICES ASSUME route'[v] = "auto", row'[v] = "pending"
               PROVE  conf.daily = 0 \/ Total[Counted(userOf[v])] <= conf.daily
    <3>1. ASSUME route'[v] = "auto", row'[v] = "pending" PROVE conf.global = 0 /\ conf.dest = 0
      BY <1>1, <3>1 DEF CapsInv, Exclusive, TypeOK
    <3> QED BY <1>2, <1>4, <3>1 DEF Fits
  <2>1. route[v] = "auto" /\ row[v] = "pending"
    BY <1>1 DEF TypeOK
  <2> QED BY <2>1 DEF CapsInv, Fits
<1> QED BY <1>10, <1>11, <1>12 DEF CapsInv

\* A step that opens no route and claims nothing for the automatic path.
LEMMA OtherStep ==
  ASSUME TypeOK, CapsInv, UNCHANGED given,
         \A v \in Ids : /\ route'[v] \in {route[v], "out"}
                        /\ row'[v] = "pending" => row[v] = "pending"
                        /\ row'[v] = "completed" => row[v] \in {"pending", "completed"}
                        /\ row'[v] = "completed" /\ payer'[v] = "auto" =>
                             row[v] = "completed" /\ payer[v] = "auto"
  PROVE  CapsInv'
<1>1. userOf' = userOf /\ conf' = conf
  BY DEF given
<1>2. AutoPaid' \subseteq AutoPaid
  BY DEF AutoPaid
<1>3. Exclusive'
  BY <1>1 DEF CapsInv, Exclusive
<1>4. \A v \in Ids : Counted(userOf[v])' \subseteq Counted(userOf[v])
  BY <1>1 DEF Counted
<1>5. \A v \in Ids : Fits(v)' \/ (route[v] = "auto" /\ row[v] = "pending")
  BY DEF Fits
<1> QED BY <1>2, <1>3, <1>4, <1>5, QuietStep

\* A new request waits for the route of the same user, or of any user when a cap
\* is shared.
LEMMA RequestStep ==
  ASSUME TypeOK, CapsInv, NEW w \in Ids, request(w)
  PROVE  CapsInv'
<1>1. /\ UNCHANGED given /\ payer' = payer /\ row[w] = "none"
      /\ row' = [row EXCEPT ![w] = "pending"] /\ route' = [route EXCEPT ![w] = "requested"]
      /\ conf.global \in Nat /\ conf.dest \in Nat
  BY DeploymentsAssumption DEF request, TypeOK
<1>2. userOf' = userOf /\ conf' = conf
  BY <1>1 DEF given
<1>3. \A v \in Ids : route[v] # "out" => ~(conf.global > 0) /\ ~(conf.dest > 0) /\ userOf[v] # userOf[w]
  BY DEF request, Waits, GlobalCapsOn
<1>4. \A v \in Ids : route[v] # "out" => conf.global = 0 /\ conf.dest = 0 /\ userOf[v] # userOf[w]
  BY <1>1, <1>3
<1>5. AutoPaid' \subseteq AutoPaid
  BY <1>1 DEF AutoPaid, TypeOK
<1>6. Exclusive'
  BY <1>1, <1>2, <1>4 DEF CapsInv, Exclusive, TypeOK
<1>7. \A v \in Ids : route[v] # "out" => Counted(userOf[v])' \subseteq Counted(userOf[v])
  BY <1>1, <1>2, <1>4 DEF Counted, TypeOK
<1>8. \A v \in Ids : Fits(v)' \/ (route[v] = "auto" /\ row[v] = "pending")
  BY <1>1 DEF Fits, TypeOK
<1> QED BY <1>1, <1>5, <1>6, <1>7, <1>8, QuietStep

\* Every step keeps what the caps allow.
LEMMA CapsStep == IInv /\ CapsInv /\ [Next]_vars => CapsInv'
<1> SUFFICES ASSUME IInv, CapsInv, [Next]_vars PROVE CapsInv'
  OBVIOUS
<1>0. TypeOK
  BY DEF IInv
<1> USE DEF TypeOK
<1>1. ASSUME NEW w \in Ids, Route(w) PROVE CapsInv'
  <2>1. CASE autoPayout(w) /\ row[w] # "pending"
    BY <1>0, <2>1, OtherStep DEF autoPayout, setStatusIfPending
  <2> QED BY <1>0, <1>1, <2>1, RequestStep, ClassifyStep, ClaimStep DEF Route
<1>2. ASSUME NEW w \in Ids, Admin(w) PROVE CapsInv'
  BY <1>0, <1>2, OtherStep DEF Admin, payoutNow, approve, reject, setStatusIfPending, callVars
<1>3. ASSUME NEW w \in Ids, Payout(w) PROVE CapsInv'
  <2>1. CASE reverse(w)
    BY <1>0, <2>1, OtherStep DEF reverse, markReversed, Ends
  <2>2. CASE \/ reaches(w) \/ answerStands(w) \/ answerRefuses(w) \/ answerUnreadable(w)
             \/ refund(w) \/ payoutFails(w) \/ providerSettles(w)
    <3>1. /\ UNCHANGED <<given, row, payer>>
          /\ \A v \in Ids : route'[v] \in {route[v], "out"}
      BY <1>0, <2>2 DEF reaches, answerStands, answerRefuses, answerUnreadable, refund, payoutFails,
                        providerSettles, Ends, callVars
    <3> QED BY <1>0, <3>1, OtherStep
  <2> QED BY <1>3, <2>1, <2>2 DEF Payout
<1>4. ASSUME NEW w \in Ids, Reconcile(w) \/ reconcileFails(w) PROVE CapsInv'
  <2>1. CASE reconcileMark(w)
    BY <1>0, <2>1, OtherStep DEF reconcileMark, markReversed
  <2>2. CASE reconcileFind(w) \/ reconcileReverse(w) \/ reconcileFails(w)
    BY <1>0, <2>2, OtherStep DEF reconcileFind, reconcileReverse, reconcileFails
  <2> QED BY <1>4, <2>1, <2>2 DEF Reconcile
<1>5. CASE Crash
  BY <1>0, <1>5, OtherStep DEF Crash
<1>6. CASE UNCHANGED vars
  BY <1>0, <1>6, OtherStep DEF vars
<1> QED BY <1>1, <1>2, <1>3, <1>4, <1>5, <1>6 DEF Next

\* For any number of withdrawals and users, and any caps, what the automatic path
\* has sent stays within them: the critical section of the withdraw route makes
\* comparing with totals read earlier safe.
THEOREM CapsAreKept == Spec => []CapsHold
<1>1. IInv /\ CapsInv => CapsHold
  <2> SUFFICES ASSUME IInv, CapsInv PROVE CapsHold
    OBVIOUS
  <2> DEFINE sent == {w \in Ids \ garbled : payer[w] = "auto" /\ MoneyLeft(w)}
  <2>1. sent \subseteq AutoPaid /\ AutoPaid \in SUBSET Ids
    BY SentIsCounted DEF AutoPaid
  <2> HIDE DEF sent
  <2>2. \A S : Total[sent \cap S] <= Total[AutoPaid \cap S]
    <3> SUFFICES ASSUME NEW S PROVE Total[sent \cap S] <= Total[AutoPaid \cap S]
      OBVIOUS
    <3>1. AutoPaid \cap S \in SUBSET Ids /\ sent \cap S \in SUBSET (AutoPaid \cap S)
      BY <2>1
    <3> QED BY <3>1, TotalMonotone
  <2>3. \A S : Total[sent \cap S] \in Nat /\ Total[AutoPaid \cap S] \in Nat
    <3> SUFFICES ASSUME NEW S PROVE Total[sent \cap S] \in Nat /\ Total[AutoPaid \cap S] \in Nat
      OBVIOUS
    <3>1. AutoPaid \cap S \in SUBSET Ids /\ sent \cap S \in SUBSET Ids
      BY <2>1
    <3> QED BY <3>1, TotalNat
  <2>4. conf.daily \in Nat /\ conf.global \in Nat /\ conf.dest \in Nat
    BY DeploymentsAssumption DEF IInv, TypeOK
  <2>5. ASSUME NEW S, NEW cap \in Nat, cap = 0 \/ Total[AutoPaid \cap S] <= cap
        PROVE  cap = 0 \/ Total[sent \cap S] <= cap
    <3> DEFINE counted == Total[AutoPaid \cap S]
               left == Total[sent \cap S]
    <3>1. left <= counted /\ left \in Nat /\ counted \in Nat /\ (cap = 0 \/ counted <= cap)
      BY <2>2, <2>3, <2>5
    <3> HIDE DEF counted, left
    <3>2. cap = 0 \/ left <= cap
      BY <3>1
    <3> QED BY <3>2 DEF left
  <2>6. \A u \in Users : conf.daily = 0 \/ Total[sent \cap OfUser(u)] <= conf.daily
    BY <2>4, <2>5 DEF CapsInv, ClaimsFit
  <2>7. conf.global = 0 \/ Total[sent \cap Ids] <= conf.global
    <3>1. AutoPaid \cap Ids = AutoPaid
      BY <2>1
    <3> QED BY <2>4, <2>5, <3>1 DEF CapsInv, ClaimsFit
  <2>8. \A w \in Ids : conf.dest = 0 \/ Total[sent \cap ToDest(w)] <= conf.dest
    BY <2>4, <2>5 DEF CapsInv, ClaimsFit
  <2> QED BY <2>6, <2>7, <2>8 DEF CapsHold, sent, OfUser, ToDest
<1> QED BY <1>1, FitsInitially, CapsStep, Invariance, PTL DEF Spec

-----------------------------------------------------------------------------
(* Deposits and transfers.                                                 *)

Deposits == Txs \cup Intents
NoLimit == 0
\* A limit that is no higher than another.
Within(low, high) == high = NoLimit \/ (low # NoLimit /\ low <= high)

WalletTypeOK ==
    /\ purse \in [Payers -> Int]
    /\ sentOut \in [Payers -> Nat] /\ gotIn \in [Payers -> Nat]
    /\ credited \in SUBSET Deposits
    /\ limit \in [Wallet!Depositors -> Limits]
    /\ highest \in [Wallet!Depositors -> Limits]
    /\ DOMAIN inbound = Wallet!Ways
    /\ outbound \in [Payers -> {"idle", "one"}]

\* A deposit that is being handled is one, and was measured against a limit
\* that was in force that day.
LimitsAreOfTheDay ==
    /\ \A u \in Wallet!Depositors : Within(limit[u], highest[u])
    /\ \A way \in Wallet!Ways :
         inbound[way].pc # "idle" =>
           /\ inbound[way].item \in Deposits /\ inbound[way].cap \in Nat
           /\ Within(inbound[way].cap, highest[PayerOf[inbound[way].item]])

\* Two ways do not commit capped deposits of one user at once.
DepositsAreSerial ==
    \A v, w \in Wallet!Ways :
      (/\ inbound[v].pc = "commit" /\ inbound[v].cap # NoLimit
       /\ inbound[w].pc = "commit" /\ inbound[w].cap # NoLimit
       /\ PayerOf[inbound[v].item] = PayerOf[inbound[w].item]) => v = w

\* What a capped user's deposit was measured against has not moved since.
CommitsFit ==
    \A way \in Wallet!Ways :
      (inbound[way].pc = "commit" /\ highest[PayerOf[inbound[way].item]] # NoLimit) =>
        \/ inbound[way].item \in credited
        \/ Wallet!Cents[Wallet!Deposited(PayerOf[inbound[way].item])] + CentsOf[inbound[way].item]
             <= highest[PayerOf[inbound[way].item]]

TransfersFit ==
    \A u \in Payers : outbound[u] = "one" => Wallet!Covers(TransferCap, sentOut[u] + Gift)

WalletInv ==
    /\ WalletTypeOK /\ LimitsAreOfTheDay /\ DepositsAreSerial /\ CommitsFit /\ TransfersFit
    /\ Wallet!CreditedOnce /\ Wallet!DailyCapsHold

\* The amounts of deposits add up.
LEMMA CentsAddUp ==
         /\ Wallet!Cents \in [SUBSET Deposits -> Nat]
         /\ Wallet!Cents[{}] = 0
         /\ \A S \in SUBSET Deposits : \A d \in Deposits \ S :
              Wallet!Cents[S \cup {d}] = CentsOf[d] + Wallet!Cents[S]
<1>1. IsFiniteSet(Deposits) /\ \A d \in Deposits : CentsOf[d] \in Nat
  BY DepositsAssumption DEF Deposits
<1>2. Adds(CentsOf, Wallet!Cents, Deposits)
  <2>1. Wallet!Cents = CHOOSE g : Adds(CentsOf, g, Deposits)
    BY Zenon DEF Wallet!Cents, Adds, Pick, Deposits
  <2> QED BY <1>1, <2>1, AddsChosen
<1>3. Wallet!Cents \in [SUBSET Deposits -> Nat]
  BY <1>1, <1>2, SumNat
<1>4. Wallet!Cents[{}] = 0
  BY <1>2, AddsApart
<1>5. ASSUME NEW S \in SUBSET Deposits, NEW d \in Deposits \ S
      PROVE  Wallet!Cents[S \cup {d}] = CentsOf[d] + Wallet!Cents[S]
  <2>1. S \cup {d} \in SUBSET Deposits /\ d \in S \cup {d} /\ (S \cup {d}) \ {d} = S
    OBVIOUS
  <2>2. Wallet!Cents[S \cup {d}] = CentsOf[d] + Wallet!Cents[(S \cup {d}) \ {d}]
    BY <1>1, <1>2, <2>1, SumWithout
  <2> QED BY <2>1, <2>2
<1> QED BY <1>3, <1>4, <1>5

LEMMA WalletInitially == Wallet!Init => WalletInv
<1> SUFFICES ASSUME Wallet!Init PROVE WalletInv
  OBVIOUS
<1> USE DEF Wallet!Init
<1>1. WalletTypeOK
  BY DepositsAssumption DEF WalletTypeOK
<1>2. \A way \in Wallet!Ways : inbound[way].pc = "idle"
  BY DEF Wallet!NoDeposit
<1>3. LimitsAreOfTheDay
  <2>1. \A u \in Wallet!Depositors : limit[u] \in Nat /\ highest[u] = limit[u]
    BY <1>1, DepositsAssumption DEF WalletTypeOK
  <2>2. \A u \in Wallet!Depositors : Within(limit[u], highest[u])
    BY <2>1 DEF Within, NoLimit
  <2> QED BY <1>2, <2>2 DEF LimitsAreOfTheDay
<1>4. DepositsAreSerial /\ CommitsFit
  BY <1>2 DEF DepositsAreSerial, CommitsFit
<1>5. TransfersFit
  BY DEF TransfersFit
<1>6. \A u \in Payers : Wallet!Cents[Wallet!Deposited(u)] = 0
  BY CentsAddUp DEF Wallet!Deposited
<1>7. Wallet!CreditedOnce
  BY <1>6, DepositsAssumption DEF Wallet!CreditedOnce
<1>8. Wallet!DailyCapsHold
  <2>1. \A u \in Wallet!Depositors : u \in Payers /\ highest[u] \in Nat
    BY <1>1, DepositsAssumption DEF WalletTypeOK, Wallet!Depositors
  <2> QED BY <1>6, <2>1, DepositsAssumption DEF Wallet!DailyCapsHold, Wallet!Covers
<1> QED BY <1>1, <1>3, <1>4, <1>5, <1>7, <1>8 DEF WalletInv

\* A step that leaves the money, the limits and the transfers alone, and of the
\* deposits under way at most drops some or goes on with one.
LEMMA WaysMove ==
  ASSUME WalletInv, DOMAIN inbound' = Wallet!Ways,
         UNCHANGED <<purse, sentOut, gotIn, credited, limit, highest, outbound>>,
         LimitsAreOfTheDay', DepositsAreSerial', CommitsFit'
  PROVE  WalletInv'
<1>1. \A u : Wallet!Deposited(u)' = Wallet!Deposited(u)
  BY DEF Wallet!Deposited
<1>2. Wallet!CreditedOnce' /\ Wallet!DailyCapsHold' /\ TransfersFit'
  BY <1>1 DEF WalletInv, Wallet!CreditedOnce, Wallet!DailyCapsHold, TransfersFit
<1>3. WalletTypeOK'
  BY DEF WalletInv, WalletTypeOK
<1> QED BY <1>2, <1>3 DEF WalletInv

\* A way that stops handling its deposit.
LEMMA WayStops ==
  ASSUME WalletInv, NEW way \in Wallet!Ways,
         inbound' = [inbound EXCEPT ![way] = Wallet!NoDeposit],
         UNCHANGED <<credited, limit, highest>>
  PROVE  DOMAIN inbound' = Wallet!Ways /\ LimitsAreOfTheDay' /\ DepositsAreSerial' /\ CommitsFit'
<1>1. /\ DOMAIN inbound' = Wallet!Ways
      /\ \A w \in Wallet!Ways : inbound'[w] = inbound[w] \/ inbound'[w].pc = "idle"
  BY DEF WalletInv, WalletTypeOK, Wallet!NoDeposit
<1>2. \A u : Wallet!Deposited(u)' = Wallet!Deposited(u)
  BY DEF Wallet!Deposited
<1>3. LimitsAreOfTheDay'
  BY <1>1 DEF WalletInv, LimitsAreOfTheDay
<1>4. DepositsAreSerial'
  BY <1>1 DEF WalletInv, DepositsAreSerial
<1>5. CommitsFit'
  BY <1>1, <1>2 DEF WalletInv, CommitsFit
<1> QED BY <1>1, <1>3, <1>4, <1>5

\* A way that takes up a deposit.
LEMMA WayStarts ==
  ASSUME WalletInv, NEW way \in Wallet!Ways, NEW d \in Deposits,
         inbound[way].pc = "idle", Wallet!Accept(way, d),
         UNCHANGED <<purse, sentOut, gotIn, credited, limit, highest, outbound>>
  PROVE  WalletInv'
<1>1. /\ DOMAIN inbound' = Wallet!Ways
      /\ \A w \in Wallet!Ways : w # way => inbound'[w] = inbound[w]
      /\ inbound'[way].pc = "credit" /\ inbound'[way].item = d
      /\ inbound'[way].cap = limit[PayerOf[d]]
  BY DEF WalletInv, WalletTypeOK, Wallet!Accept
<1>2. \A u : Wallet!Deposited(u)' = Wallet!Deposited(u)
  BY DEF Wallet!Deposited
<1>3. LimitsAreOfTheDay'
  <2>1. PayerOf[d] \in Wallet!Depositors /\ limit[PayerOf[d]] \in Nat
    BY DepositsAssumption DEF WalletInv, WalletTypeOK, Wallet!Depositors, Deposits
  <2> QED BY <1>1, <2>1 DEF WalletInv, LimitsAreOfTheDay
<1>4. DepositsAreSerial'
  BY <1>1 DEF WalletInv, DepositsAreSerial
<1>5. CommitsFit'
  BY <1>1, <1>2 DEF WalletInv, CommitsFit
<1> QED BY <1>1, <1>3, <1>4, <1>5, WaysMove

LEMMA BeginCreditKeeps ==
  ASSUME WalletInv, NEW way \in Wallet!Ways, Wallet!beginCredit(way)
  PROVE  WalletInv'
<1> DEFINE d == inbound[way].item
           u == PayerOf[d]
           cap == inbound[way].cap
           fits == d \in credited \/ Wallet!Covers(cap, Wallet!Cents[Wallet!Deposited(u)] + CentsOf[d])
<1>1. /\ inbound[way].pc = "credit"
      /\ cap # 0 => ~Wallet!Locked(u)
      /\ inbound' = [inbound EXCEPT ![way] = IF fits THEN [@ EXCEPT !.pc = "commit"] ELSE Wallet!NoDeposit]
      /\ UNCHANGED <<purse, credited, sentOut, gotIn, limit, highest, outbound>>
  BY DEF Wallet!beginCredit, Wallet!NoLimit
<1>2. CASE ~fits
  <2>1. inbound' = [inbound EXCEPT ![way] = Wallet!NoDeposit]
    BY <1>1, <1>2
  <2>2. DOMAIN inbound' = Wallet!Ways /\ LimitsAreOfTheDay' /\ DepositsAreSerial' /\ CommitsFit'
    BY <1>1, <2>1, WayStops
  <2> QED BY <1>1, <2>2, WaysMove
<1>3. CASE fits
  <2>1. inbound' = [inbound EXCEPT ![way] = [@ EXCEPT !.pc = "commit"]]
    BY <1>1, <1>3
  <2>2. /\ DOMAIN inbound' = Wallet!Ways
        /\ \A w \in Wallet!Ways : w # way => inbound'[w] = inbound[w]
        /\ inbound'[way] = [inbound[way] EXCEPT !.pc = "commit"]
    BY <2>1 DEF WalletInv, WalletTypeOK
  <2>3. d \in Deposits /\ cap \in Nat /\ Within(cap, highest[u])
    <3>1. inbound[way].pc # "idle" /\ LimitsAreOfTheDay
      BY <1>1 DEF WalletInv
    <3> QED BY <3>1 DEF LimitsAreOfTheDay
  <2>4. inbound'[way].item = d /\ inbound'[way].cap = cap
    BY <2>2
  <2>5. LimitsAreOfTheDay'
    <3> HIDE DEF d, cap
    <3> QED BY ZenonT(60), <1>1, <2>2, <2>3, <2>4 DEF WalletInv, LimitsAreOfTheDay
  <2>6. DepositsAreSerial'
    <3>1. ASSUME cap # 0, NEW w \in Wallet!Ways, w # way,
                 inbound[w].pc = "commit", inbound[w].cap # 0
          PROVE  PayerOf[inbound[w].item] # u
      <4>1. ~Wallet!Locked(u)
        BY <1>1, <3>1
      <4> HIDE DEF u
      <4> QED BY <3>1, <4>1 DEF Wallet!Locked, Wallet!NoLimit
    <3>2. DepositsAreSerial
      BY DEF WalletInv
    <3>3. /\ \A w \in Wallet!Ways : w # way => inbound'[w] = inbound[w]
          /\ PayerOf[inbound'[way].item] = u /\ inbound'[way].cap = cap
      BY <2>2, <2>4
    <3> HIDE DEF d, cap, u
    <3> QED BY <3>1, <3>2, <3>3 DEF DepositsAreSerial, NoLimit
  <2>7. CommitsFit'
    <3>1. \A x : Wallet!Deposited(x)' = Wallet!Deposited(x)
      BY <1>1 DEF Wallet!Deposited
    <3>2. highest[u] # 0 =>
            d \in credited \/ Wallet!Cents[Wallet!Deposited(u)] + CentsOf[d] <= highest[u]
      <4>1. highest[u] \in Nat
        BY <2>3, DepositsAssumption DEF WalletInv, WalletTypeOK, Wallet!Depositors, Deposits
      <4>2. Wallet!Deposited(u) \in SUBSET Deposits /\ CentsOf[d] \in Nat
        BY <2>3, DepositsAssumption DEF WalletInv, WalletTypeOK, Wallet!Deposited, Deposits
      <4>3. Wallet!Cents[Wallet!Deposited(u)] \in Nat
        BY <4>2, CentsAddUp
      <4> DEFINE day == Wallet!Cents[Wallet!Deposited(u)]
      <4>4. d \in credited \/ cap = 0 \/ day + CentsOf[d] <= cap
        BY <1>3 DEF Wallet!Covers, Wallet!NoLimit
      <4> HIDE DEF day, d, cap, u, fits
      <4> QED BY <2>3, <4>1, <4>2, <4>3, <4>4 DEF Within, NoLimit, day
    <3>3. CommitsFit
      BY DEF WalletInv
    <3> HIDE DEF d, cap, fits
    <3> QED BY ZenonT(60), <1>1, <2>2, <2>4, <3>1, <3>2, <3>3 DEF CommitsFit, NoLimit, u
  <2> QED BY <1>1, <2>2, <2>5, <2>6, <2>7, WaysMove
<1> QED BY <1>2, <1>3

LEMMA CommitCreditKeeps ==
  ASSUME WalletInv, NEW way \in Wallet!Ways, Wallet!commitCredit(way)
  PROVE  WalletInv'
<1>0. \E d, u : d = inbound[way].item /\ u = PayerOf[d]
  OBVIOUS
<1>d. PICK d, u : d = inbound[way].item /\ u = PayerOf[d]
  BY <1>0
<1>1. /\ inbound[way].pc = "commit" /\ credited' = credited \cup {d}
      /\ purse' = [purse EXCEPT ![u] = IF d \in credited THEN @ ELSE @ + CentsOf[d]]
      /\ inbound' = [inbound EXCEPT ![way] = Wallet!NoDeposit]
      /\ UNCHANGED <<sentOut, gotIn, limit, highest, outbound>>
  BY <1>d DEF Wallet!commitCredit
<1>2. /\ d \in Deposits /\ u \in Payers /\ u \in Wallet!Depositors /\ CentsOf[d] \in Nat
      /\ inbound[way].cap \in Nat /\ Within(inbound[way].cap, highest[u])
  BY <1>1, <1>d, DepositsAssumption DEF WalletInv, LimitsAreOfTheDay, Deposits, Wallet!Depositors
<1>3. CASE d \in credited
  <2>1. credited' = credited /\ purse' = purse
    BY <1>1, <1>3 DEF WalletInv, WalletTypeOK
  <2>2. DOMAIN inbound' = Wallet!Ways /\ LimitsAreOfTheDay' /\ DepositsAreSerial' /\ CommitsFit'
    BY <1>1, <2>1, WayStops
  <2> QED BY <1>1, <2>1, <2>2, WaysMove
<1>4. CASE d \notin credited
  <2>1. /\ Wallet!Deposited(u)' = Wallet!Deposited(u) \cup {d} /\ d \notin Wallet!Deposited(u)
        /\ \A x : x # u => Wallet!Deposited(x)' = Wallet!Deposited(x)
    BY <1>1, <1>4, <1>d DEF Wallet!Deposited
  <2>2. \A x : Wallet!Deposited(x) \in SUBSET Deposits
    BY DEF Wallet!Deposited, WalletInv, WalletTypeOK
  <2>3. Wallet!Cents[Wallet!Deposited(u)'] = CentsOf[d] + Wallet!Cents[Wallet!Deposited(u)]
    BY <1>2, <2>1, <2>2, CentsAddUp
  <2>4. \A x : Wallet!Cents[Wallet!Deposited(x)] \in Nat
    BY <2>2, CentsAddUp
  <2>5. \A w \in Wallet!Ways : (inbound'[w] = inbound[w] /\ w # way) \/ inbound'[w].pc = "idle"
    BY <1>1 DEF WalletInv, WalletTypeOK, Wallet!NoDeposit
  <2>6. WalletTypeOK'
    <3>1. purse' = [purse EXCEPT ![u] = @ + CentsOf[d]]
      BY <1>1, <1>4
    <3>2. purse' \in [Payers -> Int]
      BY <1>2, <3>1 DEF WalletInv, WalletTypeOK
    <3>3. credited' \in SUBSET Deposits /\ DOMAIN inbound' = Wallet!Ways
      BY <1>1, <1>2 DEF WalletInv, WalletTypeOK
    <3> QED BY <1>1, <3>2, <3>3 DEF WalletInv, WalletTypeOK
  <2>7. LimitsAreOfTheDay'
    BY <1>1, <2>5 DEF WalletInv, LimitsAreOfTheDay
  <2>8. DepositsAreSerial'
    BY <1>1, <2>5 DEF WalletInv, DepositsAreSerial
  <2>9. TransfersFit'
    BY <1>1 DEF WalletInv, TransfersFit
  <2>10. CommitsFit'
    <3>1. ASSUME NEW w \in Wallet!Ways, w # way, inbound[w].pc = "commit", NEW e, e = inbound[w].item,
                 NEW x, x = PayerOf[e], highest[x] # NoLimit
          PROVE  e \in credited' \/ Wallet!Cents[Wallet!Deposited(x)'] + CentsOf[e] <= highest[x]
      <4>1. inbound[w].cap \in Nat /\ Within(inbound[w].cap, highest[x])
        <5>1. inbound[w].pc # "idle"
          BY <3>1
        <5> QED BY <3>1, <5>1 DEF WalletInv, LimitsAreOfTheDay
      <4>2. inbound[w].cap # NoLimit
        BY <3>1, <4>1 DEF Within
      <4>3. x = u => inbound[way].cap # NoLimit
        BY <1>2, <3>1 DEF Within
      <4>4. x # u
        <5>1. DepositsAreSerial
          BY DEF WalletInv
        <5>2. inbound[way].pc = "commit" /\ PayerOf[inbound[way].item] = u
          BY <1>1, <1>d
        <5> QED BY <3>1, <4>2, <4>3, <5>1, <5>2 DEF DepositsAreSerial
      <4>5. Wallet!Deposited(x)' = Wallet!Deposited(x)
        BY <2>1, <4>4
      <4>6. CommitsFit /\ credited \subseteq credited'
        BY <1>1 DEF WalletInv
      <4> QED BY <3>1, <4>5, <4>6 DEF CommitsFit
    <3>2. ASSUME NEW w \in Wallet!Ways, inbound'[w].pc = "commit"
          PROVE  inbound'[w] = inbound[w] /\ w # way
      BY <2>5, <3>2
    <3>3. highest' = highest
      BY <1>1
    <3>4. \A w \in Wallet!Ways : \A e, x :
            (inbound'[w].pc = "commit" /\ e = inbound'[w].item /\ x = PayerOf[e] /\ highest'[x] # NoLimit) =>
               e \in credited' \/ Wallet!Cents[Wallet!Deposited(x)'] + CentsOf[e] <= highest'[x]
      BY <3>1, <3>2, <3>3
    <3>5. \A x : Wallet!Deposited(x)' = {y \in credited' : PayerOf[y] = x}
      BY DEF Wallet!Deposited
    <3> QED BY <3>4, <3>5 DEF CommitsFit, Wallet!Deposited
  <2>11. Wallet!CreditedOnce'
    <3> SUFFICES ASSUME NEW x \in Payers
                 PROVE  purse'[x] = OpeningCents + Wallet!Cents[Wallet!Deposited(x)'] + gotIn'[x] - sentOut'[x]
      BY DEF Wallet!CreditedOnce
    <3>1. purse[x] = OpeningCents + Wallet!Cents[Wallet!Deposited(x)] + gotIn[x] - sentOut[x]
      BY DEF WalletInv, Wallet!CreditedOnce
    <3>2. purse[x] \in Int /\ gotIn[x] \in Nat /\ sentOut[x] \in Nat /\ OpeningCents \in Nat
      BY DepositsAssumption DEF WalletInv, WalletTypeOK
    <3>3. CASE x # u
      <4>1. purse'[x] = purse[x] /\ Wallet!Deposited(x)' = Wallet!Deposited(x)
        BY <1>1, <2>1, <3>3 DEF WalletInv, WalletTypeOK
      <4> QED BY <1>1, <3>1, <4>1
    <3>4. CASE x = u
      <4>1. purse'[u] = purse[u] + CentsOf[d]
        BY <1>1, <1>2, <1>4 DEF WalletInv, WalletTypeOK
      <4> DEFINE a == Wallet!Cents[Wallet!Deposited(u)]
                 b == Wallet!Cents[Wallet!Deposited(u)']
      <4>2. a \in Nat /\ b = CentsOf[d] + a
        BY <2>3, <2>4
      <4>3. purse[u] = OpeningCents + a + gotIn[u] - sentOut[u]
        BY <3>1, <3>4
      <4> HIDE DEF a, b
      <4>4. purse'[u] = OpeningCents + b + gotIn[u] - sentOut[u]
        BY <1>2, <3>2, <3>4, <4>1, <4>2, <4>3
      <4> QED BY <1>1, <3>4, <4>4 DEF b
    <3> QED BY <3>3, <3>4
  <2>12. Wallet!DailyCapsHold'
    <3>1. highest[u] \in Nat
      BY <1>2, DepositsAssumption DEF WalletInv, WalletTypeOK
    <3>2. highest[u] # NoLimit => Wallet!Cents[Wallet!Deposited(u)] + CentsOf[d] <= highest[u]
      BY <1>1, <1>4, <1>d DEF WalletInv, CommitsFit
    <3>3. highest[u] # NoLimit => Wallet!Cents[Wallet!Deposited(u)'] <= highest[u]
      <4> DEFINE a == Wallet!Cents[Wallet!Deposited(u)]
                 b == Wallet!Cents[Wallet!Deposited(u)']
      <4>1. a \in Nat /\ b = CentsOf[d] + a
        BY <2>3, <2>4
      <4>2. highest[u] # NoLimit => a + CentsOf[d] <= highest[u]
        BY <3>2
      <4> HIDE DEF a, b
      <4>3. highest[u] # NoLimit => b <= highest[u]
        BY <1>2, <3>1, <4>1, <4>2
      <4> QED BY <4>3 DEF b
    <3>4. ASSUME NEW x \in Payers
          PROVE  /\ x \in Wallet!Depositors => Wallet!Covers(highest'[x], Wallet!Cents[Wallet!Deposited(x)'])
                 /\ Wallet!Covers(TransferCap, sentOut'[x])
      <4>1. /\ x \in Wallet!Depositors => Wallet!Covers(highest[x], Wallet!Cents[Wallet!Deposited(x)])
            /\ Wallet!Covers(TransferCap, sentOut[x])
        BY DEF WalletInv, Wallet!DailyCapsHold
      <4>2. x # u => Wallet!Deposited(x)' = Wallet!Deposited(x)
        BY <2>1
      <4>3. CASE x # u
        BY <1>1, <4>1, <4>2, <4>3
      <4>4. CASE x = u
        BY <1>1, <3>3, <4>1, <4>4 DEF Wallet!Covers, Wallet!NoLimit, NoLimit
      <4> QED BY <4>3, <4>4
    <3> QED BY <3>4 DEF Wallet!DailyCapsHold
  <2> QED BY <2>6, <2>7, <2>8, <2>9, <2>10, <2>11, <2>12 DEF WalletInv
<1> QED BY <1>3, <1>4

\* The day's limit is moved; its highest does not fall.
LEMMA SetLimitsKeeps ==
  ASSUME WalletInv, NEW u \in Wallet!Depositors, NEW cap \in Limits,
         Wallet!setLimits(u, cap)
  PROVE  WalletInv'
<1>1. /\ limit' = [limit EXCEPT ![u] = cap]
      /\ highest' = [highest EXCEPT ![u] = IF cap = NoLimit \/ @ = NoLimit THEN NoLimit
                                           ELSE IF cap > @ THEN cap ELSE @]
      /\ UNCHANGED <<purse, credited, sentOut, gotIn, inbound, outbound>>
  BY DEF Wallet!setLimits, Wallet!NoLimit, NoLimit
<1>2. Limits \subseteq Nat /\ cap \in Nat
  BY DepositsAssumption
<1>3. /\ limit \in [Wallet!Depositors -> Limits] /\ highest \in [Wallet!Depositors -> Limits]
  BY DEF WalletInv, WalletTypeOK
<1>4. /\ limit' \in [Wallet!Depositors -> Limits] /\ limit'[u] = cap
      /\ \A x \in Wallet!Depositors : x # u => limit'[x] = limit[x] /\ highest'[x] = highest[x]
      /\ DOMAIN highest' = Wallet!Depositors
  BY <1>1, <1>3
<1>5. highest'[u] = IF cap = NoLimit \/ highest[u] = NoLimit THEN NoLimit
                    ELSE IF cap > highest[u] THEN cap ELSE highest[u]
  BY <1>1, <1>3
<1>6. highest' \in [Wallet!Depositors -> Limits]
  <2>1. highest'[u] \in Limits
    BY <1>3, <1>5 DEF NoLimit
  <2>2. highest' = [highest EXCEPT ![u] = highest'[u]]
    BY <1>1, <1>3, <1>5
  <2> QED BY <1>3, <2>1, <2>2
<1>7. \A x \in Wallet!Depositors : \A n \in Nat :
        /\ Within(n, highest[x]) => Within(n, highest'[x])
        /\ Wallet!Covers(highest[x], n) => Wallet!Covers(highest'[x], n)
  <2> SUFFICES ASSUME NEW x \in Wallet!Depositors, NEW n \in Nat
               PROVE  /\ Within(n, highest[x]) => Within(n, highest'[x])
                      /\ Wallet!Covers(highest[x], n) => Wallet!Covers(highest'[x], n)
    OBVIOUS
  <2>1. highest[x] \in Nat /\ highest'[x] \in Nat
    BY <1>2, <1>3, <1>6
  <2>2. highest'[x] = highest[x] \/ highest'[x] = NoLimit
          \/ (highest[x] # NoLimit /\ highest'[x] > highest[x])
    BY <1>4, <1>5
  <2> QED BY <2>1, <2>2 DEF Within, Wallet!Covers, Wallet!NoLimit, NoLimit
<1>8. WalletTypeOK'
  BY <1>1, <1>4, <1>6 DEF WalletInv, WalletTypeOK
<1>9. LimitsAreOfTheDay'
  <2>1. \A x \in Wallet!Depositors : Within(limit'[x], highest'[x])
    <3>1. Within(cap, highest'[u])
      <4>1. highest[u] \in Nat /\ cap \in Nat
        BY <1>2, <1>3
      <4> DEFINE h == highest[u]
                 k == highest'[u]
      <4>2. k = IF cap = 0 \/ h = 0 THEN 0 ELSE IF cap > h THEN cap ELSE h
        BY <1>5 DEF NoLimit
      <4> HIDE DEF h, k
      <4>3. k = 0 \/ (cap # 0 /\ cap <= k)
        BY <4>1, <4>2 DEF h
      <4> QED BY <4>3 DEF Within, NoLimit, k
    <3>2. \A x \in Wallet!Depositors : Within(limit[x], highest[x]) /\ limit[x] \in Nat
      BY <1>2, <1>3 DEF WalletInv, LimitsAreOfTheDay
    <3> QED BY <1>4, <3>1, <3>2
  <2>2. \A d \in Deposits : PayerOf[d] \in Wallet!Depositors
    BY DEF Wallet!Depositors, Deposits
  <2> QED BY <1>1, <1>7, <2>1, <2>2 DEF WalletInv, LimitsAreOfTheDay
<1>10. DepositsAreSerial'
  BY <1>1 DEF WalletInv, DepositsAreSerial
<1>11. \A x : Wallet!Deposited(x)' = Wallet!Deposited(x)
  BY <1>1 DEF Wallet!Deposited
<1>12. \A x : Wallet!Cents[Wallet!Deposited(x)] \in Nat
  BY CentsAddUp DEF Wallet!Deposited, WalletInv, WalletTypeOK
<1>13. CommitsFit'
  <2> SUFFICES ASSUME NEW w \in Wallet!Ways, inbound[w].pc = "commit",
                      highest'[PayerOf[inbound[w].item]] # NoLimit
               PROVE  \/ inbound[w].item \in credited
                      \/ Wallet!Cents[Wallet!Deposited(PayerOf[inbound[w].item])] + CentsOf[inbound[w].item]
                           <= highest'[PayerOf[inbound[w].item]]
    BY <1>1, <1>11 DEF CommitsFit, Wallet!Deposited
  <2> DEFINE e == inbound[w].item
             x == PayerOf[e]
             day == Wallet!Cents[Wallet!Deposited(x)]
  <2>1. e \in Deposits /\ x \in Wallet!Depositors
    <3>1. inbound[w].pc # "idle"
      OBVIOUS
    <3> QED BY <3>1 DEF WalletInv, LimitsAreOfTheDay, Wallet!Depositors, Deposits
  <2>2. CentsOf[e] \in Nat /\ day \in Nat /\ day + CentsOf[e] \in Nat
    BY <1>12, <2>1, DepositsAssumption DEF Deposits
  <2>3. highest[x] # NoLimit
    BY <1>4, <1>5, <2>1
  <2>4. e \in credited \/ day + CentsOf[e] <= highest[x]
    BY <2>3 DEF WalletInv, CommitsFit
  <2> HIDE DEF e, x, day
  <2>5. e \in credited \/ day + CentsOf[e] <= highest'[x]
    <3>1. highest'[x] # NoLimit
      BY DEF x, e
    <3>2. Wallet!Covers(highest[x], day + CentsOf[e]) => Wallet!Covers(highest'[x], day + CentsOf[e])
      BY <1>7, <2>1, <2>2
    <3> QED BY <2>3, <2>4, <3>1, <3>2 DEF Wallet!Covers, Wallet!NoLimit, NoLimit
  <2> QED BY <2>5 DEF e, x, day
<1>14. TransfersFit' /\ Wallet!CreditedOnce'
  BY <1>1, <1>11 DEF WalletInv, TransfersFit, Wallet!CreditedOnce
<1>15. Wallet!DailyCapsHold'
  BY <1>1, <1>7, <1>11, <1>12 DEF WalletInv, Wallet!DailyCapsHold
<1> QED BY <1>8, <1>9, <1>10, <1>13, <1>14, <1>15 DEF WalletInv

\* A step that leaves the deposits alone and moves money between two purses, or
\* none.
LEMMA TransferKeeps ==
  ASSUME WalletInv, NEW u \in Payers, NEW v \in Payers,
         Wallet!transferBegin(u, v) \/ Wallet!transferCommit(u, v)
  PROVE  WalletInv'
<1>1. u # v /\ UNCHANGED <<credited, limit, highest, inbound>>
  BY DEF Wallet!transferBegin, Wallet!transferCommit
<1>2. LimitsAreOfTheDay' /\ DepositsAreSerial' /\ (\A x : Wallet!Deposited(x)' = Wallet!Deposited(x))
  BY <1>1 DEF WalletInv, LimitsAreOfTheDay, DepositsAreSerial, Wallet!Deposited
<1>3. CommitsFit'
  BY <1>1 DEF WalletInv, CommitsFit, Wallet!Deposited
<1>4. CASE Wallet!transferBegin(u, v)
  <2>1. /\ outbound' = [outbound EXCEPT ![u] = "one"] /\ Wallet!Covers(TransferCap, sentOut[u] + Gift)
        /\ UNCHANGED <<purse, sentOut, gotIn>>
    BY <1>4 DEF Wallet!transferBegin
  <2>2. WalletTypeOK'
    BY <1>1, <2>1 DEF WalletInv, WalletTypeOK
  <2>3. TransfersFit'
    BY <2>1 DEF WalletInv, WalletTypeOK, TransfersFit
  <2>4. Wallet!CreditedOnce' /\ Wallet!DailyCapsHold'
    BY <1>1, <1>2, <2>1 DEF WalletInv, Wallet!CreditedOnce, Wallet!DailyCapsHold
  <2> QED BY <1>2, <1>3, <2>2, <2>3, <2>4 DEF WalletInv
<1>5. CASE Wallet!transferCommit(u, v)
  <2>1. outbound[u] = "one" /\ outbound' = [outbound EXCEPT ![u] = "idle"]
    BY <1>5 DEF Wallet!transferCommit, WalletInv, WalletTypeOK
  <2>2. CASE UNCHANGED <<purse, sentOut, gotIn>>
    <3>1. WalletTypeOK'
      BY <1>1, <2>1, <2>2 DEF WalletInv, WalletTypeOK
    <3>2. TransfersFit'
      BY <2>1, <2>2 DEF WalletInv, WalletTypeOK, TransfersFit
    <3>3. Wallet!CreditedOnce' /\ Wallet!DailyCapsHold'
      BY <1>1, <1>2, <2>2 DEF WalletInv, Wallet!CreditedOnce, Wallet!DailyCapsHold
    <3> QED BY <1>2, <1>3, <3>1, <3>2, <3>3 DEF WalletInv
  <2>3. CASE /\ purse' = [purse EXCEPT ![u] = @ - Gift, ![v] = @ + Gift]
             /\ sentOut' = [sentOut EXCEPT ![u] = @ + Gift]
             /\ gotIn' = [gotIn EXCEPT ![v] = @ + Gift]
    <3>1. /\ purse \in [Payers -> Int] /\ sentOut \in [Payers -> Nat] /\ gotIn \in [Payers -> Nat]
          /\ Gift \in Nat
      BY DepositsAssumption DEF WalletInv, WalletTypeOK
    <3>2. purse' \in [Payers -> Int] /\ sentOut' \in [Payers -> Nat] /\ gotIn' \in [Payers -> Nat]
      BY <2>3, <3>1
    <3>3. WalletTypeOK'
      BY <1>1, <2>1, <3>2 DEF WalletInv, WalletTypeOK
    <3>4. TransfersFit'
      BY <2>1, <2>3, <3>1 DEF WalletInv, WalletTypeOK, TransfersFit
    <3>5. Wallet!CreditedOnce'
      <4> SUFFICES ASSUME NEW x \in Payers
                   PROVE  purse'[x] = OpeningCents + Wallet!Cents[Wallet!Deposited(x)] + gotIn'[x] - sentOut'[x]
        BY <1>2 DEF Wallet!CreditedOnce
      <4> DEFINE day == Wallet!Cents[Wallet!Deposited(x)]
      <4>1. purse[x] = OpeningCents + day + gotIn[x] - sentOut[x]
        BY DEF WalletInv, Wallet!CreditedOnce
      <4>2. day \in Nat /\ OpeningCents \in Nat
        BY CentsAddUp, DepositsAssumption DEF Wallet!Deposited, WalletInv, WalletTypeOK
      <4> HIDE DEF day
      <4>3. /\ x = u => purse'[x] = purse[x] - Gift /\ sentOut'[x] = sentOut[x] + Gift /\ gotIn'[x] = gotIn[x]
            /\ x = v => purse'[x] = purse[x] + Gift /\ gotIn'[x] = gotIn[x] + Gift /\ sentOut'[x] = sentOut[x]
            /\ x # u /\ x # v => purse'[x] = purse[x] /\ gotIn'[x] = gotIn[x] /\ sentOut'[x] = sentOut[x]
        BY <1>1, <2>3, <3>1
      <4>4. purse'[x] = OpeningCents + day + gotIn'[x] - sentOut'[x]
        BY <3>1, <4>1, <4>2, <4>3
      <4> QED BY <4>4 DEF day
    <3>6. Wallet!DailyCapsHold'
      <4>1. Wallet!Covers(TransferCap, sentOut[u] + Gift)
        BY <2>1 DEF WalletInv, TransfersFit
      <4>2. /\ \A x \in Payers : x # u => sentOut'[x] = sentOut[x]
            /\ sentOut'[u] = sentOut[u] + Gift
        BY <2>3, <3>1
      <4> QED BY <1>1, <1>2, <4>1, <4>2 DEF WalletInv, Wallet!DailyCapsHold
    <3> QED BY <1>2, <1>3, <3>3, <3>4, <3>5, <3>6 DEF WalletInv
  <2> QED BY <1>5, <2>2, <2>3 DEF Wallet!transferCommit
<1> QED BY <1>4, <1>5

LEMMA WalletStep == WalletInv /\ [Wallet!Next]_walletVars => WalletInv'
<1> SUFFICES ASSUME WalletInv, [Wallet!Next]_walletVars PROVE WalletInv'
  OBVIOUS
<1>1. CASE UNCHANGED <<purse, credited, sentOut, gotIn, limit, highest, inbound, outbound>>
  <2>1. LimitsAreOfTheDay' /\ DepositsAreSerial' /\ CommitsFit'
    BY <1>1 DEF WalletInv, LimitsAreOfTheDay, DepositsAreSerial, CommitsFit, Wallet!Deposited
  <2> QED BY <1>1, <2>1, WaysMove DEF WalletInv, WalletTypeOK
<1>2. ASSUME NEW way \in Wallet!Ways, Wallet!creditFails(way) PROVE WalletInv'
  <2>1. /\ inbound' = [inbound EXCEPT ![way] = Wallet!NoDeposit]
        /\ UNCHANGED <<purse, sentOut, gotIn, credited, limit, highest, outbound>>
    BY <1>2 DEF Wallet!creditFails
  <2> QED BY <2>1, WayStops, WaysMove
<1>3. ASSUME NEW t \in Txs, Wallet!transferArrives(t) PROVE WalletInv'
  BY <1>1, <1>3 DEF Wallet!transferArrives
<1>4. ASSUME NEW t \in Txs, Wallet!poll(t) PROVE WalletInv'
  <2>1. /\ UNCHANGED <<purse, sentOut, gotIn, credited, limit, highest, outbound>>
        /\ inbound["poller"].pc = "idle"
        /\ inbound' = inbound \/ Wallet!Accept("poller", t)
    BY <1>4 DEF Wallet!poll
  <2>2. t \in Deposits /\ "poller" \in Wallet!Ways
    BY DEF Deposits, Wallet!Ways
  <2> QED BY <1>1, <2>1, <2>2, WayStarts
<1>5. ASSUME NEW t \in Txs, NEW u \in Payers, Wallet!submitTxid(t, u) PROVE WalletInv'
  <2>1. /\ UNCHANGED <<purse, sentOut, gotIn, credited, limit, highest, outbound>>
        /\ inbound["txid"].pc = "idle" /\ Wallet!Accept("txid", t)
    BY <1>5 DEF Wallet!submitTxid
  <2>2. t \in Deposits /\ "txid" \in Wallet!Ways
    BY DEF Deposits, Wallet!Ways
  <2> QED BY <2>1, <2>2, WayStarts
<1>6. ASSUME NEW i \in Intents, Wallet!webhook(i) PROVE WalletInv'
  <2>1. /\ UNCHANGED <<purse, sentOut, gotIn, credited, limit, highest, outbound>>
        /\ inbound["webhook"].pc = "idle" /\ Wallet!Accept("webhook", i)
    BY <1>6 DEF Wallet!webhook
  <2>2. i \in Deposits /\ "webhook" \in Wallet!Ways
    BY DEF Deposits, Wallet!Ways
  <2> QED BY <2>1, <2>2, WayStarts
<1>7. ASSUME NEW i \in Intents, Wallet!depositRoute(i) \/ Wallet!intentExpires(i) PROVE WalletInv'
  BY <1>1, <1>7 DEF Wallet!depositRoute, Wallet!intentExpires
<1>8. ASSUME NEW u \in Wallet!Depositors,
             Wallet!markWatching(u) \/ Wallet!watchExpires(u) \/ Wallet!setBlocked(u)
      PROVE  WalletInv'
  BY <1>1, <1>8 DEF Wallet!markWatching, Wallet!watchExpires, Wallet!setBlocked
<1>9. CASE UNCHANGED walletVars
  BY <1>1, <1>9 DEF walletVars
<1> QED
  BY <1>2, <1>3, <1>4, <1>5, <1>6, <1>7, <1>8, <1>9, BeginCreditKeeps, CommitCreditKeeps,
     SetLimitsKeeps, TransferKeeps
  DEF Wallet!Next

-----------------------------------------------------------------------------
(* Tournaments.                                                            *)

CupTypeOK ==
    /\ setting.capacity \in Nat /\ entered \in Nat
    /\ phase \in {"none", "registering", "running", "awaiting_confirmation", "finished",
                  "cancelled", "deleted"}
    /\ torn \in BOOLEAN
    /\ refunding = {0} \/ refunding \subseteq 1..entered
    /\ \A u \in Nat : Cup!Refunded(u) => u \in 1..entered

\* A refund under way is of a tournament that may be refunded, and whoever it
\* is past has the buy-in back.
RefundIsUnderWay ==
    refunding # {0} =>
      /\ phase \in Cup!Sweepable
      /\ \A u \in 1..entered : u \notin refunding => Cup!Refunded(u)

\* Who was refunded by nobody in particular was by a refund that stopped.
TornIsKnown ==
    (\E u \in Nat : Cup!Refunded(u)) =>
      torn \/ refunding # {0} \/ phase \in {"cancelled", "deleted"}

\* The prize is out of a tournament that is over.
PrizeEndsIt == Cup!Prize \in rows => phase \in {"finished", "deleted"}

CupInv == CupTypeOK /\ RefundIsUnderWay /\ TornIsKnown /\ PrizeEndsIt /\ Cup!PoolPaidOnce

\* Some number of a non-empty set is the least.
LEMMA LeastNumber ==
  ASSUME NEW n \in Nat, NEW S \in SUBSET (1..n), S # {}
  PROVE  \E v \in S : \A x \in S : v <= x
<1> DEFINE X == 1..n
           B == {T \in SUBSET X : T # {} /\ ~\E v \in T : \A x \in T : v <= x}
<1> SUFFICES ASSUME B # {} PROVE FALSE
  OBVIOUS
<1>1. PICK T \in B : \A U \in B : U \subseteq T => U = T
  <2>1. B \in SUBSET SUBSET X /\ IsFiniteSet(X)
    BY FS_Interval
  <2> HIDE DEF B, X
  <2> QED BY <2>1, LeastSubset
<1>2. PICK a \in T : TRUE
  OBVIOUS
<1>0. \A x \in T : x \in Int
  BY <1>1
<1>3. PICK b \in T : b < a
  BY <1>0, <1>1, <1>2
<1>4. T \ {a} \notin B /\ T \ {a} \in SUBSET X /\ T \ {a} # {}
  <2>1. b # a /\ b \in T \ {a}
    BY <1>0, <1>2, <1>3
  <2>2. T \in SUBSET X
    BY <1>1
  <2> HIDE DEF B, X
  <2> QED BY <1>1, <1>2, <2>1, <2>2
<1>5. PICK v \in T \ {a} : \A x \in T \ {a} : v <= x
  BY <1>4
<1>6. \A x \in T : v <= x
  <2>1. v <= b /\ b <= a /\ v <= a
    <3>1. v <= b
      BY <1>0, <1>2, <1>3, <1>5
    <3> QED BY <1>0, <1>2, <1>3, <1>5, <3>1
  <2> QED BY <1>5, <2>1
<1> QED BY <1>1, <1>5, <1>6

\* A step of the tournament that leaves the money alone: only the phase moves, and
\* not out of or into an end.
LEMMA CupInitially == Cup!Init => CupInv
<1> SUFFICES ASSUME Cup!Init PROVE CupInv
  OBVIOUS
<1>1. /\ setting \in Settings /\ phase = "none" /\ entered = 0 /\ refunding = {0} /\ rows = {}
      /\ torn = FALSE
  BY DEF Cup!Init, Cup!Idle, Cup!Nobody
<1>2. setting.capacity \in Nat
  BY <1>1, SettingsAssumption
<1> QED
  BY <1>1, <1>2 DEF CupInv, CupTypeOK, RefundIsUnderWay, TornIsKnown, PrizeEndsIt,
                    Cup!PoolPaidOnce, Cup!Refunded
\* finish, whoever reported: the prize comes out of an unlocked tournament.
LEMMA FinishKeeps ==
  ASSUME CupInv, refunding = {0}, phase \in {"running", "awaiting_confirmation"}, Cup!finish,
         UNCHANGED <<setting, entered, refunding, torn>>
  PROVE  CupInv'
<1> USE DEF CupInv, CupTypeOK, RefundIsUnderWay, TornIsKnown, PrizeEndsIt, Cup!PoolPaidOnce, Cup!Refunded, Cup!Nobody, Cup!Prize
<1>1. CASE UNCHANGED <<phase, rows>>
  BY <1>1
<1>2. CASE phase' = "finished" /\ rows' = rows \cup {Cup!Prize}
  <2>1. \A u : Cup!Refunded(u)' <=> Cup!Refunded(u)
    BY <1>2
  <2>2. \A u \in 1..entered : u \in Nat
    OBVIOUS
  <2> QED BY <1>2, <2>1, <2>2
<1> QED BY <1>1, <1>2 DEF Cup!finish

LEMMA CupStep == CupInv /\ [Cup!Next]_cupVars => CupInv'
<1> SUFFICES ASSUME CupInv, [Cup!Next]_cupVars PROVE CupInv'
  OBVIOUS
<1> USE DEF CupInv, CupTypeOK, RefundIsUnderWay, TornIsKnown, PrizeEndsIt, Cup!PoolPaidOnce, Cup!Refunded, Cup!Nobody, Cup!Prize, Cup!Unlocked, Cup!Idle, Cup!Sweepable, Cup!money, Cup!live, Cup!bracketRow
<1>1. CASE UNCHANGED cupVars
  BY <1>1 DEF cupVars
<1>2. CASE Cup!create
  BY <1>2 DEF Cup!create
<1>3. CASE Cup!register
  <2>1. /\ phase = "registering" /\ refunding = {0} /\ entered' = entered + 1
        /\ rows' = rows \cup {<<"buyin", entered'>>}
        /\ phase' \in {"running", "registering"}
        /\ UNCHANGED <<setting, refunding, torn>>
    BY <1>3 DEF Cup!register
  <2>2. /\ \A u : Cup!Refunded(u)' <=> Cup!Refunded(u)
        /\ Cup!Prize \in rows' => Cup!Prize \in rows
    BY <2>1
  <2> QED BY <2>1, <2>2
<1>4. CASE Cup!adminDelete
  BY <1>4 DEF Cup!adminDelete
<1>5. CASE Cup!refundBegin
  BY <1>5 DEF Cup!refundBegin
<1>6. CASE Cup!refundOne
  <2> DEFINE u == CHOOSE v \in refunding : \A x \in refunding : v <= x
  <2>1. /\ refunding # {0} /\ refunding # {}
        /\ rows' = rows \cup {<<"refund", u>>} /\ refunding' = refunding \ {u}
        /\ UNCHANGED <<setting, phase, entered, torn>>
    BY <1>6 DEF Cup!refundOne
  <2>2. refunding \in SUBSET (1..entered)
    BY <2>1
  <2>3. u \in refunding
    BY <2>1, <2>2, LeastNumber
  <2> HIDE DEF u
  <2>4. \A v : Cup!Refunded(v)' <=> Cup!Refunded(v) \/ v = u
    BY <2>1
  <2>5. Cup!Prize \notin rows /\ Cup!Prize \notin rows' /\ phase \in Cup!Sweepable
    BY <2>1
  <2>6. u \in 1..entered /\ refunding' \subseteq 1..entered
    BY <2>1, <2>2, <2>3
  <2>7. refunding' # {0}
    BY <2>6
  <2> QED BY <2>1, <2>4, <2>5, <2>6, <2>7
<1>7. CASE Cup!refundEnd
  <2>1. /\ refunding = {} /\ refunding' = {0} /\ phase' = "cancelled"
        /\ UNCHANGED <<setting, entered, rows, torn>>
    BY <1>7 DEF Cup!refundEnd
  <2> QED BY <2>1
<1>8. CASE Cup!refundFails
  <2>1. /\ refunding # {0} /\ refunding' = {0} /\ torn' = Cup!HalfRefunded
        /\ UNCHANGED <<setting, phase, entered, rows>>
    BY <1>8 DEF Cup!refundFails
  <2>2. torn' = \E u \in 1..entered : Cup!Refunded(u)
    BY <2>1 DEF Cup!HalfRefunded
  <2>3. \A u : Cup!Refunded(u)' <=> Cup!Refunded(u)
    BY <2>1
  <2>4. torn' \in BOOLEAN
    BY <2>2
  <2> QED BY <2>1, <2>2, <2>3, <2>4
<1>9. CASE Cup!crashTournament
  <2>1. /\ refunding' = {0} /\ torn' = (torn \/ (refunding # {0} /\ Cup!HalfRefunded))
        /\ UNCHANGED <<setting, phase, entered, rows>>
    BY <1>9 DEF Cup!crashTournament
  <2>2. Cup!HalfRefunded <=> \E u \in 1..entered : Cup!Refunded(u)
    BY DEF Cup!HalfRefunded
  <2>3. \A u : Cup!Refunded(u)' <=> Cup!Refunded(u)
    BY <2>1
  <2>4. torn' \in BOOLEAN
    BY <2>1
  <2> QED BY <2>1, <2>2, <2>3, <2>4
<1>10. ASSUME NEW admin \in Admins, Cup!confirmChampion(admin)
       PROVE  CupInv'
  BY <1>10, FinishKeeps DEF Cup!confirmChampion
<1>11. ASSUME NEW p \in Cup!Pairings, NEW u, NEW by, Cup!decide(p, u, by), Cup!Reportable(p, u),
              UNCHANGED <<setting, entered, refunding, torn>>
       PROVE  CupInv'
  <2>1. phase = "running" /\ refunding = {0}
    BY <1>11 DEF Cup!Reportable
  <2>2. CASE Cup!finish
    BY <1>11, <2>1, <2>2, FinishKeeps
  <2>3. CASE phase' \in {phase, "awaiting_confirmation"} /\ UNCHANGED rows
    BY <1>11, <2>1, <2>3
  <2> QED BY <1>11, <2>2, <2>3 DEF Cup!decide
<1>12. CASE UNCHANGED <<setting, phase, entered, refunding, rows, torn>>
  BY <1>12
<1>13. ASSUME NEW p \in Cup!Pairings, NEW u \in 1..Cup!Capacity,
              \/ Cup!joinMatch(p, u) \/ Cup!leaveMatch(p, u) \/ Cup!matchEnds(p, u)
              \/ Cup!beginMatch(p) \/ Cup!onTournamentNoShow(p) \/ Cup!runTournamentMatches
       PROVE  CupInv'
  BY <1>12, <1>13 DEF Cup!joinMatch, Cup!leaveMatch, Cup!matchEnds, Cup!beginMatch, Cup!onTournamentNoShow, Cup!runTournamentMatches
<1>14. ASSUME NEW p \in Cup!Pairings, NEW able,
              Cup!startTournamentMatch(p, able) \/ Cup!beginMatch(p) \/ Cup!onTournamentNoShow(p)
       PROVE  CupInv'
  BY <1>12, <1>14 DEF Cup!startTournamentMatch, Cup!beginMatch, Cup!onTournamentNoShow
<1>15. CASE Cup!runTournamentMatches
  BY <1>12, <1>15 DEF Cup!runTournamentMatches
<1>16. ASSUME NEW p \in Cup!Pairings, NEW u \in 1..Cup!Capacity, Cup!reportEngine(p, u)
       PROVE  CupInv'
  <2>1. UNCHANGED <<setting, entered, refunding, torn>>
    BY <1>16 DEF Cup!reportEngine
  <2>2. CASE Cup!Reportable(p, u) /\ Cup!decide(p, u, "gateway")
    BY <2>1, <2>2, <1>11
  <2>3. CASE UNCHANGED <<phase, rows>>
    BY <2>1, <2>3, <1>12
  <2> QED BY <1>16, <2>2, <2>3 DEF Cup!reportEngine
<1>17. ASSUME NEW p \in Cup!Pairings, NEW u \in 1..Cup!Capacity, NEW admin \in Admins,
              Cup!reportRoute(p, u, admin)
       PROVE  CupInv'
  BY <1>11, <1>17 DEF Cup!reportRoute
<1> QED
  BY <1>1, <1>2, <1>3, <1>4, <1>5, <1>6, <1>7, <1>8, <1>9, <1>10, <1>13, <1>14, <1>15, <1>16, <1>17
     DEF Cup!Next, Cup!Refunds

-----------------------------------------------------------------------------
(* Club wars.                                                              *)

\* What the members of a set of credits are worth, and what its subsets add up to.
Worth(S) == [c \in S |-> c.cents]
SumOf(S) == CHOOSE g : Adds(Worth(S), g, S)

\* A set of credits that hands out exactly the pool, as refunds or not.
HandsOut(S) ==
    /\ IsFiniteSet(S) /\ \A c \in S : c.cents \in Nat
    /\ SumOf(S)[S] = War!prizePoolCents
    /\ \A c, d \in S : c.kind = "refund" <=> d.kind = "refund"

WarTypeOK ==
    /\ stake \in Nat /\ roster \in [War!Clubs -> Nat]
    /\ war \in {"none", "registering", "running", "finished", "cancelled"}
    /\ DOMAIN working = {"op", "left"} /\ working.op \in {"none", "settle", "cancel"}
    /\ working.op = "none" => working = War!Free
    /\ tornWar \in BOOLEAN
    /\ war \in {"running", "finished"} => \A club \in War!Clubs : roster[club] > 0

\* A settlement is of a war that was played out, a refund of one that was not.
LockIsJustified ==
    /\ working.op = "settle" => war = "running" /\ War!AllDecided(beat)
    /\ working.op = "cancel" =>
         war = "registering" \/ (war = "running" /\ ~War!AllDecided(beat))

\* The credits in the ledger are those of the operation under way, or of the
\* one that closed the row, or of a settlement that will be resumed.
CreditsAreDue ==
    ~tornWar =>
      /\ working.op = "settle" => outgo \cup working.left = War!payoutSettled(beat)
      /\ working.op = "cancel" => outgo \cup working.left = War!refundAll
      /\ working.op = "none" =>
           /\ war = "finished" => outgo = War!payoutSettled(beat)
           /\ war = "cancelled" => outgo = War!refundAll
           /\ war \in {"none", "registering"} => outgo = {}
           /\ war = "running" /\ ~War!AllDecided(beat) => outgo = {}
           /\ war = "running" /\ War!AllDecided(beat) => outgo \subseteq War!payoutSettled(beat)

WarInv == WarTypeOK /\ LockIsJustified /\ CreditsAreDue

-----------------------------------------------------------------------------
LEMMA SumOfAdds ==
  ASSUME NEW S, IsFiniteSet(S), \A c \in S : c.cents \in Nat
  PROVE  Adds(Worth(S), SumOf(S), S) /\ \A c \in S : Worth(S)[c] = c.cents /\ Worth(S)[c] \in Nat
BY AddsChosen DEF Worth, SumOf

\* What has left the escrow is the worth of the credits in the ledger, seen as a
\* part of those that were due.
LEMMA PaidOutIsSum ==
  ASSUME NEW S, IsFiniteSet(S), \A c \in S : c.cents \in Nat, outgo \subseteq S
  PROVE  War!PaidOut = SumOf(S)[outgo] /\ War!PaidOut <= SumOf(S)[S]
<1>1. IsFiniteSet(outgo) /\ \A c \in outgo : c.cents \in Nat
  BY FS_Subset
<1> DEFINE Cents(g) == g = [s \in SUBSET outgo |-> IF s = {} THEN 0
                            ELSE LET c == CHOOSE c \in s : TRUE IN c.cents + g[s \ {c}]]
<1>2. \A g : Adds(Worth(S), g, outgo) => Cents(g)
  <2> SUFFICES ASSUME NEW g, Adds(Worth(S), g, outgo) PROVE Cents(g)
    OBVIOUS
  <2>1. ASSUME NEW s \in SUBSET outgo, s # {} PROVE Pick(s) \in S /\ Worth(S)[Pick(s)] = Pick(s).cents
    BY <2>1 DEF Pick, Worth
  <2>2. \A s \in SUBSET outgo :
          g[s] = IF s = {} THEN 0 ELSE Pick(s).cents + g[s \ {Pick(s)}]
    BY <2>1, AddsApart
  <2>3. g = [s \in SUBSET outgo |-> g[s]]
    BY DEF Adds
  <2>4. g = [s \in SUBSET outgo |-> IF s = {} THEN 0 ELSE Pick(s).cents + g[s \ {Pick(s)}]]
    BY <2>2, <2>3
  <2> QED BY <2>4 DEF Pick
<1>3. \A g : Cents(g) => Adds(Worth(S), g, outgo)
  <2> SUFFICES ASSUME NEW g, Cents(g) PROVE Adds(Worth(S), g, outgo)
    OBVIOUS
  <2>1. ASSUME NEW s \in SUBSET outgo, s # {} PROVE Pick(s) \in S /\ Worth(S)[Pick(s)] = Pick(s).cents
    BY <2>1 DEF Pick, Worth
  <2>4. g = [s \in SUBSET outgo |-> IF s = {} THEN 0 ELSE Pick(s).cents + g[s \ {Pick(s)}]]
    BY DEF Pick
  <2>2. \A s \in SUBSET outgo :
          g[s] = IF s = {} THEN 0 ELSE Worth(S)[Pick(s)] + g[s \ {Pick(s)}]
    BY <2>1, <2>4
  <2>3. g = [s \in SUBSET outgo |-> g[s]]
    BY <2>4
  <2>5. g = [s \in SUBSET outgo |-> IF s = {} THEN 0 ELSE Worth(S)[Pick(s)] + g[s \ {Pick(s)}]]
    BY <2>2, <2>3
  <2> QED BY <2>5 DEF Adds
<1>4. Cents(War!Cents)
  <2>1. \E g : Cents(g)
    BY ZenonT(60), <1>1, <1>2, AddsExists
  <2>2. War!Cents = CHOOSE g : Cents(g)
    BY Zenon DEF War!Cents
  <2> HIDE DEF Cents
  <2> QED BY <2>1, <2>2
<1> HIDE DEF Cents
<1>5. Adds(Worth(S), War!Cents, outgo)
  BY <1>3, <1>4
<1>6. War!Cents[outgo] = SumOf(S)[outgo]
  <2> DEFINE f == Worth(S)
             g == War!Cents
             h == SumOf(S)
  <2>1. Adds(f, g, outgo) /\ Adds(f, h, S)
    BY <1>5, SumOfAdds
  <2>2. outgo \in SUBSET S
    OBVIOUS
  <2> HIDE DEF f, g, h
  <2>3. g[outgo] = h[outgo]
    BY <2>1, <2>2, AddsPart
  <2> QED BY <2>3 DEF g, h
<1>7. SumOf(S)[outgo] <= SumOf(S)[S]
  BY SumOfAdds, SumMonotone
<1> QED BY <1>6, <1>7 DEF War!PaidOut

\* Shares of an amount are no more than it.
LEMMA Shares ==
  ASSUME NEW m \in Nat, NEW n \in Nat \ {0}
  PROVE  m \div n \in Nat /\ (m \div n) * n <= m
<1>1. m \div n \in Nat
  OBVIOUS
<1>2. \A q \in Nat : q = m \div n => q * n <= m
  OBVIOUS
<1> QED BY <1>1, <1>2

LEMMA MembersCount ==
  ASSUME WarTypeOK, NEW club \in War!Clubs
  PROVE  IsFiniteSet(War!Members(club)) /\ Cardinality(War!Members(club)) = roster[club]
<1>1. roster[club] \in Nat
  BY DEF WarTypeOK
<1>2. IsFiniteSet(1..roster[club]) /\ Cardinality(1..roster[club]) = roster[club]
  BY SMTT(30), <1>1, FS_Interval
<1>3. IsFiniteSet({club}) /\ Cardinality({club}) = 1
  BY FS_Singleton
<1> DEFINE S == {club}
           T == 1..roster[club]
<1> HIDE DEF S, T
<1>4. IsFiniteSet(S \X T) /\ Cardinality(S \X T) = Cardinality(S) * Cardinality(T)
  BY <1>2, <1>3, FS_Product DEF S, T
<1>5. Cardinality(S \X T) = roster[club]
  BY <1>1, <1>2, <1>3, <1>4 DEF S, T
<1> QED BY <1>4, <1>5 DEF War!Members, S, T

\* Part of what is due, one credit apart, and credits of the same amount.
LEMMA SumOfWithout ==
  ASSUME NEW S, IsFiniteSet(S), \A c \in S : c.cents \in Nat, NEW r \in S
  PROVE  SumOf(S)[S] = r.cents + SumOf(S)[S \ {r}]
<1>1. Adds(Worth(S), SumOf(S), S) /\ \A c \in S : Worth(S)[c] \in Nat
  BY SumOfAdds
<1>2. S \in SUBSET S /\ Worth(S)[r] = r.cents
  BY DEF Worth
<1>3. SumOf(S)[S] = Worth(S)[r] + SumOf(S)[S \ {r}]
  BY <1>1, <1>2, SumWithout
<1> QED BY <1>2, <1>3

LEMMA SumOfEqual ==
  ASSUME NEW S, IsFiniteSet(S), \A c \in S : c.cents \in Nat, NEW P \in SUBSET S,
         NEW k \in Nat, \A c \in P : c.cents = k
  PROVE  SumOf(S)[P] = k * Cardinality(P)
<1>1. Adds(Worth(S), SumOf(S), S) /\ \A c \in S : Worth(S)[c] \in Nat
  BY SumOfAdds
<1>2. \A c \in P : Worth(S)[c] = k
  BY DEF Worth
<1> DEFINE f == Worth(S)
           g == SumOf(S)
<1> HIDE DEF f, g
<1>3. Adds(f, g, S) /\ (\A c \in S : f[c] \in Nat) /\ (\A c \in P : f[c] = k)
  BY <1>1, <1>2 DEF f, g
<1>4. g[P] = k * Cardinality(P)
  BY <1>3, SumConstant
<1> QED BY <1>4 DEF g

\* One credit of the same amount for each of a finite set.
Credits(kind, M, k) == {War!Out(kind, m, k) : m \in M}

LEMMA EqualCredits ==
  ASSUME NEW M, IsFiniteSet(M), NEW k \in Nat, NEW kind
  PROVE  /\ IsFiniteSet(Credits(kind, M, k)) /\ Cardinality(Credits(kind, M, k)) = Cardinality(M)
         /\ \A c \in Credits(kind, M, k) : c.cents = k /\ c.kind = kind
<1> DEFINE S == Credits(kind, M, k)
           f == [m \in M |-> War!Out(kind, m, k)]
<1>1. f \in Bijection(M, S)
  <2>1. \A a, b \in M : f[a] = f[b] => a = b
    BY DEF War!Out
  <2>2. \A c \in S : \E m \in M : f[m] = c
    BY DEF Credits
  <2>3. f \in [M -> S]
    BY DEF Credits
  <2> HIDE DEF f, S
  <2>4. f \in Injection(M, S)
    <3>1. DOMAIN f = M
      BY <2>3
    <3> QED BY <2>1, <2>3, <3>1 DEF Injection, IsInjective
  <2>5. f \in Surjection(M, S)
    BY <2>2, <2>3 DEF Surjection
  <2> QED BY <2>4, <2>5 DEF Bijection
<1>2. IsFiniteSet(S) /\ Cardinality(S) = Cardinality(M)
  <2> HIDE DEF f, S
  <2> QED BY <1>1, FS_Bijection DEF ExistsBijection
<1>3. \A c \in S : c.cents = k /\ c.kind = kind
  BY DEF War!Out, Credits
<1> QED BY <1>2, <1>3

\* Everybody's buy-in back is the pool.
LEMMA RefundsAreThePool == ASSUME WarTypeOK PROVE HandsOut(War!refundAll)
<1>1. /\ stake \in Nat /\ roster["A"] \in Nat /\ roster["B"] \in Nat
      /\ "A" \in War!Clubs /\ "B" \in War!Clubs
  BY DEF WarTypeOK, War!Clubs
<1>2. IsFiniteSet(War!Everyone) /\ Cardinality(War!Everyone) = roster["A"] + roster["B"]
  <2>1. /\ IsFiniteSet(War!Members("A")) /\ Cardinality(War!Members("A")) = roster["A"]
        /\ IsFiniteSet(War!Members("B")) /\ Cardinality(War!Members("B")) = roster["B"]
    BY <1>1, MembersCount
  <2>2. War!Members("A") \cap War!Members("B") = {} /\ Cardinality({}) = 0
    BY FS_EmptySet DEF War!Members
  <2> DEFINE S == War!Members("A")
             T == War!Members("B")
  <2> HIDE DEF S, T
  <2>3. /\ IsFiniteSet(S \cup T)
        /\ Cardinality(S \cup T) = Cardinality(S) + Cardinality(T) - Cardinality(S \cap T)
    BY <2>1, FS_Union DEF S, T
  <2>4. Cardinality(S \cap T) = 0
    BY <2>2 DEF S, T
  <2>5. Cardinality(S) = roster["A"] /\ Cardinality(T) = roster["B"]
    BY <2>1 DEF S, T
  <2>6. Cardinality(S \cup T) = roster["A"] + roster["B"]
    BY <1>1, <2>3, <2>4, <2>5
  <2> QED BY <2>3, <2>6 DEF War!Everyone, S, T
<1>3. CASE stake = 0
  <2>1. War!refundAll = {} /\ War!prizePoolCents = 0
    BY <1>1, <1>3 DEF War!refundAll, War!prizePoolCents
  <2>2. SumOf({})[{}] = 0 /\ IsFiniteSet({})
    <3>1. IsFiniteSet({})
      BY FS_EmptySet
    <3>2. Adds(Worth({}), SumOf({}), {})
      BY <3>1, SumOfAdds
    <3> QED BY <3>1, <3>2, AddsApart
  <2> QED BY <2>1, <2>2 DEF HandsOut
<1>4. CASE stake # 0
  <2> DEFINE S == War!refundAll
  <2>1. S = Credits("refund", War!Everyone, stake)
    BY <1>4 DEF War!refundAll, Credits
  <2> HIDE DEF S
  <2>2. /\ IsFiniteSet(S) /\ Cardinality(S) = roster["A"] + roster["B"]
        /\ \A c \in S : c.cents = stake /\ c.kind = "refund"
    BY <1>1, <1>2, <2>1, EqualCredits
  <2>3. SumOf(S)[S] = stake * Cardinality(S)
    <3>1. S \in SUBSET S /\ \A c \in S : c.cents \in Nat
      BY <1>1, <2>2
    <3> QED BY <1>1, <2>2, <3>1, SumOfEqual
  <2>4. SumOf(S)[S] = War!prizePoolCents
    BY <2>2, <2>3 DEF War!prizePoolCents
  <2>5. HandsOut(S)
    BY <1>1, <2>2, <2>4 DEF HandsOut
  <2> QED BY <2>5 DEF S
<1> QED BY <1>3, <1>4

\* The winners' shares and what the house keeps are the pool.
LEMMA SplitIsThePool ==
  ASSUME WarTypeOK, NEW club \in War!Clubs, roster[club] > 0
  PROVE  HandsOut(War!payoutSplit(club))
<1> DEFINE pool == War!prizePoolCents
           n == roster[club]
           k == War!perWinner(club)
           h == War!houseCut(club)
           P == Credits("prize", War!Members(club), k)
           r == War!Out("rake", War!House, h)
           S == War!payoutSplit(club)
<1>1. n \in Nat \ {0} /\ pool \in Nat /\ RakeBps \in 0..10000
  <2>1. stake \in Nat /\ roster["A"] \in Nat /\ roster["B"] \in Nat /\ n \in Nat
    BY DEF WarTypeOK, War!Clubs
  <2> QED BY <2>1, WarAssumption DEF War!prizePoolCents
<1>2. k \in Nat /\ k * n \in Nat /\ h \in Nat /\ k * n + h = pool
  <2>1. War!rake \in 0..pool
    <3> HIDE DEF pool
    <3>1. War!rake = (pool * RakeBps) \div 10000
      BY DEF War!rake, pool
    <3>2. pool * RakeBps \in Nat /\ pool * RakeBps <= pool * 10000
      BY <1>1
    <3> DEFINE x == pool * RakeBps
    <3>4. x \in Nat /\ x <= pool * 10000
      BY <3>2
    <3> HIDE DEF x
    <3>3. x \div 10000 \in 0..pool
      BY <1>1, <3>4
    <3> QED BY <3>1, <3>3 DEF x
  <2> DEFINE take == pool - War!rake
  <2>2. take \in Nat /\ take <= pool
    <3> HIDE DEF pool
    <3> QED BY <1>1, <2>1
  <2>3. k = take \div n /\ h = pool - k * n
    BY DEF War!perWinner, War!houseCut
  <2>4. k \in Nat /\ k * n <= take
    <3> HIDE DEF take, n
    <3> QED BY <1>1, <2>2, <2>3, Shares
  <2> HIDE DEF take, n, k, h, pool
  <2>5. k * n \in Nat
    BY <1>1, <2>4
  <2> QED BY <1>1, <2>2, <2>3, <2>4, <2>5
<1>3. S = P \cup IF h > 0 THEN {r} ELSE {}
  BY DEF War!payoutSplit, Credits
<1>4. IsFiniteSet(War!Members(club)) /\ Cardinality(War!Members(club)) = n
  BY MembersCount
<1>5. /\ IsFiniteSet(P) /\ Cardinality(P) = n
      /\ \A c \in P : c.cents = k /\ c.kind = "prize"
  <2> HIDE DEF k, n
  <2> QED BY <1>2, <1>4, EqualCredits
<1>6. r.cents = h /\ r.kind = "rake"
  BY DEF War!Out
<1> HIDE DEF pool, n, k, h, P, r, S
<1>7. r \notin P
  BY <1>5, <1>6
<1>8. IsFiniteSet(S) /\ \A c \in S : c.cents \in Nat /\ c.kind # "refund"
  <2>1. IsFiniteSet(S)
    <3>1. S = P \/ S = P \cup {r}
      BY <1>3
    <3> QED BY <1>5, <3>1, FS_AddElement
  <2> QED BY <1>2, <1>3, <1>5, <1>6, <2>1
<1>9. SumOf(S)[S] = pool
  <2>0. P \in SUBSET S
    BY <1>3
  <2>1. SumOf(S)[P] = k * n
    BY <1>2, <1>5, <1>8, <2>0, SumOfEqual
  <2>2. CASE ~(h > 0)
    <3>1. S = P /\ h = 0
      BY <1>2, <1>3, <2>2
    <3> QED BY <1>2, <2>1, <3>1
  <2>3. CASE h > 0
    <3>1. S \ {r} = P /\ r \in S
      BY <1>3, <1>7, <2>3
    <3>2. SumOf(S)[S] = h + SumOf(S)[P]
      BY <1>6, <1>8, <3>1, SumOfWithout
    <3> QED BY <1>2, <2>1, <3>2
  <2> QED BY <2>2, <2>3
<1>10. HandsOut(S)
  BY <1>8, <1>9 DEF HandsOut, pool
<1> QED BY <1>10 DEF S

LEMMA SettledIsThePool ==
  ASSUME WarTypeOK, war \in {"running", "finished"}
  PROVE  HandsOut(War!payoutSettled(beat))
<1>1. CASE stake = 0
  BY <1>1, RefundsAreThePool DEF War!payoutSettled, War!refundAll
<1>2. CASE War!decideWinner(beat) = "tie" /\ stake # 0
  BY <1>2, RefundsAreThePool DEF War!payoutSettled
<1>3. CASE War!decideWinner(beat) # "tie" /\ stake # 0
  <2>1. War!decideWinner(beat) \in War!Clubs
    BY <1>3 DEF War!decideWinner, War!Clubs
  <2>2. roster[War!decideWinner(beat)] > 0
    BY <2>1 DEF WarTypeOK
  <2>3. War!payoutSettled(beat) = War!payoutSplit(War!decideWinner(beat))
    BY <1>3 DEF War!payoutSettled
  <2> QED BY <2>1, <2>2, <2>3, SplitIsThePool
<1> QED BY <1>1, <1>2, <1>3

LEMMA WarIsPaid == WarInv => War!WarPaidOnce
<1> SUFFICES ASSUME WarInv, ~tornWar PROVE War!WarPaidOnce
  BY DEF War!WarPaidOnce, WarInv, WarTypeOK
<1> USE DEF WarInv
<1>1. ASSUME NEW S, HandsOut(S), outgo \subseteq S,
             war \in {"finished", "cancelled"} => outgo = S
      PROVE  War!WarPaidOnce
  <2>1. War!PaidOut = SumOf(S)[outgo] /\ War!PaidOut <= War!prizePoolCents
    BY <1>1, PaidOutIsSum DEF HandsOut
  <2> QED BY <1>1, <2>1 DEF War!WarPaidOnce, HandsOut
<1>2. CASE working.op = "settle"
  BY <1>1, <1>2, SettledIsThePool DEF LockIsJustified, CreditsAreDue
<1>3. CASE working.op = "cancel"
  BY <1>1, <1>3, RefundsAreThePool DEF LockIsJustified, CreditsAreDue
<1>4. CASE working.op = "none"
  <2>1. CASE war = "finished"
    BY <1>1, <1>4, <2>1, SettledIsThePool DEF CreditsAreDue
  <2>2. CASE war = "cancelled"
    BY <1>1, <1>4, <2>2, RefundsAreThePool DEF CreditsAreDue
  <2>3. CASE war = "running" /\ War!AllDecided(beat)
    BY <1>1, <1>4, <2>3, SettledIsThePool DEF CreditsAreDue
  <2>4. CASE outgo = {} /\ war \notin {"finished", "cancelled"}
    BY <1>1, <2>4, RefundsAreThePool
  <2>5. CASE war \in {"none", "registering"} \/ (war = "running" /\ ~War!AllDecided(beat))
    BY <1>4, <2>4, <2>5 DEF CreditsAreDue
  <2> QED BY <2>1, <2>2, <2>3, <2>5 DEF WarTypeOK
<1> QED BY <1>2, <1>3, <1>4 DEF WarTypeOK

-----------------------------------------------------------------------------
LEMMA WarInitially == War!Init => WarInv
<1> SUFFICES ASSUME War!Init PROVE WarInv
  OBVIOUS
<1>1. /\ stake \in Nat /\ war = "none" /\ roster = [club \in War!Clubs |-> 0]
      /\ working = War!Free /\ outgo = {} /\ tornWar = FALSE
  BY WarAssumption DEF War!Init
<1>2. DOMAIN working = {"op", "left"} /\ working.op = "none"
  BY <1>1 DEF War!Free
<1>3. WarTypeOK
  <2>1. roster \in [War!Clubs -> Nat] /\ tornWar \in BOOLEAN
    <3>1. roster \in [War!Clubs -> Nat]
      <4>1. roster = [club \in War!Clubs |-> 0]
        BY <1>1
      <4> QED BY <4>1
    <3>2. tornWar \in BOOLEAN
      <4>1. tornWar = FALSE
        BY DEF War!Init
      <4> QED BY Zenon, <4>1
    <3> QED BY <3>1, <3>2
  <2> QED BY <1>1, <1>2, <2>1 DEF WarTypeOK
<1> QED BY <1>1, <1>2, <1>3 DEF WarInv, LockIsJustified, CreditsAreDue

LEMMA WarStep == WarInv /\ [War!Next]_warVars => WarInv'
<1> SUFFICES ASSUME WarInv, [War!Next]_warVars PROVE WarInv'
  OBVIOUS
<1> USE DEF WarInv
<1>1. CASE UNCHANGED warVars
  <2>1. /\ War!AllDecided(beat)' <=> War!AllDecided(beat)
        /\ War!payoutSettled(beat)' = War!payoutSettled(beat) /\ War!refundAll' = War!refundAll
    BY <1>1 DEF warVars, War!AllDecided, War!payoutSettled, War!refundAll, War!decideWinner,
                War!payoutSplit, War!Score, War!Everyone, War!Members, War!perWinner,
                War!houseCut, War!rake, War!prizePoolCents
  <2> QED BY <1>1, <2>1 DEF warVars, WarTypeOK, LockIsJustified, CreditsAreDue
\* While the roster, the results and the stake stand, so does what is due.
<1>2. ASSUME UNCHANGED <<stake, roster, pairings, beat>>
      PROVE  /\ War!AllDecided(beat)' <=> War!AllDecided(beat)
             /\ War!payoutSettled(beat)' = War!payoutSettled(beat) /\ War!refundAll' = War!refundAll
  BY <1>2 DEF War!AllDecided, War!payoutSettled, War!refundAll, War!decideWinner,
              War!payoutSplit, War!Score, War!Everyone, War!Members, War!perWinner,
              War!houseCut, War!rake, War!prizePoolCents
<1>3. CASE War!create
  <2>1. /\ war = "none" /\ war' = "registering"
        /\ UNCHANGED <<stake, roster, pairings, beat, working, outgo, tornWar>>
    BY <1>3 DEF War!create
  <2> QED BY <2>1 DEF WarTypeOK, LockIsJustified, CreditsAreDue
<1>4. ASSUME NEW club \in War!Clubs, War!register(club) PROVE WarInv'
  <2>1. /\ war = "registering" /\ working.op = "none"
        /\ roster' = [roster EXCEPT ![club] = @ + 1]
        /\ UNCHANGED <<stake, beat, working, outgo, tornWar>>
        /\ war' = "registering" \/ (war' = "running" /\ \A c \in War!Clubs : roster'[c] = Size)
    BY <1>4 DEF War!register, War!begin, War!Unlocked, War!Free
  <2>2. roster' \in [War!Clubs -> Nat] /\ roster'[club] > 0
    BY <2>1 DEF WarTypeOK
  <2>3. war' = "running" => \A c \in War!Clubs : roster'[c] > 0
    BY <2>1, <2>2
  <2>4. WarTypeOK'
    BY <2>1, <2>2, <2>3 DEF WarTypeOK
  <2>5. tornWar \/ outgo = {}
    BY <2>1 DEF CreditsAreDue
  <2> QED BY <2>1, <2>4, <2>5 DEF LockIsJustified, CreditsAreDue
<1>5. CASE War!start
  <2>1. /\ war = "registering" /\ working.op = "none" /\ war' = "running"
        /\ \A c \in War!Clubs : roster[c] > 0
        /\ UNCHANGED <<stake, roster, beat, working, outgo, tornWar>>
    BY <1>5 DEF War!start, War!begin, War!Unlocked, War!Free
  <2>2. WarTypeOK'
    BY <2>1 DEF WarTypeOK
  <2>3. tornWar \/ outgo = {}
    BY <2>1 DEF CreditsAreDue
  <2> QED BY <2>1, <2>2, <2>3 DEF LockIsJustified, CreditsAreDue
<1>6. ASSUME NEW p \in pairings, NEW w, War!reportResult(p, w) PROVE WarInv'
  <2>1. /\ war = "running" /\ working = War!Free /\ p \notin DOMAIN beat
        /\ \/ /\ War!AllDecided(beat')
              /\ working' = [op |-> "settle", left |-> War!payoutSettled(beat')]
           \/ ~War!AllDecided(beat') /\ working' = War!Free
        /\ UNCHANGED <<stake, war, roster, pairings, outgo, tornWar>>
    BY <1>6 DEF War!reportResult, War!Unlocked
  <2>2. ~War!AllDecided(beat)
    BY <2>1 DEF War!AllDecided
  <2>3. tornWar \/ outgo = {}
    BY <2>1, <2>2 DEF CreditsAreDue, War!Free
  <2>4. /\ War!AllDecided(beat)' <=> War!AllDecided(beat')
        /\ War!payoutSettled(beat)' = War!payoutSettled(beat')
    <3>1. War!AllDecided(beat)' <=> War!AllDecided(beat')
      BY <2>1 DEF War!AllDecided
    <3>2. War!refundAll' = War!refundAll
      BY <2>1 DEF War!refundAll, War!Everyone, War!Members
    <3>3. War!payoutSplit("A")' = War!payoutSplit("A") /\ War!payoutSplit("B")' = War!payoutSplit("B")
      BY <2>1 DEF War!payoutSplit, War!Members, War!perWinner, War!houseCut, War!rake, War!prizePoolCents
    <3>4. War!decideWinner(beat)' = War!decideWinner(beat')
      BY DEF War!decideWinner, War!Score
    <3>5. War!decideWinner(beat') \in {"A", "B", "tie"}
      BY DEF War!decideWinner
    <3>6. War!payoutSettled(beat)' = IF stake' = 0 THEN {}
             ELSE IF War!decideWinner(beat)' = "tie" THEN War!refundAll'
             ELSE War!payoutSplit(War!decideWinner(beat))'
      BY DEF War!payoutSettled
    <3>7. War!payoutSettled(beat') = IF stake = 0 THEN {}
             ELSE IF War!decideWinner(beat') = "tie" THEN War!refundAll
             ELSE War!payoutSplit(War!decideWinner(beat'))
      BY DEF War!payoutSettled
    <3>8. War!payoutSplit(War!decideWinner(beat))' = War!payoutSplit(War!decideWinner(beat')) \/ War!decideWinner(beat)' = "tie"
      <4>1. CASE War!decideWinner(beat') = "A"
        BY <2>1, <3>3, <3>4, <4>1 DEF War!payoutSplit, War!Members, War!perWinner, War!houseCut, War!rake, War!prizePoolCents
      <4>2. CASE War!decideWinner(beat') = "B"
        BY <2>1, <3>3, <3>4, <4>2 DEF War!payoutSplit, War!Members, War!perWinner, War!houseCut, War!rake, War!prizePoolCents
      <4> QED BY <3>4, <3>5, <4>1, <4>2
    <3> QED BY <2>1, <3>1, <3>2, <3>4, <3>6, <3>7, <3>8
  <2>5. CASE working' = War!Free /\ ~War!AllDecided(beat')
    <3>1. WarTypeOK'
      BY <2>1, <2>5 DEF WarTypeOK, War!Free
    <3> QED BY <2>1, <2>3, <2>4, <2>5, <3>1 DEF LockIsJustified, CreditsAreDue, War!Free
  <2>6. CASE War!AllDecided(beat') /\ working' = [op |-> "settle", left |-> War!payoutSettled(beat')]
    <3> DEFINE due == War!payoutSettled(beat')
    <3>1. working'.op = "settle" /\ working'.left = due /\ DOMAIN working' = {"op", "left"}
      BY <2>6
    <3> HIDE DEF due
    <3>2. WarTypeOK'
      BY <2>1, <3>1 DEF WarTypeOK
    <3> QED BY <2>1, <2>3, <2>4, <2>6, <3>1, <3>2 DEF LockIsJustified, CreditsAreDue, due
  <2> QED BY <2>1, <2>5, <2>6
<1>7. CASE War!cancel \/ War!sweepStaleWars
  <2>1. /\ war \in {"registering", "running"} /\ working = War!Free
        /\ UNCHANGED <<stake, war, roster, pairings, beat, outgo, tornWar>>
        /\ \/ /\ war = "running" /\ War!AllDecided(beat)
              /\ working' = [op |-> "settle", left |-> War!payoutSettled(beat)]
           \/ /\ war = "registering" \/ ~War!AllDecided(beat)
              /\ working' = [op |-> "cancel", left |-> War!refundAll]
    BY <1>7 DEF War!cancel, War!sweepStaleWars, War!Unlocked
  <2>2. /\ War!AllDecided(beat)' <=> War!AllDecided(beat)
        /\ War!payoutSettled(beat)' = War!payoutSettled(beat) /\ War!refundAll' = War!refundAll
    BY <1>2, <2>1
  <2>3. CASE war = "running" /\ War!AllDecided(beat) /\ working' = [op |-> "settle", left |-> War!payoutSettled(beat)]
    <3> DEFINE due == War!payoutSettled(beat)
    <3>1. working'.op = "settle" /\ working'.left = due /\ DOMAIN working' = {"op", "left"}
      BY <2>3
    <3>4. tornWar \/ outgo \subseteq due
      BY <2>1, <2>3 DEF CreditsAreDue, War!Free
    <3>5. due' = due
      BY <2>2
    <3> HIDE DEF due
    <3>2. WarTypeOK'
      BY <2>1, <3>1 DEF WarTypeOK
    <3>3. CreditsAreDue'
      BY <2>1, <3>1, <3>4, <3>5 DEF CreditsAreDue, due
    <3> QED BY <2>1, <2>2, <2>3, <3>1, <3>2, <3>3 DEF LockIsJustified
  <2>4. CASE (war = "registering" \/ ~War!AllDecided(beat)) /\ working' = [op |-> "cancel", left |-> War!refundAll]
    <3> DEFINE due == War!refundAll
    <3>1. working'.op = "cancel" /\ working'.left = due /\ DOMAIN working' = {"op", "left"}
      BY <2>4
    <3>4. tornWar \/ outgo = {}
      BY <2>1, <2>4 DEF CreditsAreDue, War!Free
    <3>5. due' = due
      BY <2>2
    <3> HIDE DEF due
    <3>2. WarTypeOK'
      BY <2>1, <3>1 DEF WarTypeOK
    <3>3. CreditsAreDue'
      BY <2>1, <3>1, <3>4, <3>5 DEF CreditsAreDue, due
    <3> QED BY <2>1, <2>2, <2>4, <3>1, <3>2, <3>3 DEF LockIsJustified
  <2> QED BY <2>1, <2>3, <2>4
<1>8. CASE War!creditOne
  <2>1. PICK c \in working.left :
          /\ outgo' = outgo \cup {c} /\ working' = [working EXCEPT !.left = @ \ {c}]
          /\ UNCHANGED <<stake, war, roster, pairings, beat, tornWar>>
    BY <1>8 DEF War!creditOne
  <2>2. /\ War!AllDecided(beat)' <=> War!AllDecided(beat)
        /\ War!payoutSettled(beat)' = War!payoutSettled(beat) /\ War!refundAll' = War!refundAll
    BY <1>2, <2>1
  <2>3. working.op # "none"
    BY <2>1 DEF WarTypeOK, War!Free
  <2>4. /\ working'.op = working.op /\ working'.left = working.left \ {c}
        /\ DOMAIN working' = {"op", "left"}
    BY <2>1 DEF WarTypeOK
  <2>5. outgo' \cup working'.left = outgo \cup working.left
    BY <2>1, <2>4
  <2>6. WarTypeOK'
    BY <2>1, <2>3, <2>4 DEF WarTypeOK
  <2> QED BY <2>1, <2>2, <2>3, <2>4, <2>5, <2>6 DEF LockIsJustified, CreditsAreDue
<1>9. CASE War!closeRow
  <2>1. /\ working # War!Free /\ working.left = {} /\ working' = War!Free
        /\ war' = IF working.op = "settle" THEN "finished" ELSE "cancelled"
        /\ UNCHANGED <<stake, roster, pairings, beat, outgo, tornWar>>
    BY <1>9 DEF War!closeRow, War!Unlocked
  <2>2. /\ War!AllDecided(beat)' <=> War!AllDecided(beat)
        /\ War!payoutSettled(beat)' = War!payoutSettled(beat) /\ War!refundAll' = War!refundAll
    BY <1>2, <2>1
  <2>3. working'.op = "none" /\ DOMAIN working' = {"op", "left"} /\ working.op \in {"settle", "cancel"}
    BY <2>1 DEF War!Free, WarTypeOK
  <2>4. WarTypeOK'
    BY <2>1, <2>3 DEF WarTypeOK, LockIsJustified
  <2> QED BY <2>1, <2>2, <2>3, <2>4 DEF LockIsJustified, CreditsAreDue
<1>10. CASE War!operationFails
  <2>1. /\ working # War!Free /\ working' = War!Free
        /\ tornWar' = (tornWar \/ (working.op = "cancel" /\ outgo # {}))
        /\ UNCHANGED <<stake, war, roster, pairings, beat, outgo>>
    BY <1>10 DEF War!operationFails, War!Unlocked
  <2>2. /\ War!AllDecided(beat)' <=> War!AllDecided(beat)
        /\ War!payoutSettled(beat)' = War!payoutSettled(beat) /\ War!refundAll' = War!refundAll
    BY <1>2, <2>1
  <2>3. working'.op = "none" /\ DOMAIN working' = {"op", "left"} /\ working.op \in {"settle", "cancel"}
    BY <2>1 DEF War!Free, WarTypeOK
  <2>4. WarTypeOK'
    BY <2>1, <2>3 DEF WarTypeOK
  <2>5. LockIsJustified'
    BY <2>3 DEF LockIsJustified
  <2>6. CASE working.op = "settle"
    <3>1. tornWar' = tornWar
      BY <2>1, <2>6 DEF WarTypeOK
    <3>2. tornWar \/ outgo \subseteq War!payoutSettled(beat)
      BY <2>6 DEF CreditsAreDue
    <3>3. war' = "running" /\ War!AllDecided(beat)'
      BY <2>1, <2>2, <2>6 DEF LockIsJustified
    <3>4. CreditsAreDue'
      BY <2>1, <2>2, <2>3, <3>1, <3>2, <3>3 DEF CreditsAreDue
    <3> QED BY <2>4, <2>5, <3>4
  <2>7. CASE working.op = "cancel"
    <3>1. tornWar' \/ outgo' = {}
      BY <2>1, <2>7
    <3>2. war' \in {"registering", "running"}
      BY <2>1, <2>7 DEF LockIsJustified
    <3>3. CreditsAreDue'
      BY <2>3, <3>1, <3>2 DEF CreditsAreDue
    <3> QED BY <2>4, <2>5, <3>3
  <2> QED BY <2>3, <2>6, <2>7
<1> QED
  BY <1>1, <1>3, <1>4, <1>5, <1>6, <1>7, <1>8, <1>9, <1>10 DEF War!Next, War!Settle

-----------------------------------------------------------------------------
(* The three services in one specification.                                *)

\* walletService.ts credit(), depositPoller.ts, walletRoutes.ts: a balance is what
\* the ledger's rows add up to, and the limits hold on what has moved.
THEOREM DepositsExact == PoolsSpec => []DepositsAreExact
<1>1. PoolsInit => WalletInv
  BY WalletInitially DEF PoolsInit
<1>2. WalletInv /\ [PoolsNext]_poolVars => WalletInv'
  <2>1. [PoolsNext]_poolVars => [Wallet!Next]_walletVars
    BY DEF PoolsNext, poolVars
  <2> QED BY <2>1, WalletStep
<1>3. WalletInv => DepositsAreExact
  BY DEF WalletInv, DepositsAreExact
<1> QED BY <1>1, <1>2, <1>3, PTL DEF PoolsSpec

\* tournamentService.ts finish(), cancel() and sweepStale(), clubWarService.ts
\* payoutSettled() and refundAll(): a pool leaves the escrow once.
THEOREM PoolsPaid == PoolsSpec => []PoolsPaidOnce
<1>1. PoolsInit => CupInv /\ WarInv
  BY CupInitially, WarInitially DEF PoolsInit
<1>2. CupInv /\ WarInv /\ [PoolsNext]_poolVars => (CupInv /\ WarInv)'
  <2>1. [PoolsNext]_poolVars => [Cup!Next]_cupVars /\ [War!Next]_warVars
    BY DEF PoolsNext, poolVars
  <2> QED BY <2>1, CupStep, WarStep
<1>3. CupInv /\ WarInv => PoolsPaidOnce
  BY WarIsPaid DEF CupInv, PoolsPaidOnce
<1> QED BY <1>1, <1>2, <1>3, PTL DEF PoolsSpec
=============================================================================
