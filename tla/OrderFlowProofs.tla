---------------------------- MODULE OrderFlowProofs ----------------------------
(***************************************************************************)
(* Proofs about Checkout for any requests, products and prices, any number *)
(* of requests in flight at once and any number of faults, and about       *)
(* OrderFlow for any number of clicks, retries and losses: it behaves as   *)
(* Checkout does, what its clicks charge, and what their adds put into the *)
(* carts.  The parts about Checkout assume nothing of OrderFlow, but for   *)
(* the account of the adds, which sums over the requests behind a gateway: *)
(* there are finitely many of them.                                        *)
(*                                                                         *)
(* What holds however the requests overlap comes first, and speaks of      *)
(* tables and requests as sequences and functions of records without the   *)
(* types of their fields, for it looks into no total.  What holds of       *)
(* requests one at a time follows: there a total is the sum of its items,  *)
(* and the tables are the cart of Shopping.  What holds of the flow comes  *)
(* last, and with it the account of the adds, which relates the rows,      *)
(* through the requests that wrote them, to the clicks.                    *)
(***************************************************************************)
EXTENDS OrderFlow, SequenceTheorems, FiniteSetTheorems, WellFoundedInduction, TLAPS

-------------------------------------------------------------------------------
(* Tables are sequences *)

IsSequence(s) == s \in Seq({s[i] : i \in DOMAIN s})

\* A function on 1..n is a sequence.
LEMMA FunctionIsSequence ==
  ASSUME NEW n \in Nat, NEW t, t = [k \in 1..n |-> t[k]]
  PROVE  IsSequence(t) /\ DOMAIN t = 1..n
<1> DEFINE S == {t[k] : k \in DOMAIN t}
<1>1. t \in [1..n -> S] /\ DOMAIN t = 1..n  OBVIOUS
<1>2. t \in Seq(S)  BY <1>1, SeqDef
<1>3. QED  BY <1>1, <1>2 DEF IsSequence

\* A row is inserted at the end of a table ...
LEMMA Inserted ==
  ASSUME NEW s, IsSequence(s), NEW e
  PROVE  /\ IsSequence(Append(s, e))
         /\ Len(s) \in Nat /\ DOMAIN s = 1..Len(s)
         /\ DOMAIN Append(s, e) = 1..(Len(s) + 1)
         /\ \A i \in DOMAIN s : Append(s, e)[i] = s[i]
         /\ Append(s, e)[Len(s) + 1] = e
<1> DEFINE S == {s[i] : i \in DOMAIN s} \cup {e}
<1>1. s \in Seq(S) /\ e \in S  BY DEF IsSequence
<1>2. /\ Append(s, e) \in Seq(S) /\ Len(Append(s, e)) = Len(s) + 1
      /\ Append(s, e)[Len(s) + 1] = e /\ \A i \in 1..Len(s) : Append(s, e)[i] = s[i]
  BY <1>1, AppendProperties
<1>3. Len(s) \in Nat /\ DOMAIN s = 1..Len(s) /\ DOMAIN Append(s, e) = 1..(Len(s) + 1)
  BY <1>1, <1>2
<1>4. IsSequence(Append(s, e))  BY <1>2, <1>3 DEF IsSequence
<1>5. QED  BY <1>2, <1>3, <1>4

\* ... or updated in its place.
LEMMA UpdatedRow ==
  ASSUME NEW s, IsSequence(s), NEW i, NEW v
  PROVE  IsSequence([s EXCEPT ![i] = v]) /\ DOMAIN [s EXCEPT ![i] = v] = DOMAIN s
<1>1. Len(s) \in Nat /\ DOMAIN s = 1..Len(s)  BY DEF IsSequence
<1>2. [s EXCEPT ![i] = v] = [k \in 1..Len(s) |-> [s EXCEPT ![i] = v][k]]  BY <1>1
<1>3. QED  BY <1>1, <1>2, FunctionIsSequence

-------------------------------------------------------------------------------
(* Sums over finite sets *)

\* The sum of the values of a function, as the folds of the specification.
SumOf(f, S) == MapThenSumSet(LAMBDA i : f[i], S)

\* The recursion a sum stands for, as a condition on a function.
AnyOf(s) == CHOOSE x \in s : TRUE
SumsUp(it, f, S) ==
  it = [s \in SUBSET S |-> IF s = {} THEN 0 ELSE f[AnyOf(s)] + it[s \ {AnyOf(s)}]]

\* A set of subsets of a finite set has one without any other of them inside.
LEMMA LeastSubset ==
  ASSUME NEW S, IsFiniteSet(S), NEW B \in SUBSET SUBSET S, B # {}
  PROVE  \E T \in B : \A U \in B : U \subseteq T => U = T
<1>1. IsWellFoundedOn(StrictSubsetOrdering(S), SUBSET S)
  BY FS_StrictSubsetOrderingWellFounded, FS_FiniteSubsetsOfFinite
<1>2. PICK T \in B : \A U \in B : ~ <<U, T>> \in StrictSubsetOrdering(S)
  BY <1>1, WFMin
<1>3. ASSUME NEW U \in B, U \subseteq T, U # T  PROVE FALSE
  BY <1>2, <1>3 DEF StrictSubsetOrdering
<1> QED  BY <1>3

\* One picks an element of the set.
LEMMA AnyIsIn ==
  ASSUME NEW s, s # {}
  PROVE  AnyOf(s) \in s
BY DEF AnyOf

\* A sum does not depend on the set over which it was set up.
LEMMA SumsAgree ==
  ASSUME NEW f, NEW A, NEW B, NEW a, NEW b, SumsUp(a, f, A), SumsUp(b, f, B),
         NEW T \in SUBSET A, T \subseteq B, IsFiniteSet(T)
  PROVE  a[T] = b[T]
<1> DEFINE Bad == {s \in SUBSET T : a[s] # b[s]}
<1> SUFFICES ASSUME Bad # {} PROVE FALSE
  OBVIOUS
<1>1. PICK s \in Bad : \A u \in Bad : u \subseteq s => u = s
  <2> Bad \in SUBSET SUBSET T
    OBVIOUS
  <2> HIDE DEF Bad
  <2> QED  BY LeastSubset
<1>2. s \in SUBSET T /\ a[s] # b[s] /\ s \in SUBSET A /\ s \in SUBSET B
  OBVIOUS
<1>3. s # {}
  BY <1>2 DEF SumsUp
<1> DEFINE x == AnyOf(s)
<1>4. x \in s
  BY <1>3, AnyIsIn
<1>5. a[s] = f[x] + a[s \ {x}] /\ b[s] = f[x] + b[s \ {x}]
  <2>1. a[s] = f[x] + a[s \ {x}]
    BY <1>2, <1>3 DEF SumsUp
  <2>2. b[s] = f[x] + b[s \ {x}]
    BY <1>2, <1>3 DEF SumsUp
  <2> QED  BY <2>1, <2>2
<1>6. s \ {x} \notin Bad
  <2>1. s \ {x} \subseteq s /\ s \ {x} # s
    BY <1>4
  <2> HIDE DEF Bad, x
  <2> QED  BY <1>1, <2>1
<1>7. a[s \ {x}] = b[s \ {x}]
  BY <1>2, <1>6
<1> HIDE DEF x
<1> QED  BY <1>2, <1>5, <1>7

\* The sums over the subsets of a finite set exist.
LEMMA SumsExist ==
  ASSUME NEW f, NEW S, IsFiniteSet(S)
  PROVE  \E it : SumsUp(it, f, S)
<1> DEFINE Bad == {s \in SUBSET S : ~ \E it : SumsUp(it, f, s)}
<1> SUFFICES ASSUME Bad # {} PROVE FALSE
  OBVIOUS
<1>1. PICK T \in Bad : \A u \in Bad : u \subseteq T => u = T
  <2> Bad \in SUBSET SUBSET S
    OBVIOUS
  <2> HIDE DEF Bad
  <2> QED  BY LeastSubset
<1>2. T \in SUBSET S /\ ~ \E it : SumsUp(it, f, T)
  OBVIOUS
<1> DEFINE G(s) == CHOOSE it : SumsUp(it, f, s)
<1>3. ASSUME NEW s \in SUBSET T, s # T  PROVE SumsUp(G(s), f, s)
  <2>1. s \notin Bad
    <3> HIDE DEF Bad
    <3> QED  BY <1>1, <1>3
  <2>2. \E it : SumsUp(it, f, s)
    BY <1>2, <2>1
  <2> HIDE DEF Bad
  <2> QED  BY <2>2, Zenon
<1> HIDE DEF G, Bad
<1> DEFINE H(s) == IF s = {} THEN 0
                   ELSE f[AnyOf(s)] + G(s \ {AnyOf(s)})[s \ {AnyOf(s)}]
           it == [s \in SUBSET T |-> H(s)]
<1>4. ASSUME NEW s \in SUBSET T, s # T  PROVE G(s)[s] = H(s)
  <2>1. SumsUp(G(s), f, s)
    BY <1>3, <1>4
  <2>2. CASE s = {}
    BY <2>1, <2>2 DEF SumsUp
  <2>3. CASE s # {}
    <3> DEFINE x == AnyOf(s)
    <3>1. x \in s
      BY <2>3, AnyIsIn
    <3>2. G(s)[s] = f[x] + G(s)[s \ {x}]
      BY <2>1, <2>3 DEF SumsUp
    <3>3. s \ {x} \in SUBSET T /\ s \ {x} # T
      BY <3>1
    <3>4. SumsUp(G(s \ {x}), f, s \ {x})
      BY <1>3, <3>3
    <3>5. IsFiniteSet(s \ {x})
      BY <1>2, <3>3, FS_Subset
    <3>6. G(s)[s \ {x}] = G(s \ {x})[s \ {x}]
      <4> DEFINE y == s \ {x}
      <4>1. y \in SUBSET s /\ y \subseteq y
        OBVIOUS
      <4> HIDE DEF y
      <4>2. SumsUp(G(y), f, y) /\ IsFiniteSet(y)
        BY <3>4, <3>5 DEF y
      <4>3. G(s)[y] = G(y)[y]
        BY <2>1, <4>1, <4>2, SumsAgree
      <4> QED  BY <4>3 DEF y
    <3> QED  BY <2>3, <3>2, <3>6
  <2> QED  BY <2>2, <2>3
<1>5. ASSUME NEW s \in SUBSET T, s # {}  PROVE H(s) = f[AnyOf(s)] + it[s \ {AnyOf(s)}]
  <2> DEFINE y == s \ {AnyOf(s)}
  <2>1. y \in SUBSET T /\ y # T
    BY <1>5, AnyIsIn
  <2>2. G(y)[y] = H(y)
    <3> HIDE DEF H, y
    <3> QED  BY <1>4, <2>1
  <2>3. it[y] = H(y)
    BY <2>1
  <2> QED  BY <1>5, <2>2, <2>3
<1>6. it = [s \in SUBSET T |-> IF s = {} THEN 0 ELSE f[AnyOf(s)] + it[s \ {AnyOf(s)}]]
  BY <1>5
<1> HIDE DEF it
<1> QED  BY <1>2, <1>6 DEF SumsUp

\* A sum is what the recursion gives for the whole set.
LEMMA SumIs ==
  ASSUME NEW f, NEW S
  PROVE  SumOf(f, S) = (CHOOSE it : SumsUp(it, f, S))[S]
BY Zenon DEF SumOf, MapThenSumSet, MapThenFoldSet, SumsUp, AnyOf

\* Nothing adds up to zero.
LEMMA SumEmpty ==
  ASSUME NEW f
  PROVE  SumOf(f, {}) = 0
<1>1. PICK it : it = CHOOSE u : SumsUp(u, f, {})
  OBVIOUS
<1>2. SumsUp(it, f, {})
  BY <1>1, SumsExist, FS_EmptySet, Zenon
<1>3. it[{}] = 0
  BY <1>2 DEF SumsUp
<1> QED  BY <1>1, <1>3, SumIs, Zenon

\* The element picked and the rest.
LEMMA SumPicked ==
  ASSUME NEW f, NEW S, IsFiniteSet(S), S # {}
  PROVE  SumOf(f, S) = f[AnyOf(S)] + SumOf(f, S \ {AnyOf(S)})
<1>1. PICK x : x = AnyOf(S)
  OBVIOUS
<1>2. PICK T : T = S \ {x}
  OBVIOUS
<1>3. PICK a : a = CHOOSE u : SumsUp(u, f, S)
  OBVIOUS
<1>4. PICK b : b = CHOOSE u : SumsUp(u, f, T)
  OBVIOUS
<1>5. IsFiniteSet(T) /\ T \in SUBSET S /\ T \subseteq T
  BY <1>2, FS_RemoveElement
<1>6. SumsUp(a, f, S) /\ SumsUp(b, f, T)
  BY <1>3, <1>4, <1>5, SumsExist, Zenon
<1>7. a[T] = b[T]
  BY <1>5, <1>6, SumsAgree
<1>8. a[S] = f[x] + a[T]
  BY <1>1, <1>2, <1>6 DEF SumsUp
<1>9. SumOf(f, S) = a[S] /\ SumOf(f, T) = b[T]
  BY <1>3, <1>4, SumIs, Zenon
<1> QED  BY <1>1, <1>2, <1>7, <1>8, <1>9

\* A sum of naturals is one, and any element may be taken out of it.
LEMMA SumTakesOut ==
  ASSUME NEW f, NEW S, IsFiniteSet(S), \A x \in S : f[x] \in Nat
  PROVE  /\ SumOf(f, S) \in Nat
         /\ \A y \in S : SumOf(f, S) = f[y] + SumOf(f, S \ {y})
<1> DEFINE Fits(T) == /\ SumOf(f, T) \in Nat
                      /\ \A y \in T : SumOf(f, T) = f[y] + SumOf(f, T \ {y})
           Bad == {T \in SUBSET S : ~ Fits(T)}
<1> SUFFICES ASSUME Bad # {} PROVE FALSE
  OBVIOUS
<1>1. PICK T \in Bad : \A u \in Bad : u \subseteq T => u = T
  <2> Bad \in SUBSET SUBSET S
    OBVIOUS
  <2> HIDE DEF Bad
  <2> QED  BY LeastSubset
<1>2. T \in SUBSET S /\ ~ Fits(T)
  OBVIOUS
<1>3. ASSUME NEW U \in SUBSET T, U # T  PROVE Fits(U)
  <2>1. U \notin Bad
    <3> HIDE DEF Bad
    <3> QED  BY <1>1, <1>3
  <2> HIDE DEF Fits
  <2> QED  BY <1>2, <2>1
<1> HIDE DEF Bad
<1>4. T # {}
  BY <1>2, SumEmpty
<1>5. PICK x : x = AnyOf(T)
  OBVIOUS
<1>6. x \in T /\ f[x] \in Nat /\ IsFiniteSet(T)
  BY <1>2, <1>4, <1>5, AnyIsIn, FS_Subset
<1>7. SumOf(f, T) = f[x] + SumOf(f, T \ {x})
  BY <1>4, <1>5, <1>6, SumPicked
<1>8. SumOf(f, T \ {x}) \in Nat
  BY <1>3, <1>6
<1>9. ASSUME NEW y \in T, y # x  PROVE SumOf(f, T) = f[y] + SumOf(f, T \ {y})
  <2>1. PICK V : V = (T \ {x}) \ {y}
    OBVIOUS
  <2>2. /\ V = (T \ {y}) \ {x} /\ y \in T \ {x} /\ x \in T \ {y}
        /\ V \in SUBSET T /\ V # T /\ f[y] \in Nat
    BY <1>2, <1>6, <1>9, <2>1
  <2>3. SumOf(f, T \ {x}) = f[y] + SumOf(f, V)
    <3>1. Fits(T \ {x})
      BY <1>3, <1>6
    <3> QED  BY <2>1, <2>2, <3>1
  <2>4. SumOf(f, T \ {y}) = f[x] + SumOf(f, V)
    <3>1. Fits(T \ {y})
      BY <1>3
    <3> QED  BY <2>2, <3>1
  <2>5. SumOf(f, V) \in Nat
    BY <1>3, <2>2
  <2> QED  BY <1>6, <1>7, <2>2, <2>3, <2>4, <2>5
<1>10. SumOf(f, T) \in Nat
  BY <1>6, <1>7, <1>8
<1>11. ASSUME NEW y \in T  PROVE SumOf(f, T) = f[y] + SumOf(f, T \ {y})
  BY <1>7, <1>9
<1> QED  BY <1>2, <1>10, <1>11

\* Equal values add up to equal sums.
LEMMA SumSame ==
  ASSUME NEW f, NEW g, NEW S, \A x \in S : f[x] = g[x]
  PROVE  SumOf(f, S) = SumOf(g, S)
<1>1. ASSUME NEW it  PROVE SumsUp(it, f, S) <=> SumsUp(it, g, S)
  <2>1. ASSUME NEW s \in SUBSET S, s # {}  PROVE f[AnyOf(s)] = g[AnyOf(s)]
    BY <2>1, AnyIsIn
  <2> QED  BY <2>1 DEF SumsUp
<1>2. (CHOOSE it : SumsUp(it, f, S)) = (CHOOSE it : SumsUp(it, g, S))
  BY <1>1, Zenon
<1> QED  BY <1>2, SumIs, Zenon

\* A single element.
LEMMA SumSingle ==
  ASSUME NEW f, NEW x, f[x] \in Nat
  PROVE  SumOf(f, {x}) = f[x]
<1>1. IsFiniteSet({x}) /\ {x} \ {x} = {}
  BY FS_Singleton
<1>2. SumOf(f, {x}) = f[x] + SumOf(f, {x} \ {x})
  BY <1>1, SumTakesOut
<1> QED  BY <1>1, <1>2, SumEmpty

\* Values added up by what they belong to: each place holds the value of at most
\* one thing, and the others nothing.
LEMMA SumByPlace ==
  ASSUME NEW P, IsFiniteSet(P), NEW I, IsFiniteSet(I), NEW place \in [I -> P],
         \A i, j \in I : place[i] = place[j] => i = j,
         NEW f, NEW g, \A i \in I : f[i] \in Nat /\ g[place[i]] = f[i],
         \A p \in P : (\A i \in I : place[i] # p) => g[p] = 0
  PROVE  SumOf(g, P) = SumOf(f, I)
<1> DEFINE At(Q) == {i \in I : place[i] \in Q}
           Bad == {Q \in SUBSET P : SumOf(g, Q) # SumOf(f, At(Q))}
<1>0. At(P) = I
  OBVIOUS
<1> SUFFICES ASSUME Bad # {} PROVE FALSE
  BY <1>0
<1>1. PICK Q \in Bad : \A u \in Bad : u \subseteq Q => u = Q
  <2> Bad \in SUBSET SUBSET P
    OBVIOUS
  <2> HIDE DEF Bad
  <2> QED  BY LeastSubset
<1>2. Q \in SUBSET P /\ SumOf(g, Q) # SumOf(f, At(Q))
  OBVIOUS
<1>3. ASSUME NEW U \in SUBSET Q, U # Q  PROVE SumOf(g, U) = SumOf(f, At(U))
  <2>1. U \notin Bad
    <3> HIDE DEF Bad
    <3> QED  BY <1>1, <1>3
  <2> HIDE DEF At
  <2> QED  BY <1>2, <2>1
<1> HIDE DEF Bad
<1>4. PICK q : q \in Q
  <2>1. CASE Q = {}
    <3>1. At({}) = {}
      OBVIOUS
    <3> QED  BY <1>2, <2>1, <3>1, SumEmpty
  <2> QED  BY <2>1
<1>5. IsFiniteSet(Q) /\ IsFiniteSet(At(Q)) /\ IsFiniteSet(Q \ {q})
  BY <1>2, FS_Subset
<1>6. \A p \in P : g[p] \in Nat
  OBVIOUS
<1>7. SumOf(g, Q) = g[q] + SumOf(g, Q \ {q})
  <2>1. \A p \in Q : g[p] \in Nat
    BY <1>2, <1>6
  <2> QED  BY <1>4, <1>5, <2>1, SumTakesOut
<1>8. SumOf(g, Q \ {q}) = SumOf(f, At(Q \ {q}))
  <2> HIDE DEF At
  <2> QED  BY <1>3, <1>4
<1>9. \A i \in At(Q) : f[i] \in Nat
  OBVIOUS
<1>10. SumOf(f, At(Q)) \in Nat
  <2> HIDE DEF At
  <2> QED  BY <1>5, <1>9, SumTakesOut
<1>11. CASE \A i \in I : place[i] # q
  <2>1. At(Q \ {q}) = At(Q)
    BY <1>11
  <2>2. g[q] = 0
    BY <1>2, <1>4, <1>11
  <2> HIDE DEF At
  <2> QED  BY <1>2, <1>7, <1>8, <1>10, <2>1, <2>2
<1>12. ASSUME NEW i \in I, place[i] = q  PROVE FALSE
  <2>1. At(Q \ {q}) = At(Q) \ {i} /\ i \in At(Q)
    BY <1>4, <1>12
  <2>2. g[q] = f[i]
    BY <1>12
  <2> HIDE DEF At
  <2>3. SumOf(f, At(Q)) = f[i] + SumOf(f, At(Q) \ {i})
    BY <1>5, <1>9, <2>1, SumTakesOut
  <2> QED  BY <1>2, <1>7, <1>8, <2>1, <2>2, <2>3
<1> QED  BY <1>11, <1>12

\* The sum over two sets that share nothing.
LEMMA SumDisjoint ==
  ASSUME NEW f, NEW A, IsFiniteSet(A), NEW B, IsFiniteSet(B), A \cap B = {},
         \A x \in A \cup B : f[x] \in Nat
  PROVE  SumOf(f, A \cup B) = SumOf(f, A) + SumOf(f, B)
<1> DEFINE Bad == {T \in SUBSET A : SumOf(f, T \cup B) # SumOf(f, T) + SumOf(f, B)}
<1> SUFFICES ASSUME Bad # {} PROVE FALSE
  OBVIOUS
<1>1. PICK T \in Bad : \A u \in Bad : u \subseteq T => u = T
  <2> Bad \in SUBSET SUBSET A
    OBVIOUS
  <2> HIDE DEF Bad
  <2> QED  BY LeastSubset
<1>2. T \in SUBSET A /\ SumOf(f, T \cup B) # SumOf(f, T) + SumOf(f, B)
  OBVIOUS
<1>3. ASSUME NEW U \in SUBSET T, U # T
      PROVE  SumOf(f, U \cup B) = SumOf(f, U) + SumOf(f, B)
  <2>1. U \notin Bad
    <3> HIDE DEF Bad
    <3> QED  BY <1>1, <1>3
  <2> QED  BY <1>2, <2>1
<1> HIDE DEF Bad
<1>4. SumOf(f, B) \in Nat
  BY SumTakesOut
<1>5. PICK x : x \in T
  <2>1. CASE T = {}
    BY <1>2, <1>4, <2>1, SumEmpty
  <2> QED  BY <2>1
<1>6. PICK U : U = T \ {x}
  OBVIOUS
<1>7. /\ IsFiniteSet(T) /\ IsFiniteSet(U) /\ IsFiniteSet(T \cup B)
      /\ U \in SUBSET T /\ U # T /\ x \in T \cup B /\ (T \cup B) \ {x} = U \cup B
  BY <1>2, <1>5, <1>6, FS_Subset, FS_Union
<1>8. SumOf(f, T \cup B) = f[x] + SumOf(f, U \cup B)
  <2>1. \A y \in T \cup B : f[y] \in Nat
    BY <1>2
  <2>2. SumOf(f, T \cup B) = f[x] + SumOf(f, (T \cup B) \ {x})
    BY <1>7, <2>1, SumTakesOut
  <2> QED  BY <1>7, <2>2
<1>9. SumOf(f, T) = f[x] + SumOf(f, U) /\ SumOf(f, U) \in Nat /\ f[x] \in Nat
  <2>1. \A y \in T : f[y] \in Nat
    BY <1>2
  <2>2. \A y \in U : f[y] \in Nat
    BY <1>7, <2>1
  <2> QED  BY <1>5, <1>6, <1>7, <2>1, <2>2, SumTakesOut
<1>10. SumOf(f, U \cup B) = SumOf(f, U) + SumOf(f, B)
  BY <1>3, <1>7
<1> QED  BY <1>2, <1>4, <1>8, <1>9, <1>10

\* A larger set has no smaller sum.
LEMMA SumGrows ==
  ASSUME NEW f, NEW A, NEW B, IsFiniteSet(B), A \subseteq B, \A x \in B : f[x] \in Nat
  PROVE  SumOf(f, A) \in Nat /\ SumOf(f, B) \in Nat /\ SumOf(f, A) <= SumOf(f, B)
<1>1. PICK C : C = B \ A
  OBVIOUS
<1>2. IsFiniteSet(A) /\ IsFiniteSet(C) /\ A \cap C = {} /\ A \cup C = B
  BY <1>1, FS_Subset
<1>3. (\A x \in A : f[x] \in Nat) /\ (\A x \in C : f[x] \in Nat)
  BY <1>1
<1>4. SumOf(f, A) \in Nat /\ SumOf(f, C) \in Nat /\ SumOf(f, B) \in Nat
  BY <1>2, <1>3, SumTakesOut
<1>5. SumOf(f, B) = SumOf(f, A) + SumOf(f, C)
  BY <1>2, SumDisjoint
<1> QED  BY <1>4, <1>5

\* What went into x.
Landed(R, into, x) == {r \in R : into[r] = x}

\* Each thing is worth no more than what went into it: all of them are worth no
\* more than all that went into any.
LEMMA SumByShare ==
  ASSUME NEW I, IsFiniteSet(I), NEW R, IsFiniteSet(R), NEW id, NEW into,
         \A i, j \in I : id[i] = id[j] => i = j,
         NEW f, \A i \in I : f[i] \in Nat, NEW q, \A r \in R : q[r] \in Nat,
         \A i \in I : f[i] <= SumOf(q, Landed(R, into, id[i]))
  PROVE  SumOf(f, I) <= SumOf(q, R)
<1> DEFINE Of(J) == {r \in R : \E i \in J : into[r] = id[i]}
           Bad == {J \in SUBSET I : ~ SumOf(f, J) <= SumOf(q, Of(J))}
<1>0. ASSUME Bad # {} PROVE FALSE
  <2>1. PICK J \in Bad : \A u \in Bad : u \subseteq J => u = J
    <3>1. Bad # {}
      BY <1>0
    <3> Bad \in SUBSET SUBSET I
      OBVIOUS
    <3> HIDE DEF Bad
    <3> QED  BY <3>1, LeastSubset
  <2>2. J \in SUBSET I /\ ~ SumOf(f, J) <= SumOf(q, Of(J))
    OBVIOUS
  <2>3. ASSUME NEW U \in SUBSET J, U # J  PROVE SumOf(f, U) <= SumOf(q, Of(U))
    <3>1. U \notin Bad
      <4> HIDE DEF Bad
      <4> QED  BY <2>1, <2>3
    <3> HIDE DEF Of
    <3> QED  BY <2>2, <3>1
  <2> HIDE DEF Bad
  <2>4. PICK i : i \in J
    <3>1. CASE J = {}
      <4>1. Of({}) = {}
        OBVIOUS
      <4> QED  BY <2>2, <3>1, <4>1, SumEmpty
    <3> QED  BY <3>1
  <2>5. PICK U, A, B : U = J \ {i} /\ A = Of(U) /\ B = Landed(R, into, id[i])
    OBVIOUS
  <2>6. A \cap B = {} /\ Of(J) = A \cup B /\ IsFiniteSet(A) /\ IsFiniteSet(B)
    BY <2>2, <2>4, <2>5, FS_Subset DEF Landed
  <2>7. U \in SUBSET J /\ U # J /\ IsFiniteSet(J) /\ IsFiniteSet(U)
    BY <2>2, <2>4, <2>5, FS_Subset
  <2>8. \A r \in A \cup B : q[r] \in Nat
    BY <2>5 DEF Landed
  <2>9. SumOf(q, Of(J)) = SumOf(q, A) + SumOf(q, B)
    <3> HIDE DEF Of
    <3> QED  BY <2>6, <2>8, SumDisjoint
  <2>10. SumOf(q, A) \in Nat /\ SumOf(q, B) \in Nat
    BY <2>6, <2>8, SumTakesOut
  <2>11. SumOf(f, J) = f[i] + SumOf(f, U) /\ SumOf(f, U) \in Nat /\ f[i] \in Nat
    <3>1. (\A j \in J : f[j] \in Nat) /\ (\A j \in U : f[j] \in Nat)
      BY <2>2, <2>7
    <3> QED  BY <2>4, <2>5, <2>7, <3>1, SumTakesOut
  <2>12. SumOf(f, U) <= SumOf(q, A)
    <3> HIDE DEF Of
    <3> QED  BY <2>3, <2>5, <2>7
  <2>13. f[i] <= SumOf(q, B)
    BY <2>2, <2>4, <2>5
  <2> HIDE DEF Of
  <2> QED  BY <2>2, <2>9, <2>10, <2>11, <2>12, <2>13
<1>1. SumOf(f, I) <= SumOf(q, Of(I))
  BY <1>0
<1>2. Of(I) \subseteq R
  OBVIOUS
<1>3. SumOf(f, I) \in Nat
  BY SumTakesOut
<1> HIDE DEF Of
<1>4. /\ SumOf(q, Of(I)) \in Nat /\ SumOf(q, R) \in Nat
      /\ SumOf(q, Of(I)) <= SumOf(q, R)
  BY <1>2, SumGrows
<1> QED  BY <1>1, <1>3, <1>4

\* One more of the same.
LEMMA OneMore ==
  ASSUME NEW c \in Nat, NEW m \in Nat
  PROVE  (c + 1) * m = c * m + m /\ c * m \in Nat
OBVIOUS

\* As many times the most any is worth.
LEMMA SumBound ==
  ASSUME NEW f, NEW S, IsFiniteSet(S), NEW m \in Nat, \A x \in S : f[x] \in Nat /\ f[x] <= m
  PROVE  SumOf(f, S) <= Cardinality(S) * m
<1> DEFINE Bad == {T \in SUBSET S : ~ SumOf(f, T) <= Cardinality(T) * m}
<1> SUFFICES ASSUME Bad # {} PROVE FALSE
  OBVIOUS
<1>1. PICK T \in Bad : \A u \in Bad : u \subseteq T => u = T
  <2> Bad \in SUBSET SUBSET S
    OBVIOUS
  <2> HIDE DEF Bad
  <2> QED  BY LeastSubset
<1>2. T \in SUBSET S /\ ~ SumOf(f, T) <= Cardinality(T) * m
  OBVIOUS
<1>3. ASSUME NEW U \in SUBSET T, U # T  PROVE SumOf(f, U) <= Cardinality(U) * m
  <2>1. U \notin Bad
    <3> HIDE DEF Bad
    <3> QED  BY <1>1, <1>3
  <2> QED  BY <1>2, <2>1
<1> HIDE DEF Bad
<1>4. PICK x : x \in T
  <2>1. CASE T = {}
    BY <1>2, <2>1, SumEmpty, FS_EmptySet
  <2> QED  BY <2>1
<1>5. PICK U : U = T \ {x}
  OBVIOUS
<1>6. IsFiniteSet(T) /\ IsFiniteSet(U) /\ U \in SUBSET T /\ U # T /\ f[x] \in Nat /\ f[x] <= m
  BY <1>2, <1>4, <1>5, FS_Subset
<1>7. PICK c \in Nat : Cardinality(U) = c /\ Cardinality(T) = c + 1
  <2>1. Cardinality(U) = Cardinality(T) - 1 /\ Cardinality(U) \in Nat /\ Cardinality(T) \in Nat
    BY <1>4, <1>5, <1>6, FS_RemoveElement, FS_CardinalityType
  <2> QED  BY <2>1
<1>8. SumOf(f, T) = f[x] + SumOf(f, U) /\ SumOf(f, U) \in Nat
  <2>1. (\A y \in T : f[y] \in Nat) /\ (\A y \in U : f[y] \in Nat)
    BY <1>2, <1>6
  <2> QED  BY <1>4, <1>5, <1>6, <2>1, SumTakesOut
<1>9. PICK d \in Nat : d = c * m /\ Cardinality(T) * m = d + m
  BY <1>7, OneMore
<1>10. SumOf(f, U) <= d
  BY <1>3, <1>6, <1>7, <1>9
<1> QED  BY <1>2, <1>6, <1>8, <1>9, <1>10

\* A finite set of numbers has a greatest one.
LEMMA Greatest ==
  ASSUME NEW S, IsFiniteSet(S), \A x \in S : x \in Nat, S # {}
  PROVE  Max(S) \in S /\ \A x \in S : x <= Max(S)
<1> DEFINE Top(T, m) == m \in T /\ \A x \in T : m >= x
           Bad == {T \in SUBSET S : T # {} /\ ~ \E m : Top(T, m)}
<1>1. ASSUME Bad # {} PROVE FALSE
  <2>1. PICK T \in Bad : \A u \in Bad : u \subseteq T => u = T
    <3>1. Bad # {}
      BY <1>1
    <3>2. PICK B : B = Bad
      OBVIOUS
    <3>3. B \in SUBSET SUBSET S /\ B # {}
      BY <3>1, <3>2
    <3>4. \E T \in B : \A u \in B : u \subseteq T => u = T
      <4> HIDE DEF Bad, Top
      <4> QED  BY <3>3, LeastSubset
    <3> HIDE DEF Bad
    <3> QED  BY <3>2, <3>4
  <2>2. T \in SUBSET S /\ T # {} /\ ~ \E m : Top(T, m)
    OBVIOUS
  <2>3. PICK x : x \in T
    BY <2>2
  <2>4. x \in Nat /\ \A y \in T : y \in Nat
    BY <2>2, <2>3
  <2>5. PICK y : Top(T \ {x}, y)
    <3>1. CASE T \ {x} = {}
      <4>1. Top(T, x)
        BY <2>3, <2>4, <3>1
      <4> HIDE DEF Top
      <4> QED  BY <2>2, <4>1
    <3>2. CASE T \ {x} # {}
      <4>1. T \ {x} \notin Bad
        <5>1. T \ {x} \subseteq T /\ T \ {x} # T
          BY <2>3
        <5> HIDE DEF Bad
        <5> QED  BY <2>1, <5>1
      <4> HIDE DEF Top
      <4> QED  BY <2>2, <3>2, <4>1
    <3> QED  BY <3>1, <3>2
  <2>6. Top(T, x) \/ Top(T, y)
    BY <2>3, <2>4, <2>5
  <2> HIDE DEF Top
  <2> QED  BY <2>2, <2>6
<1>2. S \in SUBSET S
  OBVIOUS
<1>3. \E m : Top(S, m)
  <2> HIDE DEF Top
  <2> QED  BY <1>1, <1>2
<1>4. PICK t : t = Max(S)
  OBVIOUS
<1>5. t \in S /\ \A x \in S : t >= x
  <2>1. \E m \in S : \A x \in S : m >= x
    BY <1>3
  <2>2. t = CHOOSE m \in S : \A x \in S : m >= x
    BY <1>4 DEF Max
  <2> QED  BY <2>1, <2>2, Zenon
<1>6. \A x \in S : x <= t
  BY <1>5
<1> QED  BY <1>4, <1>5, <1>6

-------------------------------------------------------------------------------
(* The invariant *)

Fields == DOMAIN NotMade
IsRequest(q) == DOMAIN q = Fields /\ q = [f \in Fields |-> q[f]]
IsCart(c) == c = [status |-> c.status, total |-> c.total] /\ c.status \in CartStatus

\* The places where a request holds a cart, and where it holds a saved order.
WithACart   == {"writeItem", "deleteItem", "readCart", "writeTotal", "saveOrder",
                "completeCart", "publish"}
WithAnOrder == {"completeCart", "publish"}

RowsOK ==
  /\ IsSequence(carts) /\ IsSequence(orders) /\ lastItem \in Nat
  /\ \A c \in DOMAIN carts : IsCart(carts[c])
  /\ \A o \in DOMAIN orders : orders[o].cart \in DOMAIN carts

RequestsOK ==
  /\ req = [r \in Requests |-> req[r]]
  /\ \A r \in Requests :
       /\ IsRequest(req[r])
       /\ req[r].pc \in Running \cup {"new", "done"}
       /\ req[r].pc \in WithACart => req[r].cart \in DOMAIN carts

\* An order is of one request, which keeps it to its end; while it is at work
\* the order is as saved and not published.
OrdersHeld ==
  /\ \A r \in Requests :
       /\ req[r].order # 0 => req[r].order \in DOMAIN orders
       /\ req[r].pc \in WithAnOrder =>
            /\ req[r].order # 0
            /\ orders[req[r].order].cart = req[r].cart
            /\ orders[req[r].order].total = req[r].total
       /\ req[r].pc = "publish" => carts[req[r].cart].status = "completed"
       /\ req[r].order # 0 /\ (\E i \in DOMAIN published : published[i].order = req[r].order) =>
            req[r].pc = "done" /\ req[r].result = "ok"
       /\ req[r].order # 0 => req[r].pc \in WithAnOrder \cup {"done"}
  /\ \A r, s \in Requests : req[r].order = req[s].order /\ req[r].order # 0 => r = s

PublishedOK ==
  /\ IsSequence(published)
  /\ \A i \in DOMAIN published : published[i].order \in DOMAIN orders
  /\ MessageMatchesOrder

CheckoutInv == RowsOK /\ RequestsOK /\ OrdersHeld /\ PublishedOK

\* The fields of a request, by name.
LEMMA FieldNames ==
  Fields = {"op", "pc", "product", "quantity", "target", "cart", "existing", "total",
            "order", "result"}
  BY DEF Fields, NotMade

-------------------------------------------------------------------------------
(* Carts: every step keeps the carts there are, and the completed ones *)

CartsKept ==
  /\ IsSequence(carts') /\ DOMAIN carts \subseteq DOMAIN carts'
  /\ \A c \in DOMAIN carts' : IsCart(carts'[c])
  /\ \A c \in DOMAIN carts :
       carts[c].status = "completed" => carts'[c].status = "completed"

\* Every step keeps the carts there are, and completed ones as they are.
LEMMA CartsStay ==
  ASSUME CheckoutInv, [Next]_vars
  PROVE  CartsKept
<1>1. IsSequence(carts) /\ \A c \in DOMAIN carts : IsCart(carts[c])
  BY DEF CheckoutInv, RowsOK
<1>2. CASE carts' = carts  BY <1>1, <1>2 DEF CartsKept
<1>3. ASSUME NEW r \in Requests, CreateCart(r)  PROVE CartsKept
  <2> DEFINE new == [status |-> "active", total |-> 0]
  <2>1. carts' = Append(carts, new)  BY <1>3 DEF CreateCart
  <2>2. IsCart(new)  BY DEF IsCart, CartStatus
  <2>3. QED  BY <1>1, <2>1, <2>2, Inserted DEF CartsKept
<1>4. ASSUME NEW r \in Requests, WriteTotal(r)  PROVE CartsKept
  <2> DEFINE c == req[r].cart
             row == [carts[c] EXCEPT !.total = req[r].total]
  <2>1. c \in DOMAIN carts
    BY <1>4 DEF WriteTotal, CheckoutInv, RequestsOK, WithACart
  <2>2. carts' = [carts EXCEPT ![c] = row]  BY <1>4 DEF WriteTotal
  <2>3. IsCart(row) /\ row.status = carts[c].status  BY <1>1, <2>1 DEF IsCart
  <2>4. QED  BY <1>1, <2>1, <2>2, <2>3, UpdatedRow DEF CartsKept
<1>5. ASSUME NEW r \in Requests, CompleteCart(r)  PROVE CartsKept
  <2> DEFINE c == req[r].cart
             row == [carts[c] EXCEPT !.status = "completed"]
  <2>1. c \in DOMAIN carts
    BY <1>5 DEF CompleteCart, CheckoutInv, RequestsOK, WithACart
  <2>2. carts' = [carts EXCEPT ![c] = row]  BY <1>5 DEF CompleteCart
  <2>3. IsCart(row) /\ row.status = "completed"  BY <1>1, <2>1 DEF IsCart, CartStatus
  <2>4. QED  BY <1>1, <2>1, <2>2, <2>3, UpdatedRow DEF CartsKept
<1>6. QED
  BY <1>2, <1>3, <1>4, <1>5
  DEF Next, Arrive, Made, Handle, FindProduct, FindCart, WriteItem, DeleteItem, ReadCart,
      SaveOrder, Publish, DatabaseError, Restart, LoseChannel, vars, tables

-------------------------------------------------------------------------------
(* Requests: a step of r changes r alone *)

Alone(r) ==
  /\ req' = [s \in Requests |-> req'[s]]
  /\ IsRequest(req'[r]) /\ \A s \in Requests \ {r} : req'[s] = req[s]

\* A step of one request leaves the others.
LEMMA MovesAlone ==
  ASSUME CheckoutInv, NEW r \in Requests, NEW q, IsRequest(q), req' = [req EXCEPT ![r] = q]
  PROVE  Alone(r) /\ req'[r] = q
<1>1. req = [s \in Requests |-> req[s]]  BY DEF CheckoutInv, RequestsOK
<1>2. QED  BY <1>1 DEF Alone

\* What Goto does to a request.
LEMMA GotoStep ==
  ASSUME CheckoutInv, NEW r \in Requests, NEW p, Goto(r, p)
  PROVE  /\ Alone(r) /\ req'[r].pc = p
         /\ req'[r].cart = req[r].cart /\ req'[r].order = req[r].order
         /\ req'[r].total = req[r].total /\ req'[r].result = req[r].result
<1> DEFINE q == [req[r] EXCEPT !.pc = p]
<1>1. IsRequest(req[r])  BY DEF CheckoutInv, RequestsOK
<1>2. IsRequest(q) /\ q.pc = p /\ q.cart = req[r].cart /\ q.order = req[r].order
      /\ q.total = req[r].total /\ q.result = req[r].result
  BY <1>1, FieldNames DEF IsRequest
<1>3. req' = [req EXCEPT ![r] = q]  BY DEF Goto
<1>4. Alone(r) /\ req'[r] = q  BY <1>2, <1>3, MovesAlone
<1>5. QED  BY <1>2, <1>4

\* What Finish does to a request.
LEMMA FinishStep ==
  ASSUME CheckoutInv, NEW r \in Requests, NEW a, Finish(r, a)
  PROVE  /\ Alone(r) /\ req'[r].pc = "done" /\ req'[r].result = a
         /\ req'[r].order = req[r].order
<1> DEFINE q == [req[r] EXCEPT !.pc = "done", !.result = a]
<1>1. IsRequest(req[r])  BY DEF CheckoutInv, RequestsOK
<1>2. IsRequest(q) /\ q.pc = "done" /\ q.result = a /\ q.order = req[r].order
  BY <1>1, FieldNames DEF IsRequest
<1>3. req' = [req EXCEPT ![r] = q]  BY DEF Finish
<1>4. Alone(r) /\ req'[r] = q  BY <1>2, <1>3, MovesAlone
<1>5. QED  BY <1>2, <1>4

\* What is asked for is a request that holds nothing yet.
LEMMA AskedForms ==
  ASSUME NEW a \in Asked
  PROVE  /\ IsRequest(a) /\ a.order = 0
         /\ a.pc \in {"product", "findCart"}
<1>1. IsRequest(NotMade) /\ NotMade.order = 0  BY FieldNames DEF IsRequest, Fields, NotMade
<1>2. ASSUME NEW p, NEW q, a = AddOf(p, q)
      PROVE  IsRequest(a) /\ a.order = 0 /\ a.pc \in {"product", "findCart"}
  BY <1>1, <1>2, FieldNames DEF IsRequest, AddOf
<1>3. ASSUME NEW t, a = RemovalOf(t)
      PROVE  IsRequest(a) /\ a.order = 0 /\ a.pc \in {"product", "findCart"}
  BY <1>1, <1>3, FieldNames DEF IsRequest, RemovalOf
<1>4. ASSUME NEW op, a = Plain(op)
      PROVE  IsRequest(a) /\ a.order = 0 /\ a.pc \in {"product", "findCart"}
  BY <1>1, <1>4, FieldNames DEF IsRequest, Plain
<1>5. QED  BY <1>2, <1>3, <1>4 DEF Asked

\* The step of a request that neither saves nor holds an order afterwards, or
\* ends it: the invariant holds on, whatever it does to its cart.
LEMMA OrdinaryStep ==
  ASSUME CheckoutInv, CartsKept, NEW r \in Requests, Alone(r), lastItem' \in Nat,
         UNCHANGED <<orders, published>>,
         req'[r].order = req[r].order, req[r].pc \notin {"done", "publish"},
         req'[r].pc \in (Running \ WithAnOrder) \cup {"new", "done"},
         req[r].order # 0 => req'[r].pc = "done",
         req'[r].pc \in WithACart => req'[r].cart \in DOMAIN carts'
  PROVE  CheckoutInv'
<1>1. RowsOK'
  BY DEF CheckoutInv, RowsOK, CartsKept
<1>2. RequestsOK'
  BY DEF CheckoutInv, RequestsOK, CartsKept, Alone
<1>3. OrdersHeld'
  <2>1. \A s \in Requests \ {r} : req'[s].pc = "publish" =>
           carts'[req'[s].cart].status = "completed"
    BY DEF CheckoutInv, OrdersHeld, RequestsOK, CartsKept, Alone, WithACart
  <2>2. \A s \in Requests : req'[s].order = req[s].order  BY DEF Alone
  <2>3. ~ (req[r].order # 0 /\ \E i \in DOMAIN published : published[i].order = req[r].order)
    BY DEF CheckoutInv, OrdersHeld
  <2>4. \A s \in Requests : req'[s].pc \in WithAnOrder => s # r
    BY DEF Running, WithAnOrder
  <2>5. QED
    BY <2>1, <2>2, <2>3, <2>4 DEF CheckoutInv, OrdersHeld, Alone, WithAnOrder
<1>4. PublishedOK'
  BY DEF CheckoutInv, PublishedOK, MessageMatchesOrder, RowsOK, CartsKept
<1>5. QED  BY <1>1, <1>2, <1>3, <1>4 DEF CheckoutInv

-------------------------------------------------------------------------------
(* Each step keeps the invariant *)

\* A request that is made keeps the invariant.
LEMMA MadeStep ==
  ASSUME CheckoutInv, CartsKept, NEW r \in Requests, NEW a \in Asked, Made(r, a)
  PROVE  CheckoutInv'
<1>1. IsRequest(a) /\ a.order = 0 /\ a.pc \in {"product", "findCart"}  BY AskedForms
<1>2. req' = [req EXCEPT ![r] = a] /\ req[r].pc = "new"  BY DEF Made
<1>3. Alone(r) /\ req'[r] = a  BY <1>1, <1>2, MovesAlone
<1>4. req[r].order = 0
  BY <1>2 DEF CheckoutInv, OrdersHeld, WithAnOrder
<1>5. lastItem' = lastItem /\ UNCHANGED <<orders, published>> /\ lastItem \in Nat
  BY DEF Made, tables, CheckoutInv, RowsOK
<1>6. a.pc \in Running \ WithAnOrder /\ a.pc \notin WithACart
  BY <1>1 DEF Running, WithAnOrder, WithACart
<1>7. QED  BY <1>1, <1>2, <1>3, <1>4, <1>5, <1>6, OrdinaryStep

\* A step of the kind most are: r goes on without an order.
LEMMA GoesOn ==
  ASSUME CheckoutInv, CartsKept, NEW r \in Requests, NEW p, Goto(r, p),
         UNCHANGED <<orders, published>>, lastItem' \in Nat,
         req[r].pc \in Running \ WithAnOrder, p \in Running \ WithAnOrder,
         p \in WithACart => req[r].cart \in DOMAIN carts
  PROVE  CheckoutInv'
<1>1. /\ Alone(r) /\ req'[r].pc = p /\ req'[r].cart = req[r].cart
      /\ req'[r].order = req[r].order
  BY GotoStep
<1>2. req[r].order = 0
  BY DEF CheckoutInv, OrdersHeld, WithAnOrder, Running
<1>3. req[r].pc \notin {"done", "publish"}  BY DEF Running, WithAnOrder
<1>4. QED  BY <1>1, <1>2, <1>3, OrdinaryStep DEF CartsKept

\* Or it ends, at any point but the publish.
LEMMA EndsThere ==
  ASSUME CheckoutInv, CartsKept, NEW r \in Requests, NEW a, Finish(r, a),
         UNCHANGED <<orders, published>>, lastItem' \in Nat,
         req[r].pc \in Running \ {"publish"}
  PROVE  CheckoutInv'
<1>1. /\ Alone(r) /\ req'[r].pc = "done" /\ req'[r].order = req[r].order
  BY FinishStep
<1>2. req[r].pc \notin {"done", "publish"}  BY DEF Running
<1>3. "done" \notin WithACart  BY DEF WithACart
<1>4. QED  BY <1>1, <1>2, <1>3, OrdinaryStep

\* Finding the active cart keeps the invariant.
LEMMA FindCartStep ==
  ASSUME CheckoutInv, CartsKept, NEW r \in Requests, FindCart(r)
  PROVE  CheckoutInv'
<1>1. /\ req[r].pc = "findCart" /\ req[r].pc \in Running \ WithAnOrder
      /\ UNCHANGED <<orders, published>> /\ lastItem' \in Nat
  BY DEF FindCart, tables, Running, WithAnOrder, CheckoutInv, RowsOK
<1>2. IsRequest(req[r]) /\ req[r].order = 0
  BY <1>1 DEF CheckoutInv, RequestsOK, OrdersHeld, WithAnOrder
<1>3. ASSUME NEW a, Finish(r, a)  PROVE CheckoutInv'
  BY <1>1, <1>3, EndsThere DEF Running
<1>4. CASE WithoutCart(r)
  <2>1. CASE Goto(r, "createCart")
    BY <1>1, <2>1, GoesOn DEF Running, WithAnOrder, WithACart
  <2>2. QED  BY <1>3, <1>4, <2>1 DEF WithoutCart
<1>5. ASSUME NEW c \in ActiveCarts, WithCart(r, c)  PROVE CheckoutInv'
  <2>1. c \in DOMAIN carts  BY DEF ActiveCarts
  <2>2. ASSUME NEW q, req' = [req EXCEPT ![r] = q], IsRequest(q), q.order = 0, q.cart = c,
               q.pc \in {"writeItem", "readCart", "deleteItem", "saveOrder"}
        PROVE  CheckoutInv'
    <3>1. Alone(r) /\ req'[r] = q  BY <2>2, MovesAlone
    <3>2. q.pc \in Running \ WithAnOrder  BY <2>2 DEF Running, WithAnOrder
    <3>3. c \in DOMAIN carts'  BY <2>1 DEF CartsKept
    <3>4. QED  BY <1>1, <1>2, <2>2, <3>1, <3>2, <3>3, OrdinaryStep
  <2>3. ASSUME NEW e, req' = [req EXCEPT ![r].pc = "writeItem", ![r].cart = c, ![r].existing = e]
        PROVE  CheckoutInv'
    <3> DEFINE q == [req[r] EXCEPT !.pc = "writeItem", !.cart = c, !.existing = e]
    <3>1. req' = [req EXCEPT ![r] = q]  BY <2>3
    <3>2. IsRequest(q) /\ q.order = 0 /\ q.cart = c /\ q.pc = "writeItem"
      BY <1>2, FieldNames DEF IsRequest
    <3>3. QED  BY <2>2, <3>1, <3>2
  <2>4. ASSUME NEW p \in {"readCart", "deleteItem"},
               req' = [req EXCEPT ![r].pc = p, ![r].cart = c]
        PROVE  CheckoutInv'
    <3> DEFINE q == [req[r] EXCEPT !.pc = p, !.cart = c]
    <3>1. req' = [req EXCEPT ![r] = q]  BY <2>4
    <3>2. IsRequest(q) /\ q.order = 0 /\ q.cart = c /\ q.pc = p
      BY <1>2, FieldNames DEF IsRequest
    <3>3. QED  BY <2>2, <3>1, <3>2
  <2>5. CASE req' = [req EXCEPT ![r].pc = "saveOrder", ![r].cart = c, ![r].total = carts[c].total]
    <3> DEFINE q == [req[r] EXCEPT !.pc = "saveOrder", !.cart = c, !.total = carts[c].total]
    <3>1. req' = [req EXCEPT ![r] = q]  BY <2>5
    <3>2. IsRequest(q) /\ q.order = 0 /\ q.cart = c /\ q.pc = "saveOrder"
      BY <1>2, FieldNames DEF IsRequest
    <3>3. QED  BY <2>2, <3>1, <3>2
  <2>6. QED  BY <1>3, <1>5, <2>3, <2>4, <2>5 DEF WithCart
<1>6. QED  BY <1>4, <1>5 DEF FindCart

\* Creating a cart keeps the invariant.
LEMMA CreateCartStep ==
  ASSUME CheckoutInv, CartsKept, NEW r \in Requests, CreateCart(r)
  PROVE  CheckoutInv'
<1> DEFINE n == Len(carts) + 1
           q == [req[r] EXCEPT !.pc = "writeItem", !.cart = n]
<1>1. /\ req[r].pc = "createCart" /\ req' = [req EXCEPT ![r] = q]
      /\ UNCHANGED <<orders, published>> /\ lastItem' \in Nat
  BY DEF CreateCart, CheckoutInv, RowsOK
<1>2. IsRequest(req[r]) /\ req[r].order = 0
  BY <1>1 DEF CheckoutInv, RequestsOK, OrdersHeld, WithAnOrder
<1>3. n \in DOMAIN carts'
  BY Inserted DEF CreateCart, CheckoutInv, RowsOK
<1>4. IsRequest(q) /\ q.order = 0 /\ q.cart = n /\ q.pc = "writeItem"
  BY <1>2, FieldNames DEF IsRequest
<1>5. Alone(r) /\ req'[r] = q  BY <1>1, <1>4, MovesAlone
<1>6. q.pc \in Running \ WithAnOrder  BY <1>4 DEF Running, WithAnOrder
<1>7. QED  BY <1>1, <1>2, <1>3, <1>4, <1>5, <1>6, OrdinaryStep

\* The steps that write an item, read the items, or write the total.
LEMMA CartSteps ==
  ASSUME CheckoutInv, CartsKept, NEW r \in Requests,
         WriteItem(r) \/ DeleteItem(r) \/ ReadCart(r) \/ WriteTotal(r)
  PROVE  CheckoutInv'
<1>1. lastItem \in Nat  BY DEF CheckoutInv, RowsOK
<1>2. IsRequest(req[r]) /\ (req[r].pc \in WithACart => req[r].cart \in DOMAIN carts)
  BY DEF CheckoutInv, RequestsOK
<1>3. req[r].pc \in Running \ WithAnOrder => req[r].order = 0
  BY DEF CheckoutInv, OrdersHeld, WithAnOrder, Running
<1>4. CASE WriteItem(r) \/ DeleteItem(r)
  <2>1. /\ Goto(r, "readCart") /\ UNCHANGED <<orders, published>>
        /\ req[r].pc \in {"writeItem", "deleteItem"}
    BY <1>4 DEF WriteItem, DeleteItem
  <2>2. lastItem' \in Nat  BY <1>1, <1>4 DEF WriteItem, DeleteItem
  <2>3. QED  BY <1>2, <2>1, <2>2, GoesOn DEF WithACart, WithAnOrder, Running
<1>5. CASE ReadCart(r)
  <2> DEFINE t == Sum(ItemsOf(req[r].cart))
             q == [req[r] EXCEPT !.pc = "writeTotal", !.total = t]
  <2>1. /\ req[r].pc = "readCart" /\ req' = [req EXCEPT ![r] = q]
        /\ UNCHANGED <<orders, published>> /\ lastItem' \in Nat
    BY <1>1, <1>5 DEF ReadCart, tables
  <2>2. IsRequest(q) /\ q.order = req[r].order /\ q.cart = req[r].cart /\ q.pc = "writeTotal"
    BY <1>2, FieldNames DEF IsRequest
  <2>3. Alone(r) /\ req'[r] = q  BY <2>1, <2>2, MovesAlone
  <2>4. req[r].pc \in Running \ WithAnOrder /\ q.pc \in Running \ WithAnOrder
        /\ req[r].cart \in DOMAIN carts'
    BY <1>2, <2>1, <2>2 DEF Running, WithAnOrder, WithACart, CartsKept
  <2>5. QED  BY <1>3, <2>1, <2>2, <2>3, <2>4, OrdinaryStep
<1>6. CASE WriteTotal(r)
  <2>1. /\ req[r].pc = "writeTotal" /\ Finish(r, "ok")
        /\ UNCHANGED <<orders, published>> /\ lastItem' \in Nat
    BY <1>1, <1>6 DEF WriteTotal
  <2>2. QED  BY <2>1, EndsThere DEF Running
<1>7. QED  BY <1>4, <1>5, <1>6

\* A database error keeps the invariant.
LEMMA DatabaseErrorStep ==
  ASSUME CheckoutInv, CartsKept, NEW r \in Requests, DatabaseError(r)
  PROVE  CheckoutInv'
<1>1. /\ Finish(r, "error") /\ UNCHANGED <<orders, published>> /\ lastItem' \in Nat
      /\ req[r].pc \in Running \ {"publish"}
  BY DEF DatabaseError, tables, CheckoutInv, RowsOK
<1>2. QED  BY <1>1, EndsThere

\* Finding the product keeps the invariant.
LEMMA FindProductStep ==
  ASSUME CheckoutInv, CartsKept, NEW r \in Requests, FindProduct(r)
  PROVE  CheckoutInv'
<1>1. /\ req[r].pc = "product" /\ UNCHANGED <<orders, published>> /\ lastItem' \in Nat
  BY DEF FindProduct, tables, CheckoutInv, RowsOK
<1>2. ASSUME NEW a, Finish(r, a)  PROVE CheckoutInv'
  BY <1>1, <1>2, EndsThere DEF Running
<1>3. CASE Goto(r, "findCart")
  BY <1>1, <1>3, GoesOn DEF Running, WithAnOrder, WithACart
<1>4. QED  BY <1>2, <1>3 DEF FindProduct

\* The order saved is a new one, so nothing published names it.
LEMMA SaveOrderStep ==
  ASSUME CheckoutInv, CartsKept, NEW r \in Requests, SaveOrder(r)
  PROVE  CheckoutInv'
<1> DEFINE n   == Len(orders) + 1
           row == [cart |-> req[r].cart, total |-> req[r].total]
           q   == [req[r] EXCEPT !.pc = "completeCart", !.order = n]
<1>1. /\ req[r].pc = "saveOrder" /\ orders' = Append(orders, row)
      /\ req' = [req EXCEPT ![r] = q]
      /\ UNCHANGED <<carts, lastItem, published>>
  BY DEF SaveOrder
<1>2. IsRequest(req[r]) /\ req[r].cart \in DOMAIN carts /\ req[r].order = 0
  BY <1>1 DEF CheckoutInv, RequestsOK, OrdersHeld, WithACart, WithAnOrder
<1>3. /\ IsRequest(q) /\ q.order = n /\ q.pc = "completeCart"
      /\ q.cart = req[r].cart /\ q.total = req[r].total
  BY <1>2, FieldNames DEF IsRequest
<1>4. Alone(r) /\ req'[r] = q  BY <1>1, <1>3, MovesAlone
<1>5. /\ IsSequence(orders') /\ n \in Nat \ {0}
      /\ DOMAIN orders' = 1..n /\ DOMAIN orders = 1..(n - 1)
      /\ \A o \in DOMAIN orders : orders'[o] = orders[o]
      /\ orders'[n] = row
  <2>1. IsSequence(orders)  BY DEF CheckoutInv, RowsOK
  <2>2. Len(orders) \in Nat /\ DOMAIN orders = 1..Len(orders)  BY <2>1, Inserted
  <2>3. QED  BY <1>1, <2>1, <2>2, Inserted
<1>6. RowsOK'
  BY <1>1, <1>2, <1>5 DEF CheckoutInv, RowsOK
<1>7. RequestsOK'
  BY <1>1, <1>2, <1>3, <1>4 DEF CheckoutInv, RequestsOK, Alone, Running
<1>8. PublishedOK'
  BY <1>1, <1>5 DEF CheckoutInv, PublishedOK, MessageMatchesOrder
<1>9. OrdersHeld'
  <2>1. n \notin DOMAIN orders /\ n # 0  BY <1>5
  <2>2. \A s \in Requests : req[s].order # n
    BY <2>1 DEF CheckoutInv, OrdersHeld
  <2>3. \A i \in DOMAIN published : published[i].order # n  BY <2>1 DEF CheckoutInv, PublishedOK
  <2>4. \A s \in Requests \ {r} : req'[s] = req[s] /\ s # r  BY <1>4 DEF Alone
  <2>5. \A s, t \in Requests : req'[s].order = req'[t].order /\ req'[s].order # 0 => s = t
    <3>1. \A s, t \in Requests : req[s].order = req[t].order /\ req[s].order # 0 => s = t
      BY DEF CheckoutInv, OrdersHeld
    <3>2. req'[r].order = n  BY <1>3, <1>4
    <3>3. \A s \in Requests \ {r} : req'[s].order = req[s].order /\ req[s].order # n
      BY <2>2, <2>4
    <3>4. QED
      <4> HIDE DEF n, q
      <4>1. QED  BY <3>1, <3>2, <3>3
  <2>6. \A o \in DOMAIN orders : o \in DOMAIN orders' /\ orders'[o] = orders[o]
    BY <1>5
  <2>7. ASSUME NEW s \in Requests
        PROVE  /\ req'[s].order # 0 => req'[s].order \in DOMAIN orders'
               /\ req'[s].pc \in WithAnOrder =>
                    /\ req'[s].order # 0
                    /\ orders'[req'[s].order].cart = req'[s].cart
                    /\ orders'[req'[s].order].total = req'[s].total
               /\ req'[s].pc = "publish" => carts'[req'[s].cart].status = "completed"
               /\ req'[s].order # 0 /\ (\E i \in DOMAIN published' : published'[i].order = req'[s].order) =>
                    req'[s].pc = "done" /\ req'[s].result = "ok"
               /\ req'[s].order # 0 => req'[s].pc \in WithAnOrder \cup {"done"}
    <3>1. CASE s = r
      <4>1. /\ req'[s].order = n /\ req'[s].pc = "completeCart"
            /\ req'[s].cart = req[r].cart /\ req'[s].total = req[r].total
        BY <1>3, <1>4, <3>1
      <4>2. orders'[n].cart = req[r].cart /\ orders'[n].total = req[r].total  BY <1>5
      <4>3. n \in DOMAIN orders' /\ n # 0 /\ \A i \in DOMAIN published' : published'[i].order # n
        BY <1>1, <1>5, <2>1, <2>3
      <4> HIDE DEF n, q, row
      <4>4. QED  BY <4>1, <4>2, <4>3 DEF WithAnOrder
    <3>2. CASE s # r
      BY <1>1, <2>4, <2>6, <3>2 DEF CheckoutInv, OrdersHeld
    <3>3. QED  BY <3>1, <3>2
  <2>8. QED  BY <2>5, <2>7 DEF OrdersHeld
<1>10. QED  BY <1>6, <1>7, <1>8, <1>9 DEF CheckoutInv

\* Completing the cart keeps the invariant.
LEMMA CompleteCartStep ==
  ASSUME CheckoutInv, CartsKept, NEW r \in Requests, CompleteCart(r)
  PROVE  CheckoutInv'
<1> DEFINE c == req[r].cart
<1>1. /\ req[r].pc = "completeCart" /\ Goto(r, "publish")
      /\ UNCHANGED <<lastItem, orders, published>>
      /\ carts' = [carts EXCEPT ![c].status = "completed"]
  BY DEF CompleteCart
<1>2. /\ Alone(r) /\ req'[r].pc = "publish" /\ req'[r].cart = c
      /\ req'[r].order = req[r].order /\ req'[r].total = req[r].total
  BY <1>1, GotoStep
<1>3. c \in DOMAIN carts /\ IsCart(carts[c])
  BY <1>1 DEF CheckoutInv, RequestsOK, RowsOK, WithACart
<1>4. carts'[c].status = "completed" /\ c \in DOMAIN carts'
  BY <1>1, <1>3 DEF IsCart, CartsKept
<1>5. RowsOK'  BY <1>1 DEF CheckoutInv, RowsOK, CartsKept
<1>6. RequestsOK'
  BY <1>1, <1>2, <1>4 DEF CheckoutInv, RequestsOK, Alone, CartsKept, Running
<1>7. PublishedOK'
  BY <1>1 DEF CheckoutInv, PublishedOK, MessageMatchesOrder, RowsOK, CartsKept
<1>8. OrdersHeld'
  <2>1. \A s \in Requests \ {r} : req'[s] = req[s]  BY <1>2 DEF Alone
  <2>2. \A s \in Requests : req'[s].order = req[s].order  BY <1>2, <2>1
  <2>3. \A s \in Requests \ {r} : req'[s].pc = "publish" =>
           carts'[req'[s].cart].status = "completed"
    BY <2>1 DEF CheckoutInv, OrdersHeld, RequestsOK, CartsKept, WithACart
  <2>4. QED
    BY <1>1, <1>2, <1>4, <2>1, <2>2, <2>3 DEF CheckoutInv, OrdersHeld, WithAnOrder
<1>9. QED  BY <1>5, <1>6, <1>7, <1>8 DEF CheckoutInv

\* Message m was published, or did not get through.
Published(m) ==
  /\ IsSequence(published') /\ DOMAIN published \subseteq DOMAIN published'
  /\ \A i \in DOMAIN published : published'[i] = published[i]
  /\ \A i \in DOMAIN published' \ DOMAIN published : published'[i] = m
  /\ \A i, j \in DOMAIN published' \ DOMAIN published : i = j

\* publishMessage adds one message, or none.
LEMMA SentIsPublished ==
  ASSUME IsSequence(published), NEW m, published' = Sent(m)
  PROVE  Published(m)
<1>1. CASE published' = published  BY <1>1 DEF Published
<1>2. CASE published' = Append(published, m)  BY <1>2, Inserted DEF Published
<1>3. QED  BY <1>1, <1>2 DEF Sent

\* The message is the order's, and the first of it.
LEMMA PublishStep ==
  ASSUME CheckoutInv, CartsKept, NEW r \in Requests, Publish(r)
  PROVE  CheckoutInv'
<1> DEFINE o == req[r].order
           m == [order |-> o, amount |-> req[r].total]
<1>1. /\ req[r].pc = "publish" /\ Finish(r, "ok") /\ UNCHANGED tables
      /\ published' = Sent(m)
  BY DEF Publish
<1>2. /\ Alone(r) /\ req'[r].pc = "done" /\ req'[r].result = "ok" /\ req'[r].order = o
  BY <1>1, FinishStep
<1>3. UNCHANGED <<carts, orders, lastItem>>  BY <1>1 DEF tables
<1>4. /\ o # 0 /\ o \in DOMAIN orders
      /\ orders[o].cart = req[r].cart /\ orders[o].total = req[r].total
      /\ carts[req[r].cart].status = "completed"
      /\ \A i \in DOMAIN published : published[i].order # o
  BY <1>1 DEF CheckoutInv, OrdersHeld, WithAnOrder
<1>5. Published(m)  BY <1>1, SentIsPublished DEF CheckoutInv, PublishedOK
<1>6. RowsOK'  BY <1>3 DEF CheckoutInv, RowsOK
<1>7. RequestsOK'
  BY <1>2, <1>3 DEF CheckoutInv, RequestsOK, Alone, WithACart
<1>8. PublishedOK'
  <2>1. \A i \in DOMAIN published' : i \in DOMAIN published \/ published'[i] = m
    BY <1>5 DEF Published
  <2>2. \A i, j \in DOMAIN published' : published'[i].order = published'[j].order => i = j
    BY <1>4, <1>5 DEF Published, CheckoutInv, PublishedOK, MessageMatchesOrder
  <2>3. \A i \in DOMAIN published' :
          /\ published'[i].order \in DOMAIN orders
          /\ published'[i].amount = orders[published'[i].order].total
          /\ carts[orders[published'[i].order].cart].status = "completed"
    BY <1>4, <1>5, <2>1 DEF Published, CheckoutInv, PublishedOK, MessageMatchesOrder
  <2>4. QED  BY <1>3, <1>5, <2>2, <2>3 DEF Published, PublishedOK, MessageMatchesOrder
<1>9. OrdersHeld'
  <2>1. \A s \in Requests \ {r} : req'[s] = req[s] /\ req[s].order # o
    BY <1>2, <1>4 DEF Alone, CheckoutInv, OrdersHeld
  <2>2. \A i \in DOMAIN published' :
          (i \in DOMAIN published /\ published'[i] = published[i]) \/ published'[i].order = o
    BY <1>5 DEF Published
  <2>3. QED
    BY <1>2, <1>3, <1>4, <2>1, <2>2 DEF CheckoutInv, OrdersHeld, WithAnOrder
<1>10. QED  BY <1>6, <1>7, <1>8, <1>9 DEF CheckoutInv

\* What a restart cuts off keeps its order and never publishes it.
LEMMA RestartStep ==
  ASSUME CheckoutInv, Restart
  PROVE  CheckoutInv'
<1>1. UNCHANGED <<carts, orders, lastItem, published>>  BY DEF Restart, tables
<1>2. ASSUME NEW r \in Requests
      PROVE  /\ IsRequest(req'[r]) /\ req'[r].order = req[r].order
             /\ req'[r].pc = "done" \/ req'[r] = req[r]
             /\ r \notin InFlight => req'[r] = req[r]
  <2>1. IsRequest(req[r])  BY DEF CheckoutInv, RequestsOK
  <2> DEFINE q == [req[r] EXCEPT !.pc = "done", !.result = "error"]
  <2>2. IsRequest(q) /\ q.order = req[r].order /\ q.pc = "done"
    BY <2>1, FieldNames DEF IsRequest
  <2>3. req'[r] = IF r \in InFlight THEN q ELSE req[r]  BY DEF Restart
  <2>4. QED  BY <2>1, <2>2, <2>3
<1>3. req' = [r \in Requests |-> req'[r]]  BY DEF Restart
<1>4. RowsOK'  BY <1>1 DEF CheckoutInv, RowsOK
<1>5. RequestsOK'
  BY <1>1, <1>2, <1>3 DEF CheckoutInv, RequestsOK, WithACart
<1>6. PublishedOK'  BY <1>1 DEF CheckoutInv, PublishedOK, MessageMatchesOrder
<1>7. OrdersHeld'
  <2>1. ASSUME NEW r \in Requests, req[r].order # 0,
               \E i \in DOMAIN published : published[i].order = req[r].order
        PROVE  req'[r] = req[r]
    <3>1. req[r].pc = "done"  BY <2>1 DEF CheckoutInv, OrdersHeld
    <3>2. r \notin InFlight  BY <3>1 DEF InFlight, Running
    <3>3. QED  BY <1>2, <3>2
  <2>2. QED  BY <1>1, <1>2, <2>1 DEF CheckoutInv, OrdersHeld, WithAnOrder
<1>8. QED  BY <1>4, <1>5, <1>6, <1>7 DEF CheckoutInv

-------------------------------------------------------------------------------
(* The theorems *)

\* The invariant holds at first.
LEMMA CheckoutInvInit == Init => CheckoutInv
<1> SUFFICES ASSUME Init PROVE CheckoutInv  OBVIOUS
<1>1. IsSequence(<<>>) /\ DOMAIN <<>> = {}  BY DEF IsSequence
<1>2. RowsOK  BY <1>1 DEF Init, RowsOK
<1>3. /\ IsRequest(NotMade) /\ NotMade.order = 0 /\ NotMade.pc = "new"
  BY FieldNames DEF IsRequest, Fields, NotMade
<1>4. RequestsOK  BY <1>3 DEF Init, RequestsOK, WithACart
<1>5. OrdersHeld  BY <1>3 DEF Init, OrdersHeld, WithAnOrder
<1>6. PublishedOK  BY <1>1 DEF Init, PublishedOK, MessageMatchesOrder
<1>7. QED  BY <1>2, <1>4, <1>5, <1>6 DEF CheckoutInv

\* Every step keeps the invariant.
LEMMA CheckoutInvStep == CheckoutInv /\ [Next]_vars => CheckoutInv'
<1> SUFFICES ASSUME CheckoutInv, [Next]_vars PROVE CheckoutInv'  OBVIOUS
<1>1. CartsKept  BY CartsStay
<1>2. ASSUME NEW r \in Requests, Arrive(r)  PROVE CheckoutInv'
  BY <1>1, <1>2, MadeStep DEF Arrive
<1>3. ASSUME NEW r \in Requests, Handle(r)  PROVE CheckoutInv'
  BY <1>1, <1>3, FindProductStep, FindCartStep, CreateCartStep, CartSteps, SaveOrderStep,
     CompleteCartStep, PublishStep DEF Handle
<1>4. ASSUME NEW r \in Requests, DatabaseError(r)  PROVE CheckoutInv'
  BY <1>1, <1>4, DatabaseErrorStep
<1>5. CASE Restart  BY <1>5, RestartStep
<1>6. CASE LoseChannel \/ UNCHANGED vars
  <2>1. UNCHANGED <<carts, lastItem, orders, published, req>>
    BY <1>6 DEF LoseChannel, vars, tables
  <2>2. QED
    BY <2>1 DEF CheckoutInv, RowsOK, RequestsOK, OrdersHeld, PublishedOK, MessageMatchesOrder
<1>7. QED  BY <1>2, <1>3, <1>4, <1>5, <1>6 DEF Next

\* The inductive invariant: what tables and requests hold and how they refer to
\* each other, at every await of every request of CartService and OrdersService.
THEOREM CheckoutInvariant == Spec => []CheckoutInv
<1>1. Init => CheckoutInv  BY CheckoutInvInit
<1>2. CheckoutInv /\ [Next]_vars => CheckoutInv'  BY CheckoutInvStep
<1>3. QED  BY <1>1, <1>2, PTL DEF Spec

\* Whatever requests of the user overlap, fail or are cut off, a payment
\* message that checkout-service published is of an order saved with that
\* amount, its cart is completed, and nothing that checkout-service published
\* before or after it asks for the payment of that order, in equal words or not.
THEOREM MessagesMatchOrders == Spec => []MessageMatchesOrder
<1>1. CheckoutInv => MessageMatchesOrder  BY DEF CheckoutInv, PublishedOK
<1>2. QED  BY <1>1, CheckoutInvariant, PTL

\* No step of any request makes a completed cart active again: the update of
\* rebuildCartResponse writes the total alone.
THEOREM CompletedCartsStay == Spec => CompletedStays
<1>1. CheckoutInv /\ [Next]_vars =>
        [\A c \in DOMAIN carts :
           carts[c].status = "completed" => carts'[c].status = "completed"]_vars
  BY CartsStay DEF CartsKept
<1>2. QED  BY <1>1, CheckoutInvariant, PTL DEF Spec, CompletedStays

-------------------------------------------------------------------------------
(* What a handler's step does to its request, for the proofs that follow *)

\* The places where a request is about to order a cart, or did.
Ordering == {"saveOrder"} \cup WithAnOrder

Message(r) == [order |-> req[r].order, amount |-> req[r].total]

HandlerMoves(r) ==
  /\ req[r].pc \in Running /\ Alone(r) /\ req'[r].pc # "new"
  /\ \A o \in DOMAIN orders : orders'[o] = orders[o]
  /\ \/ published' = published
     \/ /\ req[r].pc = "publish" /\ Published(Message(r))
        /\ req'[r].pc = "done" /\ req'[r].order = req[r].order
  /\ req'[r].pc = "done" /\ req'[r].result # "ok" /\ req'[r].order # 0 => faults' = faults + 1
  /\ req'[r].pc \in Ordering =>
       \/ req[r].pc \in Ordering /\ req'[r].cart = req[r].cart
       \/ req'[r].pc = "saveOrder" /\ req'[r].cart \in ActiveCarts

\* Goto keeps what a request has done.
LEMMA GotoMoves ==
  ASSUME CheckoutInv, NEW r \in Requests, NEW p, Goto(r, p), UNCHANGED <<orders, published>>,
         req[r].pc \in Running, p \in Running, p \in Ordering => req[r].pc \in Ordering
  PROVE  HandlerMoves(r)
<1>1. Alone(r) /\ req'[r].pc = p /\ req'[r].cart = req[r].cart  BY GotoStep
<1>2. p # "new" /\ p # "done"  BY DEF Running
<1>3. QED  BY <1>1, <1>2 DEF HandlerMoves

\* Finish keeps what a request has done, but for its result.
LEMMA FinishMoves ==
  ASSUME CheckoutInv, NEW r \in Requests, NEW a, Finish(r, a), UNCHANGED <<orders, published>>,
         req[r].pc \in Running,
         req[r].pc \in WithAnOrder /\ a # "ok" => faults' = faults + 1
  PROVE  HandlerMoves(r)
<1>1. /\ Alone(r) /\ req'[r].pc = "done" /\ req'[r].result = a
      /\ req'[r].order = req[r].order
  BY FinishStep
<1>2. req[r].order # 0 => req[r].pc \in WithAnOrder
  BY DEF CheckoutInv, OrdersHeld, Running
<1>3. req'[r].pc \notin Ordering  BY <1>1 DEF Ordering, WithAnOrder
<1>4. QED  BY <1>1, <1>2, <1>3 DEF HandlerMoves

\* A step that fills in locals and goes on.
LEMMA LocalMoves ==
  ASSUME CheckoutInv, NEW r \in Requests, NEW q, IsRequest(q), req' = [req EXCEPT ![r] = q],
         \A o \in DOMAIN orders : orders'[o] = orders[o], published' = published,
         req[r].pc \in Running, q.pc \in Running,
         q.pc \in Ordering =>
           \/ req[r].pc \in Ordering /\ q.cart = req[r].cart
           \/ q.pc = "saveOrder" /\ q.cart \in ActiveCarts
  PROVE  HandlerMoves(r)
<1>1. Alone(r) /\ req'[r] = q  BY MovesAlone
<1>2. q.pc # "new" /\ q.pc # "done"  BY DEF Running
<1>3. QED  BY <1>1, <1>2 DEF HandlerMoves

\* Finding the cart moves one request.
LEMMA FindCartMoves ==
  ASSUME CheckoutInv, NEW r \in Requests, FindCart(r)
  PROVE  HandlerMoves(r)
<1>1. /\ req[r].pc = "findCart" /\ req[r].pc \in Running
      /\ req[r].pc \notin WithAnOrder /\ UNCHANGED <<orders, published>>
  BY DEF FindCart, tables, Running, WithAnOrder
<1>2. IsRequest(req[r])  BY DEF CheckoutInv, RequestsOK
<1>3. ASSUME NEW a, Finish(r, a)  PROVE HandlerMoves(r)
  BY <1>1, <1>3, FinishMoves
<1>4. CASE WithoutCart(r)
  <2>1. CASE Goto(r, "createCart")
    BY <1>1, <2>1, GotoMoves DEF Running, Ordering, WithAnOrder
  <2>2. QED  BY <1>3, <1>4, <2>1 DEF WithoutCart
<1>5. ASSUME NEW c \in ActiveCarts, WithCart(r, c)  PROVE HandlerMoves(r)
  <2>1. ASSUME NEW q, req' = [req EXCEPT ![r] = q], IsRequest(q), q.cart = c,
               q.pc \in {"writeItem", "readCart", "deleteItem", "saveOrder"}
        PROVE  HandlerMoves(r)
    <3>1. q.pc \in Running /\ (q.pc \in Ordering => q.pc = "saveOrder")
      BY <2>1 DEF Running, Ordering, WithAnOrder
    <3>2. QED  BY <1>1, <2>1, <3>1, LocalMoves
  <2>2. ASSUME NEW e, req' = [req EXCEPT ![r].pc = "writeItem", ![r].cart = c, ![r].existing = e]
        PROVE  HandlerMoves(r)
    <3> DEFINE q == [req[r] EXCEPT !.pc = "writeItem", !.cart = c, !.existing = e]
    <3>1. req' = [req EXCEPT ![r] = q]  BY <2>2
    <3>2. IsRequest(q) /\ q.cart = c /\ q.pc = "writeItem"
      BY <1>2, FieldNames DEF IsRequest
    <3>3. QED  BY <2>1, <3>1, <3>2
  <2>3. ASSUME NEW p \in {"readCart", "deleteItem"},
               req' = [req EXCEPT ![r].pc = p, ![r].cart = c]
        PROVE  HandlerMoves(r)
    <3> DEFINE q == [req[r] EXCEPT !.pc = p, !.cart = c]
    <3>1. req' = [req EXCEPT ![r] = q]  BY <2>3
    <3>2. IsRequest(q) /\ q.cart = c /\ q.pc = p
      BY <1>2, FieldNames DEF IsRequest
    <3>3. QED  BY <2>1, <3>1, <3>2
  <2>4. CASE req' = [req EXCEPT ![r].pc = "saveOrder", ![r].cart = c, ![r].total = carts[c].total]
    <3> DEFINE q == [req[r] EXCEPT !.pc = "saveOrder", !.cart = c, !.total = carts[c].total]
    <3>1. req' = [req EXCEPT ![r] = q]  BY <2>4
    <3>2. IsRequest(q) /\ q.cart = c /\ q.pc = "saveOrder"
      BY <1>2, FieldNames DEF IsRequest
    <3>3. QED  BY <2>1, <3>1, <3>2
  <2>5. QED  BY <1>3, <1>5, <2>2, <2>3, <2>4 DEF WithCart
<1>6. QED  BY <1>4, <1>5 DEF FindCart

\* What a step of a handler changes of the history.
LEMMA HandlerStep ==
  ASSUME CheckoutInv, NEW r \in Requests, Handle(r) \/ DatabaseError(r)
  PROVE  HandlerMoves(r)
<1>1. IsRequest(req[r])  BY DEF CheckoutInv, RequestsOK
<1>2. CASE FindProduct(r)
  <2>1. /\ req[r].pc = "product" /\ UNCHANGED <<orders, published>>
        /\ Goto(r, "findCart") \/ Finish(r, "refused") \/ Finish(r, "error")
    BY <1>2 DEF FindProduct, tables
  <2>2. QED  BY <2>1, GotoMoves, FinishMoves DEF Running, Ordering, WithAnOrder
<1>3. CASE CreateCart(r)
  <2> DEFINE q == [req[r] EXCEPT !.pc = "writeItem", !.cart = Len(carts) + 1]
  <2>1. /\ req[r].pc = "createCart" /\ req' = [req EXCEPT ![r] = q]
        /\ UNCHANGED <<orders, published>>
    BY <1>3 DEF CreateCart
  <2>2. IsRequest(q) /\ q.pc = "writeItem"  BY <1>1, FieldNames DEF IsRequest
  <2>3. req[r].pc \in Running /\ q.pc \in Running /\ q.pc \notin Ordering
    BY <2>1, <2>2 DEF Running, Ordering, WithAnOrder
  <2>4. QED  BY <2>1, <2>2, <2>3, LocalMoves
<1>4. CASE WriteItem(r) \/ DeleteItem(r)
  <2>1. /\ Goto(r, "readCart") /\ UNCHANGED <<orders, published>>
        /\ req[r].pc \in {"writeItem", "deleteItem"}
    BY <1>4 DEF WriteItem, DeleteItem
  <2>2. QED  BY <2>1, GotoMoves DEF Running, Ordering, WithAnOrder
<1>5. CASE ReadCart(r)
  <2> DEFINE t == Sum(ItemsOf(req[r].cart))
             q == [req[r] EXCEPT !.pc = "writeTotal", !.total = t]
  <2>1. /\ req[r].pc = "readCart" /\ req' = [req EXCEPT ![r] = q]
        /\ UNCHANGED <<orders, published>>
    BY <1>5 DEF ReadCart, tables
  <2>2. IsRequest(q) /\ q.pc = "writeTotal"  BY <1>1, FieldNames DEF IsRequest
  <2>3. req[r].pc \in Running /\ q.pc \in Running /\ q.pc \notin Ordering
    BY <2>1, <2>2 DEF Running, Ordering, WithAnOrder
  <2>4. QED  BY <2>1, <2>2, <2>3, LocalMoves
<1>6. CASE WriteTotal(r)
  <2>1. req[r].pc = "writeTotal" /\ Finish(r, "ok") /\ UNCHANGED <<orders, published>>
    BY <1>6 DEF WriteTotal
  <2>2. QED  BY <2>1, FinishMoves DEF Running
<1>7. CASE SaveOrder(r)
  <2> DEFINE q == [req[r] EXCEPT !.pc = "completeCart", !.order = Len(orders) + 1]
  <2>1. /\ req[r].pc = "saveOrder" /\ req' = [req EXCEPT ![r] = q] /\ published' = published
    BY <1>7 DEF SaveOrder
  <2>2. \A o \in DOMAIN orders : orders'[o] = orders[o]
    BY <1>7, Inserted DEF SaveOrder, CheckoutInv, RowsOK
  <2>3. IsRequest(q) /\ q.pc = "completeCart" /\ q.cart = req[r].cart
    BY <1>1, FieldNames DEF IsRequest
  <2>4. req[r].pc \in Running /\ q.pc \in Running /\ req[r].pc \in Ordering
    BY <2>1, <2>3 DEF Running, Ordering, WithAnOrder
  <2>5. QED  BY <2>1, <2>2, <2>3, <2>4, LocalMoves
<1>8. CASE CompleteCart(r)
  <2>1. /\ req[r].pc = "completeCart" /\ Goto(r, "publish") /\ UNCHANGED <<orders, published>>
    BY <1>8 DEF CompleteCart
  <2>2. QED  BY <2>1, GotoMoves DEF Running, Ordering, WithAnOrder
<1>9. CASE Publish(r)
  <2>1. /\ req[r].pc = "publish" /\ Finish(r, "ok") /\ UNCHANGED orders
        /\ Published(Message(r))
    BY <1>9, SentIsPublished DEF Publish, tables, Message, CheckoutInv, PublishedOK
  <2>2. /\ Alone(r) /\ req'[r].pc = "done" /\ req'[r].result = "ok"
        /\ req'[r].order = req[r].order
    BY <2>1, FinishStep
  <2>3. QED  BY <2>1, <2>2 DEF HandlerMoves, Running, Ordering, WithAnOrder
<1>10. CASE DatabaseError(r)
  <2>1. /\ req[r].pc \in Running /\ Finish(r, "error") /\ UNCHANGED <<orders, published>>
        /\ faults' = faults + 1
    BY <1>10 DEF DatabaseError, tables
  <2>2. QED  BY <2>1, FinishMoves
<1>11. QED
  BY <1>2, <1>3, <1>4, <1>5, <1>6, <1>7, <1>8, <1>9, <1>10, FindCartMoves DEF Handle

\* What a step of a handler does to the messages and the faults.
LEMMA HandlerCounts ==
  ASSUME NEW r \in Requests, Handle(r) \/ DatabaseError(r)
  PROVE  overlapped' = overlapped /\ (faults' = faults \/ faults' = faults + 1)
  BY DEF Handle, FindProduct, FindCart, CreateCart, WriteItem, DeleteItem, ReadCart, WriteTotal,
         SaveOrder, CompleteCart, Publish, DatabaseError, tables

-------------------------------------------------------------------------------
(* What was cut off was counted; and carts ordered by requests one at a time *)

CartOf(i) == orders[published[i].order].cart

Unpublished(r) == \A i \in DOMAIN published : CartOf(i) # req[r].cart

OneChargePerCart == \A i, j \in DOMAIN published : CartOf(i) = CartOf(j) => i = j

CutOffCounted ==
  /\ faults \in Nat
  /\ \A r \in Requests :
       req[r].order # 0 /\ req[r].pc = "done" /\ req[r].result # "ok" => faults > 0

OneAtATime ==
  ~ overlapped =>
    /\ \A r, s \in InFlight : r = s
    /\ \A r \in Requests : req[r].pc \in Ordering => Unpublished(r)
    /\ OneChargePerCart

HistoryInv == CutOffCounted /\ OneAtATime

\* A step of a handler keeps the history.
LEMMA HistoryHandler ==
  ASSUME CheckoutInv, HistoryInv, NEW r \in Requests, Handle(r) \/ DatabaseError(r)
  PROVE  HistoryInv'
<1>1. HandlerMoves(r)  BY HandlerStep
<1>2. overlapped' = overlapped /\ (faults' = faults \/ faults' = faults + 1)
  BY HandlerCounts
<1>3. /\ \A s \in Requests \ {r} : req'[s] = req[s]
      /\ r \in InFlight
      /\ \A o \in DOMAIN orders : orders'[o] = orders[o]
      /\ \A i \in DOMAIN published : published[i].order \in DOMAIN orders
  BY <1>1 DEF HandlerMoves, Alone, InFlight, CheckoutInv, PublishedOK
<1>4. CutOffCounted'
  BY <1>1, <1>2, <1>3 DEF HistoryInv, CutOffCounted, HandlerMoves
<1>5. ASSUME ~ overlapped, \A s, t \in InFlight : s = t,
             \A s \in Requests : req[s].pc \in Ordering => Unpublished(s),
             OneChargePerCart
      PROVE  /\ \A s, t \in InFlight' : s = t
             /\ \A s \in Requests : req'[s].pc \in Ordering => Unpublished(s)'
             /\ OneChargePerCart'
  <2>1. InFlight' \subseteq InFlight  BY <1>3 DEF InFlight
  <2>2. ASSUME NEW s \in Requests, req'[s].pc \in Ordering  PROVE Unpublished(s)'
    <3>1. s = r
      <4>1. CASE s # r
        <5>1. s \in InFlight
          BY <1>3, <2>2, <4>1 DEF InFlight, Ordering, WithAnOrder, Running
        <5>2. QED  BY <1>3, <1>5, <4>1, <5>1
      <4>2. QED  BY <4>1
    <3>2. published' = published
      BY <1>1, <2>2, <3>1 DEF HandlerMoves, Ordering, WithAnOrder
    <3>3. CASE req[r].pc \in Ordering /\ req'[r].cart = req[r].cart
      BY <1>3, <1>5, <3>1, <3>2, <3>3 DEF Unpublished, CartOf
    <3>4. CASE req'[r].cart \in ActiveCarts
      <4>1. carts[req'[r].cart].status # "completed"  BY <3>4 DEF ActiveCarts
      <4>2. \A i \in DOMAIN published : carts[CartOf(i)].status = "completed"
        BY DEF CheckoutInv, PublishedOK, MessageMatchesOrder, CartOf
      <4>3. QED  BY <1>3, <3>1, <3>2, <4>1, <4>2 DEF Unpublished, CartOf
    <3>5. QED  BY <1>1, <2>2, <3>1, <3>3, <3>4 DEF HandlerMoves
  <2>3. OneChargePerCart'
    <3>1. CASE published' = published
      BY <1>3, <1>5, <3>1 DEF OneChargePerCart, CartOf
    <3>2. CASE req[r].pc = "publish" /\ Published(Message(r))
      <4>1. /\ req[r].order \in DOMAIN orders /\ orders[req[r].order].cart = req[r].cart
            /\ Message(r).order = req[r].order
        BY <3>2 DEF CheckoutInv, OrdersHeld, WithAnOrder, Message
      <4>2. Unpublished(r)  BY <1>5, <3>2 DEF Ordering, WithAnOrder
      <4>3. \A i \in DOMAIN published' \ DOMAIN published : CartOf(i)' = req[r].cart
        BY <1>3, <3>2, <4>1 DEF Published, CartOf
      <4>4. \A i \in DOMAIN published : CartOf(i)' = CartOf(i) /\ CartOf(i)' # req[r].cart
        BY <1>3, <3>2, <4>2 DEF Published, Unpublished, CartOf
      <4>5. \A i, j \in DOMAIN published' \ DOMAIN published : i = j
        BY <3>2 DEF Published
      <4>6. QED  BY <1>5, <4>3, <4>4, <4>5 DEF OneChargePerCart
    <3>3. QED  BY <1>1, <3>1, <3>2 DEF HandlerMoves
  <2>4. QED  BY <1>5, <2>1, <2>2, <2>3
<1>6. OneAtATime'
  BY <1>2, <1>5 DEF HistoryInv, OneAtATime
<1>7. QED  BY <1>4, <1>6 DEF HistoryInv

\* A request that is made keeps the history.
LEMMA HistoryMade ==
  ASSUME CheckoutInv, HistoryInv, NEW r \in Requests, NEW a \in Asked, Made(r, a)
  PROVE  HistoryInv'
<1>1. IsRequest(a) /\ a.order = 0 /\ a.pc \in {"product", "findCart"}  BY AskedForms
<1>2. /\ req' = [req EXCEPT ![r] = a] /\ UNCHANGED <<orders, published, faults>>
      /\ overlapped' = (overlapped \/ InFlight # {})
  BY DEF Made, tables
<1>3. /\ req'[r] = a /\ \A s \in Requests \ {r} : req'[s] = req[s]
  BY <1>1, <1>2, MovesAlone DEF Alone
<1>4. CutOffCounted'  BY <1>1, <1>2, <1>3 DEF HistoryInv, CutOffCounted
<1>5. ASSUME ~ overlapped'
      PROVE  /\ \A s, t \in InFlight' : s = t
             /\ \A s \in Requests : req'[s].pc \in Ordering => Unpublished(s)'
             /\ OneChargePerCart'
  <2>1. ~ overlapped /\ InFlight = {}  BY <1>2, <1>5
  <2>2. InFlight' \subseteq {r}  BY <1>3, <2>1 DEF InFlight
  <2>3. \A s \in Requests : req'[s].pc \in Ordering => s # r /\ s \in InFlight
    BY <1>1, <1>3 DEF InFlight, Ordering, WithAnOrder, Running
  <2>4. OneChargePerCart'
    BY <1>2, <2>1 DEF HistoryInv, OneAtATime, OneChargePerCart, CartOf
  <2>5. QED  BY <2>1, <2>2, <2>3, <2>4
<1>6. QED  BY <1>4, <1>5 DEF HistoryInv, OneAtATime

\* A restart keeps the history.
LEMMA HistoryRestart ==
  ASSUME CheckoutInv, HistoryInv, Restart
  PROVE  HistoryInv'
<1>1. /\ UNCHANGED <<orders, published, overlapped>> /\ faults' = faults + 1
  BY DEF Restart, tables
<1>2. ASSUME NEW r \in Requests  PROVE req'[r].pc \notin Running
  <2>1. IsRequest(req[r])  BY DEF CheckoutInv, RequestsOK
  <2> DEFINE q == [req[r] EXCEPT !.pc = "done", !.result = "error"]
  <2>2. q.pc = "done"  BY <2>1, FieldNames DEF IsRequest
  <2>3. req'[r] = IF r \in InFlight THEN q ELSE req[r]  BY DEF Restart
  <2>4. QED  BY <2>2, <2>3 DEF InFlight, Running
<1>3. CutOffCounted'  BY <1>1 DEF HistoryInv, CutOffCounted
<1>4. Ordering \subseteq Running  BY DEF Ordering, WithAnOrder, Running
<1>5. OneAtATime'
  BY <1>1, <1>2, <1>4 DEF HistoryInv, OneAtATime, InFlight, OneChargePerCart, CartOf
<1>6. QED  BY <1>3, <1>5 DEF HistoryInv

\* The history's invariant holds at first.
LEMMA HistoryInvInit == Init => HistoryInv
<1> SUFFICES ASSUME Init PROVE HistoryInv  OBVIOUS
<1>1. \A r \in Requests : req[r].pc = "new" /\ req[r].order = 0
  BY DEF Init, NotMade
<1>2. QED
  BY <1>1
  DEF Init, HistoryInv, CutOffCounted, OneAtATime, InFlight, Running, Ordering, WithAnOrder,
      OneChargePerCart

\* Every step keeps the history's invariant.
LEMMA HistoryInvStep == CheckoutInv /\ HistoryInv /\ [Next]_vars => HistoryInv'
<1> SUFFICES ASSUME CheckoutInv, HistoryInv, [Next]_vars PROVE HistoryInv'  OBVIOUS
<1>1. ASSUME NEW r \in Requests, Arrive(r)  PROVE HistoryInv'
  BY <1>1, HistoryMade DEF Arrive
<1>2. ASSUME NEW r \in Requests, Handle(r) \/ DatabaseError(r)  PROVE HistoryInv'
  BY <1>2, HistoryHandler
<1>3. CASE Restart  BY <1>3, HistoryRestart
<1>4. CASE LoseChannel \/ UNCHANGED vars
  <2>1. UNCHANGED <<orders, published, req, overlapped, faults>>
    BY <1>4 DEF LoseChannel, vars, tables
  <2>2. QED
    BY <2>1
    DEF HistoryInv, CutOffCounted, OneAtATime, InFlight, Unpublished, OneChargePerCart, CartOf
<1>5. QED  BY <1>1, <1>2, <1>3, <1>4 DEF Next

\* A request that ended without its 201 and left an order behind was cut off by
\* a database error or a restart; and requests of the user that never overlap
\* do not ask twice for the payment of one cart.
THEOREM HistoryInvariant == Spec => []HistoryInv
<1>1. Init => HistoryInv  BY HistoryInvInit
<1>2. CheckoutInv /\ HistoryInv /\ [Next]_vars => HistoryInv'  BY HistoryInvStep
<1>3. QED  BY <1>1, <1>2, CheckoutInvariant, PTL DEF Spec

-------------------------------------------------------------------------------
(* The rows of cart_items, whatever overlaps *)

\* A request that is to add its quantity of its product.
Adding(r) == \/ req[r].pc \in {"product", "createCart", "writeItem"}
             \/ req[r].pc = "findCart" /\ req[r].op = "add"

LocalsOK ==
  \A r \in Requests :
    /\ Adding(r) => req[r].product \in Products /\ req[r].quantity \in Quantities
    /\ req[r].pc \in {"product", "findCart", "createCart"} => req[r].existing = None
    /\ req[r].pc = "writeItem" /\ req[r].existing # None =>
         /\ req[r].existing \in CartItem
         /\ req[r].existing.cart = req[r].cart /\ req[r].existing.product = req[r].product

IsRow(i) ==
  /\ i \in CartItem /\ i.id \in 1..lastItem /\ i.cart \in DOMAIN carts
  /\ i.quantity > 0 /\ i.price = Price[i.product] /\ i.subtotal = i.price * i.quantity

ItemsOK ==
  /\ IsFiniteSet(items)
  /\ \A i \in items : IsRow(i)
  /\ \A i, j \in items : i.id = j.id => i = j

ItemsInv == LocalsOK /\ ItemsOK

\* What the user asked for is kept in every step of a request.
Asks(r) ==
  /\ req'[r].op = req[r].op /\ req'[r].product = req[r].product
  /\ req'[r].quantity = req[r].quantity /\ req'[r].target = req[r].target

\* Goto changes nothing but the place.
LEMMA GotoKeeps ==
  ASSUME CheckoutInv, NEW r \in Requests, NEW p, Goto(r, p)
  PROVE  /\ Alone(r) /\ req'[r].pc = p /\ Asks(r)
         /\ req'[r].cart = req[r].cart /\ req'[r].existing = req[r].existing
         /\ req'[r].total = req[r].total /\ req'[r].order = req[r].order
<1> DEFINE q == [req[r] EXCEPT !.pc = p]
<1>1. IsRequest(req[r])  BY DEF CheckoutInv, RequestsOK
<1>2. /\ IsRequest(q) /\ q.pc = p /\ q.cart = req[r].cart /\ q.existing = req[r].existing
      /\ q.op = req[r].op /\ q.product = req[r].product /\ q.quantity = req[r].quantity
      /\ q.target = req[r].target /\ q.total = req[r].total /\ q.order = req[r].order
  BY <1>1, FieldNames DEF IsRequest
<1>3. req' = [req EXCEPT ![r] = q]  BY DEF Goto
<1>4. Alone(r) /\ req'[r] = q  BY <1>2, <1>3, MovesAlone
<1>5. QED  BY <1>2, <1>4 DEF Asks

\* What became of a request that looked for the active cart.
Found(r) ==
  \/ req'[r].pc = "done"
  \/ /\ ActiveCarts = {} /\ req[r].op = "add" /\ req'[r].pc = "createCart"
     /\ req'[r].existing = req[r].existing
  \/ \E c \in ActiveCarts :
       /\ req'[r].cart = c
       /\ \/ /\ req'[r].pc = "writeItem" /\ req[r].op = "add"
             /\ req'[r].existing \in Existing(c, req[r].product)
          \/ req'[r].pc = "readCart"
          \/ /\ req'[r].pc = "deleteItem" /\ \E i \in ItemsOf(c) : i.id = req[r].target
          \/ /\ req'[r].pc = "saveOrder" /\ ItemsOf(c) # {}
             /\ req'[r].total = carts[c].total

\* Finding the active cart says what to do next.
LEMMA FindCartFinds ==
  ASSUME CheckoutInv, NEW r \in Requests, FindCart(r)
  PROVE  Alone(r) /\ (req'[r].pc = "done" \/ Asks(r)) /\ Found(r)
<1>1. IsRequest(req[r])  BY DEF CheckoutInv, RequestsOK
<1>2. ASSUME NEW a, Finish(r, a)  PROVE Alone(r) /\ req'[r].pc = "done"
  BY <1>2, FinishStep
<1>3. CASE Goto(r, "createCart") /\ ActiveCarts = {} /\ req[r].op = "add"
  BY <1>3, GotoKeeps DEF Found
<1>4. ASSUME NEW q, req' = [req EXCEPT ![r] = q], IsRequest(q),
             q.op = req[r].op, q.product = req[r].product, q.quantity = req[r].quantity,
             q.target = req[r].target
      PROVE  Alone(r) /\ req'[r] = q /\ Asks(r)
  BY <1>4, MovesAlone DEF Asks
<1>5. ASSUME NEW c \in ActiveCarts, WithCart(r, c)
      PROVE  Alone(r) /\ (req'[r].pc = "done" \/ Asks(r)) /\ Found(r)
  <2>1. ASSUME NEW e \in Existing(c, req[r].product), req[r].op = "add",
               req' = [req EXCEPT ![r].pc = "writeItem", ![r].cart = c, ![r].existing = e]
        PROVE  Alone(r) /\ Asks(r) /\ Found(r)
    <3> DEFINE q == [req[r] EXCEPT !.pc = "writeItem", !.cart = c, !.existing = e]
    <3>1. /\ IsRequest(q) /\ q.cart = c /\ q.pc = "writeItem" /\ q.existing = e
          /\ q.op = req[r].op /\ q.product = req[r].product
          /\ q.quantity = req[r].quantity /\ q.target = req[r].target
      BY <1>1, FieldNames DEF IsRequest
    <3>2. req' = [req EXCEPT ![r] = q]  BY <2>1
    <3> HIDE DEF q
    <3>3. Alone(r) /\ req'[r] = q /\ Asks(r)  BY <1>4, <3>1, <3>2
    <3>4. req'[r].pc = "writeItem" /\ req'[r].cart = c /\ req'[r].existing = e
      BY <3>1, <3>3
    <3>5. QED  BY <2>1, <3>3, <3>4 DEF Found
  <2>2. ASSUME req' = [req EXCEPT ![r].pc = "readCart", ![r].cart = c]
        PROVE  Alone(r) /\ Asks(r) /\ Found(r)
    <3> DEFINE q == [req[r] EXCEPT !.pc = "readCart", !.cart = c]
    <3>1. /\ IsRequest(q) /\ q.cart = c /\ q.pc = "readCart"
          /\ q.op = req[r].op /\ q.product = req[r].product
          /\ q.quantity = req[r].quantity /\ q.target = req[r].target
      BY <1>1, FieldNames DEF IsRequest
    <3>2. req' = [req EXCEPT ![r] = q]  BY <2>2
    <3>3. QED  BY <1>4, <3>1, <3>2 DEF Found
  <2>3. ASSUME NEW i \in ItemsOf(c), i.id = req[r].target,
               req' = [req EXCEPT ![r].pc = "deleteItem", ![r].cart = c]
        PROVE  Alone(r) /\ Asks(r) /\ Found(r)
    <3> DEFINE q == [req[r] EXCEPT !.pc = "deleteItem", !.cart = c]
    <3>1. /\ IsRequest(q) /\ q.cart = c /\ q.pc = "deleteItem"
          /\ q.op = req[r].op /\ q.product = req[r].product
          /\ q.quantity = req[r].quantity /\ q.target = req[r].target
      BY <1>1, FieldNames DEF IsRequest
    <3>2. req' = [req EXCEPT ![r] = q]  BY <2>3
    <3> HIDE DEF q
    <3>3. Alone(r) /\ req'[r] = q /\ Asks(r)  BY <1>4, <3>1, <3>2
    <3>4. req'[r].pc = "deleteItem" /\ req'[r].cart = c
      BY <3>1, <3>3
    <3>5. QED  BY <2>3, <3>3, <3>4 DEF Found
  <2>4. ASSUME ItemsOf(c) # {},
               req' = [req EXCEPT ![r].pc = "saveOrder", ![r].cart = c,
                                  ![r].total = carts[c].total]
        PROVE  Alone(r) /\ Asks(r) /\ Found(r)
    <3> DEFINE q == [req[r] EXCEPT !.pc = "saveOrder", !.cart = c, !.total = carts[c].total]
    <3>1. /\ IsRequest(q) /\ q.cart = c /\ q.pc = "saveOrder" /\ q.total = carts[c].total
          /\ q.op = req[r].op /\ q.product = req[r].product
          /\ q.quantity = req[r].quantity /\ q.target = req[r].target
      BY <1>1, FieldNames DEF IsRequest
    <3>2. req' = [req EXCEPT ![r] = q]  BY <2>4
    <3> HIDE DEF q
    <3>3. Alone(r) /\ req'[r] = q /\ Asks(r)  BY <1>4, <3>1, <3>2
    <3>4. req'[r].pc = "saveOrder" /\ req'[r].cart = c /\ req'[r].total = carts[c].total
      BY <3>1, <3>3
    <3>5. QED  BY <2>4, <3>3, <3>4 DEF Found
  <2>5. CASE Finish(r, "refused")
    BY <1>2, <2>5 DEF Found
  <2>6. QED  BY <1>5, <2>1, <2>2, <2>3, <2>4, <2>5 DEF WithCart
<1>6. CASE WithoutCart(r) /\ ActiveCarts = {}
  BY <1>2, <1>3, <1>6, GotoKeeps DEF WithoutCart, Found
<1>7. QED  BY <1>5, <1>6 DEF FindCart

\* What a request that is made asks for.
LEMMA AskedAdds ==
  ASSUME NEW a \in Asked
  PROVE  /\ IsRequest(a) /\ a.existing = None
         /\ a.pc = "product" \/ (a.pc = "findCart" /\ a.op # "add")
         /\ a.pc = "product" => a.op = "add" /\ a.product \in Products
                                /\ a.quantity \in Quantities
<1> USE FieldNames DEF IsRequest, Fields, NotMade
<1>1. ASSUME NEW p \in Products, NEW q \in Quantities, a = AddOf(p, q)
      PROVE  /\ IsRequest(a) /\ a.existing = None /\ a.pc = "product" /\ a.op = "add"
             /\ a.product \in Products /\ a.quantity \in Quantities
  BY <1>1 DEF AddOf
<1>2. ASSUME NEW t, a = RemovalOf(t)
      PROVE  IsRequest(a) /\ a.existing = None /\ a.pc = "findCart" /\ a.op = "remove"
  BY <1>2 DEF RemovalOf
<1>3. ASSUME NEW op \in {"get", "checkout"}, a = Plain(op)
      PROVE  IsRequest(a) /\ a.existing = None /\ a.pc = "findCart" /\ a.op = op
  BY <1>3 DEF Plain
<1> QED  BY <1>1, <1>2, <1>3 DEF Asked

\* What LocalsOK says of one request.
Local(r) ==
  /\ Adding(r) => req[r].product \in Products /\ req[r].quantity \in Quantities
  /\ req[r].pc \in {"product", "findCart", "createCart"} => req[r].existing = None
  /\ req[r].pc = "writeItem" /\ req[r].existing # None =>
       /\ req[r].existing \in CartItem
       /\ req[r].existing.cart = req[r].cart /\ req[r].existing.product = req[r].product

\* The places where a request has nothing left to write of an item.
LEMMA LocalThere ==
  ASSUME NEW r \in Requests,
         req'[r].pc \notin {"product", "findCart", "createCart", "writeItem"}
  PROVE  Local(r)'
BY DEF Local, Adding

\* A step of r keeps the locals of the others.
LEMMA LocalsKept ==
  ASSUME LocalsOK, NEW r \in Requests, Alone(r), Local(r)'
  PROVE  LocalsOK'
<1>1. ASSUME NEW s \in Requests, s # r  PROVE Local(s)'
  BY <1>1 DEF LocalsOK, Local, Adding, Alone
<1>2. \A s \in Requests : Local(s)'
  BY <1>1
<1> QED  BY <1>2 DEF LocalsOK, Local, Adding

\* Steps that write no item keep the items there are.
LEMMA ItemsKept ==
  ASSUME ItemsOK, CartsKept, UNCHANGED <<items, lastItem>>
  PROVE  ItemsOK'
BY DEF ItemsOK, IsRow, CartsKept, CartItem

\* The product of naturals is one.
LEMMA Product == \A a, b \in Nat : a * b \in Nat
OBVIOUS

\* What a row is built of.
LEMMA RowFields ==
  ASSUME CheckoutAssumption, NEW i \in CartItem
  PROVE  /\ i.id \in Nat /\ i.cart \in Nat /\ i.product \in Products /\ i.price \in Nat
         /\ i.quantity \in Nat /\ i.subtotal \in Nat /\ i # None
         /\ i = [id |-> i.id, cart |-> i.cart, product |-> i.product, price |-> i.price,
                 quantity |-> i.quantity, subtotal |-> i.subtotal]
BY DEF CheckoutAssumption, CartItem

\* A new item is a row of its cart and its product.
LEMMA NewRow ==
  ASSUME CheckoutAssumption, CheckoutInv, NEW r \in Requests, req[r].pc = "writeItem", Local(r)
  PROVE  /\ NewItem(r) \in CartItem /\ NewItem(r).id = lastItem + 1
         /\ NewItem(r).cart = req[r].cart /\ NewItem(r).cart \in DOMAIN carts
         /\ NewItem(r).product = req[r].product
         /\ NewItem(r).quantity = req[r].quantity /\ NewItem(r).quantity > 0
         /\ NewItem(r).price = Price[NewItem(r).product]
         /\ NewItem(r).subtotal = NewItem(r).price * NewItem(r).quantity
<1>1. /\ req[r].product \in Products /\ req[r].quantity \in Nat \ {0}
      /\ Price[req[r].product] \in Nat
  BY DEF Local, Adding, CheckoutAssumption
<1>2. req[r].cart \in DOMAIN carts /\ DOMAIN carts \subseteq Nat /\ lastItem \in Nat
  <2>1. Len(carts) \in Nat /\ DOMAIN carts = 1..Len(carts)
    BY DEF CheckoutInv, RowsOK, IsSequence
  <2> QED  BY <2>1 DEF CheckoutInv, RowsOK, RequestsOK, WithACart
<1>3. Price[req[r].product] * req[r].quantity \in Nat
  BY <1>1, Product
<1> QED  BY <1>1, <1>2, <1>3 DEF NewItem, CartItem

\* An item of another quantity is a row, too.
LEMMA ChangedRow ==
  ASSUME CheckoutAssumption, NEW i \in CartItem, NEW n \in Nat
  PROVE  LET j == WithQuantity(i, n)
         IN  /\ j \in CartItem /\ j.id = i.id /\ j.cart = i.cart /\ j.product = i.product
             /\ j.price = i.price /\ j.quantity = n /\ j.subtotal = i.price * n
<1>1. /\ i = [id |-> i.id, cart |-> i.cart, product |-> i.product, price |-> i.price,
              quantity |-> i.quantity, subtotal |-> i.subtotal]
      /\ i.price \in Nat /\ i.price * n \in Nat
  BY RowFields, Product
<1>2. PICK s : s = i.price * n
  OBVIOUS
<1>3. WithQuantity(i, n) =
        [id |-> i.id, cart |-> i.cart, product |-> i.product, price |-> i.price,
         quantity |-> n, subtotal |-> s]
  <2>1. PICK a, b, c, d, e, f :
          i = [id |-> a, cart |-> b, product |-> c, price |-> d, quantity |-> e, subtotal |-> f]
    BY <1>1
  <2>2. WithQuantity(i, n) = [i EXCEPT !.quantity = n, !.subtotal = s]
    BY <1>2 DEF WithQuantity
  <2> QED  BY <2>1, <2>2
<1> QED  BY <1>1, <1>2, <1>3, RowFields DEF CartItem

\* What writing an item does to the table.
LEMMA WriteItemWrites ==
  ASSUME ItemsOK, NEW r \in Requests, WriteItem(r)
  PROVE  \/ /\ req[r].existing = None
            /\ items' = items \cup {NewItem(r)} /\ lastItem' = lastItem + 1
         \/ /\ req[r].existing # None /\ lastItem' = lastItem
            /\ \/ items' = items
               \/ \E j \in items :
                    /\ j.id = req[r].existing.id
                    /\ items' = (items \ {j}) \cup
                         {WithQuantity(j, req[r].existing.quantity + req[r].quantity)}
<1> DEFINE e == req[r].existing
           n == e.quantity + req[r].quantity
<1>1. CASE e = None
  BY <1>1 DEF WriteItem
<1>2. CASE e # None
  <2>1. /\ items' = {IF i.id = e.id THEN WithQuantity(i, n) ELSE i : i \in items}
        /\ lastItem' = lastItem
    BY <1>2 DEF WriteItem
  <2> HIDE DEF n
  <2>2. CASE \A i \in items : i.id # e.id
    BY <1>2, <2>1, <2>2
  <2>3. ASSUME NEW j \in items, j.id = e.id
        PROVE  items' = (items \ {j}) \cup {WithQuantity(j, n)}
    <3>1. \A i \in items : i.id = e.id => i = j
      BY <2>3 DEF ItemsOK
    <3> QED  BY <2>1, <2>3, <3>1
  <2> QED  BY <1>2, <2>1, <2>2, <2>3 DEF n
<1> QED  BY <1>1, <1>2

\* Writing an item keeps the rows.
LEMMA WriteItemRows ==
  ASSUME CheckoutInv, ItemsInv, NEW r \in Requests, WriteItem(r)
  PROVE  ItemsOK'
<1>1. /\ req[r].pc = "writeItem" /\ Local(r) /\ lastItem \in Nat /\ UNCHANGED carts
      /\ ItemsOK
  BY DEF WriteItem, ItemsInv, LocalsOK, Local, CheckoutInv, RowsOK
<1>2. /\ req[r].quantity \in Nat \ {0}
      /\ req[r].existing # None => req[r].existing \in CartItem
  BY <1>1, CheckoutAssumption DEF Local, Adding
<1>3. ASSUME NEW i \in items, lastItem' \in {lastItem, lastItem + 1}
      PROVE  i \in CartItem /\ IsRow(i) /\ IsRow(i)' /\ i.id <= lastItem
  BY <1>1, <1>3 DEF ItemsOK, IsRow, CartItem
<1>4. CASE items' = items /\ lastItem' = lastItem
  BY <1>1, <1>3, <1>4 DEF ItemsOK
<1>5. CASE items' = items \cup {NewItem(r)} /\ lastItem' = lastItem + 1
  <2>1. PICK n : n = NewItem(r)
    OBVIOUS
  <2>2. IsFiniteSet(items')
    BY <1>1, <1>5, FS_AddElement DEF ItemsOK
  <2>3. IsRow(n)' /\ n.id = lastItem + 1
    BY <1>1, <1>5, <2>1, NewRow, CheckoutAssumption DEF IsRow
  <2>4. \A i \in items : i.id # n.id
    BY <1>1, <1>3, <1>5, <2>3 DEF CartItem
  <2> QED  BY <1>1, <1>3, <1>5, <2>1, <2>2, <2>3, <2>4 DEF ItemsOK
<1>6. ASSUME req[r].existing # None, lastItem' = lastItem, NEW j \in items,
             items' = (items \ {j}) \cup
                        {WithQuantity(j, req[r].existing.quantity + req[r].quantity)}
      PROVE  ItemsOK'
  <2>1. PICK m : m = req[r].existing.quantity + req[r].quantity
    OBVIOUS
  <2>2. m \in Nat \ {0}
    BY <1>2, <1>6, <2>1, CheckoutAssumption, RowFields
  <2>3. PICK n : n = WithQuantity(j, m)
    OBVIOUS
  <2>4. j \in CartItem /\ IsRow(j)
    BY <1>3, <1>6
  <2>5. IsRow(n)' /\ n.id = j.id
    <3>1. /\ n \in CartItem /\ n.id = j.id /\ n.cart = j.cart /\ n.product = j.product
          /\ n.price = j.price /\ n.quantity = m /\ n.subtotal = j.price * m
      BY <2>2, <2>3, <2>4, ChangedRow, CheckoutAssumption
    <3>2. n.quantity > 0
      BY <2>2, <3>1
    <3>3. j.id \in 1..lastItem /\ j.cart \in DOMAIN carts /\ j.price = Price[j.product]
      BY <2>4 DEF IsRow
    <3> QED  BY <1>1, <1>6, <3>1, <3>2, <3>3 DEF IsRow
  <2>6. items' = (items \ {j}) \cup {n}
    BY <1>6, <2>1, <2>3
  <2>7. IsFiniteSet(items')
    BY <1>1, <2>6, FS_AddElement, FS_RemoveElement DEF ItemsOK
  <2> QED  BY <1>1, <1>3, <1>6, <2>5, <2>6, <2>7 DEF ItemsOK
<1> QED  BY <1>1, <1>4, <1>5, <1>6, WriteItemWrites

\* Deleting an item keeps the others.
LEMMA DeleteItemRows ==
  ASSUME ItemsInv, NEW r \in Requests, DeleteItem(r)
  PROVE  ItemsOK'
<1>1. /\ items' \subseteq items /\ UNCHANGED <<carts, lastItem>> /\ ItemsOK
  BY DEF DeleteItem, ItemsInv
<1>2. IsFiniteSet(items')
  BY <1>1, FS_Subset DEF ItemsOK
<1> QED  BY <1>1, <1>2 DEF ItemsOK, IsRow

\* What an item may be when the request that looked for it goes on.
LEMMA FoundIsLocal ==
  ASSUME CheckoutAssumption, ItemsInv, NEW r \in Requests, req[r].pc = "findCart",
         req'[r].pc = "done" \/ Asks(r), Found(r)
  PROVE  Local(r)'
<1>1. Local(r) /\ ItemsOK
  BY DEF ItemsInv, LocalsOK, Local
<1>2. CASE req'[r].pc = "createCart" /\ req[r].op = "add" /\ req'[r].existing = req[r].existing
           /\ Asks(r)
  BY <1>1, <1>2 DEF Local, Adding, Asks
<1>3. ASSUME NEW c \in ActiveCarts, req'[r].cart = c, req'[r].pc = "writeItem", Asks(r),
             req[r].op = "add", req'[r].existing \in Existing(c, req[r].product)
      PROVE  Local(r)'
  <2>1. req[r].product \in Products /\ req[r].quantity \in Quantities
    BY <1>1, <1>3 DEF Local, Adding
  <2>2. \/ req'[r].existing = None
        \/ req'[r].existing \in items /\ req'[r].existing.cart = c
           /\ req'[r].existing.product = req[r].product
    BY <1>3 DEF Existing, ItemsOfProduct, ItemsOf
  <2>3. req'[r].existing \in items => req'[r].existing \in CartItem
    BY <1>1 DEF ItemsOK, IsRow
  <2> QED  BY <1>3, <2>1, <2>2, <2>3 DEF Local, Adding, Asks
<1>4. CASE req'[r].pc \in {"done", "readCart", "deleteItem", "saveOrder"}
  BY <1>4, LocalThere
<1> QED  BY <1>2, <1>3, <1>4 DEF Found

\* Every step keeps the rows of the items and the locals that refer to them.
LEMMA ItemsInvStep == CheckoutInv /\ ItemsInv /\ [Next]_vars => ItemsInv'
<1> SUFFICES ASSUME CheckoutInv, ItemsInv, [Next]_vars PROVE ItemsInv'
  OBVIOUS
<1>1. CartsKept /\ LocalsOK /\ ItemsOK
  BY CartsStay DEF ItemsInv
<1>2. ASSUME NEW r \in Requests, Alone(r), Local(r)', UNCHANGED <<items, lastItem>>
      PROVE  ItemsInv'
  BY <1>1, <1>2, LocalsKept, ItemsKept DEF ItemsInv
<1>3. ASSUME NEW r \in Requests, Alone(r), UNCHANGED <<items, lastItem>>,
             req'[r].pc \notin {"product", "findCart", "createCart", "writeItem"}
      PROVE  ItemsInv'
  BY <1>2, <1>3, LocalThere
<1>4. ASSUME NEW r \in Requests, NEW a \in Asked, Made(r, a)  PROVE ItemsInv'
  <2>1. /\ IsRequest(a) /\ a.existing = None
        /\ a.pc = "product" \/ (a.pc = "findCart" /\ a.op # "add")
        /\ a.pc = "product" => a.product \in Products /\ a.quantity \in Quantities
    BY AskedAdds
  <2>2. Alone(r) /\ req'[r] = a
    BY <1>4, <2>1, MovesAlone DEF Made
  <2>3. Local(r)'
    BY <2>1, <2>2 DEF Local, Adding
  <2> QED  BY <1>2, <1>4, <2>2, <2>3 DEF Made, tables
<1>5. ASSUME NEW r \in Requests, FindProduct(r)  PROVE ItemsInv'
  <2>1. CASE Goto(r, "findCart")
    <3>1. /\ Alone(r) /\ req'[r].pc = "findCart" /\ Asks(r)
          /\ req'[r].existing = req[r].existing
      BY <2>1, GotoKeeps
    <3>2. req[r].pc = "product" /\ UNCHANGED <<items, lastItem>>
      BY <1>5 DEF FindProduct, tables
    <3>3. Local(r)'
      BY <1>1, <3>1, <3>2 DEF LocalsOK, Local, Adding, Asks
    <3> QED  BY <1>2, <3>1, <3>2, <3>3
  <2>2. ASSUME NEW a, Finish(r, a)  PROVE ItemsInv'
    BY <1>3, <1>5, <2>2, FinishStep DEF FindProduct, tables
  <2> QED  BY <1>5, <2>1, <2>2 DEF FindProduct
<1>6. ASSUME NEW r \in Requests, FindCart(r)  PROVE ItemsInv'
  <2>1. Alone(r) /\ (req'[r].pc = "done" \/ Asks(r)) /\ Found(r)
    BY <1>6, FindCartFinds
  <2>2. req[r].pc = "findCart" /\ UNCHANGED <<items, lastItem>>
    BY <1>6 DEF FindCart, tables
  <2>3. Local(r)'
    BY <2>1, <2>2, FoundIsLocal, CheckoutAssumption
  <2> QED  BY <1>2, <2>1, <2>2, <2>3
<1>7. ASSUME NEW r \in Requests, CreateCart(r)  PROVE ItemsInv'
  <2> DEFINE q == [req[r] EXCEPT !.pc = "writeItem", !.cart = Len(carts) + 1]
  <2>1. IsRequest(req[r])
    BY DEF CheckoutInv, RequestsOK
  <2>2. /\ IsRequest(q) /\ q.pc = "writeItem" /\ q.product = req[r].product
        /\ q.quantity = req[r].quantity /\ q.existing = req[r].existing
    BY <2>1, FieldNames DEF IsRequest
  <2>3. req' = [req EXCEPT ![r] = q] /\ req[r].pc = "createCart" /\ UNCHANGED <<items, lastItem>>
    BY <1>7 DEF CreateCart
  <2> HIDE DEF q
  <2>4. Alone(r) /\ req'[r] = q
    BY <2>2, <2>3, MovesAlone
  <2>5. Local(r)'
    BY <1>1, <2>2, <2>3, <2>4 DEF LocalsOK, Local, Adding
  <2> QED  BY <1>2, <2>3, <2>4, <2>5
<1>8. ASSUME NEW r \in Requests, WriteItem(r) \/ DeleteItem(r)  PROVE ItemsInv'
  <2>1. Alone(r) /\ req'[r].pc = "readCart"
    BY <1>8, GotoStep DEF WriteItem, DeleteItem
  <2>2. LocalsOK'
    BY <1>1, <2>1, LocalsKept, LocalThere
  <2> QED  BY <1>8, <2>2, WriteItemRows, DeleteItemRows DEF ItemsInv
<1>9. ASSUME NEW r \in Requests, ReadCart(r) \/ SaveOrder(r)  PROVE ItemsInv'
  <2>1. IsRequest(req[r]) /\ UNCHANGED <<items, lastItem>>
    BY <1>9 DEF CheckoutInv, RequestsOK, ReadCart, SaveOrder, tables
  <2>2. CASE ReadCart(r)
    <3> DEFINE q == [req[r] EXCEPT !.pc = "writeTotal", !.total = Sum(ItemsOf(req[r].cart))]
    <3>1. IsRequest(q) /\ q.pc = "writeTotal"
      BY <2>1, FieldNames DEF IsRequest
    <3>2. req' = [req EXCEPT ![r] = q]
      BY <2>2 DEF ReadCart
    <3> HIDE DEF q
    <3> QED  BY <1>3, <2>1, <3>1, <3>2, MovesAlone
  <2>3. CASE SaveOrder(r)
    <3> DEFINE q == [req[r] EXCEPT !.pc = "completeCart", !.order = Len(orders) + 1]
    <3>1. IsRequest(q) /\ q.pc = "completeCart"
      BY <2>1, FieldNames DEF IsRequest
    <3>2. req' = [req EXCEPT ![r] = q]
      BY <2>3 DEF SaveOrder
    <3> HIDE DEF q
    <3> QED  BY <1>3, <2>1, <3>1, <3>2, MovesAlone
  <2> QED  BY <1>9, <2>2, <2>3
<1>10. ASSUME NEW r \in Requests, WriteTotal(r) \/ Publish(r) \/ DatabaseError(r)
       PROVE  ItemsInv'
  <2>1. UNCHANGED <<items, lastItem>> /\ \E a : Finish(r, a)
    BY <1>10 DEF WriteTotal, Publish, DatabaseError, tables
  <2> QED  BY <1>3, <2>1, FinishStep
<1>11. ASSUME NEW r \in Requests, CompleteCart(r)  PROVE ItemsInv'
  BY <1>3, <1>11, GotoStep DEF CompleteCart
<1>12. CASE Restart
  <2>1. UNCHANGED <<items, lastItem>>
    BY <1>12 DEF Restart, tables
  <2>2. ASSUME NEW r \in Requests  PROVE Local(r)'
    <3> DEFINE q == [req[r] EXCEPT !.pc = "done", !.result = "error"]
    <3>1. IsRequest(req[r])
      BY DEF CheckoutInv, RequestsOK
    <3>2. q.pc = "done"
      BY <3>1, FieldNames DEF IsRequest
    <3>3. req'[r] = IF r \in InFlight THEN q ELSE req[r]
      BY <1>12 DEF Restart
    <3> HIDE DEF q
    <3>4. CASE r \in InFlight
      BY <3>2, <3>3, <3>4, LocalThere
    <3>5. CASE req'[r] = req[r]
      BY <1>1, <3>5 DEF LocalsOK, Local, Adding
    <3> QED  BY <3>3, <3>4, <3>5
  <2>3. LocalsOK'
    BY <2>2 DEF LocalsOK, Local, Adding
  <2> QED  BY <1>1, <2>1, <2>3, ItemsKept DEF ItemsInv
<1>13. CASE LoseChannel \/ UNCHANGED vars
  <2>1. UNCHANGED <<carts, items, lastItem, req>>
    BY <1>13 DEF LoseChannel, vars, tables
  <2> QED  BY <1>1, <2>1 DEF ItemsInv, LocalsOK, Adding, ItemsOK, IsRow
<1> QED
  BY <1>4, <1>5, <1>6, <1>7, <1>8, <1>9, <1>10, <1>11, <1>12, <1>13 DEF Next, Arrive, Handle

\* The rows and the locals at first.
LEMMA ItemsInvInit == Init => ItemsInv
<1> SUFFICES ASSUME Init PROVE ItemsInv
  OBVIOUS
<1>1. NotMade.pc = "new"
  BY DEF NotMade
<1>2. LocalsOK
  BY <1>1 DEF Init, LocalsOK, Adding
<1>3. ItemsOK
  BY FS_EmptySet DEF Init, ItemsOK
<1> QED  BY <1>2, <1>3 DEF ItemsInv

\* The sums of the specification, as sums of functions: the subtotals ...
LEMMA SubtotalsAddUp ==
  ASSUME NEW S
  PROVE  Sum(S) = SumOf([i \in S |-> i.subtotal], S)
<1> DEFINE f == [i \in S |-> i.subtotal]
           R(it) == it = [s \in SUBSET S |->
                            IF s = {} THEN 0 ELSE AnyOf(s).subtotal + it[s \ {AnyOf(s)}]]
<1>1. Sum(S) = (CHOOSE it : R(it))[S]
  BY Zenon DEF Sum, MapThenSumSet, MapThenFoldSet, AnyOf
<1>2. ASSUME NEW it  PROVE R(it) <=> SumsUp(it, f, S)
  <2>1. ASSUME NEW s \in SUBSET S, s # {}  PROVE f[AnyOf(s)] = AnyOf(s).subtotal
    BY <2>1, AnyIsIn
  <2> HIDE DEF f
  <2> QED  BY <2>1 DEF SumsUp
<1>3. (CHOOSE it : R(it)) = (CHOOSE it : SumsUp(it, f, S))
  <2> HIDE DEF R, f
  <2> QED  BY <1>2, Zenon
<1> HIDE DEF R, f
<1>4. Sum(S) = SumOf(f, S)
  BY <1>1, <1>3, SumIs, Zenon
<1> QED  BY <1>4 DEF f

\* ... what the items cost ...
LEMMA CostsAddUp ==
  ASSUME NEW c
  PROVE  Cost(c) = SumOf([i \in ItemsOf(c) |-> i.price * i.quantity], ItemsOf(c))
<1> DEFINE S == ItemsOf(c)
           f == [i \in S |-> i.price * i.quantity]
           R(it) == it = [s \in SUBSET S |->
                            IF s = {} THEN 0
                            ELSE AnyOf(s).price * AnyOf(s).quantity + it[s \ {AnyOf(s)}]]
<1>1. Cost(c) = (CHOOSE it : R(it))[S]
  BY Zenon DEF Cost, MapThenSumSet, MapThenFoldSet, AnyOf
<1> HIDE DEF S
<1>2. ASSUME NEW it  PROVE R(it) <=> SumsUp(it, f, S)
  <2>1. ASSUME NEW s \in SUBSET S, s # {}
        PROVE  f[AnyOf(s)] = AnyOf(s).price * AnyOf(s).quantity
    BY <2>1, AnyIsIn
  <2> HIDE DEF f
  <2> QED  BY <2>1 DEF SumsUp
<1>3. (CHOOSE it : R(it)) = (CHOOSE it : SumsUp(it, f, S))
  <2> HIDE DEF R, f
  <2> QED  BY <1>2, Zenon
<1> HIDE DEF R, f
<1>4. Cost(c) = SumOf(f, S)
  BY <1>1, <1>3, SumIs, Zenon
<1> QED  BY <1>4 DEF f, S

\* ... their quantities, as the pieces that rows hold ...
Pieces(rows) == MapThenSumSet(LAMBDA i : i.quantity, rows)

\* They add up over the rows.
LEMMA PiecesAddUp ==
  ASSUME NEW S
  PROVE  Pieces(S) = SumOf([i \in S |-> i.quantity], S)
<1> DEFINE f == [i \in S |-> i.quantity]
           R(it) == it = [s \in SUBSET S |->
                            IF s = {} THEN 0 ELSE AnyOf(s).quantity + it[s \ {AnyOf(s)}]]
<1>1. Pieces(S) = (CHOOSE it : R(it))[S]
  BY Zenon DEF Pieces, MapThenSumSet, MapThenFoldSet, AnyOf
<1>2. ASSUME NEW it  PROVE R(it) <=> SumsUp(it, f, S)
  <2>1. ASSUME NEW s \in SUBSET S, s # {}  PROVE f[AnyOf(s)] = AnyOf(s).quantity
    BY <2>1, AnyIsIn
  <2> HIDE DEF f
  <2> QED  BY <2>1 DEF SumsUp
<1>3. (CHOOSE it : R(it)) = (CHOOSE it : SumsUp(it, f, S))
  <2> HIDE DEF R, f
  <2> QED  BY <1>2, Zenon
<1> HIDE DEF R, f
<1>4. Pieces(S) = SumOf(f, S)
  BY <1>1, <1>3, SumIs, Zenon
<1> QED  BY <1>4 DEF f

\* ... and the prices of what is in an abstract cart.
PriceOf(cart) == MapThenSumSet(LAMBDA p : Price[p] * cart[p], Products)

\* They add up over the products.
LEMMA PricesAddUp ==
  ASSUME NEW cart
  PROVE  PriceOf(cart) = SumOf([p \in Products |-> Price[p] * cart[p]], Products)
<1> DEFINE S == Products
           f == [p \in S |-> Price[p] * cart[p]]
           R(it) == it = [s \in SUBSET S |->
                            IF s = {} THEN 0
                            ELSE Price[AnyOf(s)] * cart[AnyOf(s)] + it[s \ {AnyOf(s)}]]
<1>1. PriceOf(cart) = (CHOOSE it : R(it))[S]
  BY Zenon DEF PriceOf, MapThenSumSet, MapThenFoldSet, AnyOf
<1> HIDE DEF S
<1>2. ASSUME NEW it  PROVE R(it) <=> SumsUp(it, f, S)
  <2>1. ASSUME NEW s \in SUBSET S, s # {}
        PROVE  f[AnyOf(s)] = Price[AnyOf(s)] * cart[AnyOf(s)]
    BY <2>1, AnyIsIn
  <2> HIDE DEF f
  <2> QED  BY <2>1 DEF SumsUp
<1>3. (CHOOSE it : R(it)) = (CHOOSE it : SumsUp(it, f, S))
  <2> HIDE DEF R, f
  <2> QED  BY <1>2, Zenon
<1> HIDE DEF R, f
<1>4. PriceOf(cart) = SumOf(f, S)
  BY <1>1, <1>3, SumIs, Zenon
<1> QED  BY <1>4 DEF f, S

\* A cart without items has nothing to add up.
LEMMA NothingCosts == Sum({}) = 0
BY SubtotalsAddUp, SumEmpty

\* The subtotals of a cart are what its items cost.
LEMMA SumIsCost ==
  ASSUME ItemsOK, NEW c
  PROVE  Sum(ItemsOf(c)) = Cost(c)
<1> DEFINE S == ItemsOf(c)
           f == [i \in S |-> i.subtotal]
           g == [i \in S |-> i.price * i.quantity]
<1>1. \A i \in S : f[i] = g[i]
  BY DEF ItemsOK, IsRow, ItemsOf
<1>2. Sum(S) = SumOf(f, S) /\ Cost(c) = SumOf(g, S)
  BY SubtotalsAddUp, CostsAddUp
<1> HIDE DEF S, f, g
<1>3. SumOf(f, S) = SumOf(g, S)
  BY <1>1, SumSame
<1> QED  BY <1>2, <1>3 DEF S

-------------------------------------------------------------------------------
(* Requests one at a time, none of which was cut off *)

\* The places where a request is about to change the cart that is the user's.
Changing == {"writeItem", "deleteItem", "saveOrder"}

\* What a request may rely on if no other runs: what it read is still so.
AtWork(r) ==
  /\ req[r].pc = "createCart" => ActiveCarts = {}
  /\ req[r].pc \in Changing => req[r].cart \in ActiveCarts \ Ordered
  /\ req[r].pc = "completeCart" => req[r].cart \in ActiveCarts \cap Ordered
  /\ req[r].pc = "writeItem" =>
       ItemsOfProduct(req[r].cart, req[r].product) = {req[r].existing} \ {None}
  /\ req[r].pc = "deleteItem" => \E i \in ItemsOf(req[r].cart) : i.id = req[r].target
  /\ req[r].pc = "saveOrder" =>
       ItemsOf(req[r].cart) # {} /\ req[r].total = carts[req[r].cart].total
  /\ req[r].pc = "writeTotal" => req[r].total = Sum(ItemsOf(req[r].cart))

OneItemEach == \A i, j \in items : i.cart = j.cart /\ i.product = j.product => i = j
OneCart     == \A c, d \in ActiveCarts : c = d

\* A cart that was ordered and is still active is about to be completed.
Completing ==
  \A c \in ActiveCarts \cap Ordered :
    \E r \in Requests : req[r].pc = "completeCart" /\ req[r].cart = c

\* A total is that of the items, or about to be written.
Totalling(r, c) == req[r].pc \in {"readCart", "writeTotal"} /\ req[r].cart = c
TotalsOK ==
  \A c \in DOMAIN carts :
    carts[c].total = Sum(ItemsOf(c)) \/ \E r \in Requests : Totalling(r, c)

SerialOK ==
  /\ \A r \in Requests : AtWork(r)
  /\ OneItemEach /\ OneCart /\ Completing /\ TotalsOK

SerialInv == Orderly => SerialOK

\* No request but r runs.
OthersIdle(r) == \A s \in Requests \ {r} : req[s].pc \notin Running

\* A request that does not run relies on nothing.
LEMMA IdleReliesOnNothing ==
  ASSUME NEW r \in Requests, req'[r].pc \notin Running
  PROVE  AtWork(r)'
BY DEF AtWork, Running, Changing

\* A step of r leaves the others as idle as they were.
LEMMA OthersRely ==
  ASSUME NEW r \in Requests, Alone(r), OthersIdle(r), AtWork(r)'
  PROVE  \A s \in Requests : AtWork(s)'
<1>1. ASSUME NEW s \in Requests, s # r  PROVE AtWork(s)'
  BY <1>1, IdleReliesOnNothing DEF OthersIdle, Alone
<1> QED  BY <1>1

\* While r is at work elsewhere, every total is right.
LEMMA TotalsRight ==
  ASSUME TotalsOK, NEW r \in Requests, OthersIdle(r), NEW c \in DOMAIN carts,
         ~ Totalling(r, c)
  PROVE  carts[c].total = Sum(ItemsOf(c))
BY DEF TotalsOK, OthersIdle, Totalling, Running

\* While r does not complete it, no active cart is ordered.
LEMMA ActiveIsUnordered ==
  ASSUME Completing, NEW r \in Requests, OthersIdle(r), req[r].pc # "completeCart"
  PROVE  ActiveCarts \cap Ordered = {}
BY DEF Completing, OthersIdle, Running

\* A step that writes no table.
LEMMA ReadingStep ==
  ASSUME SerialOK, NEW r \in Requests, Alone(r), OthersIdle(r), AtWork(r)',
         UNCHANGED <<carts, items, orders>>,
         req[r].pc \notin {"completeCart", "writeTotal"},
         req[r].pc = "readCart" => req'[r].pc = "writeTotal" /\ req'[r].cart = req[r].cart
  PROVE  SerialOK'
<1>1. \A s \in Requests : AtWork(s)'
  BY OthersRely
<1>2. OneItemEach' /\ OneCart'
  BY DEF SerialOK, OneItemEach, OneCart, ActiveCarts
<1>3. Completing'
  <2>1. ActiveCarts \cap Ordered = {}
    BY ActiveIsUnordered DEF SerialOK
  <2> QED  BY <2>1 DEF Completing, ActiveCarts, Ordered
<1>4. TotalsOK'
  <2>1. ASSUME NEW c \in DOMAIN carts, Totalling(r, c)  PROVE Totalling(r, c)'
    BY <2>1 DEF Totalling
  <2>2. ASSUME NEW c \in DOMAIN carts, ~ Totalling(r, c)
        PROVE  (carts[c].total = Sum(ItemsOf(c)))'
    <3>1. carts[c].total = Sum(ItemsOf(c))
      BY <2>2, TotalsRight DEF SerialOK
    <3> QED  BY <3>1 DEF ItemsOf
  <2> QED  BY <2>1, <2>2 DEF TotalsOK
<1> QED  BY <1>1, <1>2, <1>3, <1>4 DEF SerialOK

\* Finding the cart reads what the request may then rely on.
LEMMA FindCartSerial ==
  ASSUME CheckoutAssumption, CheckoutInv, ItemsInv, SerialOK, NEW r \in Requests,
         OthersIdle(r), FindCart(r)
  PROVE  SerialOK'
<1>1. /\ Alone(r) /\ (req'[r].pc = "done" \/ Asks(r)) /\ Found(r)
      /\ req[r].pc = "findCart" /\ UNCHANGED <<carts, items, orders>>
  BY FindCartFinds DEF FindCart, tables
<1>2. ActiveCarts \cap Ordered = {}
  BY <1>1, ActiveIsUnordered DEF SerialOK
<1>3. AtWork(r)'
  <2>1. CASE req'[r].pc \in {"done", "readCart"}
    BY <2>1 DEF AtWork, Changing
  <2>2. CASE ActiveCarts = {} /\ req'[r].pc = "createCart"
    <3>1. ActiveCarts' = {}
      BY <1>1, <2>2 DEF ActiveCarts
    <3> QED  BY <2>2, <3>1 DEF AtWork, Changing
  <2>3. ASSUME NEW c \in ActiveCarts, req'[r].cart = c, req'[r].pc \in Changing
        PROVE  (req[r].cart \in ActiveCarts \ Ordered)'
    BY <1>1, <1>2, <2>3 DEF ActiveCarts, Ordered
  <2>4. ASSUME NEW c \in ActiveCarts, req'[r].cart = c, req'[r].pc = "writeItem", Asks(r),
               req'[r].existing \in Existing(c, req[r].product)
        PROVE  AtWork(r)'
    <3>1. (req[r].cart \in ActiveCarts \ Ordered)'
      BY <2>3, <2>4 DEF Changing
    <3>2. PICK p, S : p = req[r].product /\ S = ItemsOfProduct(c, p)
      OBVIOUS
    <3>3. \A i, j \in S : i = j /\ i # None
      <4>1. ASSUME NEW i \in S  PROVE i \in items /\ i # None /\ i.cart = c /\ i.product = p
        <5>1. i \in items /\ i.cart = c /\ i.product = p
          BY <3>2 DEF ItemsOfProduct, ItemsOf
        <5>2. i \in CartItem
          BY <5>1 DEF ItemsInv, ItemsOK, IsRow
        <5> QED  BY <5>1, <5>2, RowFields
      <4> QED  BY <4>1 DEF SerialOK, OneItemEach
    <3>4. S = {req'[r].existing} \ {None}
      BY <2>4, <3>2, <3>3 DEF Existing
    <3>5. ItemsOfProduct(c, p)' = S
      BY <1>1, <3>2 DEF ItemsOfProduct, ItemsOf
    <3>6. (ItemsOfProduct(req[r].cart, req[r].product) = {req[r].existing} \ {None})'
      BY <2>4, <3>2, <3>4, <3>5 DEF Asks, ItemsOfProduct, ItemsOf
    <3> QED  BY <2>4, <3>1, <3>6 DEF AtWork
  <2>5. ASSUME NEW c \in ActiveCarts, req'[r].cart = c, req'[r].pc = "deleteItem", Asks(r),
               NEW i \in ItemsOf(c), i.id = req[r].target
        PROVE  AtWork(r)'
    <3>1. (req[r].cart \in ActiveCarts \ Ordered)'
      BY <2>3, <2>5 DEF Changing
    <3>2. i \in ItemsOf(req[r].cart)'
      BY <1>1, <2>5 DEF ItemsOf
    <3>3. i.id = req'[r].target
      BY <2>5 DEF Asks
    <3> QED  BY <2>5, <3>1, <3>2, <3>3 DEF AtWork
  <2>6. ASSUME NEW c \in ActiveCarts, req'[r].cart = c, req'[r].pc = "saveOrder",
               ItemsOf(c) # {}, req'[r].total = carts[c].total
        PROVE  AtWork(r)'
    <3>1. (req[r].cart \in ActiveCarts \ Ordered)'
      BY <2>3, <2>6 DEF Changing
    <3>2. (ItemsOf(req[r].cart) # {} /\ req[r].total = carts[req[r].cart].total)'
      BY <1>1, <2>6 DEF ItemsOf
    <3> QED  BY <2>6, <3>1, <3>2 DEF AtWork
  <2> QED  BY <1>1, <2>1, <2>2, <2>4, <2>5, <2>6 DEF Found
<1> QED  BY <1>1, <1>3, ReadingStep

\* The steps that read a product or the items, publish, or begin.
LEMMA ReadCartSerial ==
  ASSUME CheckoutInv, SerialOK, NEW r \in Requests, OthersIdle(r), ReadCart(r)
  PROVE  SerialOK'
<1> DEFINE t == Sum(ItemsOf(req[r].cart))
           q == [req[r] EXCEPT !.pc = "writeTotal", !.total = t]
<1>1. IsRequest(req[r])
  BY DEF CheckoutInv, RequestsOK
<1>2. IsRequest(q) /\ q.pc = "writeTotal" /\ q.total = t /\ q.cart = req[r].cart
  BY <1>1, FieldNames DEF IsRequest
<1>3. req' = [req EXCEPT ![r] = q] /\ req[r].pc = "readCart" /\ UNCHANGED <<carts, items, orders>>
  BY DEF ReadCart, tables
<1> HIDE DEF q
<1>4. Alone(r) /\ req'[r] = q
  BY <1>2, <1>3, MovesAlone
<1>5. req'[r].total = Sum(ItemsOf(req[r].cart))'
  BY <1>2, <1>3, <1>4 DEF ItemsOf
<1>6. AtWork(r)'
  BY <1>2, <1>4, <1>5 DEF AtWork, Changing
<1> QED  BY <1>2, <1>3, <1>4, <1>6, ReadingStep

\* What writing an item does when nothing was changed meanwhile: the product's
\* row, if there is one, is replaced by one that counts the quantity added.
Had(c, p) == IF ItemsOfProduct(c, p) = {} THEN 0
             ELSE (CHOOSE i \in ItemsOfProduct(c, p) : TRUE).quantity

\* The row found when the cart was read is still the product's only one.
LEMMA WriteItemAdds ==
  ASSUME CheckoutAssumption, CheckoutInv, ItemsInv, NEW r \in Requests, WriteItem(r), AtWork(r)
  PROVE  \E n \in CartItem :
           /\ n.cart = req[r].cart /\ n.product = req[r].product
           /\ n.quantity = Had(req[r].cart, req[r].product) + req[r].quantity
           /\ items' = (items \ ItemsOfProduct(req[r].cart, req[r].product)) \cup {n}
<1>1. PICK c, p, e, q : c = req[r].cart /\ p = req[r].product /\ e = req[r].existing
                        /\ q = req[r].quantity
  OBVIOUS
<1>2. req[r].pc = "writeItem" /\ Local(r) /\ ItemsOK
  BY DEF WriteItem, ItemsInv, LocalsOK, Local
<1>3. q \in Nat
  BY <1>1, <1>2, CheckoutAssumption DEF Local, Adding
<1>4. ItemsOfProduct(c, p) = {e} \ {None}
  BY <1>1, <1>2 DEF AtWork
<1>5. CASE e = None /\ items' = items \cup {NewItem(r)}
  <2>1. /\ NewItem(r) \in CartItem /\ NewItem(r).cart = c /\ NewItem(r).product = p
        /\ NewItem(r).quantity = q
    BY <1>1, <1>2, NewRow
  <2>2. Had(c, p) = 0 /\ items' = (items \ ItemsOfProduct(c, p)) \cup {NewItem(r)}
    BY <1>4, <1>5 DEF Had
  <2> QED  BY <1>1, <1>3, <2>1, <2>2
<1>6. CASE e # None
  <2>1. ItemsOfProduct(c, p) = {e} /\ e \in items /\ e.cart = c /\ e.product = p
    <3>1. e \in ItemsOfProduct(c, p) /\ ItemsOfProduct(c, p) = {e}
      BY <1>4, <1>6
    <3> QED  BY <3>1 DEF ItemsOfProduct, ItemsOf
  <2>2. Had(c, p) = e.quantity
    BY <2>1 DEF Had
  <2>3. e \in CartItem /\ e.quantity + q \in Nat
    BY <1>2, <1>3, <2>1, RowFields DEF ItemsOK, IsRow
  <2>4. items' = (items \ {e}) \cup {WithQuantity(e, e.quantity + q)}
    <3>1. PICK m : m = e.quantity + q
      OBVIOUS
    <3>2. items' = {IF i.id = e.id THEN WithQuantity(i, m) ELSE i : i \in items}
      BY <1>1, <1>6, <3>1 DEF WriteItem
    <3>3. \A i \in items : i.id = e.id => i = e
      BY <1>2, <2>1 DEF ItemsOK
    <3>4. items' = (items \ {e}) \cup {WithQuantity(e, m)}
      BY <2>1, <3>2, <3>3
    <3> QED  BY <3>1, <3>4
  <2>5. PICK n : n = WithQuantity(e, e.quantity + q)
    OBVIOUS
  <2>6. n \in CartItem /\ n.cart = c /\ n.product = p /\ n.quantity = e.quantity + q
    BY <2>1, <2>3, <2>5, ChangedRow
  <2>7. items' = (items \ ItemsOfProduct(c, p)) \cup {n}
    BY <2>1, <2>4, <2>5
  <2> QED  BY <1>1, <2>2, <2>6, <2>7
<1>7. CASE e = None
  <2>1. items' = items \cup {NewItem(r)}
    BY <1>1, <1>7 DEF WriteItem
  <2> QED  BY <1>5, <1>7, <2>1
<1> QED  BY <1>6, <1>7

\* A step that changes the items of the cart that r is going to read again.
LEMMA ItemsStep ==
  ASSUME SerialOK, NEW r \in Requests, Alone(r), OthersIdle(r), UNCHANGED <<carts, orders>>,
         req[r].pc \in Changing, req'[r].pc = "readCart", req'[r].cart = req[r].cart,
         \A d : d # req[r].cart => ItemsOf(d)' = ItemsOf(d), OneItemEach'
  PROVE  SerialOK'
<1>1. AtWork(r)'
  BY DEF AtWork, Changing
<1>2. \A s \in Requests : AtWork(s)'
  BY <1>1, OthersRely
<1>3. OneCart'
  BY DEF SerialOK, OneCart, ActiveCarts
<1>4. Completing'
  <2>1. ActiveCarts \cap Ordered = {}
    BY ActiveIsUnordered DEF SerialOK, Changing
  <2> QED  BY <2>1 DEF Completing, ActiveCarts, Ordered
<1>5. TotalsOK'
  <2>1. Totalling(r, req[r].cart)'
    BY DEF Totalling
  <2>2. ASSUME NEW d \in DOMAIN carts, d # req[r].cart
        PROVE  (carts[d].total = Sum(ItemsOf(d)))'
    <3>1. ~ Totalling(r, d)
      BY <2>2 DEF Totalling
    <3>2. carts[d].total = Sum(ItemsOf(d))
      BY <3>1, TotalsRight DEF SerialOK
    <3>3. ItemsOf(d)' = ItemsOf(d)
      BY <2>2
    <3>4. Sum(ItemsOf(d)') = Sum(ItemsOf(d))
      BY <3>3
    <3> QED  BY <3>2, <3>4
  <2> QED  BY <2>1, <2>2 DEF TotalsOK
<1> QED  BY <1>2, <1>3, <1>4, <1>5 DEF SerialOK

\* Writing an item keeps one item per product.
LEMMA WriteItemSerial ==
  ASSUME CheckoutAssumption, CheckoutInv, ItemsInv, SerialOK, NEW r \in Requests,
         OthersIdle(r), WriteItem(r)
  PROVE  SerialOK'
<1>1. /\ req[r].pc = "writeItem" /\ Goto(r, "readCart") /\ UNCHANGED <<carts, orders>>
      /\ AtWork(r)
  BY DEF WriteItem, SerialOK
<1>2. Alone(r) /\ req'[r].pc = "readCart" /\ req'[r].cart = req[r].cart
  BY <1>1, GotoStep
<1>3. PICK c, p : c = req[r].cart /\ p = req[r].product
  OBVIOUS
<1>4. PICK n \in CartItem : /\ n.cart = c /\ n.product = p
                            /\ items' = (items \ ItemsOfProduct(c, p)) \cup {n}
  BY <1>1, <1>3, WriteItemAdds
<1>5. OneItemEach'
  BY <1>4 DEF SerialOK, OneItemEach, ItemsOfProduct, ItemsOf
<1>6. \A d : d # c => ItemsOf(d)' = ItemsOf(d)
  BY <1>4 DEF ItemsOfProduct, ItemsOf
<1> QED  BY <1>1, <1>2, <1>3, <1>5, <1>6, ItemsStep DEF Changing

\* What deleting an item does: the row of one product is gone.
LEMMA DeleteItemRemoves ==
  ASSUME ItemsOK, SerialOK, NEW r \in Requests, DeleteItem(r)
  PROVE  \E i \in ItemsOf(req[r].cart) :
           /\ i.id = req[r].target
           /\ items' = items \ ItemsOfProduct(req[r].cart, i.product)
<1>1. PICK c : c = req[r].cart
  OBVIOUS
<1>2. PICK i \in ItemsOf(c) : i.id = req[r].target
  BY <1>1 DEF SerialOK, AtWork, DeleteItem
<1>3. items' = {j \in items : j.id # i.id}
  BY <1>2 DEF DeleteItem
<1>4. \A j \in items : j.id = i.id => j = i
  BY <1>2 DEF ItemsOK, ItemsOf
<1>5. ItemsOfProduct(c, i.product) = {i}
  BY <1>2 DEF SerialOK, OneItemEach, ItemsOfProduct, ItemsOf
<1>6. items' = items \ ItemsOfProduct(c, i.product)
  BY <1>3, <1>4, <1>5
<1> QED  BY <1>1, <1>2, <1>6

\* Deleting an item keeps one item per product.
LEMMA DeleteItemSerial ==
  ASSUME CheckoutInv, ItemsInv, SerialOK, NEW r \in Requests, OthersIdle(r), DeleteItem(r)
  PROVE  SerialOK'
<1>1. /\ req[r].pc = "deleteItem" /\ Goto(r, "readCart") /\ UNCHANGED <<carts, orders>>
      /\ ItemsOK
  BY DEF DeleteItem, ItemsInv
<1>2. Alone(r) /\ req'[r].pc = "readCart" /\ req'[r].cart = req[r].cart
  BY <1>1, GotoStep
<1>3. PICK c, p : c = req[r].cart /\ items' = items \ ItemsOfProduct(c, p)
  BY <1>1, DeleteItemRemoves
<1>4. OneItemEach'
  BY <1>3 DEF SerialOK, OneItemEach
<1>5. \A d : d # c => ItemsOf(d)' = ItemsOf(d)
  BY <1>3 DEF ItemsOfProduct, ItemsOf
<1> QED  BY <1>1, <1>2, <1>3, <1>4, <1>5, ItemsStep DEF Changing

\* Writing the total ends the request with the total right.
LEMMA WriteTotalSerial ==
  ASSUME CheckoutInv, SerialOK, NEW r \in Requests, OthersIdle(r), WriteTotal(r)
  PROVE  SerialOK'
<1>1. PICK c, t : c = req[r].cart /\ t = req[r].total
  OBVIOUS
<1>2. /\ req[r].pc = "writeTotal" /\ Finish(r, "ok") /\ UNCHANGED <<items, orders>>
      /\ carts' = [carts EXCEPT ![c].total = t]
  BY <1>1 DEF WriteTotal
<1>3. Alone(r) /\ req'[r].pc = "done"
  BY <1>2, FinishStep
<1>4. c \in DOMAIN carts /\ \A d \in DOMAIN carts : IsCart(carts[d])
  BY <1>1, <1>2 DEF CheckoutInv, RowsOK, RequestsOK, WithACart
<1>5. /\ DOMAIN carts' = DOMAIN carts /\ carts'[c].total = t
      /\ \A d \in DOMAIN carts : carts'[d].status = carts[d].status
      /\ \A d \in DOMAIN carts \ {c} : carts'[d] = carts[d]
  BY <1>2, <1>4 DEF IsCart
<1>6. ActiveCarts' = ActiveCarts /\ Ordered' = Ordered
  BY <1>2, <1>5 DEF ActiveCarts, Ordered
<1>7. \A s \in Requests : AtWork(s)'
  BY <1>3, IdleReliesOnNothing, OthersRely DEF Running
<1>8. OneItemEach' /\ OneCart'
  BY <1>2, <1>6 DEF SerialOK, OneItemEach, OneCart
<1>9. Completing'
  <2>1. ActiveCarts \cap Ordered = {}
    BY <1>2, ActiveIsUnordered DEF SerialOK
  <2> QED  BY <1>6, <2>1 DEF Completing
<1>10. TotalsOK'
  <2>1. t = Sum(ItemsOf(c))
    BY <1>1, <1>2 DEF SerialOK, AtWork
  <2>2. ASSUME NEW d \in DOMAIN carts, d # c  PROVE carts[d].total = Sum(ItemsOf(d))
    <3>1. ~ Totalling(r, d)
      BY <1>1, <2>2 DEF Totalling
    <3> QED  BY <3>1, TotalsRight DEF SerialOK
  <2>3. \A d : ItemsOf(d)' = ItemsOf(d)
    BY <1>2 DEF ItemsOf
  <2> QED  BY <1>5, <2>1, <2>2, <2>3 DEF TotalsOK
<1> QED  BY <1>7, <1>8, <1>9, <1>10 DEF SerialOK

\* Making a cart gives the user one without items.
LEMMA CreateCartSerial ==
  ASSUME CheckoutAssumption, CheckoutInv, ItemsInv, SerialOK, NEW r \in Requests,
         OthersIdle(r), CreateCart(r)
  PROVE  SerialOK'
<1> DEFINE c == Len(carts) + 1
           new == [status |-> "active", total |-> 0]
           q == [req[r] EXCEPT !.pc = "writeItem", !.cart = c]
<1>1. IsRequest(req[r])
  BY DEF CheckoutInv, RequestsOK
<1>2. /\ IsRequest(q) /\ q.pc = "writeItem" /\ q.cart = c /\ q.existing = req[r].existing
      /\ q.product = req[r].product
  BY <1>1, FieldNames DEF IsRequest
<1>3. /\ req' = [req EXCEPT ![r] = q] /\ req[r].pc = "createCart"
      /\ UNCHANGED <<items, orders>> /\ carts' = Append(carts, new)
  BY DEF CreateCart
<1>4. /\ Len(carts) \in Nat /\ DOMAIN carts = 1..Len(carts) /\ DOMAIN carts' = 1..c
      /\ carts'[c] = new /\ \A d \in DOMAIN carts : carts'[d] = carts[d]
  BY <1>3, Inserted DEF CheckoutInv, RowsOK
<1> HIDE DEF q
<1>5. Alone(r) /\ req'[r] = q
  BY <1>2, <1>3, MovesAlone
<1>6. c \notin DOMAIN carts /\ DOMAIN carts' = DOMAIN carts \cup {c}
  BY <1>4
<1>7. PICK k : k = c
  OBVIOUS
<1> HIDE DEF c
<1>8. ActiveCarts = {} /\ req[r].existing = None
  BY <1>3 DEF SerialOK, AtWork, ItemsInv, LocalsOK
<1>9. ActiveCarts' = {k}
  <2>1. \A d \in DOMAIN carts : carts'[d].status # "active"
    BY <1>4, <1>8 DEF ActiveCarts
  <2>2. carts'[k].status = "active"
    BY <1>4, <1>7
  <2> QED  BY <1>6, <1>7, <2>1, <2>2 DEF ActiveCarts
<1>10. Ordered' = Ordered /\ k \notin Ordered
  BY <1>3, <1>6, <1>7 DEF Ordered, CheckoutInv, RowsOK
<1>11. ItemsOf(k)' = {} /\ \A d : ItemsOf(d)' = ItemsOf(d)
  <2>1. \A i \in items : i.cart \in DOMAIN carts
    BY DEF ItemsInv, ItemsOK, IsRow
  <2> QED  BY <1>3, <1>6, <1>7, <2>1 DEF ItemsOf
<1>12. AtWork(r)'
  <2>1. (ItemsOfProduct(req[r].cart, req[r].product) = {req[r].existing} \ {None})'
    <3>1. req'[r].cart = k /\ req'[r].existing = None
      BY <1>2, <1>5, <1>7, <1>8
    <3>2. ItemsOfProduct(k, req[r].product)' = {}
      BY <1>11 DEF ItemsOfProduct
    <3> QED  BY <3>1, <3>2
  <2>2. (req[r].cart \in ActiveCarts \ Ordered)'
    BY <1>2, <1>5, <1>7, <1>9, <1>10
  <2>3. req'[r].pc = "writeItem"
    BY <1>2, <1>5
  <2> QED  BY <2>1, <2>2, <2>3 DEF AtWork
<1>13. \A s \in Requests : AtWork(s)'
  BY <1>5, <1>12, OthersRely
<1>14. OneItemEach' /\ OneCart' /\ Completing'
  BY <1>3, <1>9, <1>10 DEF SerialOK, OneItemEach, OneCart, Completing
<1>15. TotalsOK'
  <2>1. ASSUME NEW d \in DOMAIN carts  PROVE carts[d].total = Sum(ItemsOf(d))
    <3>1. ~ Totalling(r, d)
      BY <1>3 DEF Totalling
    <3> QED  BY <3>1, TotalsRight DEF SerialOK
  <2>2. carts'[k].total = 0
    BY <1>4, <1>7
  <2>3. Sum(ItemsOf(k)') = 0
    BY <1>11, NothingCosts
  <2>4. DOMAIN carts' = DOMAIN carts \cup {k}
    BY <1>6, <1>7
  <2> QED  BY <1>4, <1>11, <2>1, <2>2, <2>3, <2>4 DEF TotalsOK
<1> QED  BY <1>13, <1>14, <1>15 DEF SerialOK

\* What saving an order does: the cart has an order from then on.
LEMMA SaveOrderSaves ==
  ASSUME CheckoutInv, NEW r \in Requests, SaveOrder(r)
  PROVE  /\ Alone(r) /\ req'[r].pc = "completeCart" /\ req'[r].cart = req[r].cart
         /\ Len(orders) \in Nat /\ DOMAIN orders = 1..Len(orders)
         /\ DOMAIN orders' = 1..(Len(orders) + 1)
         /\ \A k \in DOMAIN orders : orders'[k] = orders[k]
         /\ orders'[Len(orders) + 1] = [cart |-> req[r].cart, total |-> req[r].total]
         /\ Ordered' = Ordered \cup {req[r].cart}
<1> DEFINE row == [cart |-> req[r].cart, total |-> req[r].total]
           q == [req[r] EXCEPT !.pc = "completeCart", !.order = Len(orders) + 1]
<1>1. IsRequest(req[r])
  BY DEF CheckoutInv, RequestsOK
<1>2. IsRequest(q) /\ q.pc = "completeCart" /\ q.cart = req[r].cart
  BY <1>1, FieldNames DEF IsRequest
<1>3. req' = [req EXCEPT ![r] = q] /\ orders' = Append(orders, row)
  BY DEF SaveOrder
<1> HIDE DEF q
<1>4. Alone(r) /\ req'[r] = q
  BY <1>2, <1>3, MovesAlone
<1>5. row.cart = req[r].cart
  OBVIOUS
<1> HIDE DEF row
<1>6. /\ Len(orders) \in Nat /\ DOMAIN orders = 1..Len(orders)
      /\ DOMAIN orders' = 1..(Len(orders) + 1)
      /\ orders'[Len(orders) + 1] = row /\ \A k \in DOMAIN orders : orders'[k] = orders[k]
  BY <1>3, Inserted DEF CheckoutInv, RowsOK
<1>7. DOMAIN orders' = DOMAIN orders \cup {Len(orders) + 1}
  BY <1>6
<1>8. Ordered' = Ordered \cup {req[r].cart}
  <2>1. PICK n : n = Len(orders) + 1
    OBVIOUS
  <2>2. /\ DOMAIN orders' = DOMAIN orders \cup {n} /\ orders'[n].cart = req[r].cart
        /\ \A k \in DOMAIN orders : orders'[k] = orders[k]
    BY <1>5, <1>6, <1>7, <2>1
  <2> QED  BY <2>2 DEF Ordered
<1> QED  BY <1>2, <1>4, <1>6, <1>8 DEF row

\* Saving an order leaves its request to complete the cart.
LEMMA SaveOrderSerial ==
  ASSUME CheckoutInv, SerialOK, NEW r \in Requests, OthersIdle(r), SaveOrder(r)
  PROVE  SerialOK'
<1>1. PICK c : c = req[r].cart
  OBVIOUS
<1>2. /\ Alone(r) /\ req'[r].pc = "completeCart" /\ req'[r].cart = c
      /\ Ordered' = Ordered \cup {c}
      /\ UNCHANGED <<carts, items>> /\ req[r].pc = "saveOrder"
  BY <1>1, SaveOrderSaves DEF SaveOrder
<1>3. c \in ActiveCarts /\ ActiveCarts' = ActiveCarts /\ ActiveCarts \cap Ordered = {}
  <2>1. ActiveCarts \cap Ordered = {}
    BY <1>2, ActiveIsUnordered DEF SerialOK
  <2> QED  BY <1>1, <1>2, <2>1 DEF SerialOK, AtWork, Changing, ActiveCarts
<1>4. AtWork(r)'
  <2>1. (req[r].cart \in ActiveCarts \cap Ordered)'
    BY <1>2, <1>3
  <2> QED  BY <1>2, <2>1 DEF AtWork, Changing
<1>5. \A s \in Requests : AtWork(s)'
  BY <1>2, <1>4, OthersRely
<1>6. OneItemEach' /\ OneCart'
  BY <1>2, <1>3 DEF SerialOK, OneItemEach, OneCart
<1>7. Completing'
  BY <1>2, <1>3 DEF Completing
<1>8. TotalsOK'
  <2>1. ASSUME NEW d \in DOMAIN carts  PROVE carts[d].total = Sum(ItemsOf(d))
    <3>1. ~ Totalling(r, d)
      BY <1>2 DEF Totalling
    <3> QED  BY <3>1, TotalsRight DEF SerialOK
  <2>2. \A d : ItemsOf(d)' = ItemsOf(d)
    BY <1>2 DEF ItemsOf
  <2> QED  BY <1>2, <2>1, <2>2 DEF TotalsOK
<1> QED  BY <1>5, <1>6, <1>7, <1>8 DEF SerialOK

\* What completing a cart does to the carts.
LEMMA CompleteCartCompletes ==
  ASSUME CheckoutInv, NEW r \in Requests, CompleteCart(r)
  PROVE  /\ DOMAIN carts' = DOMAIN carts /\ ActiveCarts' = ActiveCarts \ {req[r].cart}
         /\ \A d \in DOMAIN carts : carts'[d].total = carts[d].total
<1>1. PICK c : c = req[r].cart
  OBVIOUS
<1>2. c \in DOMAIN carts /\ \A d \in DOMAIN carts : IsCart(carts[d])
  BY <1>1 DEF CheckoutInv, RowsOK, RequestsOK, WithACart, CompleteCart
<1>3. carts' = [carts EXCEPT ![c].status = "completed"]
  BY <1>1 DEF CompleteCart
<1>4. /\ DOMAIN carts' = DOMAIN carts /\ carts'[c].status = "completed"
      /\ carts'[c].total = carts[c].total
      /\ \A d \in DOMAIN carts \ {c} : carts'[d] = carts[d]
  BY <1>2, <1>3 DEF IsCart
<1> QED  BY <1>1, <1>4 DEF ActiveCarts

\* Completing the ordered cart leaves none that is ordered and active.
LEMMA CompleteCartSerial ==
  ASSUME CheckoutInv, SerialOK, NEW r \in Requests, OthersIdle(r), CompleteCart(r)
  PROVE  SerialOK'
<1>1. PICK c : c = req[r].cart
  OBVIOUS
<1>2. /\ Goto(r, "publish") /\ req[r].pc = "completeCart" /\ UNCHANGED <<items, orders>>
      /\ DOMAIN carts' = DOMAIN carts /\ ActiveCarts' = ActiveCarts \ {c}
      /\ \A d \in DOMAIN carts : carts'[d].total = carts[d].total
  BY <1>1, CompleteCartCompletes DEF CompleteCart
<1>3. Alone(r) /\ req'[r].pc = "publish"
  BY <1>2, GotoStep
<1>4. AtWork(r)'
  BY <1>3 DEF AtWork, Changing
<1>5. \A s \in Requests : AtWork(s)'
  BY <1>3, <1>4, OthersRely
<1>6. ActiveCarts' = {}
  BY <1>1, <1>2 DEF SerialOK, AtWork, OneCart
<1>7. OneItemEach' /\ OneCart' /\ Completing'
  BY <1>2, <1>6 DEF SerialOK, OneItemEach, OneCart, Completing
<1>8. TotalsOK'
  <2>1. ASSUME NEW d \in DOMAIN carts  PROVE carts[d].total = Sum(ItemsOf(d))
    <3>1. ~ Totalling(r, d)
      BY <1>2 DEF Totalling
    <3> QED  BY <3>1, TotalsRight DEF SerialOK
  <2>2. \A d : ItemsOf(d)' = ItemsOf(d)
    BY <1>2 DEF ItemsOf
  <2> QED  BY <1>2, <2>1, <2>2 DEF TotalsOK
<1> QED  BY <1>5, <1>7, <1>8 DEF SerialOK

\* While no two requests overlapped, the others are idle when one moves.
LEMMA OneRuns ==
  ASSUME HistoryInv, Orderly, NEW r \in Requests, req[r].pc \in Running
  PROVE  OthersIdle(r)
BY DEF HistoryInv, OneAtATime, Orderly, InFlight, OthersIdle

\* The steps of a handler keep what requests one at a time rely on.
LEMMA HandlerSerial ==
  ASSUME CheckoutInv, ItemsInv, HistoryInv, Orderly, SerialOK, NEW r \in Requests, Handle(r)
  PROVE  SerialOK'
<1>1. req[r].pc \in Running
  BY HandlerStep DEF HandlerMoves
<1>2. OthersIdle(r)
  BY <1>1, OneRuns
<1>3. CASE FindProduct(r)
  <2>1. UNCHANGED <<carts, items, orders>> /\ req[r].pc = "product"
    BY <1>3 DEF FindProduct, tables
  <2>2. Alone(r) /\ req'[r].pc \in {"findCart", "done"}
    BY <1>3, GotoStep, FinishStep DEF FindProduct
  <2>3. AtWork(r)'
    BY <2>2 DEF AtWork, Changing
  <2> QED  BY <1>2, <2>1, <2>2, <2>3, ReadingStep
<1>4. CASE Publish(r)
  <2>1. UNCHANGED <<carts, items, orders>> /\ req[r].pc = "publish" /\ Finish(r, "ok")
    BY <1>4 DEF Publish, tables
  <2>2. Alone(r) /\ req'[r].pc = "done"
    BY <2>1, FinishStep
  <2>3. AtWork(r)'
    BY <2>2 DEF AtWork, Changing
  <2> QED  BY <1>2, <2>1, <2>2, <2>3, ReadingStep
<1>5. CASE FindCart(r)
  BY <1>2, <1>5, FindCartSerial, CheckoutAssumption
<1>6. CASE ReadCart(r)
  BY <1>2, <1>6, ReadCartSerial
<1>7. CASE CreateCart(r)
  BY <1>2, <1>7, CreateCartSerial, CheckoutAssumption
<1>8. CASE WriteItem(r)
  BY <1>2, <1>8, WriteItemSerial, CheckoutAssumption
<1>9. CASE DeleteItem(r)
  BY <1>2, <1>9, DeleteItemSerial
<1>10. CASE WriteTotal(r)
  BY <1>2, <1>10, WriteTotalSerial
<1>11. CASE SaveOrder(r)
  BY <1>2, <1>11, SaveOrderSerial
<1>12. CASE CompleteCart(r)
  BY <1>2, <1>12, CompleteCartSerial
<1> QED
  BY <1>3, <1>4, <1>5, <1>6, <1>7, <1>8, <1>9, <1>10, <1>11, <1>12 DEF Handle

\* A request that is made when none runs relies on nothing yet.
LEMMA MadeSerial ==
  ASSUME CheckoutInv, SerialOK, NEW r \in Requests, NEW a \in Asked, Made(r, a), ~ overlapped'
  PROVE  SerialOK'
<1>1. IsRequest(a) /\ a.pc \in {"product", "findCart"}
  BY AskedForms
<1>2. Alone(r) /\ req'[r] = a
  BY <1>1, MovesAlone DEF Made
<1>3. /\ req[r].pc = "new" /\ UNCHANGED <<carts, items, orders>> /\ InFlight = {}
  BY DEF Made, tables
<1>4. OthersIdle(r)
  BY <1>3 DEF OthersIdle, InFlight
<1>5. AtWork(r)'
  BY <1>1, <1>2 DEF AtWork, Changing
<1> QED  BY <1>2, <1>3, <1>4, <1>5, ReadingStep

\* Every step keeps the serial invariant.
LEMMA SerialInvStep ==
  CheckoutInv /\ ItemsInv /\ HistoryInv /\ SerialInv /\ [Next]_vars => SerialInv'
<1> SUFFICES ASSUME CheckoutInv, ItemsInv, HistoryInv, SerialInv, [Next]_vars, Orderly'
             PROVE  SerialOK'
  BY DEF SerialInv
<1>1. faults \in Nat
  BY DEF HistoryInv, CutOffCounted
<1>2. CASE \E r \in Requests : DatabaseError(r)
  BY <1>1, <1>2 DEF DatabaseError, Orderly
<1>3. CASE Restart
  <2>1. faults' = faults + 1
    BY <1>3 DEF Restart
  <2> QED  BY <1>1, <2>1 DEF Orderly
<1>4. ASSUME NEW r \in Requests, Arrive(r)  PROVE SerialOK'
  <2>1. PICK a \in Asked : Made(r, a)
    BY <1>4 DEF Arrive
  <2>2. Orderly
    BY <2>1 DEF Made, Orderly
  <2> QED  BY <2>1, <2>2, MadeSerial DEF SerialInv, Orderly
<1>5. ASSUME NEW r \in Requests, Handle(r)  PROVE SerialOK'
  <2>1. Orderly
    BY <1>1, <1>5, HandlerCounts DEF Orderly
  <2> QED  BY <1>5, <2>1, HandlerSerial DEF SerialInv
<1>6. CASE LoseChannel \/ UNCHANGED vars
  <2>1. UNCHANGED <<carts, items, orders, req, overlapped, faults>>
    BY <1>6 DEF LoseChannel, vars, tables
  <2>2. ActiveCarts' = ActiveCarts /\ Ordered' = Ordered /\ \A d : ItemsOf(d)' = ItemsOf(d)
    BY <2>1 DEF ActiveCarts, Ordered, ItemsOf
  <2>3. SerialOK
    BY <2>1 DEF SerialInv, Orderly
  <2>4. \A s \in Requests : AtWork(s)'
    BY <2>1, <2>2, <2>3 DEF SerialOK, AtWork, ItemsOfProduct
  <2>5. OneItemEach' /\ OneCart'
    BY <2>1, <2>2, <2>3 DEF SerialOK, OneItemEach, OneCart
  <2>6. Completing'
    BY <2>1, <2>2, <2>3 DEF SerialOK, Completing
  <2>7. TotalsOK'
    BY <2>1, <2>2, <2>3 DEF SerialOK, TotalsOK, Totalling
  <2> QED  BY <2>4, <2>5, <2>6, <2>7 DEF SerialOK
<1> QED  BY <1>2, <1>3, <1>4, <1>5, <1>6 DEF Next

\* The serial invariant at first.
LEMMA SerialInvInit == Init => SerialInv
<1> SUFFICES ASSUME Init PROVE SerialOK
  BY DEF SerialInv
<1>1. \A r \in Requests : req[r].pc = "new"
  BY DEF Init, NotMade
<1>2. items = {} /\ ActiveCarts = {} /\ DOMAIN carts = {}
  BY DEF Init, ActiveCarts
<1> QED
  BY <1>1, <1>2
  DEF SerialOK, AtWork, Changing, OneItemEach, OneCart, Completing, TotalsOK

\* All of what holds of the carts, their items and the requests.
ShopInv == CheckoutInv /\ HistoryInv /\ ItemsInv /\ SerialInv

\* It is an invariant of the service.
LEMMA ShopInvariant == Spec => []ShopInv
<1>1. Init => ShopInv
  BY CheckoutInvInit, HistoryInvInit, ItemsInvInit, SerialInvInit DEF ShopInv
<1>2. ShopInv /\ [Next]_vars => ShopInv'
  BY CheckoutInvStep, HistoryInvStep, ItemsInvStep, SerialInvStep DEF ShopInv
<1> QED  BY <1>1, <1>2, PTL DEF Spec

\* However many carts, items and orders were made by requests one at a time:
\* between requests the total of every cart is what its items cost, since the
\* total written last was read after the last change of the items.
THEOREM TotalsAreSums == Spec => []TotalIsSum
<1>1. ShopInv => TotalIsSum
  <2> SUFFICES ASSUME ShopInv, Orderly, Quiet, NEW c \in DOMAIN carts
               PROVE  carts[c].total = Cost(c)
    BY DEF TotalIsSum
  <2>1. TotalsOK /\ ItemsOK
    BY DEF ShopInv, SerialInv, SerialOK, ItemsInv
  <2>2. \A r \in Requests : ~ Totalling(r, c)
    BY DEF Quiet, InFlight, Totalling, Running
  <2>3. carts[c].total = Sum(ItemsOf(c))
    BY <2>1, <2>2 DEF TotalsOK
  <2> QED  BY <2>1, <2>3, SumIsCost
<1> QED  BY <1>1, ShopInvariant, PTL

-------------------------------------------------------------------------------
(* The tables of requests one at a time are the abstract cart and its orders *)

\* The pieces in no row and in one.
LEMMA PiecesOfNone == Pieces({}) = 0
BY PiecesAddUp, SumEmpty

\* A row holds its quantity.
LEMMA PiecesOfOne ==
  ASSUME NEW x, x.quantity \in Nat
  PROVE  Pieces({x}) = x.quantity
<1> DEFINE f == [i \in {x} |-> i.quantity]
<1>1. Pieces({x}) = SumOf(f, {x}) /\ f[x] = x.quantity
  BY PiecesAddUp
<1> HIDE DEF f
<1> QED  BY <1>1, SumSingle

\* The rows of some carts and a product.
Rows(cs, p) == {i \in items : i.cart \in cs /\ i.product = p}

\* The contents of carts, by their rows, before and after a step.
LEMMA ContentsAre ==
  ASSUME NEW cs
  PROVE  /\ Contents(cs) = [p \in Products |-> Pieces(Rows(cs, p))]
         /\ Contents(cs)' = [p \in Products |-> Pieces(Rows(cs, p)')]
<1>1. ASSUME NEW p  PROVE QuantityIn(cs, p) = Pieces(Rows(cs, p))
  BY Zenon DEF QuantityIn, Pieces, Rows, MapThenSumSet, MapThenFoldSet
<1>2. ASSUME NEW p  PROVE QuantityIn(cs, p)' = Pieces(Rows(cs, p)')
  BY Zenon DEF QuantityIn, Pieces, Rows, MapThenSumSet, MapThenFoldSet
<1>3. Contents(cs) = [p \in Products |-> Pieces(Rows(cs, p))]
  BY <1>1 DEF Contents
<1>4. Contents(cs)' = [p \in Products |-> Pieces(Rows(cs, p)')]
  BY <1>2 DEF Contents
<1> QED  BY <1>3, <1>4

\* The rows of a cart and a product, and the pieces in them.
LEMMA RowsOfProduct ==
  ASSUME ItemsOK, OneItemEach, CheckoutAssumption, NEW c, NEW p
  PROVE  /\ Rows({c}, p) = ItemsOfProduct(c, p) /\ Pieces(Rows({c}, p)) = Had(c, p)
         /\ Had(c, p) \in Nat
         /\ \A i \in ItemsOfProduct(c, p) : Had(c, p) = i.quantity /\ i.quantity > 0
<1>1. Rows({c}, p) = ItemsOfProduct(c, p)
  BY DEF Rows, ItemsOfProduct, ItemsOf
<1>2. CASE ItemsOfProduct(c, p) = {}
  BY <1>1, <1>2, PiecesOfNone DEF Had
<1>3. ASSUME NEW i \in ItemsOfProduct(c, p)
      PROVE  /\ Pieces(Rows({c}, p)) = Had(c, p) /\ Had(c, p) = i.quantity
             /\ i.quantity \in Nat /\ i.quantity > 0
  <2>1. i \in items /\ i.cart = c /\ i.product = p
    BY DEF ItemsOfProduct, ItemsOf
  <2>2. i.quantity \in Nat /\ i.quantity > 0
    BY <2>1, RowFields DEF ItemsOK, IsRow
  <2>3. ItemsOfProduct(c, p) = {i}
    BY <2>1 DEF OneItemEach, ItemsOfProduct, ItemsOf
  <2>4. Had(c, p) = i.quantity
    BY <2>3 DEF Had
  <2>5. Pieces({i}) = i.quantity
    BY <2>2, PiecesOfOne
  <2> QED  BY <1>1, <2>2, <2>3, <2>4, <2>5
<1> QED  BY <1>1, <1>2, <1>3

\* The user's cart and an order, as the abstract specification sees them.
TheCart    == Contents(ActiveCarts \ Ordered)
OrderOf(k) == [contents |-> Contents({orders[k].cart}), total |-> orders[k].total]
TheOrders  == [k \in DOMAIN orders |-> OrderOf(k)]

\* What carts contain depends on their rows alone.
LEMMA SameContents ==
  ASSUME NEW cs, NEW ds, \A p \in Products : Rows(ds, p)' = Rows(cs, p)
  PROVE  Contents(ds)' = Contents(cs)
<1>1. \A p \in Products : Pieces(Rows(ds, p)') = Pieces(Rows(cs, p))
  OBVIOUS
<1>2. /\ Contents(cs) = [p \in Products |-> Pieces(Rows(cs, p))]
      /\ Contents(ds)' = [p \in Products |-> Pieces(Rows(ds, p)')]
  BY ContentsAre
<1> QED  BY <1>1, <1>2

\* Orders stay what they are while the rows of ordered carts do.
LEMMA SameOrders ==
  ASSUME UNCHANGED orders,
         \A c \in Ordered, p \in Products : Rows({c}, p)' = Rows({c}, p)
  PROVE  TheOrders' = TheOrders
<1>1. ASSUME NEW k \in DOMAIN orders  PROVE OrderOf(k)' = OrderOf(k)
  <2>1. PICK c : c = orders[k].cart
    OBVIOUS
  <2>2. c \in Ordered /\ orders'[k] = orders[k]
    BY <2>1 DEF Ordered
  <2>3. Contents({c})' = Contents({c})
    BY <2>2, SameContents
  <2> QED  BY <2>1, <2>2, <2>3 DEF OrderOf
<1> QED  BY <1>1 DEF TheOrders

\* A step that keeps the items, the orders and which cart is the user's.
LEMMA ShopStutters ==
  ASSUME UNCHANGED <<items, orders>>, ActiveCarts' \ Ordered' = ActiveCarts \ Ordered
  PROVE  TheCart' = TheCart /\ TheOrders' = TheOrders
<1>1. PICK cs : cs = ActiveCarts \ Ordered
  OBVIOUS
<1>2. \A ds, p : Rows(ds, p)' = Rows(ds, p)
  BY DEF Rows
<1>3. Contents(cs)' = Contents(cs)
  BY <1>2, SameContents
<1>4. TheOrders' = TheOrders
  BY <1>2, SameOrders
<1> QED  BY <1>1, <1>3, <1>4 DEF TheCart

\* While r is at work on its cart, that is the user's.
LEMMA TheCartIs ==
  ASSUME SerialOK, NEW r \in Requests, req[r].pc \in Changing
  PROVE  ActiveCarts \ Ordered = {req[r].cart}
BY DEF SerialOK, AtWork, OneCart

\* Writing an item adds its quantity.
LEMMA WriteItemIsAdd ==
  ASSUME CheckoutAssumption, CheckoutInv, ItemsInv, SerialOK, NEW r \in Requests, WriteItem(r)
  PROVE  \E p \in Products, q \in Quantities :
           TheCart' = [TheCart EXCEPT ![p] = @ + q] /\ TheOrders' = TheOrders
<1>1. PICK c, p, q : c = req[r].cart /\ p = req[r].product /\ q = req[r].quantity
  OBVIOUS
<1>2. /\ req[r].pc = "writeItem" /\ Local(r) /\ ItemsOK /\ OneItemEach /\ AtWork(r)
      /\ UNCHANGED <<carts, orders>>
  BY DEF WriteItem, ItemsInv, LocalsOK, Local, SerialOK
<1>3. p \in Products /\ q \in Quantities
  BY <1>1, <1>2 DEF Local, Adding
<1>4. PICK n \in CartItem :
        /\ n.cart = c /\ n.product = p /\ n.quantity = Had(c, p) + q
        /\ items' = (items \ ItemsOfProduct(c, p)) \cup {n}
  BY <1>1, <1>2, WriteItemAdds
<1>5. ActiveCarts \ Ordered = {c} /\ (ActiveCarts \ Ordered)' = {c}
  <2>1. ActiveCarts \ Ordered = {c}
    BY <1>1, <1>2, TheCartIs DEF Changing
  <2> QED  BY <1>2, <2>1 DEF ActiveCarts, Ordered
<1>6. TheCart = Contents({c}) /\ TheCart' = Contents({c})'
  BY <1>5 DEF TheCart
<1>7. \A d, x : (d # c \/ x # p) => Rows({d}, x)' = Rows({d}, x)
  BY <1>4 DEF Rows, ItemsOfProduct, ItemsOf
<1>8. Rows({c}, p)' = {n}
  BY <1>4 DEF Rows, ItemsOfProduct, ItemsOf
<1>9. Pieces(Rows({c}, p)') = Had(c, p) + q /\ Pieces(Rows({c}, p)) = Had(c, p)
  <2>1. n.quantity \in Nat
    BY RowFields
  <2> QED  BY <1>2, <1>4, <1>8, <2>1, PiecesOfOne, RowsOfProduct
<1>10. TheCart' = [TheCart EXCEPT ![p] = @ + q]
  <2>1. /\ TheCart = [x \in Products |-> Pieces(Rows({c}, x))]
        /\ TheCart' = [x \in Products |-> Pieces(Rows({c}, x)')]
    BY <1>6, ContentsAre
  <2>2. \A x \in Products \ {p} : Pieces(Rows({c}, x)') = Pieces(Rows({c}, x))
    <3>1. ASSUME NEW x \in Products \ {p}  PROVE Rows({c}, x)' = Rows({c}, x)
      BY <1>7
    <3> QED  BY <3>1
  <2> QED  BY <1>3, <1>9, <2>1, <2>2
<1>11. TheOrders' = TheOrders
  <2>1. c \notin Ordered
    BY <1>1, <1>2 DEF AtWork, Changing
  <2>2. \A d \in Ordered, x \in Products : Rows({d}, x)' = Rows({d}, x)
    BY <1>7, <2>1
  <2> QED  BY <1>2, <2>2, SameOrders
<1> QED  BY <1>3, <1>10, <1>11

\* Deleting an item takes its product out.
LEMMA DeleteItemIsRemove ==
  ASSUME CheckoutAssumption, CheckoutInv, ItemsInv, SerialOK, NEW r \in Requests, DeleteItem(r)
  PROVE  \E p \in Products :
           TheCart[p] > 0 /\ TheCart' = [TheCart EXCEPT ![p] = 0] /\ TheOrders' = TheOrders
<1>1. PICK c : c = req[r].cart
  OBVIOUS
<1>2. /\ req[r].pc = "deleteItem" /\ ItemsOK /\ OneItemEach /\ AtWork(r)
      /\ UNCHANGED <<carts, orders>>
  BY DEF DeleteItem, ItemsInv, SerialOK
<1>3. PICK i \in ItemsOf(c) : items' = items \ ItemsOfProduct(c, i.product)
  BY <1>1, <1>2, DeleteItemRemoves
<1>4. PICK p : p = i.product
  OBVIOUS
<1>5. p \in Products /\ i \in ItemsOfProduct(c, p)
  <2>1. i \in items /\ i \in CartItem
    BY <1>2, <1>3 DEF ItemsOf, ItemsOK, IsRow
  <2> QED  BY <1>3, <1>4, <2>1, RowFields DEF ItemsOfProduct
<1>6. ActiveCarts \ Ordered = {c} /\ (ActiveCarts \ Ordered)' = {c}
  <2>1. ActiveCarts \ Ordered = {c}
    BY <1>1, <1>2, TheCartIs DEF Changing
  <2> QED  BY <1>2, <2>1 DEF ActiveCarts, Ordered
<1>7. TheCart = Contents({c}) /\ TheCart' = Contents({c})'
  BY <1>6 DEF TheCart
<1>8. \A d, x : (d # c \/ x # p) => Rows({d}, x)' = Rows({d}, x)
  BY <1>3, <1>4 DEF Rows, ItemsOfProduct, ItemsOf
<1>9. Rows({c}, p)' = {}
  BY <1>3, <1>4 DEF Rows, ItemsOfProduct, ItemsOf
<1>10. Pieces(Rows({c}, p)') = 0 /\ Pieces(Rows({c}, p)) > 0
  <2>1. Pieces(Rows({c}, p)') = 0
    BY <1>9, PiecesOfNone
  <2>2. Pieces(Rows({c}, p)) > 0
    BY <1>2, <1>5, RowsOfProduct
  <2> QED  BY <2>1, <2>2
<1>11. TheCart[p] > 0 /\ TheCart' = [TheCart EXCEPT ![p] = 0]
  <2>1. /\ TheCart = [x \in Products |-> Pieces(Rows({c}, x))]
        /\ TheCart' = [x \in Products |-> Pieces(Rows({c}, x)')]
    BY <1>7, ContentsAre
  <2>2. \A x \in Products \ {p} : Pieces(Rows({c}, x)') = Pieces(Rows({c}, x))
    <3>1. ASSUME NEW x \in Products \ {p}  PROVE Rows({c}, x)' = Rows({c}, x)
      BY <1>8
    <3> QED  BY <3>1
  <2> QED  BY <1>5, <1>10, <2>1, <2>2
<1>12. TheOrders' = TheOrders
  <2>1. c \notin Ordered
    BY <1>1, <1>2 DEF AtWork, Changing
  <2>2. \A d \in Ordered, x \in Products : Rows({d}, x)' = Rows({d}, x)
    BY <1>8, <2>1
  <2> QED  BY <1>2, <2>2, SameOrders
<1> QED  BY <1>5, <1>11, <1>12

\* What the items of a cart cost is the price of its contents.
LEMMA SumIsPrice ==
  ASSUME CheckoutAssumption, ItemsOK, OneItemEach, NEW c
  PROVE  Sum(ItemsOf(c)) = PriceOf(Contents({c}))
<1> DEFINE I == ItemsOf(c)
           place == [i \in I |-> i.product]
           f == [i \in I |-> i.subtotal]
           g == [p \in Products |-> Price[p] * Contents({c})[p]]
<1>1. IsFiniteSet(I) /\ IsFiniteSet(Products)
  <2>1. I \in SUBSET items
    BY DEF ItemsOf
  <2> QED  BY <2>1, FS_Subset DEF ItemsOK, CheckoutAssumption
<1>2. ASSUME NEW i \in I
      PROVE  /\ i \in items /\ i \in CartItem /\ i.cart = c /\ i.product \in Products
             /\ i.price = Price[i.product] /\ i.subtotal = i.price * i.quantity
             /\ i.subtotal \in Nat
  BY RowFields DEF ItemsOK, IsRow, ItemsOf
<1>3. \A p \in Products : Contents({c})[p] = Had(c, p)
  <2>1. Contents({c}) = [p \in Products |-> Pieces(Rows({c}, p))]
    BY ContentsAre
  <2>2. \A p \in Products : Pieces(Rows({c}, p)) = Had(c, p)
    BY RowsOfProduct
  <2> QED  BY <2>1, <2>2
<1>4. place \in [I -> Products]
  BY <1>2
<1>5. \A i, j \in I : place[i] = place[j] => i = j
  BY <1>2 DEF OneItemEach
<1>6. \A i \in I : f[i] \in Nat /\ g[place[i]] = f[i]
  <2> SUFFICES ASSUME NEW i \in I PROVE f[i] \in Nat /\ g[place[i]] = f[i]
    OBVIOUS
  <2>1. PICK p : p = i.product
    OBVIOUS
  <2>2. i \in ItemsOfProduct(c, p) /\ p \in Products
    BY <1>2, <2>1 DEF ItemsOfProduct
  <2>3. Contents({c})[p] = i.quantity
    BY <1>3, <2>2, RowsOfProduct
  <2>4. g[p] = i.price * i.quantity
    BY <1>2, <2>1, <2>2, <2>3
  <2>5. place[i] = p /\ f[i] = i.subtotal
    BY <2>1
  <2> HIDE DEF place, f, g
  <2> QED  BY <1>2, <2>4, <2>5
<1>7. \A p \in Products : (\A i \in I : place[i] # p) => g[p] = 0
  <2> SUFFICES ASSUME NEW p \in Products, \A i \in I : place[i] # p  PROVE g[p] = 0
    OBVIOUS
  <2>1. ItemsOfProduct(c, p) = {}
    BY DEF ItemsOfProduct
  <2>2. Contents({c})[p] = 0
    BY <1>3, <2>1 DEF Had
  <2>3. Price[p] \in Nat
    BY DEF CheckoutAssumption
  <2> QED  BY <2>2, <2>3
<1>8. Sum(I) = SumOf(f, I)
  BY SubtotalsAddUp
<1>9. PriceOf(Contents({c})) = SumOf(g, Products)
  BY PricesAddUp
<1> HIDE DEF I, place, f, g
<1>10. SumOf(g, Products) = SumOf(f, I)
  BY <1>1, <1>4, <1>5, <1>6, <1>7, SumByPlace
<1> QED  BY <1>8, <1>9, <1>10 DEF I

\* Saving an order places one with the contents and the price of the cart.
LEMMA SaveOrderIsPlaceOrder ==
  ASSUME CheckoutAssumption, CheckoutInv, ItemsInv, SerialOK, NEW r \in Requests,
         OthersIdle(r), SaveOrder(r)
  PROVE  /\ TheCart # Abstract!Empty /\ TheCart' = Abstract!Empty
         /\ TheOrders' = Append(TheOrders, [contents |-> TheCart, total |-> PriceOf(TheCart)])
<1>1. PICK c, n : c = req[r].cart /\ n = Len(orders)
  OBVIOUS
<1>2. /\ req[r].pc = "saveOrder" /\ ItemsOK /\ OneItemEach /\ AtWork(r) /\ TotalsOK
      /\ UNCHANGED <<carts, items>>
  BY DEF SaveOrder, ItemsInv, SerialOK
<1>3. /\ n \in Nat /\ DOMAIN orders = 1..n /\ DOMAIN orders' = 1..(n + 1)
      /\ \A k \in DOMAIN orders : orders'[k] = orders[k]
      /\ orders'[n + 1] = [cart |-> c, total |-> req[r].total]
      /\ Ordered' = Ordered \cup {c}
  BY <1>1, SaveOrderSaves
<1>4. ActiveCarts \ Ordered = {c} /\ (ActiveCarts \ Ordered)' = {}
  <2>1. ActiveCarts \ Ordered = {c}
    BY <1>1, <1>2, TheCartIs DEF Changing
  <2>2. ActiveCarts' = ActiveCarts
    BY <1>2 DEF ActiveCarts
  <2> QED  BY <1>3, <2>1, <2>2
<1>5. TheCart = Contents({c}) /\ TheCart' = Contents({})'
  BY <1>4 DEF TheCart
<1>6. \A cs, p : Rows(cs, p)' = Rows(cs, p)
  BY <1>2 DEF Rows
<1>7. TheCart' = Abstract!Empty
  <2>1. \A p : Rows({}, p)' = {}
    BY DEF Rows
  <2>2. \A p : Pieces(Rows({}, p)') = 0
    BY <2>1, PiecesOfNone
  <2>3. TheCart' = [p \in Products |-> Pieces(Rows({}, p)')]
    BY <1>5, ContentsAre
  <2> QED  BY <2>2, <2>3 DEF Abstract!Empty
<1>8. TheCart # Abstract!Empty
  <2>1. PICK i \in ItemsOf(c) : TRUE
    BY <1>1, <1>2 DEF AtWork
  <2>2. PICK p : p = i.product
    OBVIOUS
  <2>3. i \in ItemsOfProduct(c, p) /\ p \in Products
    <3>1. i \in items /\ i \in CartItem
      BY <1>2, <2>1 DEF ItemsOf, ItemsOK, IsRow
    <3> QED  BY <2>1, <2>2, <3>1, RowFields DEF ItemsOfProduct
  <2>4. Pieces(Rows({c}, p)) > 0
    BY <1>2, <2>3, RowsOfProduct
  <2>5. TheCart = [x \in Products |-> Pieces(Rows({c}, x))]
    BY <1>5, ContentsAre
  <2>6. TheCart[p] > 0
    BY <2>3, <2>4, <2>5
  <2> QED  BY <2>3, <2>6 DEF Abstract!Empty
<1>9. req[r].total = PriceOf(TheCart)
  <2>1. c \in DOMAIN carts /\ ~ Totalling(r, c) /\ req[r].total = carts[c].total
    BY <1>1, <1>2 DEF Totalling, AtWork, Changing, ActiveCarts
  <2>2. carts[c].total = Sum(ItemsOf(c))
    BY <1>2, <2>1, TotalsRight
  <2>3. Sum(ItemsOf(c)) = PriceOf(Contents({c}))
    BY <1>2, SumIsPrice
  <2> QED  BY <1>5, <2>1, <2>2, <2>3
<1>10. PICK t, new : t = TheOrders /\ new = [contents |-> TheCart, total |-> PriceOf(TheCart)]
  OBVIOUS
<1>11. t = [k \in 1..n |-> OrderOf(k)] /\ TheOrders' = [k \in 1..(n + 1) |-> OrderOf(k)']
  BY <1>3, <1>10 DEF TheOrders
<1>12. ASSUME NEW k \in 1..n  PROVE OrderOf(k)' = t[k]
  <2>1. PICK d : d = orders[k].cart
    OBVIOUS
  <2>2. orders'[k] = orders[k]
    BY <1>3
  <2>3. Contents({d})' = Contents({d})
    BY <1>6, SameContents
  <2>4. OrderOf(k)' = OrderOf(k)
    BY <2>1, <2>2, <2>3 DEF OrderOf
  <2> QED  BY <1>11, <2>4
<1>13. OrderOf(n + 1)' = new
  <2>1. orders'[n + 1].cart = c /\ orders'[n + 1].total = req[r].total
    BY <1>3
  <2>2. Contents({c})' = Contents({c})
    BY <1>6, SameContents
  <2> QED  BY <1>5, <1>9, <1>10, <2>1, <2>2 DEF OrderOf
<1>14. TheOrders' = Append(t, new)
  <2>1. IsSequence(t) /\ DOMAIN t = 1..n
    BY <1>3, <1>11, FunctionIsSequence
  <2>2. Len(t) = n
    BY <1>3, <2>1, Inserted
  <2>3. /\ IsSequence(Append(t, new)) /\ DOMAIN Append(t, new) = 1..(n + 1)
        /\ \A k \in 1..n : Append(t, new)[k] = t[k]
        /\ Append(t, new)[n + 1] = new
    BY <2>1, <2>2, Inserted
  <2>4. PICK u : u = Append(t, new)
    OBVIOUS
  <2>5. u = [k \in 1..(n + 1) |-> u[k]]
    <3>1. PICK S : u \in Seq(S)
      BY <2>3, <2>4 DEF IsSequence
    <3>2. u \in [1..Len(u) -> S] /\ DOMAIN u = 1..(n + 1)
      BY <2>3, <2>4, <3>1, LenProperties
    <3> QED  BY <3>2
  <2>6. \A k \in 1..(n + 1) : OrderOf(k)' = u[k]
    <3>1. \A k \in 1..(n + 1) : k \in 1..n \/ k = n + 1
      BY <1>3
    <3> QED  BY <1>12, <1>13, <2>3, <2>4, <3>1
  <2> QED  BY <1>11, <2>4, <2>5, <2>6
<1> QED  BY <1>7, <1>8, <1>10, <1>14

\* A new cart is as empty as none.
LEMMA CreateCartStutters ==
  ASSUME CheckoutInv, ItemsInv, SerialOK, NEW r \in Requests, CreateCart(r)
  PROVE  TheCart' = TheCart /\ TheOrders' = TheOrders
<1>1. PICK k, new : k = Len(carts) + 1 /\ new = [status |-> "active", total |-> 0]
  OBVIOUS
<1>2. UNCHANGED <<items, orders>> /\ carts' = Append(carts, new) /\ req[r].pc = "createCart"
  BY <1>1 DEF CreateCart
<1>3. /\ k \notin DOMAIN carts /\ DOMAIN carts' = DOMAIN carts \cup {k}
      /\ \A d \in DOMAIN carts : carts'[d] = carts[d]
  BY <1>1, <1>2, Inserted DEF CheckoutInv, RowsOK
<1>4. ActiveCarts = {}
  BY <1>2 DEF SerialOK, AtWork
<1>5. PICK cs : cs = (ActiveCarts \ Ordered)'
  OBVIOUS
<1>6. cs \subseteq {k}
  BY <1>3, <1>4, <1>5 DEF ActiveCarts
<1>7. \A i \in items : i.cart \in DOMAIN carts
  BY DEF ItemsInv, ItemsOK, IsRow
<1>8. \A p : Rows(cs, p)' = Rows({}, p)
  BY <1>2, <1>3, <1>6, <1>7 DEF Rows
<1>9. Contents(cs)' = Contents({})
  BY <1>8, SameContents
<1>10. TheCart' = TheCart
  <2>1. TheCart = Contents({})
    BY <1>4 DEF TheCart
  <2> QED  BY <1>5, <1>9, <2>1 DEF TheCart
<1>11. TheOrders' = TheOrders
  <2>1. \A c, p : Rows({c}, p)' = Rows({c}, p)
    BY <1>2 DEF Rows
  <2> QED  BY <1>2, <2>1, SameOrders
<1> QED  BY <1>10, <1>11

\* Writing a total or completing an ordered cart changes neither.
LEMMA CartStepStutters ==
  ASSUME CheckoutInv, SerialOK, NEW r \in Requests, WriteTotal(r) \/ CompleteCart(r)
  PROVE  TheCart' = TheCart /\ TheOrders' = TheOrders
<1>1. UNCHANGED <<items, orders>>
  BY DEF WriteTotal, CompleteCart
<1>2. CASE WriteTotal(r)
  <2>1. PICK c, t : c = req[r].cart /\ t = req[r].total
    OBVIOUS
  <2>2. carts' = [carts EXCEPT ![c].total = t]
    BY <1>2, <2>1 DEF WriteTotal
  <2>3. c \in DOMAIN carts /\ \A d \in DOMAIN carts : IsCart(carts[d])
    BY <1>2, <2>1 DEF CheckoutInv, RowsOK, RequestsOK, WithACart, WriteTotal
  <2>4. /\ DOMAIN carts' = DOMAIN carts
        /\ \A d \in DOMAIN carts : carts'[d].status = carts[d].status
    BY <2>2, <2>3 DEF IsCart
  <2>5. ActiveCarts' \ Ordered' = ActiveCarts \ Ordered
    BY <1>1, <2>4 DEF ActiveCarts, Ordered
  <2> QED  BY <1>1, <2>5, ShopStutters
<1>3. CASE CompleteCart(r)
  <2>1. ActiveCarts' = ActiveCarts \ {req[r].cart}
    BY <1>3, CompleteCartCompletes
  <2>2. req[r].cart \in Ordered
    BY <1>3 DEF SerialOK, AtWork, CompleteCart
  <2>3. ActiveCarts' \ Ordered' = ActiveCarts \ Ordered
    BY <1>1, <2>1, <2>2 DEF Ordered
  <2> QED  BY <1>1, <2>3, ShopStutters
<1> QED  BY <1>2, <1>3

\* Requests one at a time do what the abstract shop does, or nothing it shows.
LEMMA ShoppingStep ==
  ShopInv /\ [Next]_vars => (Orderly' => [Abstract!Next]_(Abstract!shop))
<1> SUFFICES ASSUME ShopInv, [Next]_vars, Orderly'
             PROVE  [Abstract!Next]_(Abstract!shop)
  OBVIOUS
<1>1. ASSUME TheCart' = TheCart, TheOrders' = TheOrders
      PROVE  UNCHANGED Abstract!shop
  BY <1>1 DEF Abstract!shop, TheCart, TheOrders, OrderOf
<1>2. ASSUME UNCHANGED <<carts, items, orders>>  PROVE UNCHANGED Abstract!shop
  <2>1. ActiveCarts' \ Ordered' = ActiveCarts \ Ordered
    BY <1>2 DEF ActiveCarts, Ordered
  <2> QED  BY <1>1, <1>2, <2>1, ShopStutters
<1>3. ASSUME NEW r \in Requests, Handle(r)  PROVE [Abstract!Next]_(Abstract!shop)
  <2>1. Orderly /\ SerialOK /\ CheckoutInv /\ ItemsInv /\ OthersIdle(r)
    <3>1. faults \in Nat
      BY DEF ShopInv, HistoryInv, CutOffCounted
    <3>2. Orderly
      BY <1>3, <3>1, HandlerCounts DEF Orderly
    <3>3. req[r].pc \in Running
      BY <1>3, HandlerStep DEF HandlerMoves, ShopInv
    <3> QED  BY <3>2, <3>3, OneRuns DEF ShopInv, SerialInv
  <2>2. CASE WriteItem(r)
    <3>1. PICK p \in Products, q \in Quantities :
            TheCart' = [TheCart EXCEPT ![p] = @ + q] /\ TheOrders' = TheOrders
      BY <2>1, <2>2, WriteItemIsAdd, CheckoutAssumption
    <3>2. Abstract!Add(p, q)
      BY <3>1 DEF Abstract!Add, TheCart, TheOrders, OrderOf
    <3> QED  BY <3>2 DEF Abstract!Next
  <2>3. CASE DeleteItem(r)
    <3>1. PICK p \in Products :
            TheCart[p] > 0 /\ TheCart' = [TheCart EXCEPT ![p] = 0] /\ TheOrders' = TheOrders
      BY <2>1, <2>3, DeleteItemIsRemove, CheckoutAssumption
    <3>2. Abstract!Remove(p)
      BY <3>1 DEF Abstract!Remove, TheCart, TheOrders, OrderOf
    <3> QED  BY <3>2 DEF Abstract!Next
  <2>4. CASE SaveOrder(r)
    <3>1. /\ TheCart # Abstract!Empty /\ TheCart' = Abstract!Empty
          /\ TheOrders' = Append(TheOrders, [contents |-> TheCart, total |-> PriceOf(TheCart)])
      BY <2>1, <2>4, SaveOrderIsPlaceOrder, CheckoutAssumption
    <3>2. Abstract!PlaceOrder
      BY <3>1, Zenon
      DEF Abstract!PlaceOrder, TheCart, TheOrders, OrderOf, PriceOf, MapThenSumSet,
          MapThenFoldSet, Abstract!MapThenSumSet, Abstract!MapThenFoldSet
    <3> QED  BY <3>2 DEF Abstract!Next
  <2>5. CASE CreateCart(r)
    BY <1>1, <2>1, <2>5, CreateCartStutters
  <2>6. CASE WriteTotal(r) \/ CompleteCart(r)
    BY <1>1, <2>1, <2>6, CartStepStutters
  <2>7. CASE FindProduct(r) \/ FindCart(r) \/ ReadCart(r) \/ Publish(r)
    BY <1>2, <2>7 DEF FindProduct, FindCart, ReadCart, Publish, tables
  <2> QED  BY <1>3, <2>2, <2>3, <2>4, <2>5, <2>6, <2>7 DEF Handle
<1>4. CASE \E r \in Requests : Arrive(r) \/ DatabaseError(r)
  BY <1>2, <1>4 DEF Arrive, Made, DatabaseError, tables
<1>5. CASE Restart \/ LoseChannel \/ UNCHANGED vars
  <2>1. UNCHANGED <<carts, items, orders>>
    BY <1>5 DEF Restart, LoseChannel, vars, tables
  <2> QED  BY <1>2, <2>1
<1> QED  BY <1>3, <1>4, <1>5 DEF Next

\* No rows are no products and no orders.
LEMMA ShoppingInit == Init => Abstract!Init
<1> SUFFICES ASSUME Init PROVE Abstract!Init
  OBVIOUS
<1>1. items = {} /\ orders = <<>>
  BY DEF Init
<1>2. PICK cs : cs = ActiveCarts \ Ordered
  OBVIOUS
<1>3. \A p : Rows(cs, p) = {}
  BY <1>1 DEF Rows
<1>4. \A p : Pieces(Rows(cs, p)) = 0
  BY <1>3, PiecesOfNone
<1>5. Contents(cs) = [p \in Products |-> Pieces(Rows(cs, p))]
  BY ContentsAre
<1>6. TheCart = Abstract!Empty
  BY <1>2, <1>4, <1>5 DEF TheCart, Abstract!Empty
<1>7. TheOrders = <<>>
  BY <1>1 DEF TheOrders
<1> QED  BY <1>6, <1>7 DEF Abstract!Init, TheCart, TheOrders, OrderOf

\* Requests one at a time implement the abstract shop: an add counts once, in one
\* item, a removal takes its product out, an order has the contents and the price
\* of the whole cart, and no step after it changes either or orders the cart again.
THEOREM ShoppingRefinement == Spec => ImplementsShopping
<1>1. ShopInv /\ [Next]_vars => [Orderly' => [Abstract!Next]_(Abstract!shop)]_vars
  BY ShoppingStep
<1>2. Init => Abstract!Init
  BY ShoppingInit
<1> QED  BY <1>1, <1>2, ShopInvariant, PTL DEF Spec, ImplementsShopping

-------------------------------------------------------------------------------
(* The flow is a behaviour of Checkout *)

Phases == {"idle", "waiting", "backoff", "answered"}

ClickTyped(k) ==
  /\ click[k].phase \in Phases /\ click[k].attempt \in 0..(MaxRetries + 1)
  /\ click[k].phase = "idle" => click[k].attempt = 0
  /\ click[k].phase = "waiting" => click[k].attempt \in Attempts
  /\ click[k].phase = "backoff" => click[k].attempt \in 1..MaxRetries
  /\ click[k].phase \in {"waiting", "backoff"} => click[k].asked \in Asked

FlowTypes ==
  /\ click = [k \in Clicks |-> click[k]] /\ lost = [k \in Clicks |-> lost[k]]
  /\ \A k \in Clicks : lost[k] \in Nat /\ ClickTyped(k)

\* Nothing that could be asked for ceases to be.
LEMMA AskedGrows ==
  ASSUME CheckoutInv, [Next]_vars
  PROVE  Asked \subseteq Asked'
<1>1. lastItem \in Nat  BY DEF CheckoutInv, RowsOK
<1>2. lastItem' = lastItem \/ lastItem' = lastItem + 1
  BY DEF Next, Arrive, Made, Handle, FindProduct, FindCart, CreateCart, WriteItem, DeleteItem,
         ReadCart, WriteTotal, SaveOrder, CompleteCart, Publish, DatabaseError, Restart,
         LoseChannel, vars, tables
<1>3. 1..lastItem \subseteq 1..lastItem'  BY <1>1, <1>2
<1>4. {RemovalOf(t) : t \in 1..lastItem} \subseteq {RemovalOf(t) : t \in 1..lastItem'}
  BY <1>3
<1>5. QED  BY <1>4 DEF Asked

\* A step of the gateway is a request made of the service, or nothing to it.
LEMMA AttemptIsStep ==
  ASSUME NEW k \in Clicks, NEW n \in Attempts, NEW a \in Asked, Attempt(k, n, a)
  PROVE  [Next]_vars
<1>1. <<k, n>> \in Requests  BY FlowAssumption
<1>2. CASE Made(<<k, n>>, a)  BY <1>1, <1>2 DEF Next, Arrive
<1>3. QED  BY <1>2 DEF Attempt

\* A click that backs off has an attempt left.
LEMMA NextAttempt ==
  ASSUME FlowTypes, NEW k \in Clicks, click[k].phase = "backoff"
  PROVE  /\ click[k].attempt + 1 \in Attempts /\ click[k].attempt \in Nat
         /\ click[k].asked \in Asked
  BY FlowAssumption DEF FlowTypes, ClickTyped, Attempts

\* Every step of the flow is one of Checkout or leaves it alone.
LEMMA FlowIsStep ==
  ASSUME FlowTypes, [FlowNext]_flow
  PROVE  [Next]_vars
<1>1. ASSUME NEW k \in Clicks, Click(k)  PROVE [Next]_vars
  <2>1. 1 \in Attempts  BY FlowAssumption DEF Attempts
  <2>2. QED  BY <1>1, <2>1, AttemptIsStep DEF Click, TokenExpired, TurnedAway
<1>2. ASSUME NEW k \in Clicks, Retry(k)  PROVE [Next]_vars
  BY <1>2, NextAttempt, AttemptIsStep DEF Retry, TokenExpired
<1>3. CASE ServiceStep  BY <1>3 DEF ServiceStep, Next
<1>4. QED
  BY <1>1, <1>2, <1>3 DEF FlowNext, TakeAnswer, TimesOut, GatewayRestart, flow

-------------------------------------------------------------------------------
(* What a step of the gateway does to its click *)

OnlyClick(k) ==
  click' = [j \in Clicks |-> click'[j]] /\ \A j \in Clicks \ {k} : click'[j] = click[j]

\* What Becomes does to a click.
LEMMA BecomesStep ==
  ASSUME FlowTypes, NEW k \in Clicks, NEW p, NEW n, NEW a, NEW v, Becomes(k, p, n, a, v)
  PROVE  /\ OnlyClick(k)
         /\ click'[k].phase = p /\ click'[k].attempt = n
         /\ click'[k].asked = a /\ click'[k].answer = v
<1> DEFINE row == [phase |-> p, attempt |-> n, asked |-> a, answer |-> v]
<1>1. row.phase = p /\ row.attempt = n /\ row.asked = a /\ row.answer = v  OBVIOUS
<1>2. click' = [click EXCEPT ![k] = row]  BY DEF Becomes
<1>3. click = [j \in Clicks |-> click[j]]  BY DEF FlowTypes
<1> HIDE DEF row
<1>4. OnlyClick(k) /\ click'[k] = row  BY <1>2, <1>3 DEF OnlyClick
<1>5. QED  BY <1>1, <1>4

\* An attempt whose end the click still cares for: the one it waits for, or the
\* one that was answered with success.
Live(k, n) ==
  /\ n = click[k].attempt
  /\ click[k].phase = "waiting" \/ (click[k].phase = "answered" /\ click[k].answer = "ok")

\* An attempt that never ran, or ended without success.
Failed(k, n) ==
  LET q == req[<<k, n>>] IN q.pc = "new" \/ (q.pc = "done" /\ q.result # "ok")

GatewayMoves(k) ==
  /\ OnlyClick(k) /\ ClickTyped(k)'
  /\ \/ req' = req
     \/ \E n \in Attempts : \E q :
          Live(k, n)' /\ req' = [req EXCEPT ![<<k, n>>] = q]
  /\ \/ lost' = [lost EXCEPT ![k] = @ + 1]
     \/ /\ lost' = lost
        /\ \A n \in Attempts : Live(k, n) /\ ~ Live(k, n)' => Failed(k, n)

\* A click that gets nowhere, with attempt n: nothing is asked of the service.
LEMMA StopsThere ==
  ASSUME FlowTypes, Asked \subseteq Asked', req' = req, NEW k \in Clicks, NEW n, NEW a,
         \/ n \in Attempts /\ a \in Asked /\ AttemptFailed(k, n, a)
         \/ n \in 0..(MaxRetries + 1) /\ \E v : Concluded(k, n, a, v),
         \/ lost' = [lost EXCEPT ![k] = @ + 1]
         \/ lost' = lost /\ \A i \in Attempts : Live(k, i) /\ ~ Live(k, i)' => Failed(k, i)
  PROVE  GatewayMoves(k)
<1>1. MaxRetries \in Nat  BY FlowAssumption
<1>2. CASE /\ n \in Attempts /\ a \in Asked /\ n <= MaxRetries
           /\ Becomes(k, "backoff", n, a, None)
  <2>1. /\ OnlyClick(k) /\ click'[k].phase = "backoff" /\ click'[k].attempt = n
        /\ click'[k].asked = a
    BY <1>2, BecomesStep
  <2>2. n \in 0..(MaxRetries + 1) /\ n \in 1..MaxRetries  BY <1>1, <1>2 DEF Attempts
  <2>3. ClickTyped(k)'  BY <1>2, <2>1, <2>2 DEF ClickTyped, Phases
  <2>4. QED  BY <2>1, <2>3 DEF GatewayMoves
<1>3. ASSUME NEW v, n \in 0..(MaxRetries + 1), Becomes(k, "answered", n, a, v)
      PROVE  GatewayMoves(k)
  <2>1. OnlyClick(k) /\ click'[k].phase = "answered" /\ click'[k].attempt = n
    BY <1>3, BecomesStep
  <2>2. ClickTyped(k)'  BY <1>3, <2>1 DEF ClickTyped, Phases
  <2>3. QED  BY <2>1, <2>2 DEF GatewayMoves
<1>4. n \in Attempts => n \in 0..(MaxRetries + 1)  BY <1>1 DEF Attempts
<1>5. QED  BY <1>2, <1>3, <1>4 DEF AttemptFailed, Concluded

\* An attempt of a click that waits for nothing.
LEMMA AttemptMoves ==
  ASSUME FlowTypes, Asked \subseteq Asked', UNCHANGED lost,
         NEW k \in Clicks, NEW n \in Attempts, NEW a \in Asked,
         click[k].phase \in {"idle", "backoff"},
         Attempt(k, n, a) \/ TokenExpired(k, n, a)
  PROVE  GatewayMoves(k)
<1>1. MaxRetries \in Nat /\ n \in 0..(MaxRetries + 1)  BY FlowAssumption DEF Attempts
<1>2. \A i \in Attempts : ~ Live(k, i)  BY DEF Live
<1>3. CASE Becomes(k, "waiting", n, a, None) /\ Made(<<k, n>>, a)
  <2>1. /\ OnlyClick(k) /\ click'[k].phase = "waiting" /\ click'[k].attempt = n
        /\ click'[k].asked = a
    BY <1>3, BecomesStep
  <2>2. ClickTyped(k)'  BY <1>1, <2>1 DEF ClickTyped, Phases
  <2>3. Live(k, n)'  BY <2>1 DEF Live
  <2>4. req' = [req EXCEPT ![<<k, n>>] = a]  BY <1>3 DEF Made
  <2>5. QED  BY <1>2, <2>1, <2>2, <2>3, <2>4 DEF GatewayMoves
<1>4. CASE (AttemptFailed(k, n, a) \/ Concluded(k, n, a, "unauthorized")) /\ UNCHANGED vars
  <2>1. req' = req  BY <1>4 DEF vars
  <2>2. QED  BY <1>1, <1>2, <1>4, <2>1, StopsThere
<1>5. QED  BY <1>3, <1>4 DEF Attempt, TokenExpired

\* Asking moves one click.
LEMMA ClickMoves ==
  ASSUME FlowTypes, Asked \subseteq Asked', NEW k \in Clicks, Click(k)
  PROVE  GatewayMoves(k)
<1>1. 1 \in Attempts /\ 0 \in 0..(MaxRetries + 1)  BY FlowAssumption DEF Attempts
<1>2. UNCHANGED lost /\ click[k].phase = "idle"  BY DEF Click
<1>3. ASSUME NEW v, Concluded(k, 0, NotMade, v), UNCHANGED vars  PROVE GatewayMoves(k)
  <2>1. \A i \in Attempts : ~ Live(k, i)  BY <1>2 DEF Live
  <2>2. req' = req  BY <1>3 DEF vars
  <2>3. QED  BY <1>1, <1>2, <1>3, <2>1, <2>2, StopsThere
<1>4. QED  BY <1>1, <1>2, <1>3, AttemptMoves DEF Click, TurnedAway

\* Taking an answer moves one click.
LEMMA TakeAnswerMoves ==
  ASSUME FlowTypes, Asked \subseteq Asked', NEW k \in Clicks, TakeAnswer(k)
  PROVE  GatewayMoves(k)
<1> DEFINE n == click[k].attempt
           a == click[k].asked
           res == req[<<k, n>>].result
<1>1. /\ click[k].phase = "waiting" /\ req[<<k, n>>].pc = "done"
      /\ UNCHANGED lost /\ UNCHANGED vars
      /\ \/ res = "error" /\ AttemptFailed(k, n, a)
         \/ Concluded(k, n, a, res)
  BY DEF TakeAnswer, Waiting, Current
<1>2. n \in Attempts /\ a \in Asked /\ n \in 0..(MaxRetries + 1)
  BY <1>1 DEF FlowTypes, ClickTyped
<1>3. req' = req  BY <1>1 DEF vars
<1>4. ASSUME NEW i \in Attempts, Live(k, i), ~ Live(k, i)'  PROVE Failed(k, i)
  <2>1. i = n  BY <1>4 DEF Live
  <2>2. CASE res = "error"  BY <1>1, <2>1, <2>2 DEF Failed
  <2>3. CASE Concluded(k, n, a, res) /\ res = "ok"
    <3>1. Becomes(k, "answered", n, a, res)  BY <2>3 DEF Concluded
    <3>2. click'[k].phase = "answered" /\ click'[k].attempt = n /\ click'[k].answer = res
      BY <3>1, BecomesStep
    <3>3. Live(k, i)'  BY <2>1, <2>3, <3>2 DEF Live
    <3>4. QED  BY <1>4, <3>3
  <2>4. CASE res # "ok"  BY <1>1, <2>1, <2>4 DEF Failed
  <2>5. QED  BY <1>1, <2>2, <2>3, <2>4
<1>5. QED
  <2> HIDE DEF n, a, res
  <2>1. QED  BY <1>1, <1>2, <1>3, <1>4, StopsThere

\* A lost answer moves one click and is counted.
LEMMA LossMoves ==
  ASSUME FlowTypes, Asked \subseteq Asked', NEW k \in Clicks,
         \/ TimesOut(k)
         \/ /\ click[k].phase \in {"waiting", "backoff"} /\ UNCHANGED vars
            /\ Concluded(k, click[k].attempt, click[k].asked, "lost")
            /\ lost' = [lost EXCEPT ![k] = @ + 1]
  PROVE  GatewayMoves(k)
<1> DEFINE n == click[k].attempt
           a == click[k].asked
<1>1. /\ lost' = [lost EXCEPT ![k] = @ + 1] /\ UNCHANGED vars
      /\ \/ click[k].phase = "waiting" /\ AttemptFailed(k, n, a)
         \/ Concluded(k, n, a, "lost")
  BY DEF TimesOut, Waiting
<1>2. /\ click[k].phase = "waiting" => n \in Attempts /\ a \in Asked
      /\ n \in 0..(MaxRetries + 1)
  BY DEF FlowTypes, ClickTyped
<1>3. req' = req  BY <1>1 DEF vars
<1>4. QED
  <2> HIDE DEF n, a
  <2>1. QED  BY <1>1, <1>2, <1>3, StopsThere

\* Every step of the flow moves clicks so.
LEMMA FlowMoves ==
  ASSUME CheckoutInv, FlowTypes, FlowNext
  PROVE  ServiceStep \/ \E k \in Clicks : GatewayMoves(k)
<1>1. Asked \subseteq Asked'  BY FlowIsStep, AskedGrows
<1>2. ASSUME NEW k \in Clicks, Retry(k)  PROVE GatewayMoves(k)
  <2>1. click[k].phase = "backoff" /\ UNCHANGED lost  BY <1>2 DEF Retry
  <2>2. QED  BY <1>1, <1>2, <2>1, NextAttempt, AttemptMoves DEF Retry
<1>3. CASE GatewayRestart
  BY <1>1, <1>3, LossMoves DEF GatewayRestart
<1>4. QED
  BY <1>1, <1>2, <1>3, ClickMoves, TakeAnswerMoves, LossMoves DEF FlowNext

-------------------------------------------------------------------------------
(* The invariant of the flow *)

\* While no answer of a click got lost, every attempt but the one it waits for
\* or was answered by never ran or ended without success.
Accounted ==
  \A k \in Clicks : lost[k] = 0 => \A n \in Attempts : ~ Live(k, n) => Failed(k, n)

FlowInv == CheckoutInv /\ HistoryInv /\ FlowTypes /\ Accounted

\* Lost answers are counted.
LEMMA LostCounts ==
  ASSUME FlowTypes, NEW k \in Clicks, lost' = lost \/ lost' = [lost EXCEPT ![k] = @ + 1]
  PROVE  /\ lost' = [j \in Clicks |-> lost'[j]] /\ \A j \in Clicks : lost'[j] \in Nat
         /\ \A j \in Clicks \ {k} : lost'[j] = lost[j]
         /\ lost' # lost => lost'[k] > 0
<1>1. lost = [j \in Clicks |-> lost[j]] /\ \A j \in Clicks : lost[j] \in Nat
  BY DEF FlowTypes
<1>2. QED  BY <1>1

\* What the gateway does keeps what is known of a click's attempts.
LEMMA GatewayKeeps ==
  ASSUME FlowInv, Asked \subseteq Asked', NEW k \in Clicks, GatewayMoves(k)
  PROVE  FlowTypes' /\ Accounted'
<1>1. /\ OnlyClick(k) /\ ClickTyped(k)' /\ FlowTypes
      /\ lost' = lost \/ lost' = [lost EXCEPT ![k] = @ + 1]
  BY DEF GatewayMoves, FlowInv
<1>2. /\ lost' = [j \in Clicks |-> lost'[j]] /\ \A j \in Clicks : lost'[j] \in Nat
      /\ \A j \in Clicks \ {k} : lost'[j] = lost[j]
      /\ lost' # lost => lost'[k] > 0
  BY <1>1, LostCounts
<1>3. \A j \in Clicks \ {k} : ClickTyped(j)'
  BY <1>1 DEF OnlyClick, FlowTypes, ClickTyped
<1>4. FlowTypes'  BY <1>1, <1>2, <1>3 DEF FlowTypes, OnlyClick
<1>5. ASSUME NEW j \in Clicks, NEW n \in Attempts, ~ Live(j, n)'
      PROVE  req'[<<j, n>>] = req[<<j, n>>]
  <2>1. CASE req' = req  BY <2>1
  <2>2. ASSUME NEW i \in Attempts, NEW q, Live(k, i)', req' = [req EXCEPT ![<<k, i>>] = q]
        PROVE  req'[<<j, n>>] = req[<<j, n>>]
    <3>1. <<j, n>> # <<k, i>>  BY <1>5, <2>2
    <3>2. req = [r \in Requests |-> req[r]] /\ <<j, n>> \in Requests
      BY FlowAssumption DEF FlowInv, CheckoutInv, RequestsOK
    <3>3. QED  BY <2>2, <3>1, <3>2
  <2>3. QED  BY <2>1, <2>2 DEF GatewayMoves
<1>6. ASSUME NEW j \in Clicks, lost'[j] = 0, NEW n \in Attempts, ~ Live(j, n)'
      PROVE  Failed(j, n)'
  <2>1. Failed(j, n)
    <3>1. CASE j = k
      <4>1. lost' = lost  BY <1>2, <1>6, <3>1
      <4>2. lost[k] = 0  BY <1>6, <3>1, <4>1
      <4>3. CASE Live(k, n)
        <5>1. lost' # [lost EXCEPT ![k] = @ + 1]
          BY <1>1, <4>1, <4>2 DEF FlowTypes
        <5>2. QED  BY <1>6, <3>1, <4>3, <5>1 DEF GatewayMoves
      <4>4. CASE ~ Live(k, n)  BY <3>1, <4>2, <4>4 DEF FlowInv, Accounted
      <4>5. QED  BY <4>3, <4>4
    <3>2. CASE j # k
      <4>1. click'[j] = click[j] /\ lost[j] = 0  BY <1>1, <1>2, <1>6, <3>2 DEF OnlyClick
      <4>2. ~ Live(j, n)  BY <1>6, <4>1 DEF Live
      <4>3. QED  BY <4>1, <4>2 DEF FlowInv, Accounted
    <3>3. QED  BY <3>1, <3>2
  <2>2. req'[<<j, n>>] = req[<<j, n>>]  BY <1>5, <1>6
  <2>3. QED  BY <2>1, <2>2 DEF Failed
<1>7. QED  BY <1>4, <1>6 DEF Accounted

\* A request that was not made or is done is left alone by the service.
LEMMA ServiceKeeps ==
  ASSUME FlowInv, Asked \subseteq Asked', ServiceStep
  PROVE  FlowTypes' /\ Accounted'
<1>1. UNCHANGED <<click, lost>>  BY DEF ServiceStep
<1>2. FlowTypes'  BY <1>1 DEF FlowInv, FlowTypes, ClickTyped
<1>3. \A r \in Requests : req[r].pc \in {"new", "done"} => req'[r] = req[r]
  <2>1. ASSUME NEW s \in Requests, Handle(s) \/ DatabaseError(s)
        PROVE  \A r \in Requests : req[r].pc \in {"new", "done"} => req'[r] = req[r]
    BY <2>1, HandlerStep DEF FlowInv, HandlerMoves, Alone, Running
  <2>2. CASE Restart  BY <2>2 DEF Restart, InFlight, Running
  <2>3. CASE LoseChannel  BY <2>3 DEF LoseChannel
  <2>4. QED  BY <2>1, <2>2, <2>3 DEF ServiceStep
<1>4. ASSUME NEW k \in Clicks, NEW n \in Attempts, Failed(k, n)  PROVE Failed(k, n)'
  <2>1. <<k, n>> \in Requests  BY FlowAssumption
  <2>2. req[<<k, n>>].pc \in {"new", "done"}  BY <1>4 DEF Failed
  <2>3. req'[<<k, n>>] = req[<<k, n>>]  BY <1>3, <2>1, <2>2
  <2>4. QED  BY <1>4, <2>3 DEF Failed
<1>5. Accounted'  BY <1>1, <1>4 DEF FlowInv, Accounted, Live
<1>6. QED  BY <1>2, <1>5

\* The flow's invariant holds at first.
LEMMA FlowInvInit == FlowInit => FlowInv
<1> SUFFICES ASSUME FlowInit PROVE FlowInv  OBVIOUS
<1>1. CheckoutInv /\ HistoryInv  BY CheckoutInvInit, HistoryInvInit DEF FlowInit
<1>2. 0 \in 0..(MaxRetries + 1)  BY FlowAssumption
<1>3. \A k \in Clicks : click[k].phase = "idle" /\ click[k].attempt = 0  BY DEF FlowInit
<1>4. FlowTypes  BY <1>2, <1>3 DEF FlowInit, FlowTypes, ClickTyped, Phases
<1>5. \A k \in Clicks, n \in Attempts : Failed(k, n)
  BY FlowAssumption DEF FlowInit, Init, NotMade, Failed
<1>6. QED  BY <1>1, <1>4, <1>5 DEF FlowInv, Accounted

\* Every step keeps the flow's invariant and is one of Checkout.
LEMMA FlowInvStep == FlowInv /\ [FlowNext]_flow => FlowInv' /\ [Next]_vars
<1> SUFFICES ASSUME FlowInv, [FlowNext]_flow PROVE FlowInv' /\ [Next]_vars  OBVIOUS
<1>1. [Next]_vars  BY FlowIsStep DEF FlowInv
<1>2. CheckoutInv' /\ HistoryInv'  BY <1>1, CheckoutInvStep, HistoryInvStep DEF FlowInv
<1>3. Asked \subseteq Asked'  BY <1>1, AskedGrows DEF FlowInv
<1>4. CASE FlowNext
  <2>1. FlowTypes' /\ Accounted'
    BY <1>3, <1>4, FlowMoves, GatewayKeeps, ServiceKeeps DEF FlowInv
  <2>2. QED  BY <1>1, <1>2, <2>1 DEF FlowInv
<1>5. CASE UNCHANGED flow
  <2>1. req' = req /\ click' = click /\ lost' = lost  BY <1>5 DEF flow, vars
  <2>2. FlowTypes'  BY <1>3, <2>1 DEF FlowInv, FlowTypes, ClickTyped
  <2>3. Accounted'  BY <2>1 DEF FlowInv, Accounted, Live, Failed
  <2>4. QED  BY <1>1, <1>2, <2>2, <2>3 DEF FlowInv
<1>6. QED  BY <1>4, <1>5

\* The gateway asks of checkout-service nothing but what its user may ask for:
\* with its retries, timeouts and restarts it implements the requests of
\* Checkout, so what is proved of them holds of the flow.
THEOREM FlowImplementsCheckout == FlowSpec => Spec /\ []FlowInv
<1>1. FlowInit => Init /\ FlowInv  BY FlowInvInit DEF FlowInit
<1>2. FlowInv /\ [FlowNext]_flow => FlowInv' /\ [Next]_vars  BY FlowInvStep
<1>3. QED  BY <1>1, <1>2, PTL DEF FlowSpec, Spec

-------------------------------------------------------------------------------
(* What a click charges *)

\* What was published of a click none of whose answers got lost is of the
\* attempt it still cares for.
LEMMA ChargedIsLive ==
  ASSUME FlowInv, NEW k \in Clicks, lost[k] = 0, NEW i \in Charged(k)
  PROVE  \E n \in Attempts : Live(k, n) /\ req[<<k, n>>].order = published[i].order
<1>1. i \in DOMAIN published /\ published[i].order \in OrdersOf(k)  BY DEF Charged
<1>2. PICK n \in Attempts :
        req[<<k, n>>].order = published[i].order /\ published[i].order # 0
  BY <1>1 DEF OrdersOf
<1>3. <<k, n>> \in Requests  BY FlowAssumption
<1>4. req[<<k, n>>].pc = "done" /\ req[<<k, n>>].result = "ok"
  BY <1>1, <1>2, <1>3 DEF FlowInv, CheckoutInv, OrdersHeld
<1>5. ~ Failed(k, n)  BY <1>4 DEF Failed
<1>6. Live(k, n)  BY <1>5 DEF FlowInv, Accounted
<1>7. QED  BY <1>2, <1>6

\* A set whose members are all equal has at most one.
LEMMA AtMostOne ==
  ASSUME NEW S, \A x, y \in S : x = y
  PROVE  Cardinality(S) <= 1
<1>1. CASE S = {}  BY <1>1, FS_EmptySet
<1>2. ASSUME NEW x \in S  PROVE Cardinality(S) <= 1
  <2>1. S = {x}  BY <1>2
  <2>2. QED  BY <2>1, FS_Singleton
<1>3. QED  BY <1>1, <1>2

\* The invariant bounds what a click charges.
LEMMA InvCharges == FlowInv => ChargedOnce
<1> SUFFICES ASSUME FlowInv PROVE ChargedOnce  OBVIOUS
<1>1. ASSUME NEW k \in Clicks, lost[k] = 0  PROVE Cardinality(Charged(k)) <= 1
  <2>1. ASSUME NEW x \in Charged(k), NEW y \in Charged(k)  PROVE x = y
    <3>1. PICK i \in Attempts : Live(k, i) /\ req[<<k, i>>].order = published[x].order
      BY <1>1, ChargedIsLive
    <3>2. PICK j \in Attempts : Live(k, j) /\ req[<<k, j>>].order = published[y].order
      BY <1>1, ChargedIsLive
    <3>3. published[x].order = published[y].order  BY <3>1, <3>2 DEF Live
    <3>4. QED
      BY <3>3 DEF Charged, FlowInv, CheckoutInv, PublishedOK, MessageMatchesOrder
  <2>2. QED  BY <2>1, AtMostOne
<1>2. ~ overlapped => OneChargePerCart  BY DEF FlowInv, HistoryInv, OneAtATime
<1>3. QED  BY <1>1, <1>2 DEF ChargedOnce, OneChargePerCart, CartOf

\* The invariant explains what a refused click left.
LEMMA InvRefuses == FlowInv => RefusalsAreTrue
<1> SUFFICES ASSUME FlowInv, NEW k \in Clicks, Answered(k), click[k].answer # "ok"
             PROVE  /\ Charged(k) # {} => lost[k] > 0
                    /\ OrdersOf(k) # {} => lost[k] > 0 \/ faults > 0
  BY DEF RefusalsAreTrue
<1>1. \A n \in Attempts : ~ Live(k, n)  BY DEF Live, Answered
<1>2. lost[k] \in Nat  BY DEF FlowInv, FlowTypes
<1>3. ASSUME lost[k] = 0, NEW i \in Charged(k)  PROVE FALSE
  BY <1>1, <1>3, ChargedIsLive
<1>4. ASSUME lost[k] = 0, OrdersOf(k) # {}  PROVE faults > 0
  <2>1. PICK n \in Attempts : req[<<k, n>>].order # 0  BY <1>4 DEF OrdersOf
  <2>2. <<k, n>> \in Requests  BY FlowAssumption
  <2>3. Failed(k, n)  BY <1>1, <1>4 DEF FlowInv, Accounted
  <2>4. req[<<k, n>>].pc = "done" /\ req[<<k, n>>].result # "ok"
    BY <2>1, <2>2, <2>3 DEF Failed, FlowInv, CheckoutInv, OrdersHeld, WithAnOrder
  <2>5. QED  BY <2>1, <2>2, <2>4 DEF FlowInv, HistoryInv, CutOffCounted
<1>5. QED  BY <1>2, <1>3, <1>4

\* However often a click is repeated, however its attempts fail and whatever
\* restarts, the user is charged for it once unless one of its attempts was
\* given up, and once per cart unless two attempts overlapped.
THEOREM ClicksChargeOnce == FlowSpec => []ChargedOnce
<1>1. FlowInv => ChargedOnce  BY InvCharges
<1>2. QED  BY <1>1, FlowImplementsCheckout, PTL

\* A click that is answered with anything but success charged nothing, and
\* left no order behind, but for what a lost answer or a fault explains.
THEOREM RefusalsHold == FlowSpec => []RefusalsAreTrue
<1>1. FlowInv => RefusalsAreTrue  BY InvRefuses
<1>2. QED  BY <1>1, FlowImplementsCheckout, PTL

\* What is proved of Checkout holds of the flow: the messages are those of the
\* orders, completed carts stay so, and the clicks' attempts buy as the
\* documentation says as long as they come one at a time.
THEOREM FlowIsCheckout ==
  FlowSpec => []MessageMatchesOrder /\ CompletedStays /\ []TotalIsSum /\ ImplementsShopping
  BY FlowImplementsCheckout, MessagesMatchOrders, CompletedCartsStay, TotalsAreSums,
     ShoppingRefinement, PTL

-------------------------------------------------------------------------------
(* What was added, by any number of requests at once *)

\* What a request holds at each place of what it was asked.
Op(r) ==
  /\ req[r].quantity \in Nat
  /\ req[r].pc \in {"product", "createCart", "writeItem"} => req[r].op = "add"
  /\ req[r].pc = "deleteItem" => req[r].op = "remove"
  /\ req[r].pc \in Ordering => req[r].op = "checkout"
  /\ req[r].pc \in {"product", "findCart", "createCart"} => req[r].cart = None
  /\ req[r].pc = "writeItem" /\ req[r].existing # None =>
       req[r].existing.id # 0 /\ (~ overlapped => req[r].existing \in items)

OpsOK == \A r \in Requests : Op(r)

\* The places of an add that has written its item.
Written(r) == req[r].pc \in {"readCart", "writeTotal"}

\* What a handler does to the request of r, as far as its item is concerned.
Goes(r) ==
  /\ Alone(r) /\ Asks(r) /\ req[r].pc \in Running
  /\ req'[r].pc \in (Running \ {"product"}) \cup {"done"}
  /\ req'[r].pc \in {"createCart", "writeItem"} => req[r].op = "add"
  /\ req'[r].pc = "deleteItem" => req[r].op = "remove"
  /\ req'[r].pc \in Ordering => req[r].op = "checkout"
  /\ req'[r].pc \in {"findCart", "createCart"} => req'[r].cart = None
  /\ req'[r].pc = "writeItem" /\ req'[r].existing # None => req'[r].existing \in items
  /\ Written(r) => /\ req'[r].cart = req[r].cart /\ req'[r].pc \in {"writeTotal", "done"}
                   /\ req'[r].pc = "done" => req'[r].result \in {"ok", "error"}
  /\ /\ req[r].op = "add"
     /\ Written(r)' \/ (req'[r].pc = "done" /\ req'[r].result = "ok")
     => Written(r) \/ req[r].pc = "writeItem"
  /\ req'[r].pc = "done" /\ req'[r].result = "error" =>
       req'[r].cart = None \/ faults' = faults + 1

\* Finish changes nothing but the place and the result.
LEMMA FinishKeeps ==
  ASSUME CheckoutInv, NEW r \in Requests, NEW a, Finish(r, a)
  PROVE  /\ Alone(r) /\ req'[r].pc = "done" /\ req'[r].result = a /\ Asks(r)
         /\ req'[r].cart = req[r].cart /\ req'[r].existing = req[r].existing
<1> DEFINE q == [req[r] EXCEPT !.pc = "done", !.result = a]
<1>1. IsRequest(req[r])  BY DEF CheckoutInv, RequestsOK
<1>2. /\ IsRequest(q) /\ q.pc = "done" /\ q.result = a
      /\ q.cart = req[r].cart /\ q.existing = req[r].existing
      /\ q.op = req[r].op /\ q.product = req[r].product /\ q.quantity = req[r].quantity
      /\ q.target = req[r].target
  BY <1>1, FieldNames DEF IsRequest
<1>3. req' = [req EXCEPT ![r] = q]  BY DEF Finish
<1> HIDE DEF q
<1>4. Alone(r) /\ req'[r] = q  BY <1>2, <1>3, MovesAlone
<1>5. QED  BY <1>2, <1>4 DEF Asks

\* A request that has found its cart, or none.
LEMMA FindCartGoes ==
  ASSUME CheckoutInv, NEW r \in Requests, Op(r), FindCart(r), LocalsOK
  PROVE  Goes(r)
<1>1. IsRequest(req[r])  BY DEF CheckoutInv, RequestsOK
<1>2. /\ req[r].pc = "findCart" /\ req[r].cart = None /\ req[r].pc \in Running
      /\ ~ Written(r)
  BY DEF FindCart, Op, Running, Written
<1>3. ASSUME NEW a \in {"ok", "refused"}, Finish(r, a), a = "ok" => req[r].op = "get"
      PROVE  Goes(r)
  <2>1. /\ Alone(r) /\ req'[r].pc = "done" /\ req'[r].result = a /\ Asks(r)
        /\ ~ Written(r)'
    BY <1>3, FinishKeeps DEF Written
  <2> QED  BY <1>2, <1>3, <2>1 DEF Goes, Ordering, WithAnOrder
<1>4. CASE Goto(r, "createCart") /\ req[r].op = "add"
  <2>1. /\ Alone(r) /\ req'[r].pc = "createCart" /\ Asks(r) /\ req'[r].cart = None
        /\ ~ Written(r)'
    BY <1>2, <1>4, GotoKeeps DEF Written
  <2> QED  BY <1>2, <1>4, <2>1 DEF Goes, Ordering, WithAnOrder, Running
<1>5. ASSUME NEW q, req' = [req EXCEPT ![r] = q], IsRequest(q),
             q.op = req[r].op, q.product = req[r].product, q.quantity = req[r].quantity,
             q.target = req[r].target,
             \/ q.pc = "writeItem" /\ q.op = "add" /\ (q.existing # None => q.existing \in items)
             \/ q.pc = "readCart" /\ q.op = "get"
             \/ q.pc = "deleteItem" /\ q.op = "remove"
             \/ q.pc = "saveOrder" /\ q.op = "checkout"
      PROVE  Goes(r)
  <2>1. Alone(r) /\ req'[r] = q
    BY <1>5, MovesAlone
  <2>2. Asks(r)
    BY <1>5, <2>1 DEF Asks
  <2>3. q.pc \in Running /\ q.pc # "product" /\ q.pc # "done"
    BY <1>5 DEF Running
  <2> QED  BY <1>2, <1>5, <2>1, <2>2, <2>3 DEF Goes, Written, Ordering, WithAnOrder
<1>6. ASSUME NEW c \in ActiveCarts, WithCart(r, c)  PROVE Goes(r)
  <2>1. ASSUME NEW e \in Existing(c, req[r].product), req[r].op = "add",
               req' = [req EXCEPT ![r].pc = "writeItem", ![r].cart = c, ![r].existing = e]
        PROVE  Goes(r)
    <3> DEFINE q == [req[r] EXCEPT !.pc = "writeItem", !.cart = c, !.existing = e]
    <3>1. /\ IsRequest(q) /\ q.pc = "writeItem" /\ q.existing = e
          /\ q.op = req[r].op /\ q.product = req[r].product
          /\ q.quantity = req[r].quantity /\ q.target = req[r].target
      BY <1>1, FieldNames DEF IsRequest
    <3>2. req' = [req EXCEPT ![r] = q]  BY <2>1
    <3>3. e # None => e \in items  BY DEF Existing, ItemsOfProduct, ItemsOf
    <3> HIDE DEF q
    <3>4. QED  BY <1>5, <2>1, <3>1, <3>2, <3>3
  <2>2. ASSUME NEW p, req' = [req EXCEPT ![r].pc = p, ![r].cart = c],
               \/ p = "readCart" /\ req[r].op = "get"
               \/ p = "deleteItem" /\ req[r].op = "remove"
        PROVE  Goes(r)
    <3> DEFINE q == [req[r] EXCEPT !.pc = p, !.cart = c]
    <3>1. /\ IsRequest(q) /\ q.pc = p
          /\ q.op = req[r].op /\ q.product = req[r].product
          /\ q.quantity = req[r].quantity /\ q.target = req[r].target
      BY <1>1, FieldNames DEF IsRequest
    <3>2. req' = [req EXCEPT ![r] = q]  BY <2>2
    <3> HIDE DEF q
    <3>3. QED  BY <1>5, <2>2, <3>1, <3>2
  <2>3. ASSUME req[r].op = "checkout",
               req' = [req EXCEPT ![r].pc = "saveOrder", ![r].cart = c,
                                  ![r].total = carts[c].total]
        PROVE  Goes(r)
    <3> DEFINE q == [req[r] EXCEPT !.pc = "saveOrder", !.cart = c, !.total = carts[c].total]
    <3>1. /\ IsRequest(q) /\ q.pc = "saveOrder"
          /\ q.op = req[r].op /\ q.product = req[r].product
          /\ q.quantity = req[r].quantity /\ q.target = req[r].target
      BY <1>1, FieldNames DEF IsRequest
    <3>2. req' = [req EXCEPT ![r] = q]  BY <2>3
    <3> HIDE DEF q
    <3>3. QED  BY <1>5, <2>3, <3>1, <3>2
  <2>4. CASE Finish(r, "refused")
    BY <1>3, <2>4
  <2>5. QED  BY <1>6, <2>1, <2>2, <2>3, <2>4 DEF WithCart
<1>7. CASE WithoutCart(r)
  BY <1>3, <1>4, <1>7 DEF WithoutCart
<1>8. QED  BY <1>6, <1>7 DEF FindCart

\* Every step of a handler goes on so.
LEMMA HandlerGoes ==
  ASSUME CheckoutInv, NEW r \in Requests, Op(r), LocalsOK, Handle(r) \/ DatabaseError(r)
  PROVE  Goes(r)
<1>1. IsRequest(req[r])  BY DEF CheckoutInv, RequestsOK
<1> USE DEF Written, Ordering, WithAnOrder
<1>2. CASE FindProduct(r)
  <2>1. /\ req[r].pc = "product" /\ req[r].cart = None
        /\ Goto(r, "findCart") \/ Finish(r, "refused") \/ Finish(r, "error")
    BY <1>2 DEF FindProduct, Op
  <2>2. /\ Alone(r) /\ Asks(r) /\ req'[r].cart = None
        /\ req'[r].pc = "findCart" \/ (req'[r].pc = "done" /\ req'[r].result \in {"refused", "error"})
    BY <2>1, GotoKeeps, FinishKeeps
  <2>3. QED  BY <2>1, <2>2 DEF Goes, Running
<1>3. CASE CreateCart(r)
  <2> DEFINE q == [req[r] EXCEPT !.pc = "writeItem", !.cart = Len(carts) + 1]
  <2>1. req[r].pc = "createCart" /\ req' = [req EXCEPT ![r] = q] /\ req[r].op = "add"
    BY <1>3 DEF CreateCart, Op
  <2>2. req[r].existing = None
    BY <2>1 DEF LocalsOK
  <2>3. /\ IsRequest(q) /\ q.pc = "writeItem" /\ q.existing = req[r].existing
        /\ q.op = req[r].op /\ q.product = req[r].product
        /\ q.quantity = req[r].quantity /\ q.target = req[r].target
    BY <1>1, FieldNames DEF IsRequest
  <2> HIDE DEF q
  <2>4. Alone(r) /\ req'[r] = q  BY <2>1, <2>3, MovesAlone
  <2>5. Asks(r)  BY <2>3, <2>4 DEF Asks
  <2>6. QED  BY <2>1, <2>2, <2>3, <2>4, <2>5 DEF Goes, Running
<1>4. CASE WriteItem(r) \/ DeleteItem(r)
  <2>1. /\ Goto(r, "readCart") /\ req[r].pc \in {"writeItem", "deleteItem"}
        /\ req[r].pc = "deleteItem" => req[r].op = "remove"
    BY <1>4 DEF WriteItem, DeleteItem, Op
  <2>2. Alone(r) /\ Asks(r) /\ req'[r].pc = "readCart"
    BY <2>1, GotoKeeps
  <2>3. QED  BY <2>1, <2>2 DEF Goes, Running
<1>5. CASE ReadCart(r)
  <2> DEFINE t == Sum(ItemsOf(req[r].cart))
             q == [req[r] EXCEPT !.pc = "writeTotal", !.total = t]
  <2>1. req[r].pc = "readCart" /\ req' = [req EXCEPT ![r] = q]
    BY <1>5 DEF ReadCart
  <2>2. /\ IsRequest(q) /\ q.pc = "writeTotal" /\ q.cart = req[r].cart
        /\ q.op = req[r].op /\ q.product = req[r].product
        /\ q.quantity = req[r].quantity /\ q.target = req[r].target
    BY <1>1, FieldNames DEF IsRequest
  <2> HIDE DEF q
  <2>3. Alone(r) /\ req'[r] = q  BY <2>1, <2>2, MovesAlone
  <2>4. Asks(r)  BY <2>2, <2>3 DEF Asks
  <2>5. QED  BY <2>1, <2>2, <2>3, <2>4 DEF Goes, Running
<1>6. CASE WriteTotal(r)
  <2>1. req[r].pc = "writeTotal" /\ Finish(r, "ok")
    BY <1>6 DEF WriteTotal
  <2>2. /\ Alone(r) /\ Asks(r) /\ req'[r].pc = "done" /\ req'[r].result = "ok"
        /\ req'[r].cart = req[r].cart
    BY <2>1, FinishKeeps
  <2>3. QED  BY <2>1, <2>2 DEF Goes, Running
<1>7. CASE SaveOrder(r)
  <2> DEFINE q == [req[r] EXCEPT !.pc = "completeCart", !.order = Len(orders) + 1]
  <2>1. req[r].pc = "saveOrder" /\ req' = [req EXCEPT ![r] = q] /\ req[r].op = "checkout"
    BY <1>7 DEF SaveOrder, Op
  <2>2. /\ IsRequest(q) /\ q.pc = "completeCart"
        /\ q.op = req[r].op /\ q.product = req[r].product
        /\ q.quantity = req[r].quantity /\ q.target = req[r].target
    BY <1>1, FieldNames DEF IsRequest
  <2> HIDE DEF q
  <2>3. Alone(r) /\ req'[r] = q  BY <2>1, <2>2, MovesAlone
  <2>4. Asks(r)  BY <2>2, <2>3 DEF Asks
  <2>5. QED  BY <2>1, <2>2, <2>3, <2>4 DEF Goes, Running
<1>8. CASE CompleteCart(r)
  <2>1. req[r].pc = "completeCart" /\ Goto(r, "publish") /\ req[r].op = "checkout"
    BY <1>8 DEF CompleteCart, Op
  <2>2. Alone(r) /\ Asks(r) /\ req'[r].pc = "publish"
    BY <2>1, GotoKeeps
  <2>3. QED  BY <2>1, <2>2 DEF Goes, Running
<1>9. CASE Publish(r)
  <2>1. req[r].pc = "publish" /\ Finish(r, "ok") /\ req[r].op = "checkout"
    BY <1>9 DEF Publish, Op
  <2>2. Alone(r) /\ Asks(r) /\ req'[r].pc = "done" /\ req'[r].result = "ok"
    BY <2>1, FinishKeeps
  <2>3. QED  BY <2>1, <2>2 DEF Goes, Running
<1>10. CASE DatabaseError(r)
  <2>1. req[r].pc \in Running /\ Finish(r, "error") /\ faults' = faults + 1
    BY <1>10 DEF DatabaseError
  <2>2. /\ Alone(r) /\ Asks(r) /\ req'[r].pc = "done" /\ req'[r].result = "error"
        /\ req'[r].cart = req[r].cart
    BY <2>1, FinishKeeps
  <2>3. QED  BY <2>1, <2>2 DEF Goes
<1>11. QED
  BY <1>2, <1>3, <1>4, <1>5, <1>6, <1>7, <1>8, <1>9, <1>10, FindCartGoes DEF Handle

\* A restart ends what is in flight.
LEMMA RestartEnds ==
  ASSUME CheckoutInv, Restart, NEW r \in Requests
  PROVE  /\ req'[r].quantity = req[r].quantity /\ req'[r].op = req[r].op
         /\ req'[r].cart = req[r].cart
         /\ r \in InFlight => req'[r].pc = "done" /\ req'[r].result = "error"
         /\ r \notin InFlight => req'[r] = req[r]
<1>1. IsRequest(req[r])  BY DEF CheckoutInv, RequestsOK
<1>2. CASE r \in InFlight
  <2>1. req'[r] = [req[r] EXCEPT !.pc = "done", !.result = "error"]
    BY <1>2 DEF Restart
  <2> QED  BY <1>1, <1>2, <2>1, FieldNames DEF IsRequest
<1>3. CASE r \notin InFlight
  BY <1>3 DEF Restart
<1> QED  BY <1>2, <1>3


\* What a request that is made holds.
LEMMA AskedOps ==
  ASSUME NEW a \in Asked
  PROVE  a.quantity \in Nat /\ a.cart = None
<1> USE FieldNames DEF Fields, NotMade
<1>1. ASSUME NEW p \in Products, NEW q \in Quantities, a = AddOf(p, q)
      PROVE  a.quantity \in Nat /\ a.cart = None
  BY <1>1, CheckoutAssumption DEF AddOf, CheckoutAssumption
<1>2. ASSUME NEW t, a = RemovalOf(t)  PROVE a.quantity \in Nat /\ a.cart = None
  BY <1>2 DEF RemovalOf
<1>3. ASSUME NEW op, a = Plain(op)  PROVE a.quantity \in Nat /\ a.cart = None
  BY <1>3 DEF Plain
<1> QED  BY <1>1, <1>2, <1>3 DEF Asked

\* Only the two writes of a handler touch the items.
LEMMA HandlerWrites ==
  ASSUME NEW r \in Requests, Handle(r) \/ DatabaseError(r)
  PROVE  \/ items' = items /\ lastItem' = lastItem
         \/ WriteItem(r) /\ req[r].pc = "writeItem"
         \/ DeleteItem(r) /\ req[r].pc = "deleteItem" /\ items' \subseteq items
BY DEF Handle, FindProduct, FindCart, CreateCart, WriteItem, DeleteItem, ReadCart, WriteTotal,
       SaveOrder, CompleteCart, Publish, DatabaseError, tables

\* Every step keeps what requests hold of what they were asked.
LEMMA OpsStep ==
  ASSUME CheckoutInv, HistoryInv, ItemsInv, OpsOK, [Next]_vars
  PROVE  OpsOK'
<1>1. \A i \in items : i.id # 0
  BY DEF ItemsInv, ItemsOK, IsRow, CheckoutInv, RowsOK
<1>2. ASSUME NEW r \in Requests, Handle(r) \/ DatabaseError(r)  PROVE OpsOK'
  <2>1. Goes(r)  BY <1>2, HandlerGoes DEF OpsOK, ItemsInv
  <2>2. overlapped' = overlapped  BY <1>2, HandlerCounts
  <2>3. Op(r)'
    <3>1. req'[r].pc = "writeItem" => items' = items
      <4>1. WriteItem(r) \/ DeleteItem(r) => req'[r].pc = "readCart"
        BY GotoStep DEF WriteItem, DeleteItem
      <4> QED  BY <1>2, <4>1, HandlerWrites
    <3>2. req'[r].quantity \in Nat /\ req'[r].op = req[r].op
      BY <2>1 DEF Goes, Asks, OpsOK, Op
    <3> QED  BY <1>1, <2>1, <3>1, <3>2 DEF Goes, Op
  <2>4. ASSUME NEW s \in Requests, s # r  PROVE Op(s)'
    <3>1. req'[s] = req[s] /\ Op(s)  BY <2>1, <2>4 DEF Goes, Alone, OpsOK
    <3>2. ~ overlapped => req[s].pc # "writeItem"
      BY <2>1, <2>4 DEF Goes, HistoryInv, OneAtATime, InFlight, Running
    <3> QED  BY <2>2, <3>1, <3>2 DEF Op
  <2> QED  BY <2>3, <2>4 DEF OpsOK
<1>3. ASSUME NEW r \in Requests, Arrive(r)  PROVE OpsOK'
  <2>1. PICK a \in Asked : Made(r, a)  BY <1>3 DEF Arrive
  <2>2. /\ IsRequest(a) /\ a.quantity \in Nat /\ a.cart = None
        /\ a.pc = "product" \/ a.pc = "findCart"
        /\ a.pc = "product" => a.op = "add"
    BY AskedAdds, AskedOps
  <2>3. /\ Alone(r) /\ req'[r] = a /\ items' = items
        /\ overlapped' = (overlapped \/ InFlight # {})
    BY <2>1, <2>2, MovesAlone DEF Made, tables
  <2>4. Op(r)'  BY <2>2, <2>3 DEF Op, Ordering, WithAnOrder
  <2>5. ASSUME NEW s \in Requests, s # r  PROVE Op(s)'
    <3>1. req'[s] = req[s] /\ Op(s)  BY <2>3, <2>5 DEF Alone, OpsOK
    <3>2. req[s].pc = "writeItem" => s \in InFlight
      BY DEF InFlight, Running
    <3>3. ~ overlapped' => ~ overlapped /\ req[s].pc # "writeItem"
      BY <2>3, <3>2
    <3> QED  BY <2>3, <3>1, <3>3 DEF Op
  <2> QED  BY <2>4, <2>5 DEF OpsOK
<1>4. CASE Restart
  <2>1. UNCHANGED <<items, overlapped>>  BY <1>4 DEF Restart, tables
  <2>2. ASSUME NEW s \in Requests  PROVE Op(s)'
    BY <1>4, <2>1, RestartEnds DEF OpsOK, Op, Ordering, WithAnOrder
  <2> QED  BY <2>2 DEF OpsOK
<1>5. CASE LoseChannel \/ UNCHANGED vars
  <2>1. UNCHANGED <<items, overlapped, req>>  BY <1>5 DEF LoseChannel, vars, tables
  <2> QED  BY <2>1 DEF OpsOK, Op
<1> QED  BY <1>2, <1>3, <1>4, <1>5 DEF Next

\* At first no request holds anything.
LEMMA OpsInit == Init => OpsOK
<1> SUFFICES ASSUME Init, NEW r \in Requests PROVE Op(r)
  BY DEF OpsOK
<1>1. req[r] = NotMade  BY DEF Init
<1>2. /\ NotMade.pc = "new" /\ NotMade.quantity = 0
  BY DEF NotMade
<1> QED  BY <1>1, <1>2 DEF Op, Ordering, WithAnOrder

-------------------------------------------------------------------------------
(* The account: which item each add went into *)

Qty            == [r \in Requests |-> req[r].quantity]
Into(w, id)    == {r \in Requests : w[r] = id}
Writers(w)     == {r \in Requests : w[r] # 0}
NoRemovals     == \A r \in Requests : req[r].pc # "new" => req[r].op # "remove"
Share(w, id)   == SumOf(Qty, Into(w, id))

\* The requests that wrote an item, and no others.
WritersOK(w) ==
  /\ \A r \in Writers(w) :
       /\ req[r].op = "add" /\ req[r].cart # None
       /\ Written(r) \/ (req[r].pc = "done" /\ req[r].result \in {"ok", "error"})
  /\ \A r \in Requests :
       req[r].op = "add" /\ (Written(r) \/ (req[r].pc = "done" /\ req[r].result = "ok")) =>
         w[r] # 0

\* An item counts what was written to it at most, also as another request read it.
SharesOK(w) ==
  /\ \A i \in items : i.quantity <= Share(w, i.id)
  /\ \A r \in Requests : req[r].pc = "writeItem" /\ req[r].existing # None =>
       req[r].existing.quantity <= Share(w, req[r].existing.id)

\* And all of it, as long as nothing overlapped or was taken out.
AllThere(w) == ~ overlapped /\ NoRemovals => SumOf(Qty, Writers(w)) <= Pieces(items)

Account(w) == WritersOK(w) /\ SharesOK(w) /\ AllThere(w)
Counted    == \E w \in [Requests -> Nat] : Account(w)

\* There are finitely many requests behind a gateway.
LEMMA FiniteRequests == IsFiniteSet(Requests) /\ IsFiniteSet(Clicks) /\ IsFiniteSet(Attempts)
<1>1. IsFiniteSet(Clicks) /\ IsFiniteSet(Attempts)
  BY FlowAssumption, FS_Interval DEF Clicks, Attempts
<1> QED  BY <1>1, FlowAssumption, FS_Product

\* The rows hold so many pieces less when one is taken out.
LEMMA PiecesTakesOut ==
  ASSUME NEW S, IsFiniteSet(S), \A i \in S : i.quantity \in Nat
  PROVE  /\ Pieces(S) \in Nat
         /\ \A y \in S : Pieces(S) = y.quantity + Pieces(S \ {y})
<1> DEFINE f == [i \in S |-> i.quantity]
<1>1. Pieces(S) = SumOf(f, S)
  BY PiecesAddUp
<1>2. \A i \in S : f[i] \in Nat
  OBVIOUS
<1>3. ASSUME NEW y \in S  PROVE Pieces(S) = y.quantity + Pieces(S \ {y})
  <2> DEFINE g == [i \in S \ {y} |-> i.quantity]
  <2>1. Pieces(S \ {y}) = SumOf(g, S \ {y})
    BY PiecesAddUp
  <2>2. (\A i \in S \ {y} : g[i] = f[i]) /\ f[y] = y.quantity
    OBVIOUS
  <2> HIDE DEF f, g
  <2>3. SumOf(g, S \ {y}) = SumOf(f, S \ {y})
    BY <2>2, SumSame
  <2>4. SumOf(f, S) = f[y] + SumOf(f, S \ {y})
    BY <1>2, SumTakesOut
  <2> QED  BY <1>1, <2>1, <2>2, <2>3, <2>4
<1> HIDE DEF f
<1> QED  BY <1>1, <1>2, <1>3, SumTakesOut

\* What one more writer adds to the shares.
LEMMA SharesGrow ==
  ASSUME NEW w \in [Requests -> Nat], NEW r \in Requests, w[r] = 0, NEW id \in Nat \ {0},
         NEW v \in [Requests -> Nat], v[r] = id, \A s \in Requests \ {r} : v[s] = w[s],
         NEW q, \A s \in Requests : q[s] \in Nat
  PROVE  /\ \A i : i # 0 => /\ SumOf(q, Into(w, i)) \in Nat /\ SumOf(q, Into(v, i)) \in Nat
                            /\ SumOf(q, Into(w, i)) <= SumOf(q, Into(v, i))
         /\ SumOf(q, Into(v, id)) = q[r] + SumOf(q, Into(w, id))
         /\ SumOf(q, Writers(v)) = q[r] + SumOf(q, Writers(w))
         /\ SumOf(q, Writers(w)) \in Nat
<1>1. \A S \in SUBSET Requests : IsFiniteSet(S) /\ \A s \in S : q[s] \in Nat
  BY FiniteRequests, FS_Subset
<1>2. ASSUME NEW i, i # 0
      PROVE  /\ SumOf(q, Into(w, i)) \in Nat /\ SumOf(q, Into(v, i)) \in Nat
             /\ SumOf(q, Into(w, i)) <= SumOf(q, Into(v, i))
  <2>1. PICK A, B : A = Into(w, i) /\ B = Into(v, i)
    OBVIOUS
  <2>2. A \subseteq B /\ B \in SUBSET Requests
    BY <1>2, <2>1 DEF Into
  <2>3. IsFiniteSet(B) /\ \A s \in B : q[s] \in Nat
    BY <1>1, <2>2
  <2> QED  BY <2>1, <2>2, <2>3, SumGrows
<1>3. ASSUME NEW A \in SUBSET Requests, NEW B \in SUBSET Requests, r \in B, A = B \ {r}
      PROVE  SumOf(q, B) = q[r] + SumOf(q, A) /\ SumOf(q, A) \in Nat
  BY <1>1, <1>3, SumTakesOut
<1>4. SumOf(q, Into(v, id)) = q[r] + SumOf(q, Into(w, id))
  <2>1. r \in Into(v, id) /\ Into(w, id) = Into(v, id) \ {r}
    BY DEF Into
  <2>2. Into(v, id) \in SUBSET Requests /\ Into(w, id) \in SUBSET Requests
    BY DEF Into
  <2> QED  BY <1>3, <2>1, <2>2
<1>5. SumOf(q, Writers(v)) = q[r] + SumOf(q, Writers(w)) /\ SumOf(q, Writers(w)) \in Nat
  <2>1. r \in Writers(v) /\ Writers(w) = Writers(v) \ {r}
    BY DEF Writers
  <2>2. Writers(v) \in SUBSET Requests /\ Writers(w) \in SUBSET Requests
    BY DEF Writers
  <2> QED  BY <1>3, <2>1, <2>2
<1> QED  BY <1>2, <1>4, <1>5

\* The account stands when no item is written.
LEMMA AccountStands ==
  ASSUME NEW w \in [Requests -> Nat], Account(w), OpsOK', ItemsOK, WritersOK(w)',
         items' \subseteq items, items' = items \/ ~ NoRemovals',
         NoRemovals' => NoRemovals, ~ overlapped' => ~ overlapped,
         \A r \in Writers(w) : req'[r].quantity = req[r].quantity,
         \A r \in Requests : req'[r].pc = "writeItem" /\ req'[r].existing # None =>
           \/ req'[r].existing \in items
           \/ req[r].pc = "writeItem" /\ req'[r].existing = req[r].existing
  PROVE  Account(w)'
<1>1. PICK f, g : f = Qty /\ g = [r \in Requests |-> req'[r].quantity]
  OBVIOUS
<1>2. \A r \in Writers(w) : f[r] = g[r]
  BY <1>1 DEF Qty, Writers
<1>3. ASSUME NEW id, id # 0  PROVE SumOf(g, Into(w, id)) = SumOf(f, Into(w, id))
  <2>1. \A r \in Into(w, id) : g[r] = f[r]
    BY <1>2, <1>3 DEF Into, Writers
  <2> QED  BY <2>1, SumSame
<1>4. SumOf(g, Writers(w)) = SumOf(f, Writers(w))
  BY <1>2, SumSame
<1>5. Qty' = g
  BY <1>1 DEF Qty
<1>6. \A i \in items : i.id # 0
  BY DEF ItemsOK, IsRow
<1>7. SharesOK(w)'
  <2>1. ASSUME NEW i \in items'  PROVE i.quantity <= SumOf(g, Into(w, i.id))
    <3>1. i \in items /\ i.id # 0  BY <1>6
    <3>2. i.quantity <= SumOf(f, Into(w, i.id))
      BY <1>1, <3>1 DEF Account, SharesOK, Share
    <3> QED  BY <1>3, <3>1, <3>2
  <2>2. ASSUME NEW r \in Requests, req'[r].pc = "writeItem", req'[r].existing # None
        PROVE  req'[r].existing.quantity <= SumOf(g, Into(w, req'[r].existing.id))
    <3>1. PICK e : e = req'[r].existing
      OBVIOUS
    <3>2. e.id # 0
      BY <2>2, <3>1 DEF OpsOK, Op
    <3>3. e.quantity <= SumOf(f, Into(w, e.id))
      BY <1>1, <2>2, <3>1 DEF Account, SharesOK, Share
    <3> QED  BY <1>3, <3>1, <3>2, <3>3
  <2> QED  BY <1>5, <2>1, <2>2 DEF SharesOK, Share, Into
<1>8. AllThere(w)'
  <2>1. ASSUME ~ overlapped', NoRemovals'  PROVE SumOf(g, Writers(w)) <= Pieces(items')
    <3>1. SumOf(f, Writers(w)) <= Pieces(items) /\ items' = items
      BY <1>1, <2>1 DEF Account, AllThere
    <3> QED  BY <1>4, <3>1
  <2> QED  BY <1>5, <2>1 DEF AllThere, Writers
<1> QED  BY <1>7, <1>8 DEF Account

\* What a request asks for stays the same in every step of a handler.
LEMMA SameRemovals ==
  ASSUME NEW r \in Requests, Goes(r)
  PROVE  NoRemovals' => NoRemovals
<1>1. req[r].pc # "new" /\ req'[r].pc # "new" /\ req'[r].op = req[r].op
  BY DEF Goes, Asks, Running
<1> QED  BY <1>1 DEF NoRemovals, Goes, Alone

\* The writers of the account after a step that writes no item of an add.
LEMMA WritersStand ==
  ASSUME NEW w, WritersOK(w), NEW r \in Requests, Goes(r), req[r].pc # "writeItem"
  PROVE  WritersOK(w)'
<1>1. \A s \in Requests \ {r} : req'[s] = req[s]
  BY DEF Goes, Alone
<1>2. req'[r].op = req[r].op /\ req[r].pc # "done"
  BY DEF Goes, Asks, Running
<1>3. ASSUME w[r] # 0
      PROVE  /\ req'[r].op = "add" /\ req'[r].cart # None
             /\ Written(r)' \/ (req'[r].pc = "done" /\ req'[r].result \in {"ok", "error"})
  <2>1. req[r].op = "add" /\ req[r].cart # None /\ Written(r)
    BY <1>2, <1>3 DEF WritersOK, Writers
  <2> QED  BY <1>2, <2>1 DEF Goes, Written
<1>4. ASSUME req'[r].op = "add", Written(r)' \/ (req'[r].pc = "done" /\ req'[r].result = "ok")
      PROVE  w[r] # 0
  <2>1. req[r].op = "add" /\ Written(r)
    BY <1>2, <1>4 DEF Goes
  <2> QED  BY <2>1 DEF WritersOK
<1> QED  BY <1>1, <1>3, <1>4 DEF WritersOK, Writers, Written

\* Writing an item puts the request into the account.
LEMMA WriteItemCounts ==
  ASSUME CheckoutInv, HistoryInv, ItemsInv, OpsOK, OpsOK', NEW r \in Requests, WriteItem(r), Goes(r),
         NEW w \in [Requests -> Nat], Account(w)
  PROVE  Counted'
<1> DEFINE id == IF req[r].existing = None THEN lastItem + 1 ELSE req[r].existing.id
<1>1. /\ req[r].pc = "writeItem" /\ req[r].op = "add" /\ req'[r].pc = "readCart"
      /\ req'[r].cart = req[r].cart /\ req'[r].op = "add" /\ lastItem \in Nat
      /\ req[r].existing # None => req[r].existing \in CartItem /\ req[r].existing.id # 0
      /\ ItemsOK /\ Local(r) /\ overlapped' = overlapped
  <2>1. req[r].pc = "writeItem" /\ Op(r) /\ Goto(r, "readCart") /\ overlapped' = overlapped
    BY DEF WriteItem, OpsOK
  <2>2. req'[r].pc = "readCart" /\ req'[r].cart = req[r].cart /\ Asks(r)
    BY <2>1, GotoKeeps
  <2> QED  BY <2>1, <2>2 DEF Op, Asks, ItemsInv, LocalsOK, Local, CheckoutInv, RowsOK
<1>2. id \in Nat \ {0}
  BY <1>1, CheckoutAssumption, RowFields
<1>3. req[r].cart # None
  <2>1. req[r].cart \in DOMAIN carts /\ DOMAIN carts \subseteq Nat
    <3>1. Len(carts) \in Nat /\ DOMAIN carts = 1..Len(carts)
      BY DEF CheckoutInv, RowsOK, IsSequence
    <3> QED  BY <1>1, <3>1 DEF CheckoutInv, RowsOK, RequestsOK, WithACart
  <2> QED  BY <2>1, CheckoutAssumption DEF CheckoutAssumption
<1>4. w[r] = 0
  BY <1>1 DEF Account, WritersOK, Writers, Written
<1>5. PICK v : v = [w EXCEPT ![r] = id]
  OBVIOUS
<1>6. v \in [Requests -> Nat] /\ v[r] # 0 /\ \A s \in Requests \ {r} : v[s] = w[s]
  BY <1>2, <1>5
<1>7. PICK q : q = Qty
  OBVIOUS
<1>8. /\ \A s \in Requests : q[s] \in Nat
      /\ Qty' = q /\ q[r] = req[r].quantity
  BY <1>7 DEF Qty, OpsOK, Op, Goes, Alone, Asks
<1>9. PICK m : m = id
  OBVIOUS
<1>10. /\ \A i : i # 0 => /\ SumOf(q, Into(w, i)) \in Nat /\ SumOf(q, Into(v, i)) \in Nat
                          /\ SumOf(q, Into(w, i)) <= SumOf(q, Into(v, i))
       /\ SumOf(q, Into(v, m)) = q[r] + SumOf(q, Into(w, m))
       /\ SumOf(q, Writers(v)) = q[r] + SumOf(q, Writers(w))
       /\ SumOf(q, Writers(w)) \in Nat
  <2>1. /\ m \in Nat \ {0} /\ v \in [Requests -> Nat] /\ v[r] = m
        /\ \A s \in Requests \ {r} : v[s] = w[s]
    BY <1>2, <1>5, <1>6, <1>9
  <2>2. \A s \in Requests : q[s] \in Nat
    BY <1>8
  <2> HIDE DEF id
  <2> QED  BY <1>4, <2>1, <2>2, SharesGrow
<1>11. /\ \A i \in items : i \in CartItem /\ i.id # 0 /\ i.quantity \in Nat
                           /\ i.quantity <= SumOf(q, Into(w, i.id))
       /\ \A s \in Requests : req[s].pc = "writeItem" /\ req[s].existing # None =>
             /\ req[s].existing.id # 0 /\ req[s].existing.quantity \in Nat
             /\ req[s].existing.quantity <= SumOf(q, Into(w, req[s].existing.id))
  <2>1. ASSUME NEW i \in items
        PROVE  i \in CartItem /\ i.id # 0 /\ i.quantity \in Nat
               /\ i.quantity <= SumOf(q, Into(w, i.id))
    BY <1>1, <1>7, <2>1, RowFields, CheckoutAssumption
       DEF ItemsOK, IsRow, Account, SharesOK, Share
  <2>2. ASSUME NEW s \in Requests, req[s].pc = "writeItem", req[s].existing # None
        PROVE  /\ req[s].existing.id # 0 /\ req[s].existing.quantity \in Nat
               /\ req[s].existing.quantity <= SumOf(q, Into(w, req[s].existing.id))
    BY <1>7, <2>2, RowFields, CheckoutAssumption
       DEF ItemsInv, LocalsOK, OpsOK, Op, Account, SharesOK, Share
  <2> QED  BY <2>1, <2>2
<1>12. WritersOK(v)'
  <2>1. \A s \in Requests \ {r} : req'[s] = req[s]
    BY DEF Goes, Alone
  <2>2. Written(r)' /\ req'[r].op = "add" /\ req'[r].cart # None
    BY <1>1, <1>3 DEF Written
  <2> QED  BY <1>6, <2>1, <2>2 DEF Account, WritersOK, Writers, Written
<1>13. ASSUME NEW i \in items  PROVE i.quantity <= SumOf(q, Into(v, i.id))
  BY <1>10, <1>11
<1>14. \A i \in items' : i.quantity <= SumOf(q, Into(v, i.id))
  <2>1. CASE req[r].existing = None /\ items' = items \cup {NewItem(r)}
    <3>1. NewItem(r).id = m /\ NewItem(r).quantity = q[r]
      BY <1>1, <1>8, <1>9, <2>1, NewRow, CheckoutAssumption
    <3>2. q[r] <= SumOf(q, Into(v, m))
      BY <1>2, <1>8, <1>9, <1>10
    <3> QED  BY <1>13, <2>1, <3>1, <3>2
  <2>2. CASE items' = items
    BY <1>13, <2>2
  <2>3. ASSUME req[r].existing # None, NEW j \in items, j.id = req[r].existing.id,
               items' = (items \ {j}) \cup
                          {WithQuantity(j, req[r].existing.quantity + req[r].quantity)}
        PROVE  \A i \in items' : i.quantity <= SumOf(q, Into(v, i.id))
    <3>1. PICK n, p : /\ n = req[r].existing.quantity + req[r].quantity
                      /\ p = WithQuantity(j, n)
      OBVIOUS
    <3>2. /\ req[r].existing.quantity \in Nat /\ q[r] \in Nat /\ m = j.id /\ m # 0
          /\ req[r].existing.quantity <= SumOf(q, Into(w, m))
      BY <1>1, <1>2, <1>8, <1>9, <1>11, <2>3
    <3>3. n \in Nat /\ n = req[r].existing.quantity + q[r]
      BY <1>8, <3>1, <3>2
    <3>4. p.id = m /\ p.quantity = n
      BY <1>11, <3>1, <3>2, <3>3, ChangedRow, CheckoutAssumption
    <3>5. n <= SumOf(q, Into(v, m))
      BY <1>10, <3>2, <3>3
    <3>6. items' = (items \ {j}) \cup {p}
      BY <2>3, <3>1
    <3> QED  BY <1>13, <3>4, <3>5, <3>6
  <2> QED  BY <1>1, <2>1, <2>2, <2>3, WriteItemWrites
<1>15. ASSUME NEW s \in Requests, req'[s].pc = "writeItem", req'[s].existing # None
       PROVE  req'[s].existing.quantity <= SumOf(q, Into(v, req'[s].existing.id))
  <2>1. s # r /\ req'[s] = req[s]
    BY <1>1, <1>15 DEF Goes, Alone
  <2>2. PICK e : e = req[s].existing
    OBVIOUS
  <2>3. e.id # 0 /\ e.quantity \in Nat /\ e.quantity <= SumOf(q, Into(w, e.id))
    BY <1>11, <1>15, <2>1, <2>2
  <2>4. e.quantity <= SumOf(q, Into(v, e.id))
    BY <1>10, <2>3
  <2> QED  BY <2>1, <2>2, <2>4
<1>16. ASSUME ~ overlapped', NoRemovals'  PROVE SumOf(q, Writers(v)) <= Pieces(items')
  <2>1. SumOf(q, Writers(w)) <= Pieces(items)
    BY <1>1, <1>7, <1>16, SameRemovals DEF Account, AllThere
  <2>2. /\ IsFiniteSet(items) /\ IsFiniteSet(items')
        /\ \A i \in items : i.quantity \in Nat
        /\ \A i \in items' : i.quantity \in Nat
    <3>1. ItemsOK'
      BY WriteItemRows
    <3> QED  BY <1>1, <3>1, RowFields, CheckoutAssumption DEF ItemsOK, IsRow
  <2>3. ASSUME NEW x \in items', NEW n \in Nat, x.quantity = n + q[r],
               Pieces(items) = n + Pieces(items' \ {x})
        PROVE  SumOf(q, Writers(v)) <= Pieces(items')
    <3>1. PICK T : T = items'
      OBVIOUS
    <3>2. Pieces(T) = x.quantity + Pieces(T \ {x}) /\ IsFiniteSet(T \ {x})
      BY <2>2, <2>3, <3>1, PiecesTakesOut, FS_RemoveElement
    <3>3. Pieces(T \ {x}) \in Nat
      BY <2>2, <3>1, <3>2, PiecesTakesOut
    <3> QED  BY <1>8, <1>10, <2>1, <2>3, <3>1, <3>2, <3>3
  <2>4. CASE req[r].existing = None
    <3>1. items' = items \cup {NewItem(r)}
      BY <2>4 DEF WriteItem
    <3>2. PICK x : x = NewItem(r)
      OBVIOUS
    <3>3. x.id = lastItem + 1 /\ x.quantity = q[r]
      BY <1>1, <1>8, <3>2, NewRow, CheckoutAssumption
    <3>4. x \notin items
      BY <1>1, <3>3 DEF ItemsOK, IsRow
    <3>5. items' \ {x} = items /\ x \in items'
      BY <3>1, <3>2, <3>4
    <3>6. Pieces(items) \in Nat
      BY <2>2, PiecesTakesOut
    <3> QED  BY <1>8, <2>3, <3>3, <3>5, <3>6
  <2>5. CASE req[r].existing # None
    <3>1. PICK e : e = req[r].existing
      OBVIOUS
    <3>2. e \in items /\ e \in CartItem /\ e.quantity \in Nat
      BY <1>1, <1>11, <1>16, <2>5, <3>1 DEF OpsOK, Op
    <3>3. PICK n, p : n = e.quantity + q[r] /\ p = WithQuantity(e, n)
      OBVIOUS
    <3>4. n \in Nat /\ p.id = e.id /\ p.quantity = n /\ p.quantity = e.quantity + q[r]
      <4>1. n \in Nat
        BY <1>8, <3>2, <3>3
      <4> QED  BY <3>2, <3>3, <4>1, ChangedRow, CheckoutAssumption
    <3>5. \A i \in items : i.id = e.id => i = e
      BY <1>1, <3>2 DEF ItemsOK
    <3>6. items' = (items \ {e}) \cup {p}
      <4>1. items' = {IF i.id = e.id THEN WithQuantity(i, n) ELSE i : i \in items}
        BY <1>8, <2>5, <3>1, <3>3 DEF WriteItem
      <4> QED  BY <3>2, <3>3, <3>5, <4>1
    <3>7. items' \ {p} = items \ {e} /\ p \in items'
      BY <3>4, <3>5, <3>6
    <3>8. Pieces(items) = e.quantity + Pieces(items \ {e})
      BY <2>2, <3>2, PiecesTakesOut
    <3> QED  BY <2>3, <3>2, <3>4, <3>7, <3>8
  <2> QED  BY <2>4, <2>5
<1>17. Account(v)'
  <2>1. SharesOK(v)'
    BY <1>8, <1>14, <1>15 DEF SharesOK, Share, Into
  <2>2. AllThere(v)'
    BY <1>8, <1>16 DEF AllThere, Writers
  <2> QED  BY <1>12, <2>1, <2>2 DEF Account
<1> QED  BY <1>6, <1>17 DEF Counted

\* The account that stands is one.
LEMMA StillCounted ==
  ASSUME NEW w \in [Requests -> Nat], Account(w)'
  PROVE  Counted'
BY DEF Counted

\* Every step keeps an account of what was added.
LEMMA CountedStep ==
  ASSUME CheckoutInv, HistoryInv, ItemsInv, OpsOK, Counted, [Next]_vars
  PROVE  Counted'
<1>1. OpsOK' /\ ItemsOK
  BY OpsStep DEF ItemsInv
<1>2. PICK w \in [Requests -> Nat] : Account(w)
  BY DEF Counted
<1>3. WritersOK(w)
  BY <1>2 DEF Account
<1>4. ASSUME NEW r \in Requests, Handle(r) \/ DatabaseError(r)  PROVE Counted'
  <2>1. Goes(r)  BY <1>4, HandlerGoes DEF OpsOK, ItemsInv
  <2>2. overlapped' = overlapped  BY <1>4, HandlerCounts
  <2>3. CASE WriteItem(r)
    BY <1>1, <1>2, <2>1, <2>3, WriteItemCounts
  <2>4. CASE req[r].pc # "writeItem"
    <3>1. WritersOK(w)'
      BY <1>3, <2>1, <2>4, WritersStand
    <3>2. NoRemovals' => NoRemovals
      BY <2>1, SameRemovals
    <3>3. items' \subseteq items /\ (items' = items \/ ~ NoRemovals')
      <4>1. CASE items' = items
        BY <4>1
      <4>2. CASE req[r].pc = "deleteItem" /\ items' \subseteq items
        <5>1. req[r].op = "remove" /\ req[r].pc # "new"
          BY <4>2 DEF OpsOK, Op
        <5>2. ~ NoRemovals'
          BY <3>2, <5>1 DEF NoRemovals
        <5> QED  BY <4>2, <5>2
      <4> QED  BY <1>4, <2>4, <4>1, <4>2, HandlerWrites
    <3>4. \A s \in Requests : req'[s].quantity = req[s].quantity
      BY <2>1 DEF Goes, Alone, Asks
    <3>5. \A s \in Requests : req'[s].pc = "writeItem" /\ req'[s].existing # None =>
            \/ req'[s].existing \in items
            \/ req[s].pc = "writeItem" /\ req'[s].existing = req[s].existing
      BY <2>1 DEF Goes, Alone
    <3>6. Account(w)'
      BY <1>1, <1>2, <2>2, <3>1, <3>2, <3>3, <3>4, <3>5, AccountStands DEF Writers
    <3> QED  BY <3>6, StillCounted
  <2>5. CASE req[r].pc = "writeItem" /\ ~ WriteItem(r)
    <3>1. DatabaseError(r) /\ items' = items
      BY <1>4, <2>5 DEF Handle, FindProduct, FindCart, CreateCart, DeleteItem, ReadCart,
         WriteTotal, SaveOrder, CompleteCart, Publish, DatabaseError, tables
    <3>2. req'[r].pc = "done" /\ req'[r].result = "error"
      BY <3>1, FinishKeeps DEF DatabaseError
    <3>3. WritersOK(w)'
      <4>1. \A s \in Requests \ {r} : req'[s] = req[s]
        BY <2>1 DEF Goes, Alone
      <4>2. w[r] = 0
        BY <1>3, <2>5 DEF WritersOK, Writers, Written
      <4>3. ~ Written(r)'
        BY <3>2 DEF Written
      <4> QED  BY <1>3, <3>2, <4>1, <4>2, <4>3 DEF WritersOK, Writers, Written
    <3>4. NoRemovals' => NoRemovals
      BY <2>1, SameRemovals
    <3>5. \A s \in Requests : req'[s].quantity = req[s].quantity
      BY <2>1 DEF Goes, Alone, Asks
    <3>6. \A s \in Requests : req'[s].pc = "writeItem" =>
            req[s].pc = "writeItem" /\ req'[s].existing = req[s].existing
      BY <2>1, <3>2 DEF Goes, Alone
    <3>7. Account(w)'
      BY <1>1, <1>2, <2>2, <3>1, <3>3, <3>4, <3>5, <3>6, AccountStands DEF Writers
    <3> QED  BY <3>7, StillCounted
  <2> QED  BY <2>3, <2>4, <2>5
<1>5. ASSUME NEW r \in Requests, Arrive(r)  PROVE Counted'
  <2>1. PICK a \in Asked : Made(r, a)  BY <1>5 DEF Arrive
  <2>2. /\ IsRequest(a) /\ a.existing = None /\ a.pc \in {"product", "findCart"}
    BY AskedAdds
  <2>3. /\ Alone(r) /\ req'[r] = a /\ items' = items /\ req[r].pc = "new"
        /\ overlapped' = (overlapped \/ InFlight # {})
    BY <2>1, <2>2, MovesAlone DEF Made, tables
  <2>4. \A s \in Requests \ {r} : req'[s] = req[s]
    BY <2>3 DEF Alone
  <2>5. w[r] = 0
    BY <1>3, <2>3 DEF WritersOK, Writers, Written
  <2>6. WritersOK(w)'
    <3>1. ~ Written(r)' /\ req'[r].pc # "done"
      BY <2>2, <2>3 DEF Written
    <3> QED  BY <1>3, <2>4, <2>5, <3>1 DEF WritersOK, Writers, Written
  <2>7. NoRemovals' => NoRemovals
    BY <2>3, <2>4 DEF NoRemovals
  <2>8. ~ overlapped' => ~ overlapped
    BY <2>3
  <2>9. \A s \in Writers(w) : req'[s].quantity = req[s].quantity
    BY <2>4, <2>5 DEF Writers
  <2>10. \A s \in Requests : req'[s].pc = "writeItem" =>
            req[s].pc = "writeItem" /\ req'[s].existing = req[s].existing
    BY <2>2, <2>3, <2>4
  <2>11. Account(w)'
    BY <1>1, <1>2, <2>3, <2>6, <2>7, <2>8, <2>9, <2>10, AccountStands
  <2> QED  BY <2>11, StillCounted
<1>6. CASE Restart
  <2>1. UNCHANGED <<items, overlapped>>  BY <1>6 DEF Restart, tables
  <2>2. ASSUME NEW s \in Requests
        PROVE  /\ req'[s].quantity = req[s].quantity /\ req'[s].op = req[s].op
               /\ req'[s].cart = req[s].cart
               /\ s \in InFlight => req'[s].pc = "done" /\ req'[s].result = "error"
               /\ s \notin InFlight => req'[s] = req[s]
    BY <1>6, RestartEnds
  <2>3. WritersOK(w)'
    <3>1. \A s \in Requests : Written(s) => s \in InFlight
      BY DEF Written, InFlight, Running
    <3>2. ASSUME NEW s \in Requests, w[s] # 0
          PROVE  /\ req'[s].op = "add" /\ req'[s].cart # None
                 /\ Written(s)' \/ (req'[s].pc = "done" /\ req'[s].result \in {"ok", "error"})
      BY <1>3, <2>2, <3>1, <3>2 DEF WritersOK, Writers, Written
    <3>3. ASSUME NEW s \in Requests, req'[s].op = "add",
                 Written(s)' \/ (req'[s].pc = "done" /\ req'[s].result = "ok")
          PROVE  w[s] # 0
      <4>1. s \notin InFlight
        BY <2>2, <3>3 DEF Written
      <4> QED  BY <1>3, <2>2, <3>3, <4>1 DEF WritersOK, Written
    <3> QED  BY <3>2, <3>3 DEF WritersOK, Writers
  <2>4. NoRemovals' => NoRemovals
    <3>1. \A s \in Requests : req[s].pc # "new" => req'[s].pc # "new"
      BY <2>2
    <3> QED  BY <2>2, <3>1 DEF NoRemovals
  <2>5. \A s \in Requests : req'[s].pc = "writeItem" =>
            req[s].pc = "writeItem" /\ req'[s].existing = req[s].existing
    BY <2>2
  <2>6. Account(w)'
    BY <1>1, <1>2, <2>1, <2>2, <2>3, <2>4, <2>5, AccountStands DEF Writers
  <2> QED  BY <2>6, StillCounted
<1>7. CASE LoseChannel \/ UNCHANGED vars
  <2>1. UNCHANGED <<items, overlapped, req>>  BY <1>7 DEF LoseChannel, vars, tables
  <2>2. WritersOK(w)' /\ (NoRemovals' => NoRemovals)
    BY <1>3, <2>1 DEF WritersOK, Writers, Written, NoRemovals
  <2>3. Account(w)'
    BY <1>1, <1>2, <2>1, <2>2, AccountStands
  <2> QED  BY <2>3, StillCounted
<1> QED  BY <1>4, <1>5, <1>6, <1>7 DEF Next

\* Nothing was added at first.
LEMMA CountedInit == Init => Counted
<1> SUFFICES ASSUME Init PROVE Counted
  OBVIOUS
<1>1. PICK w : w = [r \in Requests |-> 0]
  OBVIOUS
<1>2. w \in [Requests -> Nat] /\ Writers(w) = {} /\ items = {}
  BY <1>1 DEF Writers, Init
<1>3. \A r \in Requests : req[r].pc = "new"
  BY DEF Init, NotMade
<1>4. WritersOK(w) /\ SharesOK(w)
  BY <1>2, <1>3 DEF WritersOK, SharesOK, Written
<1>5. AllThere(w)
  <2>1. SumOf(Qty, Writers(w)) = 0
    BY <1>2, SumEmpty
  <2>2. Pieces(items) \in Nat
    BY <1>2, PiecesTakesOut, FS_EmptySet
  <2> QED  BY <2>1, <2>2 DEF AllThere
<1> QED  BY <1>2, <1>4, <1>5 DEF Counted, Account

\* However many requests add, whatever fails: the items of the carts can be
\* accounted for by the adds that wrote them.
AddsInv == OpsOK /\ Counted

\* It is an invariant of the service.
LEMMA AddsInvariant == Spec => [](ShopInv /\ AddsInv)
<1>1. Init => AddsInv
  BY OpsInit, CountedInit DEF AddsInv
<1>2. ShopInv /\ AddsInv /\ [Next]_vars => AddsInv'
  BY OpsStep, CountedStep DEF ShopInv, AddsInv
<1> QED  BY <1>1, <1>2, ShopInvariant, PTL DEF Spec

-------------------------------------------------------------------------------
(* What the attempts of a click ask for, and what became of them *)

\* The attempts a click has made ask what it asks, a click that was answered
\* with success got that from its last attempt, and the clicks before one that
\* was made are answered.
Told(k) ==
  /\ \A n \in Attempts : req[<<k, n>>].pc # "new" =>
       /\ click[k].phase # "idle" /\ n <= click[k].attempt
       /\ req[<<k, n>>].op = click[k].asked.op
       /\ req[<<k, n>>].quantity = click[k].asked.quantity
  /\ click[k].phase = "answered" /\ click[k].answer = "ok" =>
       /\ click[k].attempt \in Attempts
       /\ req[<<k, click[k].attempt>>].pc = "done"
       /\ req[<<k, click[k].attempt>>].result = "ok"
  /\ click[k].phase = "idle" => click[k].asked = NotMade /\ click[k].answer = None
  /\ click[k].phase # "idle" => \A j \in 1..(k - 1) : click[j].phase = "answered"
  /\ click[k].asked.quantity \in Nat

AllTold == \A k \in Clicks : Told(k)

\* What a step of the gateway says to its click.
GatewayTells(k) ==
  /\ click[k].phase # "answered" /\ click'[k].phase # "idle"
  /\ \A j \in 1..(k - 1) : click[j].phase = "answered"
  /\ click'[k].asked.quantity \in Nat
  /\ click[k].phase # "idle" =>
       click'[k].asked = click[k].asked /\ click[k].attempt <= click'[k].attempt
  /\ \/ UNCHANGED vars
     \/ /\ click'[k].phase = "waiting" /\ click'[k].attempt \in Attempts
        /\ click'[k].asked \in Asked /\ Made(<<k, click'[k].attempt>>, click'[k].asked)
  /\ click'[k].phase = "answered" /\ click'[k].answer = "ok" =>
       /\ UNCHANGED vars /\ click'[k].attempt \in Attempts
       /\ req[<<k, click'[k].attempt>>].pc = "done"
       /\ req[<<k, click'[k].attempt>>].result = "ok"

\* A click that becomes what its step says.
LEMMA BecomesTells ==
  ASSUME FlowTypes, NEW k \in Clicks, Told(k), NEW p, NEW n, NEW a, NEW v,
         Becomes(k, p, n, a, v), p # "idle", a.quantity \in Nat,
         \/ click[k].phase = "idle" /\ \A j \in 1..(k - 1) : click[j].phase = "answered"
         \/ /\ click[k].phase \in {"waiting", "backoff"}
            /\ a = click[k].asked /\ click[k].attempt <= n,
         \/ UNCHANGED vars
         \/ p = "waiting" /\ n \in Attempts /\ a \in Asked /\ Made(<<k, n>>, a),
         p = "answered" /\ v = "ok" =>
           /\ UNCHANGED vars /\ n \in Attempts
           /\ req[<<k, n>>].pc = "done" /\ req[<<k, n>>].result = "ok"
  PROVE  GatewayTells(k)
<1>1. /\ click'[k].phase = p /\ click'[k].attempt = n
      /\ click'[k].asked = a /\ click'[k].answer = v
  BY BecomesStep
<1>2. \A j \in 1..(k - 1) : click[j].phase = "answered"
  BY DEF Told
<1> QED  BY <1>1, <1>2 DEF GatewayTells

\* How far a click has got.
LEMMA AttemptNumber ==
  ASSUME FlowTypes, AllTold, NEW k \in Clicks
  PROVE  /\ Told(k) /\ click[k].asked.quantity \in Nat /\ click[k].attempt \in Nat
         /\ click[k].phase = "waiting" => click[k].attempt \in Attempts
<1>1. ClickTyped(k) /\ Told(k)  BY DEF FlowTypes, AllTold
<1>2. click[k].attempt \in Nat /\ (click[k].phase = "waiting" => click[k].attempt \in Attempts)
  BY <1>1, FlowAssumption DEF ClickTyped
<1>3. click[k].asked.quantity \in Nat  BY <1>1 DEF Told
<1> QED  BY <1>1, <1>2, <1>3

\* An attempt that failed, of a click that was not answered before.
LEMMA FailedTells ==
  ASSUME FlowTypes, NEW k \in Clicks, Told(k), NEW n, NEW a, a.quantity \in Nat,
         \/ AttemptFailed(k, n, a)
         \/ \E v : Concluded(k, n, a, v) /\ v # "ok",
         UNCHANGED vars,
         \/ click[k].phase = "idle" /\ \A j \in 1..(k - 1) : click[j].phase = "answered"
         \/ /\ click[k].phase \in {"waiting", "backoff"}
            /\ a = click[k].asked /\ click[k].attempt <= n
  PROVE  GatewayTells(k)
<1>1. ASSUME NEW p, NEW v, Becomes(k, p, n, a, v), p # "idle", ~ (p = "answered" /\ v = "ok")
      PROVE  GatewayTells(k)
  BY <1>1, BecomesTells
<1> QED  BY <1>1 DEF AttemptFailed, Concluded

\* An attempt of a click that waits for nothing.
LEMMA AttemptTells ==
  ASSUME FlowTypes, NEW k \in Clicks, Told(k), NEW n \in Attempts, NEW a \in Asked,
         Attempt(k, n, a) \/ TokenExpired(k, n, a),
         \/ click[k].phase = "idle" /\ \A j \in 1..(k - 1) : click[j].phase = "answered"
         \/ /\ click[k].phase = "backoff"
            /\ a = click[k].asked /\ click[k].attempt <= n
  PROVE  GatewayTells(k)
<1>1. a.quantity \in Nat
  BY AskedOps
<1>2. CASE Becomes(k, "waiting", n, a, None) /\ Made(<<k, n>>, a)
  BY <1>1, <1>2, BecomesTells
<1>3. CASE AttemptFailed(k, n, a) /\ UNCHANGED vars
  BY <1>1, <1>3, FailedTells
<1>4. CASE Concluded(k, n, a, "unauthorized") /\ UNCHANGED vars
  <2>1. \E v : Concluded(k, n, a, v) /\ v # "ok"
    BY <1>4
  <2>2. CASE click[k].phase = "idle"
    BY <1>1, <1>4, <2>1, <2>2, FailedTells
  <2>3. CASE click[k].phase = "backoff"
    BY <1>1, <1>4, <2>1, <2>3, FailedTells
  <2> QED  BY <2>2, <2>3
<1> QED  BY <1>2, <1>3, <1>4 DEF Attempt, TokenExpired

\* Every step of the gateway tells and moves its click so.
LEMMA FlowTells ==
  ASSUME CheckoutInv, FlowTypes, AllTold, FlowNext
  PROVE  ServiceStep \/ \E k \in Clicks : GatewayMoves(k) /\ GatewayTells(k)
<1>1. Asked \subseteq Asked'  BY FlowIsStep, AskedGrows
<1>2. NotMade.quantity \in Nat
  BY DEF NotMade
<1>3. ASSUME NEW k \in Clicks, Click(k)  PROVE GatewayMoves(k) /\ GatewayTells(k)
  <2>1. /\ click[k].phase = "idle" /\ \A j \in 1..(k - 1) : click[j].phase = "answered"
        /\ Told(k) /\ 1 \in Attempts
    BY <1>3, FlowAssumption DEF Click, AllTold, Attempts
  <2>2. ASSUME NEW v \in {"unauthorized", "unavailable"}, Concluded(k, 0, NotMade, v),
               UNCHANGED vars
        PROVE  GatewayTells(k)
    BY <1>2, <2>1, <2>2, FailedTells
  <2>3. GatewayTells(k)
    BY <1>3, <2>1, <2>2, AttemptTells DEF Click, TurnedAway
  <2> QED  BY <1>1, <1>3, <2>3, ClickMoves
<1>4. ASSUME NEW k \in Clicks, TakeAnswer(k)  PROVE GatewayMoves(k) /\ GatewayTells(k)
  <2>1. PICK n, a, res :
          /\ n = click[k].attempt /\ a = click[k].asked /\ res = req[<<k, n>>].result
    OBVIOUS
  <2>2. /\ click[k].phase = "waiting" /\ req[<<k, n>>].pc = "done" /\ UNCHANGED vars
        /\ \/ AttemptFailed(k, n, a)
           \/ Concluded(k, n, a, res)
    BY <1>4, <2>1 DEF TakeAnswer, Waiting, Current
  <2>3. Told(k) /\ a.quantity \in Nat /\ n \in Attempts /\ click[k].attempt <= n
    BY <2>1, <2>2, AttemptNumber
  <2>4. ASSUME Concluded(k, n, a, res)  PROVE GatewayTells(k)
    <3>1. Becomes(k, "answered", n, a, res)
      BY <2>4 DEF Concluded
    <3> QED  BY <2>1, <2>2, <2>3, <3>1, BecomesTells
  <2>5. ASSUME AttemptFailed(k, n, a)  PROVE GatewayTells(k)
    BY <2>1, <2>2, <2>3, <2>5, FailedTells
  <2> QED  BY <1>1, <1>4, <2>2, <2>4, <2>5, TakeAnswerMoves
<1>5. ASSUME NEW k \in Clicks, TimesOut(k)  PROVE GatewayMoves(k) /\ GatewayTells(k)
  <2>1. PICK n, a : n = click[k].attempt /\ a = click[k].asked
    OBVIOUS
  <2>2. click[k].phase = "waiting" /\ UNCHANGED vars /\ AttemptFailed(k, n, a)
    BY <1>5, <2>1 DEF TimesOut, Waiting
  <2>3. Told(k) /\ a.quantity \in Nat /\ n \in Nat /\ click[k].attempt <= n
    BY <2>1, AttemptNumber
  <2> QED  BY <1>1, <1>5, <2>1, <2>2, <2>3, FailedTells, LossMoves
<1>6. ASSUME NEW k \in Clicks, Retry(k)  PROVE GatewayMoves(k) /\ GatewayTells(k)
  <2>1. PICK n, a : n = click[k].attempt + 1 /\ a = click[k].asked
    OBVIOUS
  <2>2. /\ click[k].phase = "backoff" /\ UNCHANGED lost
        /\ Attempt(k, n, a) \/ TokenExpired(k, n, a)
    BY <1>6, <2>1 DEF Retry
  <2>3. n \in Attempts /\ a \in Asked /\ click[k].attempt <= n /\ Told(k)
    BY <2>1, <2>2, NextAttempt DEF AllTold
  <2> QED  BY <1>1, <2>1, <2>2, <2>3, AttemptTells, AttemptMoves
<1>7. CASE GatewayRestart
  <2>1. PICK k \in Clicks :
          /\ click[k].phase \in {"waiting", "backoff"}
          /\ Concluded(k, click[k].attempt, click[k].asked, "lost")
          /\ lost' = [lost EXCEPT ![k] = @ + 1]
    BY <1>7 DEF GatewayRestart
  <2>2. UNCHANGED vars
    BY <1>7 DEF GatewayRestart
  <2>3. PICK n, a : n = click[k].attempt /\ a = click[k].asked
    OBVIOUS
  <2>4. Told(k) /\ a.quantity \in Nat /\ click[k].attempt <= n
    BY <2>3, AttemptNumber
  <2>5. Concluded(k, n, a, "lost")
    BY <2>1, <2>3
  <2>6. GatewayTells(k)
    BY <2>1, <2>2, <2>3, <2>4, <2>5, FailedTells
  <2> QED  BY <1>1, <2>1, <2>2, <2>6, LossMoves
<1> QED  BY <1>3, <1>4, <1>5, <1>6, <1>7 DEF FlowNext

\* What a click was told stays true when the gateway goes on with one of them.
LEMMA GatewayKeepsTold ==
  ASSUME CheckoutInv, FlowTypes, FlowTypes', AllTold, NEW k \in Clicks, OnlyClick(k), GatewayTells(k)
  PROVE  AllTold'
<1>1. req = [r \in Requests |-> req[r]] /\ Requests = Clicks \X Attempts
  BY FlowAssumption DEF CheckoutInv, RequestsOK
<1>2. click[k].attempt \in Nat /\ click'[k].attempt \in Nat
  BY FlowAssumption DEF FlowTypes, ClickTyped
<1>3. ASSUME NEW j \in Clicks, NEW n \in Attempts
      PROVE  \/ req'[<<j, n>>] = req[<<j, n>>]
             \/ /\ j = k /\ n = click'[k].attempt /\ click'[k].phase = "waiting"
                /\ req'[<<j, n>>] = click'[k].asked
  <2>1. CASE UNCHANGED vars
    BY <2>1 DEF vars
  <2>2. CASE /\ click'[k].phase = "waiting" /\ click'[k].attempt \in Attempts
             /\ Made(<<k, click'[k].attempt>>, click'[k].asked)
    <3>1. PICK m, a : m = click'[k].attempt /\ a = click'[k].asked
      OBVIOUS
    <3>2. req' = [req EXCEPT ![<<k, m>>] = a] /\ m \in Attempts
      BY <2>2, <3>1 DEF Made
    <3>3. CASE j = k /\ n = m
      BY <1>1, <2>2, <3>1, <3>2, <3>3
    <3>4. CASE ~ (j = k /\ n = m)
      <4>1. <<j, n>> # <<k, m>> /\ <<j, n>> \in Requests
        BY <1>1, <3>4
      <4> QED  BY <1>1, <3>2, <4>1
    <3> QED  BY <3>3, <3>4
  <2> QED  BY <2>1, <2>2 DEF GatewayTells
<1>4. Told(k)'
  <2>1. ASSUME NEW n \in Attempts, req'[<<k, n>>].pc # "new"
        PROVE  /\ click'[k].phase # "idle" /\ n <= click'[k].attempt
               /\ req'[<<k, n>>].op = click'[k].asked.op
               /\ req'[<<k, n>>].quantity = click'[k].asked.quantity
    <3>1. CASE req'[<<k, n>>] = req[<<k, n>>]
      <4>1. /\ click[k].phase # "idle" /\ n <= click[k].attempt
            /\ req[<<k, n>>].op = click[k].asked.op
            /\ req[<<k, n>>].quantity = click[k].asked.quantity
        BY <2>1, <3>1 DEF AllTold, Told
      <4>2. click'[k].asked = click[k].asked /\ click[k].attempt <= click'[k].attempt
            /\ click'[k].phase # "idle"
        BY <4>1 DEF GatewayTells
      <4>3. n \in Nat
        BY FlowAssumption DEF Attempts
      <4>4. n <= click'[k].attempt
        BY <1>2, <4>1, <4>2, <4>3
      <4> QED  BY <3>1, <4>1, <4>2, <4>4
    <3>2. CASE /\ n = click'[k].attempt /\ click'[k].phase = "waiting"
               /\ req'[<<k, n>>] = click'[k].asked
      BY <1>2, <3>2
    <3> QED  BY <1>3, <3>1, <3>2
  <2>2. ASSUME click'[k].phase = "answered", click'[k].answer = "ok"
        PROVE  /\ click'[k].attempt \in Attempts
               /\ req'[<<k, click'[k].attempt>>].pc = "done"
               /\ req'[<<k, click'[k].attempt>>].result = "ok"
    BY <2>2 DEF GatewayTells, vars
  <2>3. ASSUME NEW j \in 1..(k - 1)  PROVE click'[j].phase = "answered"
    <3>1. j \in Clicks /\ j # k
      BY <2>3, FlowAssumption DEF Clicks
    <3> QED  BY <3>1 DEF GatewayTells, OnlyClick
  <2>4. click'[k].phase # "idle" /\ click'[k].asked.quantity \in Nat
    BY DEF GatewayTells
  <2> QED  BY <2>1, <2>2, <2>3, <2>4 DEF Told
<1>5. ASSUME NEW j \in Clicks, j # k  PROVE Told(j)'
  <2>1. click'[j] = click[j] /\ Told(j)
    BY <1>5 DEF OnlyClick, AllTold
  <2>2. \A n \in Attempts : req'[<<j, n>>] = req[<<j, n>>]
    BY <1>3, <1>5
  <2>3. click[j].phase # "idle" => \A i \in 1..(j - 1) : click'[i].phase = "answered"
    <3>1. ASSUME click[j].phase # "idle", NEW i \in 1..(j - 1)
          PROVE  click'[i].phase = "answered"
      <4>1. i \in Clicks /\ click[i].phase = "answered"
        BY <2>1, <3>1, FlowAssumption DEF Clicks, Told
      <4>2. i # k
        BY <4>1 DEF GatewayTells
      <4> QED  BY <4>1, <4>2 DEF OnlyClick
    <3> QED  BY <3>1
  <2> QED  BY <2>1, <2>2, <2>3 DEF Told
<1> QED  BY <1>4, <1>5 DEF AllTold

\* What every request keeps while the service goes on.
ServiceMoves(r) ==
  /\ req'[r].op = req[r].op /\ req'[r].quantity = req[r].quantity
  /\ req[r].pc \in {"new", "done"} => req'[r] = req[r]
  /\ req[r].pc # "new" => req'[r].pc # "new"

\* A step of a handler moves its own request.
LEMMA GoesMoves ==
  ASSUME NEW s \in Requests, Goes(s), NEW r \in Requests
  PROVE  ServiceMoves(r)
BY DEF Goes, Alone, Asks, Running, ServiceMoves

\* The service leaves what was asked, and what is over.
LEMMA ServiceGoes ==
  ASSUME CheckoutInv, OpsOK, LocalsOK, ServiceStep, NEW r \in Requests
  PROVE  ServiceMoves(r)
<1>1. ASSUME NEW s \in Requests, Handle(s) \/ DatabaseError(s)  PROVE ServiceMoves(r)
  BY <1>1, HandlerGoes, GoesMoves DEF OpsOK
<1>2. CASE Restart
  BY <1>2, RestartEnds DEF ServiceMoves, InFlight, Running
<1>3. CASE LoseChannel
  BY <1>3 DEF LoseChannel, ServiceMoves
<1> QED  BY <1>1, <1>2, <1>3 DEF ServiceStep

\* What a click was told stays true while the service goes on.
LEMMA ServiceKeepsTold ==
  ASSUME CheckoutInv, OpsOK, LocalsOK, AllTold, ServiceStep
  PROVE  AllTold'
<1>1. UNCHANGED click  BY DEF ServiceStep
<1>2. ASSUME NEW k \in Clicks  PROVE Told(k)'
  <2>1. \A n \in Attempts : ServiceMoves(<<k, n>>)
    <3>1. \A n \in Attempts : <<k, n>> \in Requests
      BY FlowAssumption
    <3> QED  BY <3>1, ServiceGoes
  <2>2. Told(k)  BY DEF AllTold
  <2> QED  BY <1>1, <2>1, <2>2 DEF Told, ServiceMoves
<1> QED  BY <1>2 DEF AllTold

\* At first no click was made.
LEMMA ToldInit == FlowInit => AllTold
<1> SUFFICES ASSUME FlowInit, NEW k \in Clicks PROVE Told(k)
  BY DEF AllTold
<1>1. /\ click[k] = [phase |-> "idle", attempt |-> 0, asked |-> NotMade, answer |-> None]
      /\ \A n \in Attempts : <<k, n>> \in Requests /\ req[<<k, n>>] = NotMade
  BY FlowAssumption DEF FlowInit, Init
<1>2. NotMade.pc = "new" /\ NotMade.quantity \in Nat
  BY DEF NotMade
<1> QED  BY <1>1, <1>2 DEF Told

-------------------------------------------------------------------------------
(* The adds that may count beside the accepted ones *)

\* A request that may have put something into a cart, or still may.
MayCount(r) ==
  /\ req[r].op = "add" /\ req[r].pc # "new"
  /\ req[r].pc = "done" => req[r].cart # None /\ req[r].result \in {"ok", "error"}

\* The attempt that a click cares for, unless it failed.
Wanted(r) == Live(r[1], r[2]) /\ ~ (req[r].pc = "done" /\ req[r].result = "error")

Spoiled == {r \in Requests : MayCount(r) /\ ~ Wanted(r)}

\* Each has cost a fault or a lost answer.
SpoiledPaid == faults \in Nat /\ Cardinality(Spoiled) <= faults + Lost

\* A request is an attempt of a click.
LEMMA RequestIsAttempt ==
  ASSUME NEW r \in Requests
  PROVE  r = <<r[1], r[2]>> /\ r[1] \in Clicks /\ r[2] \in Attempts
BY FlowAssumption

\* Lost answers are the sum of those of the clicks, before a step ...
LEMMA LostIsSum == Lost = SumOf(lost, Clicks)
BY Zenon DEF Lost, SumOf

\* ... and after it.
LEMMA LostIsSumThen == Lost' = SumOf(lost', Clicks)
<1>1. (Lost = SumOf(lost, Clicks))'
  BY LostIsSum, PTL
<1> QED  BY <1>1

\* Lost answers add up, one by one.
LEMMA LostAddsUp ==
  ASSUME FlowTypes
  PROVE  /\ Lost \in Nat
         /\ lost' = lost => Lost' = Lost
         /\ \A k \in Clicks : lost' = [lost EXCEPT ![k] = @ + 1] => Lost' = Lost + 1
<1>1. PICK f, g : f = lost /\ g = lost'
  OBVIOUS
<1>2. Lost = SumOf(f, Clicks) /\ Lost' = SumOf(g, Clicks)
  BY <1>1, LostIsSum, LostIsSumThen
<1>3. IsFiniteSet(Clicks) /\ \A k \in Clicks : f[k] \in Nat
  BY <1>1, FiniteRequests DEF FlowTypes
<1>4. SumOf(f, Clicks) \in Nat
  BY <1>3, SumTakesOut
<1>5. ASSUME NEW k \in Clicks, g = [f EXCEPT ![k] = @ + 1]
      PROVE  SumOf(g, Clicks) = SumOf(f, Clicks) + 1
  <2>1. f = [j \in Clicks |-> f[j]]
    BY <1>1 DEF FlowTypes
  <2>2. g[k] = f[k] + 1 /\ (\A j \in Clicks \ {k} : g[j] = f[j]) /\ f[k] \in Nat
    BY <1>3, <1>5, <2>1
  <2>3. \A j \in Clicks : g[j] \in Nat
    BY <1>3, <2>2
  <2>4. PICK C : C = Clicks \ {k}
    OBVIOUS
  <2>5. SumOf(f, Clicks) = f[k] + SumOf(f, C)
    BY <1>3, <2>4, SumTakesOut
  <2>6. SumOf(g, Clicks) = g[k] + SumOf(g, C)
    BY <1>3, <2>3, <2>4, SumTakesOut
  <2>7. SumOf(g, C) = SumOf(f, C)
    BY <2>2, <2>4, SumSame
  <2>8. SumOf(f, C) \in Nat
    <3>1. IsFiniteSet(C) /\ \A j \in C : f[j] \in Nat
      BY <1>3, <2>4, FS_Subset
    <3> QED  BY <3>1, SumTakesOut
  <2> QED  BY <2>2, <2>5, <2>6, <2>7, <2>8
<1> QED  BY <1>1, <1>2, <1>4, <1>5

\* One more has cost one more.
LEMMA OneMoreSpoiled ==
  ASSUME FlowTypes, SpoiledPaid, NEW S, S = Spoiled', faults' \in Nat, Lost' \in Nat,
         \/ S \subseteq Spoiled /\ faults + Lost <= faults' + Lost'
         \/ /\ faults + Lost + 1 <= faults' + Lost'
            /\ \E r \in Requests : S \subseteq Spoiled \cup {r}
  PROVE  SpoiledPaid'
<1>1. PICK T : T = Spoiled
  OBVIOUS
<1>2. IsFiniteSet(T) /\ Cardinality(T) \in Nat /\ Cardinality(T) <= faults + Lost
  <2>1. T \subseteq Requests
    BY <1>1 DEF Spoiled
  <2>2. IsFiniteSet(T)
    BY <2>1, FiniteRequests, FS_Subset
  <2> QED  BY <1>1, <2>2, FS_CardinalityType DEF SpoiledPaid
<1>3. faults \in Nat /\ Lost \in Nat
  BY LostAddsUp DEF SpoiledPaid
<1>4. ASSUME S \subseteq T
      PROVE  Cardinality(S) \in Nat /\ Cardinality(S) <= Cardinality(T)
  BY <1>2, <1>4, FS_Subset, FS_CardinalityType
<1>5. ASSUME NEW r, S \subseteq T \cup {r}
      PROVE  Cardinality(S) \in Nat /\ Cardinality(S) <= Cardinality(T) + 1
  <2>1. PICK U : U = T \cup {r}
    OBVIOUS
  <2>2. /\ IsFiniteSet(U)
        /\ Cardinality(U) = Cardinality(T) \/ Cardinality(U) = Cardinality(T) + 1
    BY <1>2, <2>1, FS_AddElement
  <2>3. S \subseteq U
    BY <1>5, <2>1
  <2>4. Cardinality(S) <= Cardinality(U) /\ Cardinality(S) \in Nat
    BY <2>2, <2>3, FS_Subset, FS_CardinalityType
  <2> QED  BY <1>2, <2>2, <2>4
<1>6. PICK c, d, p, q : /\ c = Cardinality(T) /\ d = Cardinality(S)
                        /\ p = faults + Lost /\ q = faults' + Lost'
  OBVIOUS
<1>7. c \in Nat /\ p \in Nat /\ q \in Nat /\ c <= p
  <2>1. c \in Nat /\ c <= p
    BY <1>2, <1>6
  <2>2. p \in Nat
    BY <1>3, <1>6
  <2>3. PICK f, l : f = faults' /\ l = Lost'
    OBVIOUS
  <2>4. f \in Nat /\ l \in Nat /\ q = f + l
    BY <1>6, <2>3
  <2>5. q \in Nat
    BY <2>4
  <2> QED  BY <2>1, <2>2, <2>5
<1>8. CASE S \subseteq Spoiled /\ faults + Lost <= faults' + Lost'
  <2>1. d \in Nat /\ d <= c /\ p <= q
    BY <1>1, <1>4, <1>6, <1>8
  <2> QED  BY <1>6, <1>7, <2>1 DEF SpoiledPaid
<1>9. CASE /\ faults + Lost + 1 <= faults' + Lost'
           /\ \E r \in Requests : S \subseteq Spoiled \cup {r}
  <2>1. d \in Nat /\ d <= c + 1
    BY <1>1, <1>5, <1>6, <1>9
  <2>2. p + 1 <= q
    BY <1>6, <1>9
  <2> QED  BY <1>6, <1>7, <2>1, <2>2 DEF SpoiledPaid
<1> QED  BY <1>8, <1>9

\* A click under way: no other is.
LEMMA OneUnderWay ==
  ASSUME AllTold, NEW j \in Clicks, NEW k \in Clicks,
         click[j].phase \in {"waiting", "backoff"}, click[k].phase \in {"waiting", "backoff"}
  PROVE  j = k
<1>1. Told(j) /\ Told(k)  BY DEF AllTold
<1>2. ASSUME j < k  PROVE FALSE
  <2>1. j \in 1..(k - 1)  BY <1>2, FlowAssumption DEF Clicks
  <2> QED  BY <1>1, <2>1 DEF Told
<1>3. ASSUME k < j  PROVE FALSE
  <2>1. k \in 1..(j - 1)  BY <1>3, FlowAssumption DEF Clicks
  <2> QED  BY <1>1, <2>1 DEF Told
<1> QED  BY <1>2, <1>3, FlowAssumption DEF Clicks

\* A running attempt that a click cares for is the one it waits for.
LEMMA RunningIsWaitedFor ==
  ASSUME AllTold, NEW r \in Requests, Live(r[1], r[2]), req[r].pc \in Running
  PROVE  click[r[1]].phase = "waiting"
<1>1. r = <<r[1], r[2]>> /\ r[1] \in Clicks /\ Told(r[1])
  BY RequestIsAttempt DEF AllTold
<1>2. PICK k, n : k = r[1] /\ n = r[2]
  OBVIOUS
<1>3. n = click[k].attempt /\ req[<<k, n>>].pc # "done" /\ Told(k)
  BY <1>1, <1>2 DEF Live, Running
<1> QED  BY <1>2, <1>3 DEF Told, Live

\* What the service does spoils no add but by a fault, and only one.
LEMMA ServicePays ==
  ASSUME CheckoutInv, HistoryInv, FlowTypes, OpsOK, LocalsOK, AllTold, SpoiledPaid, ServiceStep
  PROVE  SpoiledPaid'
<1>1. UNCHANGED <<click, lost>> /\ Lost' = Lost /\ Lost \in Nat /\ faults \in Nat
  BY LostAddsUp DEF ServiceStep, SpoiledPaid
<1>2. PICK S : S = Spoiled'
  OBVIOUS
<1>3. ASSUME NEW s \in Requests, Handle(s) \/ DatabaseError(s)  PROVE SpoiledPaid'
  <2>1. Goes(s)
    BY <1>3, HandlerGoes DEF OpsOK
  <2>2. faults' \in Nat /\ faults' >= faults
    BY <1>1, <1>3, HandlerCounts
  <2>3. ASSUME NEW r \in S, r # s  PROVE r \in Spoiled
    <3>1. req'[r] = req[r] /\ r \in Requests
      BY <1>2, <2>1, <2>3 DEF Goes, Alone, Spoiled
    <3> QED  BY <1>1, <1>2, <3>1 DEF Spoiled, MayCount, Wanted, Live
  <2>4. ASSUME s \in S, s \notin Spoiled  PROVE faults' = faults + 1
    <3>1. MayCount(s)' /\ ~ Wanted(s)'
      BY <1>2, <2>4 DEF Spoiled
    <3>2. MayCount(s)
      BY <2>1, <3>1 DEF Goes, Asks, MayCount, Running
    <3>3. Wanted(s)
      BY <2>4, <3>2 DEF Spoiled
    <3>4. req'[s].pc = "done" /\ req'[s].result = "error"
      BY <1>1, <3>1, <3>3 DEF Wanted, Live
    <3> QED  BY <2>1, <3>1, <3>4 DEF Goes, MayCount
  <2>5. CASE s \in S /\ s \notin Spoiled
    <3>1. S \subseteq Spoiled \cup {s}
      BY <2>3
    <3>2. faults + Lost + 1 <= faults' + Lost'
      BY <1>1, <2>4, <2>5
    <3> QED  BY <1>1, <1>2, <2>2, <3>1, <3>2, OneMoreSpoiled
  <2>6. CASE ~ (s \in S /\ s \notin Spoiled)
    <3>1. S \subseteq Spoiled
      BY <2>3, <2>6
    <3>2. faults + Lost <= faults' + Lost'
      <4>1. PICK p, q, l : p = faults /\ q = faults' /\ l = Lost
        OBVIOUS
      <4>2. p \in Nat /\ q \in Nat /\ l \in Nat /\ p <= q
        BY <1>1, <2>2, <4>1
      <4>3. p + l <= q + l
        BY <4>2
      <4> QED  BY <1>1, <4>1, <4>3
    <3> QED  BY <1>1, <1>2, <2>2, <3>1, <3>2, OneMoreSpoiled
  <2> QED  BY <2>5, <2>6
<1>4. CASE Restart
  <2>1. faults' = faults + 1
    BY <1>4 DEF Restart
  <2>2. ASSUME NEW r \in S, r \notin Spoiled
        PROVE  /\ r \in Requests /\ click[r[1]].phase = "waiting"
               /\ r[2] = click[r[1]].attempt
    <3>1. r \in Requests /\ MayCount(r)' /\ ~ Wanted(r)'
      BY <1>2, <2>2 DEF Spoiled
    <3>2. r \in InFlight
      <4>1. CASE r \notin InFlight
        <5>1. req'[r] = req[r]
          BY <1>4, <3>1, <4>1, RestartEnds
        <5> QED  BY <1>1, <2>2, <3>1, <5>1 DEF Spoiled, MayCount, Wanted, Live
      <4> QED  BY <4>1
    <3>3. req'[r].op = req[r].op /\ req[r].pc \in Running
      BY <1>4, <3>1, <3>2, RestartEnds DEF InFlight
    <3>4. MayCount(r)
      BY <3>1, <3>3 DEF MayCount, Running
    <3>5. Wanted(r)
      BY <2>2, <3>1, <3>4 DEF Spoiled
    <3> QED  BY <3>1, <3>3, <3>5, RunningIsWaitedFor DEF Wanted, Live
  <2>3. ASSUME NEW r \in S, r \notin Spoiled, NEW t \in S, t \notin Spoiled  PROVE r = t
    <3>1. /\ r = <<r[1], r[2]>> /\ r[1] \in Clicks /\ click[r[1]].phase = "waiting"
          /\ r[2] = click[r[1]].attempt
      BY <2>2, <2>3, RequestIsAttempt
    <3>2. /\ t = <<t[1], t[2]>> /\ t[1] \in Clicks /\ click[t[1]].phase = "waiting"
          /\ t[2] = click[t[1]].attempt
      BY <2>2, <2>3, RequestIsAttempt
    <3>3. r[1] = t[1]
      BY <3>1, <3>2, OneUnderWay
    <3> QED  BY <3>1, <3>2, <3>3
  <2>4. faults' \in Nat /\ faults + Lost + 1 <= faults' + Lost' /\ faults + Lost <= faults' + Lost'
    BY <1>1, <2>1
  <2>5. CASE S \subseteq Spoiled
    BY <1>1, <1>2, <2>4, <2>5, OneMoreSpoiled
  <2>6. ASSUME NEW r \in S, r \notin Spoiled  PROVE SpoiledPaid'
    <3>1. S \subseteq Spoiled \cup {r} /\ r \in Requests
      BY <2>2, <2>3, <2>6
    <3> QED  BY <1>1, <1>2, <2>4, <3>1, OneMoreSpoiled
  <2> QED  BY <2>5, <2>6
<1>5. CASE LoseChannel
  <2>1. UNCHANGED <<req, faults>>
    BY <1>5 DEF LoseChannel
  <2>2. S \subseteq Spoiled
    BY <1>1, <1>2, <2>1 DEF Spoiled, MayCount, Wanted, Live
  <2>3. faults' \in Nat /\ faults + Lost <= faults' + Lost'
    BY <1>1, <2>1
  <2> QED  BY <1>1, <1>2, <2>2, <2>3, OneMoreSpoiled
<1> QED  BY <1>3, <1>4, <1>5 DEF ServiceStep

\* What the gateway does spoils no add but by a loss, and only one.
LEMMA GatewayPays ==
  ASSUME CheckoutInv, FlowTypes, AllTold, SpoiledPaid,
         NEW k \in Clicks, GatewayMoves(k), GatewayTells(k)
  PROVE  SpoiledPaid'
<1>1. Lost \in Nat /\ faults \in Nat
  BY LostAddsUp DEF SpoiledPaid
<1>2. PICK S : S = Spoiled'
  OBVIOUS
<1>3. faults' = faults
  BY DEF GatewayTells, Made, vars
<1>4. ASSUME NEW r \in S
      PROVE  /\ r \in Requests /\ req'[r] = req[r] /\ MayCount(r)
             /\ r \notin Spoiled => /\ r[1] = k /\ r[2] = click[k].attempt
                                    /\ Live(r[1], r[2]) /\ ~ Live(r[1], r[2])'
                                    /\ ~ (req[r].pc = "done" /\ req[r].result = "error")
  <2>1. r \in Requests /\ MayCount(r)' /\ ~ Wanted(r)'
    BY <1>2 DEF Spoiled
  <2>2. r = <<r[1], r[2]>> /\ r[1] \in Clicks /\ r[2] \in Attempts
    BY <2>1, RequestIsAttempt
  <2>3. req'[r] = req[r]
    <3>1. CASE UNCHANGED vars
      BY <3>1 DEF vars
    <3>2. CASE /\ click'[k].phase = "waiting" /\ click'[k].attempt \in Attempts
               /\ click'[k].asked \in Asked
               /\ Made(<<k, click'[k].attempt>>, click'[k].asked)
      <4>1. PICK m, a : m = click'[k].attempt /\ a = click'[k].asked
        OBVIOUS
      <4>2. req' = [req EXCEPT ![<<k, m>>] = a] /\ <<k, m>> \in Requests
        BY <3>2, <4>1, FlowAssumption DEF Made
      <4>3. req = [t \in Requests |-> req[t]]
        BY DEF CheckoutInv, RequestsOK
      <4>4. CASE r = <<k, m>>
        <5>1. req'[r] = a /\ a.pc \in {"product", "findCart"}
          BY <3>2, <4>1, <4>2, <4>3, <4>4, AskedForms
        <5>2. r[1] = k /\ r[2] = m
          BY <4>4
        <5>3. Live(r[1], r[2])'
          BY <3>2, <4>1, <5>2 DEF Live
        <5> QED  BY <2>1, <5>1, <5>3 DEF Wanted
      <4>5. CASE r # <<k, m>>
        BY <2>1, <4>2, <4>3, <4>5
      <4> QED  BY <4>4, <4>5
    <3> QED  BY <3>1, <3>2 DEF GatewayTells
  <2>4. MayCount(r)
    BY <2>1, <2>3 DEF MayCount
  <2>5. ASSUME r \notin Spoiled
        PROVE  /\ r[1] = k /\ r[2] = click[k].attempt
               /\ Live(r[1], r[2]) /\ ~ Live(r[1], r[2])'
               /\ ~ (req[r].pc = "done" /\ req[r].result = "error")
    <3>1. Wanted(r)
      BY <2>1, <2>4, <2>5 DEF Spoiled
    <3>2. Live(r[1], r[2]) /\ ~ Live(r[1], r[2])'
          /\ ~ (req[r].pc = "done" /\ req[r].result = "error")
      BY <2>1, <2>3, <3>1 DEF Wanted
    <3>3. r[1] = k
      <4>1. CASE r[1] # k
        <5>1. click'[r[1]] = click[r[1]]
          BY <2>2, <4>1 DEF GatewayMoves, OnlyClick
        <5> QED  BY <3>2, <5>1 DEF Live
      <4> QED  BY <4>1
    <3> QED  BY <3>2, <3>3 DEF Live
  <2> QED  BY <2>1, <2>3, <2>4, <2>5
<1>5. CASE lost' = [lost EXCEPT ![k] = @ + 1]
  <2>1. Lost' = Lost + 1
    BY <1>5, LostAddsUp
  <2>2. faults' \in Nat /\ Lost' \in Nat /\ faults + Lost + 1 <= faults' + Lost'
        /\ faults + Lost <= faults' + Lost'
    BY <1>1, <1>3, <2>1
  <2>3. CASE S \subseteq Spoiled
    BY <1>2, <2>2, <2>3, OneMoreSpoiled
  <2>4. ASSUME NEW r \in S, r \notin Spoiled  PROVE SpoiledPaid'
    <3>1. ASSUME NEW t \in S, t \notin Spoiled  PROVE t = r
      <4>1. /\ t[1] = r[1] /\ t[2] = r[2] /\ t \in Requests /\ r \in Requests
        BY <1>4, <2>4, <3>1
      <4> QED  BY <4>1, RequestIsAttempt
    <3>2. S \subseteq Spoiled \cup {r} /\ r \in Requests
      BY <1>4, <2>4, <3>1
    <3> QED  BY <1>2, <2>2, <3>2, OneMoreSpoiled
  <2> QED  BY <2>3, <2>4
<1>6. CASE /\ lost' = lost
           /\ \A n \in Attempts : Live(k, n) /\ ~ Live(k, n)' => Failed(k, n)
  <2>1. S \subseteq Spoiled
    <3>1. ASSUME NEW r \in S, r \notin Spoiled  PROVE FALSE
      <4>1. PICK n : n = r[2]
        OBVIOUS
      <4>2. r = <<k, n>> /\ n \in Attempts
        BY <1>4, <3>1, <4>1, RequestIsAttempt
      <4>3. Live(k, n) /\ ~ Live(k, n)'
        BY <1>4, <3>1, <4>1
      <4>4. Failed(k, n)
        BY <1>6, <4>2, <4>3
      <4>5. MayCount(<<k, n>>) /\ ~ (req[<<k, n>>].pc = "done" /\ req[<<k, n>>].result = "error")
        BY <1>4, <3>1, <4>2
      <4>6. req[<<k, n>>].pc = "done" /\ req[<<k, n>>].result = "ok"
        BY <4>4, <4>5 DEF Failed, MayCount
      <4> QED  BY <4>4, <4>6 DEF Failed
    <3> QED  BY <3>1
  <2>2. Lost' = Lost
    BY <1>6, LostAddsUp
  <2>3. faults' \in Nat /\ Lost' \in Nat /\ faults + Lost <= faults' + Lost'
    BY <1>1, <1>3, <2>2
  <2> QED  BY <1>2, <2>1, <2>3, OneMoreSpoiled
<1> QED  BY <1>5, <1>6 DEF GatewayMoves

\* At first nothing was spoiled.
LEMMA SpoiledInit == FlowInit => SpoiledPaid
<1> SUFFICES ASSUME FlowInit PROVE SpoiledPaid
  OBVIOUS
<1>1. FlowTypes /\ faults = 0
  BY FlowInvInit DEF FlowInv, FlowInit, Init
<1>2. Lost \in Nat
  BY <1>1, LostAddsUp
<1>3. Spoiled = {}
  BY DEF Spoiled, MayCount, FlowInit, Init, NotMade
<1>4. Cardinality(Spoiled) = 0
  BY <1>3, FS_EmptySet
<1> QED  BY <1>1, <1>2, <1>4 DEF SpoiledPaid

\* The flow's account: what every click was told, and what its adds cost.
FlowAccount == AllTold /\ SpoiledPaid

\* Every step keeps it.
LEMMA FlowAccountStep ==
  ASSUME FlowInv, FlowInv', ShopInv, AddsInv, FlowAccount, [FlowNext]_flow
  PROVE  FlowAccount'
<1>1. /\ CheckoutInv /\ HistoryInv /\ FlowTypes /\ FlowTypes' /\ OpsOK /\ LocalsOK
      /\ AllTold /\ SpoiledPaid
  BY DEF FlowInv, ShopInv, ItemsInv, AddsInv, FlowAccount
<1>2. CASE ServiceStep
  BY <1>1, <1>2, ServiceKeepsTold, ServicePays DEF FlowAccount
<1>3. ASSUME NEW k \in Clicks, GatewayMoves(k), GatewayTells(k)  PROVE FlowAccount'
  <2>1. OnlyClick(k)
    BY <1>3 DEF GatewayMoves
  <2> QED  BY <1>1, <1>3, <2>1, GatewayKeepsTold, GatewayPays DEF FlowAccount
<1>4. CASE UNCHANGED flow
  <2>1. UNCHANGED <<req, faults, click, lost>>
    BY <1>4 DEF flow, vars
  <2>2. AllTold'
    BY <1>1, <2>1 DEF AllTold, Told
  <2>3. Lost' = Lost
    BY <1>1, <2>1, LostAddsUp
  <2>4. Spoiled' = Spoiled
    BY <2>1 DEF Spoiled, MayCount, Wanted, Live
  <2>5. SpoiledPaid'
    BY <1>1, <2>1, <2>3, <2>4 DEF SpoiledPaid
  <2> QED  BY <2>2, <2>5 DEF FlowAccount
<1> QED  BY <1>1, <1>2, <1>3, <1>4, FlowTells

\* It is an invariant of the flow, beside the others.
LEMMA FlowAccountInvariant == FlowSpec => [](FlowInv /\ ShopInv /\ AddsInv /\ FlowAccount)
<1>1. FlowInit => FlowAccount
  BY ToldInit, SpoiledInit DEF FlowAccount
<1>2. FlowInv /\ FlowInv' /\ ShopInv /\ AddsInv /\ FlowAccount /\ [FlowNext]_flow => FlowAccount'
  BY FlowAccountStep
<1> QED  BY <1>1, <1>2, FlowImplementsCheckout, AddsInvariant, PTL DEF FlowSpec

-------------------------------------------------------------------------------
(* What the carts hold of what was accepted *)

\* What the clicks S asked for.
AskedBy(S) == MapThenSumSet(LAMBDA k : click[k].asked.quantity, S)

\* It adds up over the clicks.
LEMMA AskedAddUp ==
  ASSUME NEW S
  PROVE  AskedBy(S) = SumOf([k \in S |-> click[k].asked.quantity], S)
<1> DEFINE f == [k \in S |-> click[k].asked.quantity]
           R(it) == it = [s \in SUBSET S |->
                            IF s = {} THEN 0
                            ELSE click[AnyOf(s)].asked.quantity + it[s \ {AnyOf(s)}]]
<1>1. AskedBy(S) = (CHOOSE it : R(it))[S]
  BY Zenon DEF AskedBy, MapThenSumSet, MapThenFoldSet, AnyOf
<1>2. ASSUME NEW it  PROVE R(it) <=> SumsUp(it, f, S)
  <2>1. ASSUME NEW s \in SUBSET S, s # {}  PROVE f[AnyOf(s)] = click[AnyOf(s)].asked.quantity
    BY <2>1, AnyIsIn
  <2> HIDE DEF f
  <2> QED  BY <2>1 DEF SumsUp
<1>3. (CHOOSE it : R(it)) = (CHOOSE it : SumsUp(it, f, S))
  <2> HIDE DEF R, f
  <2> QED  BY <1>2, Zenon
<1> HIDE DEF R, f
<1>4. AskedBy(S) = SumOf(f, S)
  BY <1>1, <1>3, SumIs, Zenon
<1> QED  BY <1>4 DEF f

\* The most that a click asked for.
LEMMA MostIs ==
  ASSUME AllTold
  PROVE  MostPerClick \in Nat /\ \A k \in Clicks : click[k].asked.quantity <= MostPerClick
<1>1. PICK A, S : A = {click[k].asked.quantity : k \in Clicks} /\ S = A \cup {0}
  OBVIOUS
<1>2. MostPerClick = Max(S)
  BY <1>1 DEF MostPerClick
<1>3. IsFiniteSet(A)
  <2>1. PICK f : f = [k \in Clicks |-> click[k].asked.quantity]
    OBVIOUS
  <2>2. f \in [Clicks -> A] /\ \A a \in A : \E k \in Clicks : f[k] = a
    BY <1>1, <2>1
  <2>3. f \in Surjection(Clicks, A)
    BY <2>2 DEF Surjection
  <2> QED  BY <2>3, FiniteRequests, FS_Surjection
<1>4. IsFiniteSet(S)
  BY <1>1, <1>3, FS_AddElement
<1>5. \A x \in S : x \in Nat
  <2>1. \A k \in Clicks : click[k].asked.quantity \in Nat
    BY DEF AllTold, Told
  <2>2. \A x \in A : x \in Nat
    BY <1>1, <2>1
  <2> QED  BY <1>1, <2>2
<1>6. S # {}
  BY <1>1
<1>7. Max(S) \in S /\ \A x \in S : x <= Max(S)
  BY <1>4, <1>5, <1>6, Greatest
<1> QED  BY <1>1, <1>2, <1>5, <1>7

\* No more than so many, each worth no more than the most.
LEMMA NoMoreThan ==
  ASSUME NEW c \in Nat, NEW d \in Nat, c <= d, NEW m \in Nat
  PROVE  c * m <= d * m
<1>1. PICK e \in Nat : d = c + e
  <2>1. d - c \in Nat /\ d = c + (d - c)
    OBVIOUS
  <2> QED  BY <2>1
<1>2. c * m \in Nat /\ e * m \in Nat
  OBVIOUS
<1>3. (c + e) * m = c * m + e * m
  OBVIOUS
<1> QED  BY <1>1, <1>2, <1>3

\* The attempt that each accepted add got its answer from.
AnsweredAdds == {<<k, click[k].attempt>> : k \in Adds({"ok"})}

\* It wrote an item.
LEMMA AcceptedWrote ==
  ASSUME FlowInv, AllTold, AllAnswered, NEW w, WritersOK(w), NEW k \in Adds({"ok"})
  PROVE  /\ k \in Clicks /\ <<k, click[k].attempt>> \in Writers(w)
         /\ req[<<k, click[k].attempt>>].quantity = click[k].asked.quantity
         /\ click[k].asked.quantity \in Nat
<1>1. k \in Clicks /\ click[k].asked.op = "add" /\ click[k].answer = "ok" /\ Told(k)
  BY DEF Adds, AllTold
<1>2. click[k].phase = "answered"
  <2>1. CASE click[k].phase = "idle"
    <3>1. "add" = None /\ "ok" = None
      BY <1>1, <2>1 DEF Told, NotMade
    <3> QED  BY <3>1
  <2> QED  BY <1>1, <2>1 DEF AllAnswered
<1>3. PICK n : n = click[k].attempt
  OBVIOUS
<1>4. /\ n \in Attempts /\ req[<<k, n>>].pc = "done" /\ req[<<k, n>>].result = "ok"
      /\ click[k].asked.quantity \in Nat
  BY <1>1, <1>2, <1>3 DEF Told
<1>5. /\ req[<<k, n>>].op = "add" /\ req[<<k, n>>].quantity = click[k].asked.quantity
      /\ <<k, n>> \in Requests
  BY <1>1, <1>4, FlowAssumption DEF Told
<1>6. <<k, n>> \in Writers(w)
  BY <1>4, <1>5 DEF WritersOK, Writers
<1> QED  BY <1>1, <1>3, <1>4, <1>5, <1>6

\* What was accepted is what these attempts were asked for.
LEMMA AcceptedAddUp ==
  ASSUME FlowInv, AllTold, AllAnswered, NEW w, WritersOK(w)
  PROVE  /\ AcceptedAdds = SumOf(Qty, AnsweredAdds)
         /\ AnsweredAdds \subseteq Writers(w)
<1>1. PICK S, f, place :
        /\ S = Adds({"ok"}) /\ f = [k \in S |-> click[k].asked.quantity]
        /\ place = [k \in S |-> <<k, click[k].attempt>>]
  OBVIOUS
<1>2. PICK P : P = AnsweredAdds
  OBVIOUS
<1>3. P \subseteq Writers(w) /\ P \subseteq Requests
  BY <1>1, <1>2, AcceptedWrote DEF AnsweredAdds, Writers
<1>4. IsFiniteSet(S) /\ IsFiniteSet(P)
  <2>1. S \subseteq Clicks
    BY <1>1 DEF Adds
  <2> QED  BY <1>3, <2>1, FiniteRequests, FS_Subset
<1>5. place \in [S -> P] /\ (\A i, j \in S : place[i] = place[j] => i = j)
      /\ \A p \in P : \E i \in S : place[i] = p
  BY <1>1, <1>2 DEF AnsweredAdds
<1>6. \A i \in S : f[i] \in Nat /\ Qty[place[i]] = f[i]
  <2>1. ASSUME NEW i \in S  PROVE f[i] \in Nat /\ Qty[place[i]] = f[i]
    <3>1. /\ f[i] = click[i].asked.quantity /\ place[i] = <<i, click[i].attempt>>
      BY <1>1, <2>1
    <3>2. /\ place[i] \in Requests /\ req[place[i]].quantity = f[i] /\ f[i] \in Nat
      BY <1>1, <2>1, <3>1, AcceptedWrote DEF Writers
    <3> QED  BY <3>2 DEF Qty
  <2> QED  BY <2>1
<1>7. SumOf(Qty, P) = SumOf(f, S)
  BY <1>4, <1>5, <1>6, SumByPlace
<1>8. AcceptedAdds = SumOf(f, S)
  <2>1. AcceptedAdds = AskedBy(S)
    BY <1>1, Zenon DEF AcceptedAdds, AskedBy
  <2>2. AskedBy(S) = SumOf([k \in S |-> click[k].asked.quantity], S)
    BY AskedAddUp
  <2> QED  BY <1>1, <2>1, <2>2
<1> QED  BY <1>2, <1>3, <1>7, <1>8

\* The other attempts that wrote an item are spoiled.
LEMMA OthersSpoiled ==
  ASSUME AllTold, AllAnswered, NEW w, WritersOK(w)
  PROVE  Writers(w) \ AnsweredAdds \subseteq Spoiled
<1> SUFFICES ASSUME NEW r \in Writers(w), r \notin AnsweredAdds PROVE r \in Spoiled
  OBVIOUS
<1>1. /\ r \in Requests /\ req[r].op = "add" /\ req[r].cart # None
      /\ Written(r) \/ (req[r].pc = "done" /\ req[r].result \in {"ok", "error"})
  BY DEF Writers, WritersOK
<1>2. MayCount(r) /\ req[r].pc # "new"
  BY <1>1 DEF MayCount, Written
<1>3. PICK k, n : k = r[1] /\ n = r[2]
  OBVIOUS
<1>4. r = <<k, n>> /\ k \in Clicks /\ n \in Attempts /\ Told(k)
  BY <1>1, <1>3, RequestIsAttempt DEF AllTold
<1>5. ~ Live(k, n)
  <2>1. ASSUME Live(k, n)  PROVE FALSE
    <3>1. n = click[k].attempt /\ click[k].answer = "ok"
      BY <1>4, <2>1 DEF Live, AllAnswered
    <3>2. click[k].asked.op = "add"
      BY <1>1, <1>2, <1>4 DEF Told
    <3> QED  BY <1>4, <3>1, <3>2 DEF AnsweredAdds, Adds
  <2> QED  BY <2>1
<1> QED  BY <1>1, <1>2, <1>3, <1>5 DEF Spoiled, Wanted

\* The account says what the carts hold of what was accepted.
LEMMA InvCountsAdds ==
  ASSUME FlowInv, ShopInv, AddsInv, FlowAccount
  PROVE  AddsCounted
<1> SUFFICES ASSUME AllAnswered, NoneRemoved
             PROVE  /\ ~ overlapped => InCarts >= AcceptedAdds
                    /\ InCarts <= AcceptedAdds + (faults + Lost) * MostPerClick
  BY DEF AddsCounted
<1>1. /\ AllTold /\ SpoiledPaid /\ ItemsOK /\ OpsOK
  BY DEF FlowAccount, ShopInv, ItemsInv, AddsInv
<1>2. PICK w \in [Requests -> Nat] : Account(w)
  BY DEF AddsInv, Counted
<1>3. WritersOK(w) /\ SharesOK(w) /\ AllThere(w)
  BY <1>2 DEF Account
<1>4. PICK W, K, B : W = Writers(w) /\ K = AnsweredAdds /\ B = W \ K
  OBVIOUS
<1>5. AcceptedAdds = SumOf(Qty, K) /\ K \subseteq W
  BY <1>1, <1>3, <1>4, AcceptedAddUp
<1>6. /\ IsFiniteSet(W) /\ IsFiniteSet(K) /\ IsFiniteSet(B)
      /\ \A r \in W : Qty[r] \in Nat
  <2>1. W \subseteq Requests
    BY <1>4 DEF Writers
  <2>2. IsFiniteSet(W)
    BY <2>1, FiniteRequests, FS_Subset
  <2>3. IsFiniteSet(K) /\ IsFiniteSet(B)
    BY <1>4, <1>5, <2>2, FS_Subset
  <2>4. \A r \in W : Qty[r] \in Nat
    BY <1>1, <2>1 DEF Qty, OpsOK, Op
  <2> QED  BY <2>2, <2>3, <2>4
<1>7. PICK f : f = [i \in items |-> i.quantity]
  OBVIOUS
<1>8. InCarts = SumOf(f, items) /\ InCarts = Pieces(items)
  <2>1. InCarts = Pieces(items)
    BY Zenon DEF InCarts, Pieces
  <2>2. Pieces(items) = SumOf([i \in items |-> i.quantity], items)
    BY PiecesAddUp
  <2> QED  BY <1>7, <2>1, <2>2
<1>9. \A i \in items : f[i] \in Nat /\ i.id # 0
  BY <1>1, <1>7 DEF ItemsOK, IsRow, CartItem
<1>10. /\ SumOf(f, items) \in Nat /\ SumOf(Qty, W) \in Nat
       /\ SumOf(Qty, K) \in Nat /\ SumOf(Qty, B) \in Nat
       /\ SumOf(Qty, W) = SumOf(Qty, K) + SumOf(Qty, B)
  <2>1. (\A r \in K : Qty[r] \in Nat) /\ (\A r \in B : Qty[r] \in Nat)
    BY <1>4, <1>5, <1>6
  <2>2. SumOf(Qty, W) \in Nat /\ SumOf(Qty, K) \in Nat /\ SumOf(Qty, B) \in Nat
    BY <1>6, <2>1, SumTakesOut
  <2>3. IsFiniteSet(items) /\ \A i \in items : f[i] \in Nat
    BY <1>1, <1>9 DEF ItemsOK
  <2>4. SumOf(f, items) \in Nat
    BY <2>3, SumTakesOut
  <2>5. K \cap B = {} /\ K \cup B = W
    BY <1>4, <1>5
  <2>6. SumOf(Qty, W) = SumOf(Qty, K) + SumOf(Qty, B)
    BY <1>6, <2>5, SumDisjoint
  <2> QED  BY <2>2, <2>4, <2>6
<1>11. ~ overlapped => InCarts >= AcceptedAdds
  <2>1. NoRemovals
    <3>1. ASSUME NEW r \in Requests, req[r].pc # "new"  PROVE req[r].op # "remove"
      <4>1. PICK k, n : k = r[1] /\ n = r[2]
        OBVIOUS
      <4>2. r = <<k, n>> /\ k \in Clicks /\ n \in Attempts /\ Told(k)
        BY <1>1, <4>1, RequestIsAttempt DEF AllTold
      <4>3. req[r].op = click[k].asked.op
        BY <3>1, <4>2 DEF Told
      <4> QED  BY <4>2, <4>3 DEF NoneRemoved
    <3> QED  BY <3>1 DEF NoRemovals
  <2>2. ~ overlapped => SumOf(Qty, W) <= InCarts
    BY <1>3, <1>4, <1>8, <2>1 DEF AllThere
  <2>3. SumOf(Qty, K) <= SumOf(Qty, W)
    BY <1>10
  <2> QED  BY <1>5, <1>8, <1>10, <2>2, <2>3
<1>12. SumOf(f, items) <= SumOf(Qty, W)
  <2>1. PICK id : id = [i \in items |-> i.id]
    OBVIOUS
  <2>2. \A i, j \in items : id[i] = id[j] => i = j
    BY <1>1, <2>1 DEF ItemsOK
  <2>3. ASSUME NEW i \in items  PROVE f[i] <= SumOf(Qty, Landed(W, w, id[i]))
    <3>1. Into(w, i.id) = Landed(W, w, id[i])
      BY <1>4, <1>9, <2>1, <2>3 DEF Into, Landed, Writers
    <3>2. i.quantity <= SumOf(Qty, Into(w, i.id))
      BY <1>3 DEF SharesOK, Share
    <3> QED  BY <1>7, <3>1, <3>2
  <2>4. PICK I, q : I = items /\ q = Qty
    OBVIOUS
  <2>5. /\ IsFiniteSet(I) /\ (\A i, j \in I : id[i] = id[j] => i = j)
        /\ (\A i \in I : f[i] \in Nat) /\ (\A r \in W : q[r] \in Nat)
    BY <1>1, <1>6, <1>9, <2>2, <2>4 DEF ItemsOK
  <2>6. \A i \in I : f[i] <= SumOf(q, Landed(W, w, id[i]))
    BY <2>3, <2>4
  <2>7. SumOf(f, I) <= SumOf(q, W)
    BY <1>6, <2>5, <2>6, SumByShare
  <2> QED  BY <2>4, <2>7
<1>13. PICK m : m = MostPerClick
  OBVIOUS
<1>14. m \in Nat /\ \A r \in B : Qty[r] \in Nat /\ Qty[r] <= m
  <2>1. m \in Nat /\ \A k \in Clicks : click[k].asked.quantity <= m
    BY <1>1, <1>13, MostIs
  <2>2. ASSUME NEW r \in B  PROVE Qty[r] \in Nat /\ Qty[r] <= m
    <3>1. r \in W /\ r \in Requests /\ req[r].pc # "new"
      BY <1>3, <1>4, <2>2 DEF Writers, WritersOK, Written
    <3>2. PICK k, n : k = r[1] /\ n = r[2]
      OBVIOUS
    <3>3. r = <<k, n>> /\ k \in Clicks /\ n \in Attempts /\ Told(k)
      BY <1>1, <3>1, <3>2, RequestIsAttempt DEF AllTold
    <3>4. Qty[r] = click[k].asked.quantity
      BY <3>1, <3>3 DEF Told, Qty
    <3> QED  BY <1>6, <2>1, <3>1, <3>3, <3>4
  <2> QED  BY <2>1, <2>2
<1>15. PICK c, d : c = Cardinality(B) /\ d = faults + Lost
  OBVIOUS
<1>16. c \in Nat /\ d \in Nat /\ c <= d
  <2>1. B \subseteq Spoiled /\ Spoiled \subseteq Requests
    BY <1>1, <1>3, <1>4, OthersSpoiled DEF Spoiled
  <2>2. IsFiniteSet(Spoiled)
    BY <2>1, FiniteRequests, FS_Subset
  <2>3. /\ Cardinality(B) <= Cardinality(Spoiled) /\ Cardinality(B) \in Nat
        /\ Cardinality(Spoiled) \in Nat
    BY <2>1, <2>2, FS_Subset, FS_CardinalityType
  <2>4. Cardinality(Spoiled) <= faults + Lost
    BY <1>1 DEF SpoiledPaid
  <2>5. d \in Nat
    <3>1. PICK p, l : p = faults /\ l = Lost
      OBVIOUS
    <3>2. p \in Nat /\ l \in Nat
      BY <1>1, <3>1, LostAddsUp DEF FlowInv, SpoiledPaid
    <3>3. d = p + l
      BY <1>15, <3>1
    <3> QED  BY <3>2, <3>3
  <2>6. PICK s : s = Cardinality(Spoiled)
    OBVIOUS
  <2>7. s \in Nat /\ c \in Nat /\ c <= s /\ s <= d
    BY <1>15, <2>3, <2>4, <2>6
  <2> QED  BY <2>5, <2>7
<1>17. SumOf(Qty, B) <= c * m
  BY <1>6, <1>14, <1>15, SumBound
<1>18. c * m <= d * m
  BY <1>14, <1>16, NoMoreThan
<1>19. PICK cm, dm : cm = c * m /\ dm = d * m
  OBVIOUS
<1>20. cm \in Nat /\ dm \in Nat
  BY <1>14, <1>16, <1>19
<1>21. SumOf(f, items) <= SumOf(Qty, K) + dm
  BY <1>10, <1>12, <1>17, <1>18, <1>19, <1>20
<1>22. InCarts <= AcceptedAdds + (faults + Lost) * MostPerClick
  BY <1>5, <1>8, <1>13, <1>15, <1>19, <1>21
<1> QED  BY <1>11, <1>22

\* However the clicks of a user are repeated, fail, are given up or restarted:
\* once they are answered, every accepted add is in a cart if no two attempts
\* overlapped, and counts once, but for one time more with each fault or lost
\* answer.
THEOREM AddsAreCounted == FlowSpec => []AddsCounted
<1>1. FlowInv /\ ShopInv /\ AddsInv /\ FlowAccount => AddsCounted
  BY InvCountsAdds
<1> QED  BY <1>1, FlowAccountInvariant, PTL
===============================================================================
