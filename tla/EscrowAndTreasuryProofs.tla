---------------------- MODULE EscrowAndTreasuryProofs -----------------------
(***************************************************************************)
(* The two components that keep balances: facts about sums, the custody    *)
(* escrow of a trade, the budgets and dispatches of the treasury.          *)
(***************************************************************************)
EXTENDS CustodyEscrow, TreasuryLedger, FiniteSetTheorems, NaturalsInduction,
        WellFoundedInduction, TLAPS

-----------------------------------------------------------------------------
(***************************************************************************)
(* Facts about SumFunctionOnSet, the sum of a function's values over a     *)
(* finite set in which the balances of CustodyEscrow and TreasuryLedger    *)
(* are stated.                                                             *)
(*                                                                         *)
(* The sum is defined as a CHOOSEn table of partial sums, so before        *)
(* anything can be said of it such a table has to exist.  It is built one  *)
(* cardinality at a time, and since an induction theorem with an operator  *)
(* parameter cannot be instantiated, each induction here takes the least   *)
(* member of the set of numbers for which the claim would fail.            *)
(***************************************************************************)

LOCAL Pick(s) == CHOOSE x \in s : TRUE
LOCAL Row(t, g, s) == IF s = {} THEN 0 ELSE g[Pick(s)] + t[s \ {Pick(s)}]
LOCAL IsTable(t, g, D) == t = [s \in D |-> Row(t, g, s)]
LOCAL Small(S, n) == {s \in SUBSET S : Cardinality(s) <= n}

\* A nonempty set of natural numbers has a least member.
LEMMA LeastNumber ==
  ASSUME NEW T \in SUBSET Nat, T # {}
  PROVE  \E n \in T : \A m \in T : ~(m < n)
<1>1. IsWellFoundedOn(OpToRel(<, Nat), Nat)
  BY NatLessThanWellFounded
<1>2. PICK n \in T : \A m \in T : ~(<<m, n>> \in OpToRel(<, Nat))
  BY <1>1, WFMin
<1>3. ASSUME NEW m \in T PROVE ~(m < n)
  BY <1>2, <1>3 DEF OpToRel
<1>. QED BY <1>3

LEMMA PickIsMember ==
  ASSUME NEW s, s # {}
  PROVE  Pick(s) \in s
BY DEF Pick

LEMMA Smaller ==
  ASSUME NEW S, IsFiniteSet(S), NEW s \in SUBSET S, NEW x \in s
  PROVE  /\ IsFiniteSet(s) /\ Cardinality(s) \in Nat \ {0}
         /\ s \ {x} \in SUBSET S
         /\ Cardinality(s \ {x}) = Cardinality(s) - 1
<1>1. IsFiniteSet(s)
  BY FS_Subset
<1>2. IsFiniteSet(s \ {x}) /\ Cardinality(s \ {x}) = Cardinality(s) - 1
  BY <1>1, FS_RemoveElement
<1>3. Cardinality(s) \in Nat /\ Cardinality(s \ {x}) \in Nat
  BY <1>1, <1>2, FS_CardinalityType
<1>. QED BY <1>1, <1>2, <1>3

-----------------------------------------------------------------------------
\* The table of the sums of all subsets exists.
LEMMA TableGrows ==
  ASSUME NEW S, IsFiniteSet(S), NEW g, NEW n \in Nat,
         NEW t, IsTable(t, g, Small(S, n))
  PROVE  \E u : IsTable(u, g, Small(S, n + 1))
<1>. DEFINE u == [s \in Small(S, n + 1) |-> Row(t, g, s)]
<1>1. ASSUME NEW s \in Small(S, n)
      PROVE  s \in Small(S, n + 1) /\ u[s] = t[s]
  <2>1. s \in SUBSET S /\ IsFiniteSet(s) /\ Cardinality(s) \in Nat /\ Cardinality(s) <= n
    BY <1>1, FS_Subset, FS_CardinalityType DEF Small
  <2>2. s \in Small(S, n + 1)
    BY <2>1 DEF Small
  <2>3. t[s] = Row(t, g, s)
    BY <1>1 DEF IsTable
  <2>. QED BY <2>2, <2>3
<1>2. ASSUME NEW s \in Small(S, n + 1)
      PROVE  Row(u, g, s) = Row(t, g, s)
  <2>1. CASE s = {}
    BY <2>1 DEF Row
  <2>2. CASE s # {}
    <3>. DEFINE r == s \ {Pick(s)}
    <3>1. r \in Small(S, n)
      <4>1. s \in SUBSET S /\ Cardinality(s) <= n + 1 /\ Pick(s) \in s
        BY <1>2, <2>2, PickIsMember DEF Small
      <4>2. r \in SUBSET S /\ Cardinality(r) = Cardinality(s) - 1 /\ Cardinality(s) \in Nat
        BY <4>1, Smaller
      <4>. QED BY <4>1, <4>2 DEF Small
    <3>2. u[r] = t[r]
      BY <3>1, <1>1
    <3>. QED BY <2>2, <3>2 DEF Row
  <2>. QED BY <2>1, <2>2
<1>3. u = [s \in Small(S, n + 1) |-> Row(u, g, s)]
  BY <1>2
<1>. QED BY <1>3 DEF IsTable

LEMMA TableExists ==
  ASSUME NEW S, IsFiniteSet(S), NEW g
  PROVE  \E t : IsTable(t, g, SUBSET S)
<1>. DEFINE Bad == {n \in Nat : ~ \E t : IsTable(t, g, Small(S, n))}
<1>1. Bad = {}
  <2>. SUFFICES ASSUME Bad # {} PROVE FALSE
    OBVIOUS
  <2>1. PICK n \in Bad : \A m \in Bad : ~(m < n)
    BY LeastNumber
  <2>2. CASE n = 0
    <3>. DEFINE t == [s \in Small(S, 0) |-> 0]
    <3>1. ASSUME NEW s \in Small(S, 0) PROVE s = {}
      <4>1. IsFiniteSet(s) /\ Cardinality(s) \in Nat /\ Cardinality(s) <= 0
        BY <3>1, FS_Subset, FS_CardinalityType DEF Small
      <4>. QED BY <4>1, FS_EmptySet
    <3>2. ASSUME NEW s \in Small(S, 0) PROVE Row(t, g, s) = 0
      BY <3>1, <3>2 DEF Row
    <3>3. t = [s \in Small(S, 0) |-> Row(t, g, s)]
      BY <3>2
    <3>4. IsTable(t, g, Small(S, 0))
      BY <3>3 DEF IsTable
    <3>. QED BY <3>4, <2>2, <2>1
  <2>3. CASE n # 0
    <3>1. n - 1 \in Nat /\ n - 1 < n /\ n - 1 + 1 = n
      BY <2>3
    <3>2. n - 1 \notin Bad
      BY <3>1, <2>1
    <3>3. PICK t : IsTable(t, g, Small(S, n - 1))
      BY <3>1, <3>2
    <3>4. \E u : IsTable(u, g, Small(S, n - 1 + 1))
      BY <3>1, <3>3, TableGrows
    <3>. QED BY <3>1, <3>4, <2>1
  <2>. QED BY <2>2, <2>3
<1>2. Cardinality(S) \in Nat
  BY FS_CardinalityType
<1>3. Small(S, Cardinality(S)) = SUBSET S
  BY FS_Subset DEF Small
<1>4. \E t : IsTable(t, g, Small(S, Cardinality(S)))
  BY <1>1, <1>2
<1>. QED BY <1>3, <1>4

\* The sum is the last row of one such table.
LEMMA SumIsInATable ==
  ASSUME NEW S, IsFiniteSet(S), NEW g
  PROVE  \E t : IsTable(t, g, SUBSET S) /\ SumFunctionOnSet(g, S) = t[S]
<1>. DEFINE Chosen == CHOOSE t : IsTable(t, g, SUBSET S)
<1>1. IsTable(Chosen, g, SUBSET S)
  BY TableExists
<1>2. SumFunctionOnSet(g, S) = Chosen[S]
  BY DEF SumFunctionOnSet, FoldFunctionOnSet, MapThenFoldSet, IsTable, Row, Pick
<1>. QED BY <1>1, <1>2

-----------------------------------------------------------------------------
\* What all tables agree on, whatever set they were made for.
LEMMA TablesAgree ==
  ASSUME NEW T, IsFiniteSet(T), NEW g, NEW h, \A x \in T : g[x] = h[x],
         NEW D, SUBSET T \subseteq D, NEW t, IsTable(t, g, D),
         NEW E, SUBSET T \subseteq E, NEW u, IsTable(u, h, E)
  PROVE  t[T] = u[T]
<1>. DEFINE Differs(n) == \E s \in SUBSET T : Cardinality(s) = n /\ t[s] # u[s]
            Bad == {n \in Nat : Differs(n)}
<1>1. Bad = {}
  <2>. SUFFICES ASSUME Bad # {} PROVE FALSE
    OBVIOUS
  <2>. HIDE DEF Differs
  <2>1. PICK n \in Bad : \A m \in Bad : ~(m < n)
    BY LeastNumber
  <2>2. PICK s \in SUBSET T : Cardinality(s) = n /\ t[s] # u[s]
    BY <2>1 DEF Differs
  <2>3. s \in D /\ s \in E
    BY <2>2
  <2>4. t[s] = Row(t, g, s) /\ u[s] = Row(u, h, s)
    BY <2>3 DEF IsTable
  <2>5. s # {}
    BY <2>2, <2>4 DEF Row
  <2>. DEFINE x == Pick(s)
              r == s \ {x}
  <2>6. x \in s
    BY <2>5, PickIsMember
  <2>7. Cardinality(r) = n - 1 /\ n \in Nat \ {0} /\ r \in SUBSET T
    BY <2>2, <2>6, Smaller
  <2>8. n - 1 \in Nat /\ n - 1 < n
    BY <2>7
  <2>9. ~Differs(n - 1)
    BY <2>1, <2>8
  <2>10. t[r] = u[r]
    BY <2>7, <2>9 DEF Differs
  <2>11. g[x] = h[x]
    BY <2>6, <2>2
  <2>. QED BY <2>2, <2>4, <2>5, <2>10, <2>11 DEF Row
<1>2. Cardinality(T) \in Nat
  BY FS_CardinalityType
<1>. QED BY <1>1, <1>2

\* A row is an integer, and splits at any of its elements.
LEMMA RowsAreIntegers ==
  ASSUME NEW S, IsFiniteSet(S), NEW g, \A x \in S : g[x] \in Int,
         NEW t, IsTable(t, g, SUBSET S), NEW T \in SUBSET S
  PROVE  t[T] \in Int
<1>. DEFINE Differs(n) == \E s \in SUBSET S : Cardinality(s) = n /\ t[s] \notin Int
            Bad == {n \in Nat : Differs(n)}
<1>1. Bad = {}
  <2>. SUFFICES ASSUME Bad # {} PROVE FALSE
    OBVIOUS
  <2>. HIDE DEF Differs
  <2>1. PICK n \in Bad : \A m \in Bad : ~(m < n)
    BY LeastNumber
  <2>2. PICK s \in SUBSET S : Cardinality(s) = n /\ t[s] \notin Int
    BY <2>1 DEF Differs
  <2>4. t[s] = Row(t, g, s)
    BY <2>2 DEF IsTable
  <2>5. s # {}
    BY <2>2, <2>4 DEF Row
  <2>. DEFINE x == Pick(s)
              r == s \ {x}
  <2>6. x \in s
    BY <2>5, PickIsMember
  <2>7. Cardinality(r) = n - 1 /\ n \in Nat \ {0} /\ r \in SUBSET S
    BY <2>2, <2>6, Smaller
  <2>8. n - 1 \in Nat /\ n - 1 < n
    BY <2>7
  <2>9. ~Differs(n - 1)
    BY <2>1, <2>8
  <2>10. t[r] \in Int
    BY <2>7, <2>9 DEF Differs
  <2>11. g[x] \in Int
    BY <2>6, <2>2
  <2>12. t[s] = g[x] + t[r]
    BY <2>4, <2>5 DEF Row
  <2>. QED BY <2>2, <2>10, <2>11, <2>12
<1>2. Cardinality(T) \in Nat
  BY FS_Subset, FS_CardinalityType
<1>. QED BY <1>1, <1>2

LEMMA RowsSplitAnywhere ==
  ASSUME NEW S, IsFiniteSet(S), NEW g, \A x \in S : g[x] \in Int,
         NEW t, IsTable(t, g, SUBSET S), NEW T \in SUBSET S, NEW e \in T
  PROVE  t[T] = g[e] + t[T \ {e}]
<1>. DEFINE Differs(n) == \E s \in SUBSET S : /\ Cardinality(s) = n
                                              /\ \E y \in s : t[s] # g[y] + t[s \ {y}]
            Bad == {n \in Nat : Differs(n)}
<1>1. Bad = {}
  <2>. SUFFICES ASSUME Bad # {} PROVE FALSE
    OBVIOUS
  <2>. HIDE DEF Differs
  <2>1. PICK n \in Bad : \A m \in Bad : ~(m < n)
    BY LeastNumber
  <2>2. PICK s \in SUBSET S : Cardinality(s) = n /\ \E y \in s : t[s] # g[y] + t[s \ {y}]
    BY <2>1 DEF Differs
  <2>3. PICK y \in s : t[s] # g[y] + t[s \ {y}]
    BY <2>2
  <2>. DEFINE x == Pick(s)
  <2>4. x \in s
    BY <2>3, PickIsMember
  <2>5. t[s] = g[x] + t[s \ {x}]
    <3>1. t[s] = Row(t, g, s)
      BY <2>2 DEF IsTable
    <3>. QED BY <3>1, <2>4 DEF Row
  <2>. HIDE DEF x
  <2>6. x # y
    BY <2>3, <2>5
  <2>7. /\ s \ {x} \in SUBSET S /\ Cardinality(s \ {x}) = n - 1
        /\ s \ {y} \in SUBSET S /\ Cardinality(s \ {y}) = n - 1
        /\ n - 1 \in Nat /\ n - 1 < n
    BY <2>2, <2>3, <2>4, Smaller
  <2>8. ~Differs(n - 1)
    BY <2>1, <2>7
  <2>9. y \in s \ {x} /\ x \in s \ {y} /\ (s \ {x}) \ {y} = (s \ {y}) \ {x}
    BY <2>3, <2>4, <2>6
  <2>10. t[s \ {x}] = g[y] + t[(s \ {x}) \ {y}]
    BY <2>7, <2>8, <2>9 DEF Differs
  <2>11. t[s \ {y}] = g[x] + t[(s \ {x}) \ {y}]
    <3>1. t[s \ {y}] = g[x] + t[(s \ {y}) \ {x}]
      BY <2>7, <2>8, <2>9 DEF Differs
    <3>. QED BY <3>1, <2>9
  <2>12. t[(s \ {x}) \ {y}] \in Int /\ g[x] \in Int /\ g[y] \in Int
    BY <2>3, <2>4, <2>7, RowsAreIntegers
  <2>. DEFINE rest == t[(s \ {x}) \ {y}]
  <2>. HIDE DEF rest
  <2>13. t[s] = g[x] + (g[y] + rest) /\ t[s \ {y}] = g[x] + rest
    BY <2>5, <2>10, <2>11 DEF rest
  <2>14. rest \in Int
    BY <2>12 DEF rest
  <2>15. t[s] = g[y] + t[s \ {y}]
    BY <2>12, <2>13, <2>14
  <2>. QED BY <2>3, <2>15
<1>2. Cardinality(T) \in Nat
  BY FS_Subset, FS_CardinalityType
<1>. QED BY <1>1, <1>2

-----------------------------------------------------------------------------
\* The sum of nothing.
LEMMA SumOfNothing ==
  ASSUME NEW g
  PROVE  SumFunctionOnSet(g, {}) = 0
<1>1. IsFiniteSet({})
  BY FS_EmptySet
<1>2. PICK t : IsTable(t, g, SUBSET {}) /\ SumFunctionOnSet(g, {}) = t[{}]
  BY <1>1, SumIsInATable
<1>. QED BY <1>2 DEF IsTable, Row

\* A sum of integers is an integer.
LEMMA SumIsInteger ==
  ASSUME NEW S, IsFiniteSet(S), NEW g, \A x \in S : g[x] \in Int
  PROVE  SumFunctionOnSet(g, S) \in Int
<1>1. PICK t : IsTable(t, g, SUBSET S) /\ SumFunctionOnSet(g, S) = t[S]
  BY SumIsInATable
<1>2. S \in SUBSET S
  OBVIOUS
<1>3. t[S] \in Int
  BY <1>1, <1>2, RowsAreIntegers
<1>. QED BY <1>1, <1>3

\* A sum depends on the values it adds and on nothing else.
LEMMA SumOfTheSame ==
  ASSUME NEW S, IsFiniteSet(S), NEW g, NEW h, \A x \in S : g[x] = h[x]
  PROVE  SumFunctionOnSet(g, S) = SumFunctionOnSet(h, S)
<1>1. PICK t : IsTable(t, g, SUBSET S) /\ SumFunctionOnSet(g, S) = t[S]
  BY SumIsInATable
<1>2. PICK u : IsTable(u, h, SUBSET S) /\ SumFunctionOnSet(h, S) = u[S]
  BY SumIsInATable
<1>3. t[S] = u[S]
  <2>1. IsTable(t, g, SUBSET S) /\ IsTable(u, h, SUBSET S)
    BY <1>1, <1>2
  <2>. QED BY <2>1, TablesAgree
<1>. QED BY <1>1, <1>2, <1>3

\* A sum is any of its terms and the sum of the others.
LEMMA SumSplits ==
  ASSUME NEW S, IsFiniteSet(S), NEW g, \A x \in S : g[x] \in Int, NEW e \in S
  PROVE  SumFunctionOnSet(g, S) = g[e] + SumFunctionOnSet(g, S \ {e})
<1>1. IsFiniteSet(S \ {e})
  BY FS_RemoveElement
<1>2. PICK t : IsTable(t, g, SUBSET S) /\ SumFunctionOnSet(g, S) = t[S]
  BY SumIsInATable
<1>3. PICK u : /\ IsTable(u, g, SUBSET (S \ {e}))
               /\ SumFunctionOnSet(g, S \ {e}) = u[S \ {e}]
  BY <1>1, SumIsInATable
<1>4. t[S \ {e}] = u[S \ {e}]
  <2>. DEFINE R == S \ {e}
  <2>1. /\ IsTable(t, g, SUBSET S) /\ IsTable(u, g, SUBSET R) /\ IsFiniteSet(R)
        /\ SUBSET R \subseteq SUBSET S /\ \A x \in R : g[x] = g[x]
    BY <1>1, <1>2, <1>3
  <2>. HIDE DEF R
  <2>2. t[R] = u[R]
    BY <2>1, TablesAgree
  <2>. QED BY <2>2 DEF R
<1>5. t[S] = g[e] + t[S \ {e}]
  <2>1. IsTable(t, g, SUBSET S) /\ S \in SUBSET S
    BY <1>2
  <2>. QED BY <2>1, RowsSplitAnywhere
<1>. QED BY <1>2, <1>3, <1>4, <1>5

\* Changing one term changes a sum by as much.
LEMMA SumFollowsAChange ==
  ASSUME NEW S, IsFiniteSet(S), NEW g, NEW h, NEW e \in S,
         \A x \in S : g[x] \in Int /\ h[x] \in Int,
         \A x \in S \ {e} : g[x] = h[x]
  PROVE  SumFunctionOnSet(h, S) = SumFunctionOnSet(g, S) - g[e] + h[e]
<1>1. IsFiniteSet(S \ {e})
  BY FS_RemoveElement
<1>2. SumFunctionOnSet(g, S) = g[e] + SumFunctionOnSet(g, S \ {e})
  BY SumSplits
<1>3. SumFunctionOnSet(h, S) = h[e] + SumFunctionOnSet(h, S \ {e})
  BY SumSplits
<1>4. SumFunctionOnSet(g, S \ {e}) = SumFunctionOnSet(h, S \ {e})
  BY <1>1, SumOfTheSame
<1>5. SumFunctionOnSet(g, S \ {e}) \in Int
  BY <1>1, SumIsInteger
<1>. QED BY <1>2, <1>3, <1>4, <1>5

\* A sum of zeros is zero.
LEMMA SumOfZeros ==
  ASSUME NEW S, IsFiniteSet(S), NEW g, \A x \in S : g[x] = 0
  PROVE  SumFunctionOnSet(g, S) = 0
<1>. DEFINE Bad == {n \in Nat : \E s \in SUBSET S :
                      Cardinality(s) = n /\ SumFunctionOnSet(g, s) # 0}
<1>1. Bad = {}
  <2>. SUFFICES ASSUME Bad # {} PROVE FALSE
    OBVIOUS
  <2>1. PICK n \in Bad : \A m \in Bad : ~(m < n)
    BY LeastNumber
  <2>2. PICK s \in SUBSET S : Cardinality(s) = n /\ SumFunctionOnSet(g, s) # 0
    BY <2>1
  <2>3. PICK e \in s : TRUE
    BY <2>2, SumOfNothing
  <2>4. /\ IsFiniteSet(s) /\ s \ {e} \in SUBSET S
        /\ Cardinality(s \ {e}) = n - 1 /\ n - 1 \in Nat /\ n - 1 < n
    <3>1. IsFiniteSet(s) /\ Cardinality(s) = n /\ n \in Nat
      BY <2>1, <2>2, FS_Subset
    <3>2. Cardinality(s \ {e}) = n - 1 /\ n \in Nat \ {0}
      BY <2>2, <2>3, Smaller
    <3>. QED BY <3>1, <3>2
  <2>5. SumFunctionOnSet(g, s \ {e}) = 0
    BY <2>1, <2>4
  <2>6. \A x \in s : g[x] \in Int
    BY <2>2
  <2>7. SumFunctionOnSet(g, s) = g[e] + SumFunctionOnSet(g, s \ {e})
    BY <2>4, <2>6, SumSplits
  <2>. QED BY <2>2, <2>5, <2>7
<1>2. Cardinality(S) \in Nat
  BY FS_CardinalityType
<1>. QED BY <1>1, <1>2

\* A sum in which nothing is positive is not positive.
LEMMA SumOfDebits ==
  ASSUME NEW S, IsFiniteSet(S), NEW g, \A x \in S : g[x] \in Int /\ g[x] <= 0
  PROVE  SumFunctionOnSet(g, S) <= 0
<1>. DEFINE Bad == {n \in Nat : \E s \in SUBSET S :
                      Cardinality(s) = n /\ ~(SumFunctionOnSet(g, s) <= 0)}
<1>1. Bad = {}
  <2>. SUFFICES ASSUME Bad # {} PROVE FALSE
    OBVIOUS
  <2>1. PICK n \in Bad : \A m \in Bad : ~(m < n)
    BY LeastNumber
  <2>2. PICK s \in SUBSET S : Cardinality(s) = n /\ ~(SumFunctionOnSet(g, s) <= 0)
    BY <2>1
  <2>3. PICK e \in s : TRUE
    BY <2>2, SumOfNothing
  <2>4. /\ IsFiniteSet(s) /\ s \ {e} \in SUBSET S /\ IsFiniteSet(s \ {e})
        /\ Cardinality(s \ {e}) = n - 1 /\ n - 1 \in Nat /\ n - 1 < n
    BY <2>2, Smaller, FS_RemoveElement
  <2>5. SumFunctionOnSet(g, s \ {e}) <= 0
    BY <2>1, <2>4
  <2>6. \A x \in s : g[x] \in Int
    BY <2>2
  <2>7. SumFunctionOnSet(g, s) = g[e] + SumFunctionOnSet(g, s \ {e})
    BY <2>4, <2>6, SumSplits
  <2>8. SumFunctionOnSet(g, s \ {e}) \in Int
    BY <2>4, <2>6, SumIsInteger
  <2>. QED BY <2>2, <2>5, <2>7, <2>8
<1>2. Cardinality(S) \in Nat
  BY FS_CardinalityType
<1>. QED BY <1>1, <1>2

\* A sum with one more term.
LEMMA SumExtends ==
  ASSUME NEW S, IsFiniteSet(S), NEW g, NEW h, NEW e, e \notin S, h[e] \in Int,
         \A x \in S : g[x] \in Int /\ h[x] = g[x]
  PROVE  SumFunctionOnSet(h, S \cup {e}) = SumFunctionOnSet(g, S) + h[e]
<1>. DEFINE R == S \cup {e}
<1>1. IsFiniteSet(R) /\ R \ {e} = S /\ e \in R /\ \A x \in R : h[x] \in Int
  BY FS_AddElement
<1>. HIDE DEF R
<1>2. SumFunctionOnSet(h, R) = h[e] + SumFunctionOnSet(h, S)
  BY <1>1, SumSplits
<1>3. SumFunctionOnSet(h, S) = SumFunctionOnSet(g, S) /\ SumFunctionOnSet(g, S) \in Int
  BY SumOfTheSame, SumIsInteger
<1>. QED BY <1>1, <1>2, <1>3 DEF R

-----------------------------------------------------------------------------
(***************************************************************************)
(* For any trades, deals, receipts and rotations, and any operators.       *)
(*                                                                         *)
(* The argument: the state of a trade fixes how many receipts have been    *)
(* executed on it and what the later ones said; their number is the nonce  *)
(* the next one must bear; and the terms that are stored at Stage 1 are    *)
(* those of the first.  A trade's record and its receipts are changed by   *)
(* the same transactions, so one fact about the two together               *)
(* (TradeIsRight) is kept by each.                                         *)
(***************************************************************************)

PrimaryFits(deal) == Primary(deal) \in Nat /\ Primary(deal) <= deal.shares

\* What the contract stores of trade t, against the receipts h executed on it.
TradeIsRight(t, e, h, time) ==
  /\ e \in Escrow /\ h \in Seq(Receipts) /\ Len(h) = e.nextNonce
  /\ \A i \in DOMAIN h :
       /\ h[i].tradeId = t /\ h[i].nonce = i - 1
       /\ [conditionId |-> h[i].conditionId,
           windowSeconds |-> h[i].exposureWindowSeconds] = e.terms
  /\ e.state # "NONE" => e.deal \in Deals /\ PrimaryFits(e.deal)
  /\ e.state \in {"NONE", "HELD", "UNCLOSED"} => Len(h) = 0
  /\ e.state = "HELD" => e.sharesReleased = 0
  /\ e.state \notin {"NONE", "HELD", "UNCLOSED"} => e.sharesReleased <= e.deal.shares
  /\ e.state = "PRIMARY_RELEASED" =>
       Len(h) = 1 /\ e.expiry = h[1].decidedAtKnowledge + h[1].exposureWindowSeconds
  /\ e.state = "SETTLED" =>
       Len(h) = 1 /\ time >= h[1].decidedAtKnowledge + h[1].exposureWindowSeconds
  /\ e.state = "FROZEN_PENDING_RULING" =>
       Len(h) = 2 /\ h[2].postRelease = "UNSUPPORTED_BY_WITHDRAWAL"
  /\ e.state = "DIVERTED" =>
       /\ Len(h) \in {2, 3} /\ h[Len(h)].postRelease = "REVERSED_ON_CORRECTION"
       /\ Len(h) = 3 => h[2].postRelease = "UNSUPPORTED_BY_WITHDRAWAL"

TradesAreRight ==
  \A t \in Trades : TradeIsRight(t, escrows[t], ruled[t], now)

IInv == TypeOK /\ TradesAreRight /\ ThresholdReachable

-----------------------------------------------------------------------------
(***************************************************************************)
(* What the invariant says of a trade.                                     *)
(***************************************************************************)

LEMMA ReceiptsAreTyped ==
  \A r \in Receipts : /\ r.decidedAtKnowledge \in Nat /\ r.exposureWindowSeconds \in Nat
                      /\ r.nonce \in Nat /\ r.evidenceDigest \in Evidence
                      /\ r.tradeId \in Trades /\ r.conditionId \in Conditions
                      /\ r.postRelease \in PostRelease
BY DealsAndReceipts DEF ReceiptType

LEMMA DealsAreTyped ==
  \A d \in Deals : /\ d.shares \in Nat /\ d.closingDeadline \in Nat /\ d.primaryBps \in Nat
                   /\ d.depositor \in Parties /\ d.beneficiary \in Parties
                   /\ d.corrector \in Parties
BY DealsAndReceipts DEF DealType

PartOf(s, b) == (s * b) \div 10000

\* A part of s in ten thousandths rounds down to no more than s.
LEMMA PartOfAWhole ==
  ASSUME NEW s \in Nat, NEW b \in Nat, b <= 10000
  PROVE  PartOf(s, b) \in Nat /\ PartOf(s, b) <= s
<1>1. s * b \in Nat
  OBVIOUS
<1>2. s * (10000 - b) \in Nat
  <2>1. 10000 - b \in Nat
    OBVIOUS
  <2>. QED  BY <2>1
<1>3. s * 10000 = s * b + s * (10000 - b)
  OBVIOUS
<1>4. \A x \in Nat : x <= s * 10000 => x \div 10000 \in Nat /\ x \div 10000 <= s
  OBVIOUS
<1>. QED  BY <1>1, <1>2, <1>3, <1>4 DEF PartOf

LEMMA PrimaryIsATranche ==
  ASSUME NEW deal \in Deals, PrimaryInRange(deal)
  PROVE  PrimaryFits(deal)
<1>. DEFINE shares == deal.shares
            bps == deal.primaryBps
<1>1. shares \in Nat /\ bps \in Nat
  BY DealsAreTyped
<1>2. Primary(deal) = PartOf(shares, bps)
  BY DEF Primary, PartOf
<1>3. PrimaryFits(deal) <=> Primary(deal) \in Nat /\ Primary(deal) <= shares
  BY DEF PrimaryFits
<1>4. bps <= 10000
  <2>1. bps <= 9500
    BY DEF PrimaryInRange
  <2>. HIDE DEF bps
  <2>. QED BY <1>1, <2>1
<1>. HIDE DEF shares, bps
<1>5. PartOf(shares, bps) \in Nat /\ PartOf(shares, bps) <= shares
  BY <1>1, <1>4, PartOfAWhole
<1>. QED  BY <1>2, <1>3, <1>5

LEMMA RightTradesAgree ==
  ASSUME TradesAreRight
  PROVE  OneAgreement
<1>. SUFFICES ASSUME NEW t \in Trades, NEW i \in DOMAIN ruled[t]
              PROVE  /\ ruled[t][i].tradeId = t /\ ruled[t][i].nonce = i - 1
                     /\ ruled[t][i].conditionId = ruled[t][1].conditionId
                     /\ ruled[t][i].exposureWindowSeconds = ruled[t][1].exposureWindowSeconds
  BY DEF OneAgreement
<1>. DEFINE h == ruled[t]
            Agreed(k) == [conditionId |-> h[k].conditionId,
                          windowSeconds |-> h[k].exposureWindowSeconds]
<1>1. /\ h \in Seq(Receipts)
      /\ \A k \in DOMAIN h : h[k].tradeId = t /\ h[k].nonce = k - 1
      /\ \A k \in DOMAIN h : Agreed(k) = escrows[t].terms
  <2>1. TradeIsRight(t, escrows[t], h, now)
    BY DEF TradesAreRight
  <2>. HIDE DEF h
  <2>. QED  BY <2>1 DEF TradeIsRight
<1>2. 1 \in DOMAIN h
  BY <1>1
<1>3. Agreed(i) = Agreed(1)
  BY <1>1, <1>2
<1>. QED  BY <1>1, <1>3

LEMMA RightTradesFollowTheRuling ==
  ASSUME TradesAreRight
  PROVE  BufferFollowsTheRuling
<1>. DEFINE post(h) == {h[i].postRelease : i \in 2 .. Len(h)}
            Right(e, h) ==
              /\ "UNSUPPORTED_BY_WITHDRAWAL" \in post(h) =>
                   e.state \in {"FROZEN_PENDING_RULING", "DIVERTED"}
              /\ e.state = "DIVERTED" <=> "REVERSED_ON_CORRECTION" \in post(h)
              /\ e.state = "SETTLED" =>
                   /\ post(h) = {}
                   /\ now >= h[1].decidedAtKnowledge + h[1].exposureWindowSeconds
<1>1. SUFFICES ASSUME NEW t \in Trades PROVE Right(escrows[t], ruled[t])
  BY DEF BufferFollowsTheRuling
<1>2. SUFFICES ASSUME NEW e, NEW h, TradeIsRight(t, e, h, now) PROVE Right(e, h)
  BY DEF TradesAreRight
<1>3. h \in Seq(Receipts) /\ e.state \in States
  BY <1>2 DEF TradeIsRight, Escrow
<1>4. CASE e.state \in {"NONE", "HELD", "UNCLOSED", "PRIMARY_RELEASED", "SETTLED"}
  <2>1. Len(h) \in {0, 1}
    BY <1>2, <1>4 DEF TradeIsRight
  <2>2. post(h) = {}
    BY <1>3, <2>1
  <2>3. e.state = "SETTLED" => now >= h[1].decidedAtKnowledge + h[1].exposureWindowSeconds
    BY <1>2 DEF TradeIsRight
  <2>. QED  BY <1>4, <2>2, <2>3
<1>5. CASE e.state = "FROZEN_PENDING_RULING"
  <2>1. Len(h) = 2 /\ h[2].postRelease = "UNSUPPORTED_BY_WITHDRAWAL"
    BY <1>2, <1>5 DEF TradeIsRight
  <2>2. post(h) = {"UNSUPPORTED_BY_WITHDRAWAL"}
    BY <1>3, <2>1
  <2>. QED  BY <1>5, <2>2
<1>6. CASE e.state = "DIVERTED"
  <2>1. Len(h) \in {2, 3} /\ h[Len(h)].postRelease = "REVERSED_ON_CORRECTION"
    BY <1>2, <1>6 DEF TradeIsRight
  <2>2. "REVERSED_ON_CORRECTION" \in post(h)
    BY <1>3, <2>1
  <2>. QED  BY <1>6, <2>2
<1>. QED  BY <1>3, <1>4, <1>5, <1>6 DEF States

-----------------------------------------------------------------------------
(***************************************************************************)
(* What a transaction does.                                                *)
(***************************************************************************)

\* A transfer the vault allows leaves every balance a natural number.
LEMMA TransferKeepsBalances ==
  ASSUME TypeOK, NEW from \in Parties \cup {"this"}, NEW to \in Parties \cup {"this"},
         NEW shares \in Nat, Transfer(from, to, shares)
  PROVE  vault' \in [Parties \cup {"this"} -> Nat]
BY DEF TypeOK, Transfer

\* A transaction on one trade leaves the others as they were.
LEMMA OneTradeMoves ==
  ASSUME IInv, NEW t \in Trades, NEW e, NEW h,
         escrows' = [escrows EXCEPT ![t] = e], ruled' = [ruled EXCEPT ![t] = h],
         now' = now, TradeIsRight(t, e, h, now)
  PROVE  /\ TradesAreRight'
         /\ escrows' \in [Trades -> Escrow] /\ ruled' \in [Trades -> Seq(Receipts)]
<1>1. /\ escrows \in [Trades -> Escrow] /\ ruled \in [Trades -> Seq(Receipts)]
      /\ e \in Escrow /\ h \in Seq(Receipts)
  BY DEF IInv, TypeOK, TradeIsRight
<1>2. ASSUME NEW u \in Trades
      PROVE  TradeIsRight(u, escrows'[u], ruled'[u], now')
  <2>1. CASE u = t
    BY <1>1, <2>1
  <2>2. CASE u # t
    <3>1. escrows'[u] = escrows[u] /\ ruled'[u] = ruled[u]
      BY <1>1, <2>2
    <3>. QED  BY <3>1 DEF IInv, TradesAreRight
  <2>. QED  BY <2>1, <2>2
<1>. QED  BY <1>1, <1>2 DEF TradesAreRight

\* The receipts of a trade with one more.
LEMMA OneMoreReceipt ==
  ASSUME NEW h \in Seq(Receipts), NEW r \in Receipts
  PROVE  /\ Append(h, r) \in Seq(Receipts) /\ Len(Append(h, r)) = Len(h) + 1
         /\ DOMAIN Append(h, r) = 1 .. Len(h) + 1
         /\ \A i \in 1 .. Len(h) : Append(h, r)[i] = h[i]
         /\ Append(h, r)[Len(h) + 1] = r
OBVIOUS

LEMMA DepositKeeps ==
  ASSUME IInv, NEW t \in Trades, NEW deal \in Deals, Deposit(t, deal)
  PROVE  IInv'
<1>. DEFINE new == [state |-> "HELD", deal |-> deal, counterpartyAccepted |-> FALSE,
                    sharesReleased |-> 0, terms |-> None, expiry |-> 0, nextNonce |-> 0]
<1>1. /\ escrows' = [escrows EXCEPT ![t] = new] /\ ruled' = ruled /\ now' = now
      /\ escrows[t].state = "NONE" /\ PrimaryFits(deal)
      /\ Transfer(deal.depositor, "this", deal.shares)
      /\ UNCHANGED <<evidenceUsed, signers>>
  <2>1. PrimaryFits(deal)
    BY PrimaryIsATranche DEF Deposit
  <2>. QED BY <2>1 DEF Deposit
<1>2. ruled' = [ruled EXCEPT ![t] = ruled[t]]
  BY <1>1 DEF IInv, TypeOK
<1>3. ruled[t] \in Seq(Receipts) /\ Len(ruled[t]) = 0
  BY <1>1 DEF IInv, TradesAreRight, TradeIsRight
<1>4. TradeIsRight(t, new, ruled[t], now)
  <2>1. new \in Escrow
    BY DEF Escrow, States
  <2>. QED  BY <1>1, <1>3, <2>1 DEF TradeIsRight
<1>5. vault' \in [Parties \cup {"this"} -> Nat]
  BY <1>1, DealsAreTyped, TransferKeepsBalances DEF IInv
<1>. HIDE DEF new
<1>6. /\ TradesAreRight'
      /\ escrows' \in [Trades -> Escrow] /\ ruled' \in [Trades -> Seq(Receipts)]
  BY <1>1, <1>2, <1>4, OneTradeMoves
<1>. QED  BY <1>1, <1>5, <1>6 DEF IInv, TypeOK, ThresholdReachable, signers

LEMMA AcceptKeeps ==
  ASSUME IInv, NEW t \in Trades, NEW sender \in Parties, Accept(t, sender)
  PROVE  IInv'
<1>. DEFINE old == escrows[t]
            new == [old EXCEPT !.counterpartyAccepted = TRUE]
<1>1. /\ escrows' = [escrows EXCEPT ![t] = new]
      /\ UNCHANGED <<now, evidenceUsed, vault, ruled, signers>>
  BY DEF Accept
<1>2. ruled' = [ruled EXCEPT ![t] = ruled[t]]
  BY <1>1 DEF IInv, TypeOK
<1>3. TradeIsRight(t, new, ruled[t], now)
  <2>1. TradeIsRight(t, old, ruled[t], now)
    BY DEF IInv, TradesAreRight
  <2>. HIDE DEF old
  <2>2. new \in Escrow
    BY <2>1 DEF TradeIsRight, Escrow
  <2>3. /\ new.state = old.state /\ new.deal = old.deal /\ new.terms = old.terms
        /\ new.sharesReleased = old.sharesReleased /\ new.expiry = old.expiry
        /\ new.nextNonce = old.nextNonce
    BY <2>1 DEF TradeIsRight, Escrow
  <2>. HIDE DEF new
  <2>. QED  BY <2>1, <2>2, <2>3 DEF TradeIsRight
<1>. HIDE DEF new
<1>4. /\ TradesAreRight'
      /\ escrows' \in [Trades -> Escrow] /\ ruled' \in [Trades -> Seq(Receipts)]
  BY <1>1, <1>2, <1>3, OneTradeMoves
<1>. QED  BY <1>1, <1>4 DEF IInv, TypeOK, ThresholdReachable, signers

LEMMA ReclaimKeeps ==
  ASSUME IInv, NEW t \in Trades, NEW sender \in Parties, ReclaimUnclosed(t, sender)
  PROVE  IInv'
<1>. DEFINE old == escrows[t]
            new == [old EXCEPT !.state = "UNCLOSED"]
<1>1. /\ escrows' = [escrows EXCEPT ![t] = new] /\ old.state = "HELD"
      /\ Transfer("this", old.deal.depositor, old.deal.shares)
      /\ UNCHANGED <<now, evidenceUsed, ruled, signers>>
  BY DEF ReclaimUnclosed
<1>2. ruled' = [ruled EXCEPT ![t] = ruled[t]]
  BY <1>1 DEF IInv, TypeOK
<1>3. TradeIsRight(t, old, ruled[t], now)
  BY DEF IInv, TradesAreRight
<1>. HIDE DEF old
<1>4. TradeIsRight(t, new, ruled[t], now)
  <2>1. new \in Escrow /\ new.state = "UNCLOSED"
    BY <1>3 DEF TradeIsRight, Escrow, States
  <2>2. new.deal = old.deal /\ new.terms = old.terms /\ new.nextNonce = old.nextNonce
    BY <1>3 DEF TradeIsRight, Escrow
  <2>. HIDE DEF new
  <2>. QED  BY <1>1, <1>3, <2>1, <2>2 DEF TradeIsRight
<1>. HIDE DEF new
<1>5. vault' \in [Parties \cup {"this"} -> Nat]
  <2>1. old.deal \in Deals
    BY <1>1, <1>3 DEF TradeIsRight
  <2>. QED  BY <1>1, <2>1, DealsAreTyped, TransferKeepsBalances DEF IInv
<1>6. /\ TradesAreRight'
      /\ escrows' \in [Trades -> Escrow] /\ ruled' \in [Trades -> Seq(Receipts)]
  BY <1>1, <1>2, <1>4, OneTradeMoves
<1>. QED  BY <1>1, <1>5, <1>6 DEF IInv, TypeOK, ThresholdReachable, signers

LEMMA SettleKeeps ==
  ASSUME IInv, NEW t \in Trades, Settle(t)
  PROVE  IInv'
<1>. DEFINE old == escrows[t]
            new == [old EXCEPT !.state = "SETTLED"]
<1>1. /\ escrows' = [escrows EXCEPT ![t] = new] /\ old.state = "PRIMARY_RELEASED"
      /\ now >= old.expiry
      /\ Transfer("this", old.deal.beneficiary, old.deal.shares - old.sharesReleased)
      /\ UNCHANGED <<now, evidenceUsed, ruled, signers>>
  BY DEF Settle
<1>2. ruled' = [ruled EXCEPT ![t] = ruled[t]]
  BY <1>1 DEF IInv, TypeOK
<1>3. TradeIsRight(t, old, ruled[t], now)
  BY DEF IInv, TradesAreRight
<1>. HIDE DEF old
<1>4. TradeIsRight(t, new, ruled[t], now)
  <2>1. new \in Escrow /\ new.state = "SETTLED"
    BY <1>3 DEF TradeIsRight, Escrow, States
  <2>2. /\ new.deal = old.deal /\ new.terms = old.terms /\ new.nextNonce = old.nextNonce
        /\ new.sharesReleased = old.sharesReleased
    BY <1>3 DEF TradeIsRight, Escrow
  <2>. HIDE DEF new
  <2>. QED  BY <1>1, <1>3, <2>1, <2>2 DEF TradeIsRight
<1>. HIDE DEF new
<1>5. vault' \in [Parties \cup {"this"} -> Nat]
  <2>1. /\ old.deal \in Deals /\ old.sharesReleased \in Nat
        /\ old.sharesReleased <= old.deal.shares
    BY <1>1, <1>3 DEF TradeIsRight, Escrow
  <2>2. old.deal.shares - old.sharesReleased \in Nat
    BY <2>1, DealsAreTyped
  <2>. QED  BY <1>1, <2>1, <2>2, DealsAreTyped, TransferKeepsBalances DEF IInv
<1>6. /\ TradesAreRight'
      /\ escrows' \in [Trades -> Escrow] /\ ruled' \in [Trades -> Seq(Receipts)]
  BY <1>1, <1>2, <1>4, OneTradeMoves
<1>. QED  BY <1>1, <1>5, <1>6 DEF IInv, TypeOK, ThresholdReachable, signers

\* Stage 1: the first receipt of the trade fixes its terms.
LEMMA ReleaseKeeps ==
  ASSUME IInv, NEW r \in Receipts, NEW signatures \in SUBSET Operators,
         ReleasePrimary(r.tradeId, r, signatures)
  PROVE  IInv'
<1>. DEFINE t == r.tradeId
            old == escrows[t]
            h == ruled[t]
            terms == [conditionId |-> r.conditionId, windowSeconds |-> r.exposureWindowSeconds]
            expiry == r.decidedAtKnowledge + r.exposureWindowSeconds
            primary == Primary(old.deal)
            new == [old EXCEPT !.state = "PRIMARY_RELEASED", !.terms = terms,
                               !.expiry = expiry, !.nextNonce = old.nextNonce + 1,
                               !.sharesReleased = primary]
<1>1. /\ old.state = "HELD" /\ r.nonce = old.nextNonce
      /\ ruled' = [ruled EXCEPT ![t] = Append(h, r)]
      /\ evidenceUsed' = evidenceUsed \cup {r.evidenceDigest}
      /\ Transfer("this", old.deal.beneficiary, primary)
      /\ UNCHANGED <<now, signers>>
  BY DEF ReleasePrimary, Spend
<1>2. escrows' = [escrows EXCEPT ![t] = new]
  BY DEF ReleasePrimary
<1>3. t \in Trades /\ TradeIsRight(t, old, h, now)
  BY ReceiptsAreTyped DEF IInv, TradesAreRight
<1>4. /\ terms \in Terms /\ expiry \in Nat
  BY ReceiptsAreTyped DEF Terms
<1>. HIDE DEF old, h, new
<1>5. /\ h \in Seq(Receipts) /\ Len(h) = 0 /\ old.nextNonce = 0 /\ old \in Escrow
      /\ old.deal \in Deals /\ PrimaryFits(old.deal)
  <2>1. old.state = "HELD"
    BY <1>1
  <2>. QED  BY <1>3, <2>1 DEF TradeIsRight
<1>6. primary \in Nat /\ primary <= old.deal.shares
  BY <1>5 DEF PrimaryFits
<1>7. TradeIsRight(t, new, Append(h, r), now)
  <2>. HIDE DEF terms, expiry, primary
  <2>1. new \in Escrow
    <3>1. /\ terms \in Terms /\ expiry \in Nat /\ primary \in Nat /\ old \in Escrow
          /\ old.nextNonce + 1 \in Nat
      BY <1>4, <1>5, <1>6
    <3>. QED  BY <3>1 DEF new, Escrow, States
  <2>2. /\ new.state = "PRIMARY_RELEASED" /\ new.deal = old.deal /\ new.nextNonce = 1
        /\ new.terms = terms /\ new.expiry = expiry /\ new.sharesReleased = primary
    BY <1>5 DEF new, Escrow
  <2>3. /\ Append(h, r) \in Seq(Receipts) /\ Len(Append(h, r)) = 1
        /\ DOMAIN Append(h, r) = {1} /\ Append(h, r)[1] = r
    BY <1>5
  <2>. QED
    BY <1>1, <1>5, <1>6, <2>1, <2>2, <2>3 DEF TradeIsRight, terms, expiry
<1>8. vault' \in [Parties \cup {"this"} -> Nat]
  BY <1>1, <1>5, <1>6, DealsAreTyped, TransferKeepsBalances DEF IInv
<1>9. /\ TradesAreRight'
      /\ escrows' \in [Trades -> Escrow] /\ ruled' \in [Trades -> Seq(Receipts)]
  BY <1>1, <1>2, <1>3, <1>7, OneTradeMoves
<1>. QED
  BY <1>1, <1>8, <1>9, ReceiptsAreTyped DEF IInv, TypeOK, ThresholdReachable, signers

\* The receipts h and another one, r, of the terms that are stored.
OneMoreOfTheTerms(t, e, h, g, r) ==
  /\ g \in Seq(Receipts) /\ Len(g) = e.nextNonce + 1 /\ g[e.nextNonce + 1] = r
  /\ \A i \in 1 .. e.nextNonce : g[i] = h[i]
  /\ \A i \in DOMAIN g :
       /\ g[i].tradeId = t /\ g[i].nonce = i - 1
       /\ [conditionId |-> g[i].conditionId,
           windowSeconds |-> g[i].exposureWindowSeconds] = e.terms

LEMMA RuledAgain ==
  ASSUME NEW t, NEW e, NEW h, NEW time, TradeIsRight(t, e, h, time), NEW r \in Receipts,
         r.tradeId = t, r.nonce = e.nextNonce,
         [conditionId |-> r.conditionId, windowSeconds |-> r.exposureWindowSeconds] = e.terms
  PROVE  OneMoreOfTheTerms(t, e, h, Append(h, r), r)
<1>. DEFINE n == e.nextNonce
            g == Append(h, r)
            Agreed(q) == [conditionId |-> q.conditionId,
                          windowSeconds |-> q.exposureWindowSeconds]
<1>1. h \in Seq(Receipts) /\ Len(h) = n /\ n \in Nat
  BY DEF TradeIsRight, Escrow
<1>2. \A i \in DOMAIN h : h[i].tradeId = t /\ h[i].nonce = i - 1 /\ Agreed(h[i]) = e.terms
  BY DEF TradeIsRight
<1>3. Agreed(r) = e.terms
  OBVIOUS
<1>. HIDE DEF n, Agreed
<1>4. /\ g \in Seq(Receipts) /\ Len(g) = n + 1 /\ g[n + 1] = r
      /\ DOMAIN g = 1 .. n + 1 /\ DOMAIN h = 1 .. n
      /\ \A i \in 1 .. n : g[i] = h[i]
  BY <1>1
<1>. HIDE DEF g
<1>5. ASSUME NEW i \in DOMAIN g
      PROVE  g[i].tradeId = t /\ g[i].nonce = i - 1 /\ Agreed(g[i]) = e.terms
  <2>1. CASE i = n + 1
    <3>1. i - 1 = n /\ g[i] = r
      BY <1>1, <1>4, <2>1
    <3>. QED  BY <1>3, <3>1 DEF n
  <2>2. CASE i \in 1 .. n
    BY <1>2, <1>4, <2>2
  <2>. QED  BY <1>1, <1>4, <2>1, <2>2
<1>. QED  BY <1>4, <1>5 DEF n, g, Agreed, OneMoreOfTheTerms

LEMMA DivertKeeps ==
  ASSUME IInv, NEW r \in Receipts, NEW signatures \in SUBSET Operators,
         DivertOnCorrection(r.tradeId, r, signatures)
  PROVE  IInv'
<1>. DEFINE t == r.tradeId
            old == escrows[t]
            h == ruled[t]
            g == Append(h, r)
            new == [old EXCEPT !.state = "DIVERTED", !.nextNonce = old.nextNonce + 1]
<1>1. /\ old.state \in {"PRIMARY_RELEASED", "FROZEN_PENDING_RULING"}
      /\ r.postRelease = "REVERSED_ON_CORRECTION" /\ r.nonce = old.nextNonce
      /\ [conditionId |-> r.conditionId, windowSeconds |-> r.exposureWindowSeconds] = old.terms
      /\ ruled' = [ruled EXCEPT ![t] = g]
      /\ evidenceUsed' = evidenceUsed \cup {r.evidenceDigest}
      /\ Transfer("this", old.deal.corrector, old.deal.shares - old.sharesReleased)
      /\ UNCHANGED <<now, signers>>
  BY DEF DivertOnCorrection, CheckPostRelease, Spend
<1>2. t \in Trades /\ TradeIsRight(t, old, h, now)
  BY ReceiptsAreTyped DEF IInv, TradesAreRight
<1>3. escrows' = [escrows EXCEPT ![t] = new]
  BY <1>2 DEF DivertOnCorrection, IInv, TypeOK, Escrow
<1>. HIDE DEF old, h, new, g
<1>4. /\ old \in Escrow /\ old.deal \in Deals /\ PrimaryFits(old.deal)
      /\ old.sharesReleased <= old.deal.shares
      /\ old.state = "PRIMARY_RELEASED" => old.nextNonce = 1
      /\ old.state = "FROZEN_PENDING_RULING" =>
           old.nextNonce = 2 /\ h[2].postRelease = "UNSUPPORTED_BY_WITHDRAWAL"
  BY <1>1, <1>2 DEF TradeIsRight
<1>5. TradeIsRight(t, new, g, now)
  <2>1. new \in Escrow
    <3>1. old.nextNonce + 1 \in Nat
      BY <1>4 DEF Escrow
    <3>. QED  BY <1>4, <3>1 DEF new, Escrow, States
  <2>2. /\ new.state = "DIVERTED" /\ new.deal = old.deal /\ new.terms = old.terms
        /\ new.nextNonce = old.nextNonce + 1 /\ new.sharesReleased = old.sharesReleased
    BY <1>4 DEF new, Escrow
  <2>3. OneMoreOfTheTerms(t, old, h, g, r)
    BY <1>1, <1>2, RuledAgain DEF g
  <2>4. /\ Len(g) \in {2, 3} /\ g[Len(g)].postRelease = "REVERSED_ON_CORRECTION"
        /\ Len(g) = 3 => g[2].postRelease = "UNSUPPORTED_BY_WITHDRAWAL"
    BY <1>1, <1>4, <2>3 DEF OneMoreOfTheTerms
  <2>. QED  BY <1>4, <2>1, <2>2, <2>3, <2>4 DEF TradeIsRight, OneMoreOfTheTerms
<1>6. vault' \in [Parties \cup {"this"} -> Nat]
  <2>1. old.deal.shares - old.sharesReleased \in Nat
    BY <1>4, DealsAreTyped DEF Escrow
  <2>. QED  BY <1>1, <1>4, <2>1, DealsAreTyped, TransferKeepsBalances DEF IInv
<1>7. /\ TradesAreRight'
      /\ escrows' \in [Trades -> Escrow] /\ ruled' \in [Trades -> Seq(Receipts)]
  BY <1>1, <1>2, <1>3, <1>5, OneTradeMoves
<1>. QED
  BY <1>1, <1>6, <1>7, ReceiptsAreTyped DEF IInv, TypeOK, ThresholdReachable, signers

LEMMA FreezeKeeps ==
  ASSUME IInv, NEW r \in Receipts, NEW signatures \in SUBSET Operators,
         FreezeOnWithdrawal(r.tradeId, r, signatures)
  PROVE  IInv'
<1>. DEFINE t == r.tradeId
            old == escrows[t]
            h == ruled[t]
            g == Append(h, r)
            expiry == now + old.terms.windowSeconds
            new == [old EXCEPT !.state = "FROZEN_PENDING_RULING", !.expiry = expiry,
                               !.nextNonce = old.nextNonce + 1]
<1>1. /\ old.state = "PRIMARY_RELEASED"
      /\ r.postRelease = "UNSUPPORTED_BY_WITHDRAWAL" /\ r.nonce = old.nextNonce
      /\ [conditionId |-> r.conditionId, windowSeconds |-> r.exposureWindowSeconds] = old.terms
      /\ ruled' = [ruled EXCEPT ![t] = g]
      /\ evidenceUsed' = evidenceUsed \cup {r.evidenceDigest}
      /\ UNCHANGED <<now, vault, signers>>
  BY DEF FreezeOnWithdrawal, CheckPostRelease, Spend
<1>2. t \in Trades /\ TradeIsRight(t, old, h, now)
  BY ReceiptsAreTyped DEF IInv, TradesAreRight
<1>3. escrows' = [escrows EXCEPT ![t] = new]
  BY <1>2 DEF FreezeOnWithdrawal, IInv, TypeOK, Escrow
<1>4. expiry \in Nat
  BY <1>1, ReceiptsAreTyped DEF IInv, TypeOK
<1>. HIDE DEF old, h, new, g, expiry
<1>5. /\ old \in Escrow /\ old.deal \in Deals /\ PrimaryFits(old.deal)
      /\ old.sharesReleased <= old.deal.shares /\ old.nextNonce = 1
  BY <1>1, <1>2 DEF TradeIsRight
<1>6. TradeIsRight(t, new, g, now)
  <2>1. new \in Escrow
    <3>1. old.nextNonce + 1 \in Nat
      BY <1>5 DEF Escrow
    <3>. QED  BY <1>4, <1>5, <3>1 DEF new, Escrow, States
  <2>2. /\ new.state = "FROZEN_PENDING_RULING" /\ new.deal = old.deal
        /\ new.terms = old.terms /\ new.nextNonce = 2
        /\ new.sharesReleased = old.sharesReleased
    BY <1>5 DEF new, Escrow
  <2>3. OneMoreOfTheTerms(t, old, h, g, r)
    BY <1>1, <1>2, RuledAgain DEF g
  <2>. QED  BY <1>1, <1>5, <2>1, <2>2, <2>3 DEF TradeIsRight, OneMoreOfTheTerms
<1>7. /\ TradesAreRight'
      /\ escrows' \in [Trades -> Escrow] /\ ruled' \in [Trades -> Seq(Receipts)]
  BY <1>1, <1>2, <1>3, <1>6, OneTradeMoves
<1>. QED
  BY <1>1, <1>7, ReceiptsAreTyped DEF IInv, TypeOK, ThresholdReachable, signers

\* The count follows the set when one operator joins or leaves, and the new
\* threshold is checked against the count after the change.
LEMMA RotationKeeps ==
  ASSUME IInv, NEW rotation \in Rotations, ExecuteRotation(rotation)
  PROVE  IInv'
<1>1. /\ UNCHANGED <<now, contract>>
      /\ rotation.add <=> rotation.signer \notin isSigner
      /\ isSigner' = IF rotation.add THEN isSigner \cup {rotation.signer}
                                     ELSE isSigner \ {rotation.signer}
      /\ signerCount' = IF rotation.add THEN signerCount + 1 ELSE signerCount - 1
      /\ threshold' = rotation.newThreshold /\ threshold' \in 1 .. signerCount'
      /\ rotationReadyAt' = [rotationReadyAt EXCEPT ![rotation] = 0]
  BY DEF ExecuteRotation
<1>2. rotation.signer \in Operators /\ rotation.newThreshold \in Nat
  BY RotationsAreTyped
<1>3. /\ IsFiniteSet(isSigner) /\ Cardinality(isSigner) \in Nat
      /\ signerCount = Cardinality(isSigner)
  BY ConstructorArguments, FS_Subset, FS_CardinalityType DEF IInv, TypeOK, ThresholdReachable
<1>4. signerCount' = Cardinality(isSigner') /\ isSigner' \subseteq Operators
  <2>1. CASE rotation.add
    BY <1>1, <1>2, <1>3, <2>1, FS_AddElement DEF IInv, TypeOK
  <2>2. CASE ~rotation.add
    BY <1>1, <1>2, <1>3, <2>2, FS_RemoveElement DEF IInv, TypeOK
  <2>. QED  BY <2>1, <2>2
<1>5. IsFiniteSet(isSigner') /\ Cardinality(isSigner') \in Nat
  BY <1>4, ConstructorArguments, FS_Subset, FS_CardinalityType
<1>6. TypeOK' /\ ThresholdReachable'
  BY <1>1, <1>2, <1>4, <1>5 DEF IInv, TypeOK, ThresholdReachable, contract
<1>7. TradesAreRight'
  BY <1>1 DEF IInv, TradesAreRight, contract
<1>. QED  BY <1>6, <1>7 DEF IInv

LEMMA TickKeeps ==
  ASSUME IInv, Tick
  PROVE  IInv'
<1>1. now \in Nat /\ now' = now + 1 /\ UNCHANGED <<contract, signers>>
  BY DEF Tick, IInv, TypeOK
<1>2. TypeOK' /\ ThresholdReachable'
  BY <1>1 DEF IInv, TypeOK, ThresholdReachable, contract, signers
<1>3. ASSUME NEW t \in Trades
      PROVE  TradeIsRight(t, escrows[t], ruled[t], now + 1)
  <2>. DEFINE e == escrows[t]
              h == ruled[t]
  <2>1. TradeIsRight(t, e, h, now)
    BY DEF IInv, TradesAreRight
  <2>. HIDE DEF e, h
  <2>2. e.state = "SETTLED" =>
          h[1].decidedAtKnowledge \in Nat /\ h[1].exposureWindowSeconds \in Nat
    <3>1. e.state = "SETTLED" => h \in Seq(Receipts) /\ 1 \in DOMAIN h
      BY <2>1 DEF TradeIsRight
    <3>2. e.state = "SETTLED" => h[1] \in Receipts
      BY <3>1
    <3>. QED  BY <3>2, ReceiptsAreTyped
  <2>3. TradeIsRight(t, e, h, now + 1)
    BY <1>1, <2>1, <2>2 DEF TradeIsRight
  <2>. QED  BY <2>3 DEF e, h
<1>. QED  BY <1>1, <1>2, <1>3 DEF IInv, TradesAreRight, contract

LEMMA InitialInvariant == Init => IInv
<1>. SUFFICES ASSUME Init PROVE IInv
  OBVIOUS
<1>. DEFINE none == [state |-> "NONE", deal |-> None, counterpartyAccepted |-> FALSE,
                     sharesReleased |-> 0, terms |-> None, expiry |-> 0, nextNonce |-> 0]
<1>1. none \in Escrow
  BY DEF Escrow, States
<1>2. /\ escrows = [t \in Trades |-> none] /\ ruled = [t \in Trades |-> <<>>] /\ now = 1
  BY DEF Init
<1>3. ASSUME NEW t \in Trades
      PROVE  TradeIsRight(t, none, <<>>, now)
  BY <1>1 DEF TradeIsRight
<1>4. TradesAreRight
  BY <1>2, <1>3 DEF TradesAreRight
<1>5. IsFiniteSet(InitialSigners) /\ Cardinality(InitialSigners) \in Nat
  BY ConstructorArguments, FS_Subset, FS_CardinalityType
<1>6. TypeOK
  <2>1. escrows \in [Trades -> Escrow]
    BY <1>1, <1>2
  <2>2. ruled \in [Trades -> Seq(Receipts)]
    BY <1>2
  <2>3. vault \in [Parties \cup {"this"} -> Nat]
    BY ConstructorArguments DEF Init
  <2>4. /\ isSigner \subseteq Operators /\ signerCount \in Nat /\ threshold \in Nat
        /\ rotationReadyAt \in [Rotations -> Nat] /\ evidenceUsed \subseteq Evidence
    BY <1>5, ConstructorArguments DEF Init
  <2>. QED  BY <1>2, <2>1, <2>2, <2>3, <2>4 DEF TypeOK
<1>7. ThresholdReachable
  BY ConstructorArguments DEF Init, ThresholdReachable
<1>. QED  BY <1>4, <1>6, <1>7 DEF IInv

LEMMA InductiveInvariant == IInv /\ [Next]_vars => IInv'
<1>. SUFFICES ASSUME IInv, [Next]_vars PROVE IInv'
  OBVIOUS
<1>1. ASSUME NEW t \in Trades, Call(t) PROVE IInv'
  BY <1>1, DepositKeeps, AcceptKeeps, ReclaimKeeps, SettleKeeps DEF Call
<1>2. ASSUME NEW r \in Receipts, NEW signatures \in SUBSET Operators, Present(r, signatures)
      PROVE  IInv'
  BY <1>2, ReleaseKeeps, DivertKeeps, FreezeKeeps DEF Present
<1>3. ASSUME NEW rotation \in Rotations, ProposeRotation(rotation) PROVE IInv'
  <2>1. /\ UNCHANGED <<now, contract, isSigner, signerCount, threshold>>
        /\ rotationReadyAt' = [rotationReadyAt EXCEPT ![rotation] = now + ROTATION_DELAY]
    BY <1>3 DEF ProposeRotation
  <2>2. TradesAreRight' /\ ThresholdReachable'
    BY <2>1 DEF IInv, TradesAreRight, ThresholdReachable, contract
  <2>3. TypeOK'
    BY <2>1, ConstructorArguments DEF IInv, TypeOK, contract
  <2>. QED  BY <2>2, <2>3 DEF IInv
<1>4. CASE UNCHANGED vars
  BY <1>4 DEF vars, contract, signers, IInv, TypeOK, TradesAreRight, ThresholdReachable
<1>. QED  BY <1>1, <1>2, <1>3, <1>4, RotationKeeps, TickKeeps DEF Next

-----------------------------------------------------------------------------
(***************************************************************************)
(* The shares the contract holds.                                          *)
(***************************************************************************)

\* What a trade with record e is owed; Outstanding(t) is this of escrows[t].
Owed(e) ==
  IF e.state \in {"HELD", "PRIMARY_RELEASED", "FROZEN_PENDING_RULING"}
  THEN e.deal.shares - e.sharesReleased ELSE 0

Covers(held, records) ==
  held = SumFunctionOnSet([t \in Trades |-> Owed(records[t])], Trades)

LEMMA CoversEscrows ==
  /\ VaultCoversEscrows <=> Covers(vault["this"], escrows)
  /\ VaultCoversEscrows' <=> Covers(vault'["this"], escrows')
BY DEF VaultCoversEscrows, Covers, Outstanding, Owed

LEMMA OwedIsACount ==
  ASSUME NEW t, NEW e, NEW h, NEW time, TradeIsRight(t, e, h, time)
  PROVE  Owed(e) \in Nat
<1>1. e.state \in {"HELD", "PRIMARY_RELEASED", "FROZEN_PENDING_RULING"} =>
        e.deal \in Deals /\ e.sharesReleased \in Nat /\ e.sharesReleased <= e.deal.shares
  BY DealsAreTyped DEF TradeIsRight, Escrow
<1>. QED  BY <1>1, DealsAreTyped DEF Owed

\* When one trade's record changes, the contract's shares have to change by what
\* that trade is owed more or less.
LEMMA OneTradeIsPaid ==
  ASSUME IInv, IInv', Covers(vault["this"], escrows), NEW t \in Trades, NEW e,
         escrows' = [escrows EXCEPT ![t] = e],
         vault'["this"] = vault["this"] - Owed(escrows[t]) + Owed(e)
  PROVE  Covers(vault'["this"], escrows')
<1>. DEFINE before == [u \in Trades |-> Owed(escrows[u])]
            after == [u \in Trades |-> Owed(escrows'[u])]
<1>1. escrows \in [Trades -> Escrow]
  BY DEF IInv, TypeOK
<1>2. escrows'[t] = e /\ \A u \in Trades \ {t} : escrows'[u] = escrows[u]
  BY <1>1
<1>3. \A u \in Trades : Owed(escrows[u]) \in Nat /\ Owed(escrows'[u]) \in Nat
  BY OwedIsACount DEF IInv, TradesAreRight
<1>4. \A u \in Trades : before[u] \in Int /\ after[u] \in Int
  BY <1>3
<1>5. \A u \in Trades \ {t} : before[u] = after[u]
  BY <1>2
<1>6. before[t] = Owed(escrows[t]) /\ after[t] = Owed(e)
  BY <1>2
<1>. HIDE DEF before, after
<1>7. SumFunctionOnSet(after, Trades)
        = SumFunctionOnSet(before, Trades) - before[t] + after[t]
  BY <1>4, <1>5, TheContractIsNoParty, SumFollowsAChange
<1>8. vault["this"] = SumFunctionOnSet(before, Trades)
  BY DEF Covers, before
<1>9. vault'["this"] = SumFunctionOnSet(after, Trades)
  BY <1>6, <1>7, <1>8
<1>. QED  BY <1>9 DEF Covers, after

\* What a transfer does to the contract's own balance.
LEMMA TransferMoves ==
  ASSUME TypeOK, NEW p \in Parties, NEW shares \in Nat
  PROVE  /\ Transfer(p, "this", shares) => vault'["this"] = vault["this"] + shares
         /\ Transfer("this", p, shares) => vault'["this"] = vault["this"] - shares
<1>1. p # "this" /\ vault \in [Parties \cup {"this"} -> Nat]
  BY TheContractIsNoParty DEF TypeOK
<1>. QED  BY <1>1 DEF Transfer

LEMMA CallIsCovered ==
  ASSUME IInv, IInv', VaultCoversEscrows, NEW t \in Trades, Call(t)
  PROVE  VaultCoversEscrows'
<1>. DEFINE old == escrows[t]
<1>1. TradeIsRight(t, old, ruled[t], now) /\ Covers(vault["this"], escrows)
  BY CoversEscrows DEF IInv, TradesAreRight
<1>2. escrows \in [Trades -> Escrow] /\ vault["this"] \in Nat
  BY DEF IInv, TypeOK
<1>. SUFFICES Covers(vault'["this"], escrows')
  BY CoversEscrows
<1>3. ASSUME NEW deal \in Deals, Deposit(t, deal) PROVE Covers(vault'["this"], escrows')
  <2>. DEFINE new == [state |-> "HELD", deal |-> deal, counterpartyAccepted |-> FALSE,
                      sharesReleased |-> 0, terms |-> None, expiry |-> 0, nextNonce |-> 0]
  <2>1. /\ escrows' = [escrows EXCEPT ![t] = new] /\ old.state = "NONE"
        /\ Transfer(deal.depositor, "this", deal.shares)
    BY <1>3 DEF Deposit
  <2>2. deal.shares \in Nat /\ deal.depositor \in Parties
    BY DealsAreTyped
  <2>3. Owed(old) = 0 /\ Owed(new) = deal.shares
    BY <2>1, <2>2 DEF Owed
  <2>4. vault'["this"] = vault["this"] + deal.shares
    BY <2>1, <2>2, TransferMoves DEF IInv
  <2>. HIDE DEF new
  <2>5. vault'["this"] = vault["this"] - Owed(old) + Owed(new)
    BY <1>2, <2>2, <2>3, <2>4
  <2>. QED  BY <1>1, <2>1, <2>5, OneTradeIsPaid
<1>4. ASSUME NEW sender \in Parties, Accept(t, sender) PROVE Covers(vault'["this"], escrows')
  <2>. DEFINE new == [old EXCEPT !.counterpartyAccepted = TRUE]
  <2>1. escrows' = [escrows EXCEPT ![t] = new] /\ vault' = vault
    BY <1>4 DEF Accept
  <2>2. Owed(new) = Owed(old) /\ Owed(old) \in Nat
    BY <1>1, <1>2, OwedIsACount DEF Owed, Escrow
  <2>. HIDE DEF new
  <2>3. vault'["this"] = vault["this"] - Owed(old) + Owed(new)
    BY <1>2, <2>1, <2>2
  <2>. QED  BY <1>1, <2>1, <2>3, OneTradeIsPaid
<1>5. ASSUME NEW sender \in Parties, ReclaimUnclosed(t, sender)
      PROVE  Covers(vault'["this"], escrows')
  <2>. DEFINE new == [old EXCEPT !.state = "UNCLOSED"]
  <2>1. /\ escrows' = [escrows EXCEPT ![t] = new] /\ old.state = "HELD"
        /\ Transfer("this", old.deal.depositor, old.deal.shares)
    BY <1>5 DEF ReclaimUnclosed
  <2>2. old.deal \in Deals /\ old.sharesReleased = 0
    BY <1>1, <2>1 DEF TradeIsRight
  <2>3. old.deal.shares \in Nat /\ old.deal.depositor \in Parties
    BY <2>2, DealsAreTyped
  <2>4. Owed(old) = old.deal.shares /\ Owed(new) = 0
    BY <1>2, <2>1, <2>2, <2>3 DEF Owed, Escrow
  <2>5. vault'["this"] = vault["this"] - old.deal.shares
    BY <2>1, <2>3, TransferMoves DEF IInv
  <2>. HIDE DEF new
  <2>6. vault'["this"] = vault["this"] - Owed(old) + Owed(new)
    BY <1>2, <2>3, <2>4, <2>5
  <2>. QED  BY <1>1, <2>1, <2>6, OneTradeIsPaid
<1>6. ASSUME Settle(t) PROVE Covers(vault'["this"], escrows')
  <2>. DEFINE new == [old EXCEPT !.state = "SETTLED"]
  <2>1. /\ escrows' = [escrows EXCEPT ![t] = new] /\ old.state = "PRIMARY_RELEASED"
        /\ Transfer("this", old.deal.beneficiary, old.deal.shares - old.sharesReleased)
    BY <1>6 DEF Settle
  <2>2. old.deal \in Deals
    BY <1>1, <2>1 DEF TradeIsRight
  <2>3. /\ Owed(old) = old.deal.shares - old.sharesReleased /\ Owed(old) \in Nat
        /\ Owed(new) = 0
    BY <1>1, <1>2, <2>1, OwedIsACount DEF Owed, Escrow
  <2>4. vault'["this"] = vault["this"] - Owed(old)
    BY <2>1, <2>2, <2>3, DealsAreTyped, TransferMoves DEF IInv
  <2>. HIDE DEF new
  <2>5. vault'["this"] = vault["this"] - Owed(old) + Owed(new)
    BY <1>2, <2>3, <2>4
  <2>. QED  BY <1>1, <2>1, <2>5, OneTradeIsPaid
<1>. QED  BY <1>3, <1>4, <1>5, <1>6 DEF Call

LEMMA ReceiptIsCovered ==
  ASSUME IInv, IInv', VaultCoversEscrows, NEW r \in Receipts,
         NEW signatures \in SUBSET Operators, Present(r, signatures)
  PROVE  VaultCoversEscrows'
<1>. DEFINE t == r.tradeId
            old == escrows[t]
<1>1. t \in Trades /\ TradeIsRight(t, old, ruled[t], now) /\ Covers(vault["this"], escrows)
  BY CoversEscrows, ReceiptsAreTyped DEF IInv, TradesAreRight
<1>2. /\ escrows \in [Trades -> Escrow] /\ old \in Escrow /\ vault["this"] \in Nat
  BY <1>1 DEF IInv, TypeOK
<1>. HIDE DEF t
<1>. SUFFICES Covers(vault'["this"], escrows')
  BY CoversEscrows
<1>3. ASSUME ReleasePrimary(t, r, signatures) PROVE Covers(vault'["this"], escrows')
  <2>. DEFINE primary == Primary(old.deal)
              terms == [conditionId |-> r.conditionId,
                        windowSeconds |-> r.exposureWindowSeconds]
              new == [old EXCEPT !.state = "PRIMARY_RELEASED", !.terms = terms,
                        !.expiry = r.decidedAtKnowledge + r.exposureWindowSeconds,
                        !.nextNonce = old.nextNonce + 1, !.sharesReleased = primary]
  <2>1. old.state = "HELD" /\ Transfer("this", old.deal.beneficiary, primary)
    BY <1>3 DEF ReleasePrimary
  <2>2. escrows' = [escrows EXCEPT ![t] = new]
    BY <1>3 DEF ReleasePrimary
  <2>3. old.deal \in Deals /\ PrimaryFits(old.deal) /\ old.sharesReleased = 0
    BY <1>1, <2>1 DEF TradeIsRight
  <2>4. primary \in Nat /\ old.deal.shares \in Nat /\ old.deal.beneficiary \in Parties
    BY <2>3, DealsAreTyped DEF PrimaryFits
  <2>. HIDE DEF primary, terms
  <2>5. Owed(old) = old.deal.shares /\ Owed(new) = old.deal.shares - primary
    BY <1>2, <2>1, <2>3, <2>4 DEF Owed, Escrow
  <2>6. vault'["this"] = vault["this"] - primary
    BY <2>1, <2>4, TransferMoves DEF IInv
  <2>. HIDE DEF new
  <2>7. vault'["this"] = vault["this"] - Owed(old) + Owed(new)
    BY <1>2, <2>4, <2>5, <2>6
  <2>. QED  BY <1>1, <2>2, <2>7, OneTradeIsPaid
<1>4. ASSUME DivertOnCorrection(t, r, signatures) PROVE Covers(vault'["this"], escrows')
  <2>. DEFINE new == [old EXCEPT !.state = "DIVERTED", !.nextNonce = old.nextNonce + 1]
  <2>1. /\ old.state \in {"PRIMARY_RELEASED", "FROZEN_PENDING_RULING"}
        /\ Transfer("this", old.deal.corrector, old.deal.shares - old.sharesReleased)
    BY <1>4 DEF DivertOnCorrection
  <2>2. escrows' = [escrows EXCEPT ![t] = new]
    BY <1>1, <1>2, <1>4 DEF DivertOnCorrection, Escrow
  <2>3. old.deal \in Deals
    BY <1>1, <2>1 DEF TradeIsRight
  <2>4. /\ Owed(old) = old.deal.shares - old.sharesReleased /\ Owed(old) \in Nat
        /\ Owed(new) = 0
    BY <1>1, <1>2, <2>1, OwedIsACount DEF Owed, Escrow
  <2>5. vault'["this"] = vault["this"] - Owed(old)
    BY <2>1, <2>3, <2>4, DealsAreTyped, TransferMoves DEF IInv
  <2>. HIDE DEF new
  <2>6. vault'["this"] = vault["this"] - Owed(old) + Owed(new)
    BY <1>2, <2>4, <2>5
  <2>. QED  BY <1>1, <2>2, <2>6, OneTradeIsPaid
<1>5. ASSUME FreezeOnWithdrawal(t, r, signatures) PROVE Covers(vault'["this"], escrows')
  <2>. DEFINE expiry == now + old.terms.windowSeconds
              new == [old EXCEPT !.state = "FROZEN_PENDING_RULING", !.expiry = expiry,
                                 !.nextNonce = old.nextNonce + 1]
  <2>1. old.state = "PRIMARY_RELEASED" /\ vault' = vault
    BY <1>5 DEF FreezeOnWithdrawal
  <2>2. escrows' = [escrows EXCEPT ![t] = new]
    BY <1>1, <1>2, <1>5 DEF FreezeOnWithdrawal, Escrow
  <2>. HIDE DEF expiry
  <2>3. Owed(new) = Owed(old) /\ Owed(old) \in Nat
    BY <1>1, <1>2, <2>1, OwedIsACount DEF Owed, Escrow
  <2>. HIDE DEF new
  <2>4. vault'["this"] = vault["this"] - Owed(old) + Owed(new)
    BY <1>2, <2>1, <2>3
  <2>. QED  BY <1>1, <2>2, <2>4, OneTradeIsPaid
<1>. QED  BY <1>3, <1>4, <1>5 DEF Present, t

LEMMA NothingIsOwedAtFirst == Init => VaultCoversEscrows
<1>. SUFFICES ASSUME Init PROVE VaultCoversEscrows
  OBVIOUS
<1>. DEFINE owed == [t \in Trades |-> Owed(escrows[t])]
            nothing == [t \in Trades |-> 0]
<1>1. vault["this"] = 0
  BY DEF Init
<1>2. \A t \in Trades : owed[t] = 0
  BY DEF Init, Owed
<1>. HIDE DEF owed
<1>3. SumFunctionOnSet(owed, Trades) = 0
  BY <1>2, TheContractIsNoParty, SumOfZeros
<1>4. Covers(vault["this"], escrows)
  BY <1>1, <1>3 DEF Covers, owed
<1>. QED  BY <1>4, CoversEscrows

LEMMA SharesAreKept ==
  IInv /\ IInv' /\ VaultCoversEscrows /\ [Next]_vars => VaultCoversEscrows'
<1>. SUFFICES ASSUME IInv, IInv', VaultCoversEscrows, [Next]_vars
              PROVE  VaultCoversEscrows'
  OBVIOUS
<1>1. ASSUME escrows' = escrows, vault' = vault PROVE VaultCoversEscrows'
  BY <1>1, CoversEscrows
<1>2. ASSUME NEW rotation \in Rotations,
             ProposeRotation(rotation) \/ ExecuteRotation(rotation)
      PROVE  VaultCoversEscrows'
  BY <1>1, <1>2 DEF ProposeRotation, ExecuteRotation, contract
<1>3. CASE Tick
  BY <1>1, <1>3 DEF Tick, contract
<1>4. CASE UNCHANGED vars
  BY <1>1, <1>4 DEF vars, contract
<1>. QED  BY <1>2, <1>3, <1>4, CallIsCovered, ReceiptIsCovered DEF Next

-----------------------------------------------------------------------------
\* Type correctness together with what is stored of each trade and the operator
\* count, for the contract's whole interface.
THEOREM EscrowsAreRight == Spec => []IInv
BY InitialInvariant, InductiveInvariant, PTL DEF Spec

\* The storage keeps its types: no balance, tranche or remainder is negative.
THEOREM TypeCorrect == Spec => []TypeOK
<1>1. IInv => TypeOK
  BY DEF IInv
<1>. QED  BY <1>1, EscrowsAreRight, PTL

\* Whatever receipts are presented, those executed on a trade are about the
\* agreement of its first: releasePrimary() stores its terms, and
\* _checkPostReleaseReceipt() holds every later one to them.
THEOREM TradesKeepOneAgreement == Spec => []OneAgreement
<1>1. IInv => OneAgreement
  BY RightTradesAgree DEF IInv
<1>. QED  BY <1>1, EscrowsAreRight, PTL

\* A buffer whose support was withdrawn is never paid to the beneficiary, and is
\* diverted only on a reversal; settle() pays only an uncontested one.
THEOREM BuffersFollowTheirRulings == Spec => []BufferFollowsTheRuling
<1>1. IInv => BufferFollowsTheRuling
  BY RightTradesFollowTheRuling DEF IInv
<1>. QED  BY <1>1, EscrowsAreRight, PTL

\* executeRotation() never leaves a threshold above the number of operators,
\* in whatever order proposed rotations come due.
THEOREM ThresholdStaysReachable == Spec => []ThresholdReachable
<1>1. IInv => ThresholdReachable
  BY DEF IInv
<1>. QED  BY <1>1, EscrowsAreRight, PTL

\* The contract's balance is at every moment the sum of what its open trades are
\* still owed, for any number of trades: rounding of tranches, crossing receipts
\* and returns of unclosed deposits never pay one trade out of another.
THEOREM SharesAreConserved == Spec => []VaultCoversEscrows
BY EscrowsAreRight, NothingIsOwedAtFirst, SharesAreKept, PTL DEF Spec

-----------------------------------------------------------------------------
(***************************************************************************)
(* The evidence of a ruling is spent for all trades together.              *)
(***************************************************************************)

\* No two receipts that were executed, on one trade or on two, rest on one piece
\* of evidence.
EvidenceIsSpentOnce ==
  \A t, u \in Trades : \A i \in DOMAIN ruled[t], j \in DOMAIN ruled[u] :
    ruled[t][i].evidenceDigest = ruled[u][j].evidenceDigest => t = u /\ i = j

EvidenceIsKept ==
  \A t \in Trades : \A i \in DOMAIN ruled[t] : ruled[t][i].evidenceDigest \in evidenceUsed

LEMMA SpendingSpendsOnce ==
  ASSUME IInv, EvidenceIsSpentOnce, EvidenceIsKept,
         NEW r \in Receipts, r.tradeId \in Trades, r.evidenceDigest \notin evidenceUsed, Spend(r)
  PROVE  EvidenceIsSpentOnce' /\ EvidenceIsKept'
<1>. PICK t : t = r.tradeId
  OBVIOUS
<1>1. ruled[t] \in Seq(Receipts) /\ t \in Trades
  BY DEF IInv, TypeOK
<1>. DEFINE n == Len(ruled[t])
<1>2. ruled'[t] = Append(ruled[t], r) /\ \A u \in Trades : u # t => ruled'[u] = ruled[u]
  BY DEF Spend, IInv, TypeOK
<1>3. /\ n \in Nat /\ DOMAIN ruled[t] = 1..n /\ DOMAIN ruled'[t] = 1 .. n + 1
      /\ \A i \in 1..n : ruled'[t][i] = ruled[t][i]
      /\ ruled'[t][n + 1] = r
  BY <1>1, <1>2
<1>4. evidenceUsed' = evidenceUsed \cup {r.evidenceDigest}
  BY DEF Spend
\* A ruling there is now is the new one or was there under the same number.
<1>5. ASSUME NEW u \in Trades, NEW i \in DOMAIN ruled'[u]
      PROVE  \/ u = t /\ i = n + 1 /\ ruled'[u][i] = r
             \/ i \in DOMAIN ruled[u] /\ ruled'[u][i] = ruled[u][i] /\ ruled[u][i].evidenceDigest \in evidenceUsed
  <2>1. CASE u = t
    <3>1. i \in 1..n \/ i = n + 1
      BY <1>3, <1>5, <2>1
    <3>. QED BY <1>3, <2>1, <3>1 DEF EvidenceIsKept
  <2>2. CASE u # t
    BY <1>2, <1>5, <2>2 DEF EvidenceIsKept
  <2>. QED BY <2>1, <2>2
<1>6. EvidenceIsKept'
  BY <1>4, <1>5 DEF EvidenceIsKept
<1>7. EvidenceIsSpentOnce'
  <2>. SUFFICES ASSUME NEW u \in Trades, NEW v \in Trades, NEW i \in DOMAIN ruled'[u], NEW j \in DOMAIN ruled'[v],
                       ruled'[u][i].evidenceDigest = ruled'[v][j].evidenceDigest
                PROVE  u = v /\ i = j
    BY DEF EvidenceIsSpentOnce
  <2>1. \/ u = t /\ i = n + 1 /\ ruled'[u][i] = r
        \/ i \in DOMAIN ruled[u] /\ ruled'[u][i] = ruled[u][i] /\ ruled[u][i].evidenceDigest \in evidenceUsed
    BY <1>5
  <2>2. \/ v = t /\ j = n + 1 /\ ruled'[v][j] = r
        \/ j \in DOMAIN ruled[v] /\ ruled'[v][j] = ruled[v][j] /\ ruled[v][j].evidenceDigest \in evidenceUsed
    BY <1>5
  <2>. HIDE DEF n
  <2>. QED BY <2>1, <2>2 DEF EvidenceIsSpentOnce
<1>. QED BY <1>6, <1>7

\* A ruling is executed on one trade, once: whoever presents its receipts again, on
\* this trade or another, before or after a rotation of the signers, meets the
\* evidence that _verify() finds used.
THEOREM EvidenceNeverRulesTwice == Spec => []EvidenceIsSpentOnce
<1>1. Init => EvidenceIsSpentOnce /\ EvidenceIsKept
  BY DEF Init, EvidenceIsSpentOnce, EvidenceIsKept
<1>2. IInv /\ EvidenceIsSpentOnce /\ EvidenceIsKept /\ [Next]_vars => EvidenceIsSpentOnce' /\ EvidenceIsKept'
  <2>. SUFFICES ASSUME IInv, EvidenceIsSpentOnce, EvidenceIsKept, [Next]_vars
                PROVE  EvidenceIsSpentOnce' /\ EvidenceIsKept'
    OBVIOUS
  <2>1. CASE UNCHANGED <<evidenceUsed, ruled>>
    BY <2>1 DEF EvidenceIsSpentOnce, EvidenceIsKept
  <2>2. ASSUME NEW r \in Receipts, NEW signatures, Present(r, signatures)
        PROVE  EvidenceIsSpentOnce' /\ EvidenceIsKept'
    <3>1. r.tradeId \in Trades
      BY DealsAndReceipts DEF ReceiptType
    <3>2. r.evidenceDigest \notin evidenceUsed /\ Spend(r)
      BY <2>2 DEF Present, ReleasePrimary, DivertOnCorrection, FreezeOnWithdrawal, Verify
    <3>. QED BY <3>1, <3>2, SpendingSpendsOnce
  <2>3. CASE \E t \in Trades : Call(t)
    <3>1. UNCHANGED <<evidenceUsed, ruled>>
      BY <2>3 DEF Call, Deposit, Accept, ReclaimUnclosed, Settle
    <3>. QED BY <2>1, <3>1
  <2>4. CASE \E r \in Receipts, signatures \in SUBSET Operators : Present(r, signatures)
    BY <2>2, <2>4
  <2>5. CASE \E rotation \in Rotations : ProposeRotation(rotation) \/ ExecuteRotation(rotation)
    <3>1. UNCHANGED contract
      BY <2>5 DEF ProposeRotation, ExecuteRotation
    <3>. QED BY <2>1, <3>1 DEF contract
  <2>6. CASE Tick \/ UNCHANGED vars
    <3>1. UNCHANGED contract
      BY <2>6 DEF Tick, vars
    <3>. QED BY <2>1, <3>1 DEF contract
  <2>. QED BY <2>3, <2>4, <2>5, <2>6 DEF Next
<1>. QED BY <1>1, <1>2, EscrowsAreRight, PTL DEF Spec

-----------------------------------------------------------------------------
(***************************************************************************)
(* The contract implements an account per trade.  Each transaction changes *)
(* the record of one trade and moves shares between the contract and one   *)
(* party, so what it does to the accounts is said once, for any record and *)
(* any transfer, and each transaction only has to name its own.            *)
(***************************************************************************)

AgreementsStay == UNCHANGED [u \in Trades |-> escrows[u].deal]
AccountsStay   == UNCHANGED [u \in Trades |-> Outstanding(u)]

\* A function that differs from another at one argument.
LEMMA OneArgumentChanges ==
  ASSUME NEW S, NEW t \in S, NEW v, NEW f, NEW g,
         f = [u \in S |-> f[u]], g = [u \in S |-> g[u]],
         g[t] = v, \A u \in S : u # t => g[u] = f[u]
  PROVE  g = [f EXCEPT ![t] = v]
OBVIOUS

\* The accounts when the record of one trade is replaced.
LEMMA OneRecordChanges ==
  ASSUME IInv, NEW t \in Trades, NEW e, escrows' = [escrows EXCEPT ![t] = e]
  PROVE  /\ [u \in Trades |-> escrows'[u].state]
              = [[u \in Trades |-> escrows[u].state] EXCEPT ![t] = e.state]
         /\ [u \in Trades |-> escrows'[u].deal]
              = [[u \in Trades |-> escrows[u].deal] EXCEPT ![t] = e.deal]
         /\ [u \in Trades |-> Outstanding(u)']
              = [[u \in Trades |-> Outstanding(u)] EXCEPT ![t] = Owed(e)]
<1>1. escrows \in [Trades -> Escrow]
  BY DEF IInv, TypeOK
<1>2. escrows'[t] = e /\ \A u \in Trades : u # t => escrows'[u] = escrows[u]
  BY <1>1
<1>3. /\ \A u \in Trades : Outstanding(u) = Owed(escrows[u])
      /\ \A u \in Trades : Outstanding(u)' = Owed(escrows'[u])
  BY DEF Outstanding, Owed
<1>4. /\ Outstanding(t)' = Owed(e)
      /\ \A u \in Trades : u # t => Outstanding(u)' = Outstanding(u)
  BY <1>2, <1>3
<1>. DEFINE stage == [u \in Trades |-> escrows[u].state]
            agreed == [u \in Trades |-> escrows[u].deal]
            owing == [u \in Trades |-> Outstanding(u)]
<1>5. stage' = [stage EXCEPT ![t] = e.state]
  <2>1. stage'[t] = e.state /\ \A u \in Trades : u # t => stage'[u] = stage[u]
    BY <1>2
  <2>2. stage = [u \in Trades |-> stage[u]] /\ stage' = [u \in Trades |-> stage'[u]]
    OBVIOUS
  <2>. HIDE DEF stage
  <2>. QED  BY <2>1, <2>2, OneArgumentChanges
<1>6. agreed' = [agreed EXCEPT ![t] = e.deal]
  <2>1. agreed'[t] = e.deal /\ \A u \in Trades : u # t => agreed'[u] = agreed[u]
    BY <1>2
  <2>2. agreed = [u \in Trades |-> agreed[u]] /\ agreed' = [u \in Trades |-> agreed'[u]]
    OBVIOUS
  <2>. HIDE DEF agreed
  <2>. QED  BY <2>1, <2>2, OneArgumentChanges
<1>7. owing' = [owing EXCEPT ![t] = Owed(e)]
  <2>1. owing'[t] = Owed(e) /\ \A u \in Trades : u # t => owing'[u] = owing[u]
    BY <1>4
  <2>2. owing = [u \in Trades |-> owing[u]] /\ owing' = [u \in Trades |-> owing'[u]]
    OBVIOUS
  <2>. HIDE DEF owing
  <2>. QED  BY <2>1, <2>2, OneArgumentChanges
<1>. QED  BY <1>5, <1>6, <1>7

LEMMA OneAccountMoves ==
  ASSUME IInv, NEW t \in Trades, NEW e, escrows' = [escrows EXCEPT ![t] = e]
  PROVE  /\ Accounts!Moves(t, escrows[t].state, e.state)
         /\ Accounts!Agree(t, e.deal)
         /\ Accounts!Keep(t, Owed(e))
         /\ Outstanding(t) = Owed(escrows[t])
         /\ e.deal = escrows[t].deal => AgreementsStay
         /\ Owed(e) = Owed(escrows[t]) => AccountsStay
<1>1. /\ [u \in Trades |-> escrows'[u].state]
              = [[u \in Trades |-> escrows[u].state] EXCEPT ![t] = e.state]
      /\ [u \in Trades |-> escrows'[u].deal]
              = [[u \in Trades |-> escrows[u].deal] EXCEPT ![t] = e.deal]
      /\ [u \in Trades |-> Outstanding(u)']
              = [[u \in Trades |-> Outstanding(u)] EXCEPT ![t] = Owed(e)]
  BY OneRecordChanges
<1>2. Outstanding(t) = Owed(escrows[t])
  BY DEF Outstanding, Owed
<1>3. Accounts!Moves(t, escrows[t].state, e.state)
  BY <1>1 DEF Accounts!Moves
<1>4. Accounts!Agree(t, e.deal)
  BY <1>1 DEF Accounts!Agree
<1>5. Accounts!Keep(t, Owed(e))
  BY <1>1 DEF Accounts!Keep
<1>6. e.deal = escrows[t].deal => AgreementsStay
  BY <1>1 DEF AgreementsStay
<1>7. Owed(e) = Owed(escrows[t]) => AccountsStay
  <2>. DEFINE owing == [u \in Trades |-> Outstanding(u)]
  <2>1. owing[t] = Owed(escrows[t]) /\ owing' = [owing EXCEPT ![t] = Owed(e)]
    BY <1>1, <1>2
  <2>2. owing = [owing EXCEPT ![t] = owing[t]]
    OBVIOUS
  <2>3. (owing' = owing) => AccountsStay
    BY DEF AccountsStay
  <2>. HIDE DEF owing
  <2>. QED BY <2>1, <2>2, <2>3
<1>. QED  BY <1>2, <1>3, <1>4, <1>5, <1>6, <1>7

\* The balances of the parties when the contract pays one of them, and when one
\* pays the contract.
LEMMA OneBalanceMoves ==
  ASSUME TypeOK, NEW p \in Parties, NEW shares \in Nat
  PROVE  /\ Transfer("this", p, shares) => Accounts!Credit(p, shares)
         /\ Transfer(p, "this", shares) => Accounts!Debit(p, shares)
<1>1. p # "this" /\ vault \in [Parties \cup {"this"} -> Nat] /\ "this" \notin Parties
  BY TheContractIsNoParty DEF TypeOK
<1>. DEFINE balance == [q \in Parties |-> vault[q]]
<1>2. ASSUME Transfer("this", p, shares) PROVE Accounts!Credit(p, shares)
  <2>1. vault' = [vault EXCEPT !["this"] = vault["this"] - shares, ![p] = vault[p] + shares]
    BY <1>1, <1>2 DEF Transfer
  <2>2. vault'[p] = vault[p] + shares /\ \A q \in Parties : q # p => vault'[q] = vault[q]
    BY <1>1, <2>1
  <2>3. balance' = [balance EXCEPT ![p] = balance[p] + shares]
    BY <2>2
  <2>. QED  BY <2>3 DEF Accounts!Credit
<1>3. ASSUME Transfer(p, "this", shares) PROVE Accounts!Debit(p, shares)
  <2>1. /\ vault' = [vault EXCEPT ![p] = vault[p] - shares, !["this"] = vault["this"] + shares]
        /\ vault[p] >= shares
    BY <1>1, <1>3 DEF Transfer
  <2>2. vault'[p] = vault[p] - shares /\ \A q \in Parties : q # p => vault'[q] = vault[q]
    BY <1>1, <2>1
  <2>3. balance' = [balance EXCEPT ![p] = balance[p] - shares]
    BY <2>2
  <2>4. shares <= balance[p]
    BY <1>1, <2>1
  <2>. QED  BY <2>3, <2>4 DEF Accounts!Debit
<1>. QED  BY <1>2, <1>3

\* A payment to p of part of what trade t is owed is one out of t's own account.
LEMMA PaidFromItsAccount ==
  ASSUME IInv, NEW t \in Trades, NEW e, NEW p \in Parties, NEW shares \in Nat,
         escrows' = [escrows EXCEPT ![t] = e], Transfer("this", p, shares),
         Owed(escrows[t]) \in Nat, Owed(e) \in Nat, Owed(e) = Owed(escrows[t]) - shares
  PROVE  Accounts!Pay(t, p, shares)
<1>1. Accounts!Keep(t, Owed(e)) /\ Outstanding(t) = Owed(escrows[t])
  BY OneAccountMoves
<1>2. Accounts!Credit(p, shares)
  BY OneBalanceMoves DEF IInv
<1>3. shares \in 0 .. Outstanding(t) /\ Owed(e) = Outstanding(t) - shares
  BY <1>1
<1>4. Accounts!Keep(t, Outstanding(t) - shares)
  BY <1>1, <1>3
<1>. QED  BY <1>2, <1>3, <1>4 DEF Accounts!Pay

\* A payment that closes the account of trade t.
LEMMA PaidOff ==
  ASSUME IInv, NEW t \in Trades, NEW e, NEW p \in Parties, NEW shares,
         escrows' = [escrows EXCEPT ![t] = e], Transfer("this", p, shares),
         Owed(escrows[t]) \in Nat, shares = Owed(escrows[t]), Owed(e) = 0,
         e.deal = escrows[t].deal
  PROVE  /\ Accounts!Moves(t, escrows[t].state, e.state)
         /\ Accounts!Pay(t, p, Outstanding(t))
         /\ AgreementsStay
<1>1. /\ Accounts!Moves(t, escrows[t].state, e.state)
      /\ AgreementsStay /\ Outstanding(t) = Owed(escrows[t])
  BY OneAccountMoves
<1>2. shares \in Nat /\ Owed(e) \in Nat /\ Owed(e) = Owed(escrows[t]) - shares
  OBVIOUS
<1>3. Accounts!Pay(t, p, shares)
  BY <1>2, PaidFromItsAccount
<1>. QED  BY <1>1, <1>3

LEMMA CallIsOnOneAccount ==
  ASSUME IInv, NEW t \in Trades, Call(t)
  PROVE  [Accounts!Next]_Accounts!avars
<1>. DEFINE old == escrows[t]
<1>1. TradeIsRight(t, old, ruled[t], now) /\ escrows \in [Trades -> Escrow] /\ old \in Escrow
  BY DEF IInv, TypeOK, TradesAreRight
<1>2. Owed(old) \in Nat
  BY <1>1, OwedIsACount
<1>3. ASSUME NEW deal \in Deals, Deposit(t, deal) PROVE Accounts!Open(t, deal)
  <2>. DEFINE new == [state |-> "HELD", deal |-> deal, counterpartyAccepted |-> FALSE,
                      sharesReleased |-> 0, terms |-> None, expiry |-> 0, nextNonce |-> 0]
  <2>1. /\ escrows' = [escrows EXCEPT ![t] = new] /\ old.state = "NONE"
        /\ Transfer(deal.depositor, "this", deal.shares)
    BY <1>3 DEF Deposit
  <2>2. deal.shares \in Nat /\ deal.depositor \in Parties
    BY DealsAreTyped
  <2>3. Owed(new) = deal.shares /\ new.state = "HELD" /\ new.deal = deal
    BY <2>2 DEF Owed
  <2>. HIDE DEF new
  <2>4. Accounts!Moves(t, old.state, new.state) /\ Accounts!Agree(t, new.deal)
        /\ Accounts!Keep(t, Owed(new))
    BY <2>1, OneAccountMoves
  <2>5. Accounts!Debit(deal.depositor, deal.shares)
    BY <2>1, <2>2, OneBalanceMoves DEF IInv
  <2>6. Accounts!Moves(t, "NONE", "HELD") /\ Accounts!Agree(t, deal)
        /\ Accounts!Keep(t, deal.shares)
    BY <2>1, <2>3, <2>4
  <2>. QED  BY <2>5, <2>6 DEF Accounts!Open
<1>4. ASSUME NEW sender \in Parties, Accept(t, sender) PROVE UNCHANGED Accounts!avars
  <2>. DEFINE new == [old EXCEPT !.counterpartyAccepted = TRUE]
  <2>1. escrows' = [escrows EXCEPT ![t] = new] /\ vault' = vault
    BY <1>4 DEF Accept
  <2>2. escrows'[t] = new /\ \A u \in Trades : u # t => escrows'[u] = escrows[u]
    BY <1>1, <2>1
  <2>3. /\ new.state = old.state /\ new.deal = old.deal
        /\ new.sharesReleased = old.sharesReleased
    BY <1>1 DEF Escrow
  <2>. HIDE DEF new
  <2>4. \A u \in Trades : /\ escrows'[u].state = escrows[u].state
                          /\ escrows'[u].deal = escrows[u].deal
                          /\ escrows'[u].sharesReleased = escrows[u].sharesReleased
    BY <2>2, <2>3
  <2>5. \A u \in Trades : Outstanding(u)' = Outstanding(u)
    BY <2>4 DEF Outstanding
  <2>. QED  BY <2>1, <2>4, <2>5 DEF Accounts!avars
<1>5. ASSUME NEW sender \in Parties, ReclaimUnclosed(t, sender) PROVE Accounts!GiveBack(t)
  <2>. DEFINE new == [old EXCEPT !.state = "UNCLOSED"]
  <2>1. /\ escrows' = [escrows EXCEPT ![t] = new] /\ old.state = "HELD"
        /\ Transfer("this", old.deal.depositor, old.deal.shares)
    BY <1>5 DEF ReclaimUnclosed
  <2>2. old.deal \in Deals /\ old.sharesReleased = 0
    BY <1>1, <2>1 DEF TradeIsRight
  <2>3. old.deal.shares \in Nat /\ old.deal.depositor \in Parties
    BY <2>2, DealsAreTyped
  <2>4. /\ old.deal.shares = Owed(old) /\ Owed(new) = 0
        /\ new.state = "UNCLOSED" /\ new.deal = old.deal
    BY <1>1, <2>1, <2>2, <2>3 DEF Owed, Escrow
  <2>. HIDE DEF new
  <2>. PICK e, d : e = new /\ d = old.deal
    OBVIOUS
  <2>5. /\ escrows' = [escrows EXCEPT ![t] = e] /\ Transfer("this", d.depositor, Owed(old))
        /\ Owed(e) = 0 /\ e.deal = old.deal /\ d.depositor \in Parties
    BY <2>1, <2>3, <2>4
  <2>6. /\ Accounts!Moves(t, old.state, e.state) /\ AgreementsStay
        /\ Accounts!Pay(t, d.depositor, Outstanding(t))
    BY <1>2, <2>5, PaidOff
  <2>. QED  BY <2>1, <2>4, <2>6
           DEF Accounts!GiveBack, Accounts!Pay, Accounts!Keep, Accounts!Credit, AgreementsStay
<1>6. ASSUME Settle(t) PROVE Accounts!PayRest(t)
  <2>. DEFINE new == [old EXCEPT !.state = "SETTLED"]
              rest == old.deal.shares - old.sharesReleased
  <2>1. /\ escrows' = [escrows EXCEPT ![t] = new] /\ old.state = "PRIMARY_RELEASED"
        /\ Transfer("this", old.deal.beneficiary, rest)
    BY <1>6 DEF Settle
  <2>2. old.deal \in Deals
    BY <1>1, <2>1 DEF TradeIsRight
  <2>3. old.deal.beneficiary \in Parties
    BY <2>2, DealsAreTyped
  <2>4. rest = Owed(old) /\ Owed(new) = 0 /\ new.state = "SETTLED" /\ new.deal = old.deal
    BY <1>1, <2>1 DEF Owed, Escrow
  <2>. HIDE DEF new, rest
  <2>. PICK e, d : e = new /\ d = old.deal
    OBVIOUS
  <2>5. /\ escrows' = [escrows EXCEPT ![t] = e] /\ Transfer("this", d.beneficiary, Owed(old))
        /\ Owed(e) = 0 /\ e.deal = old.deal /\ d.beneficiary \in Parties
    BY <2>1, <2>3, <2>4
  <2>6. /\ Accounts!Moves(t, old.state, e.state) /\ AgreementsStay
        /\ Accounts!Pay(t, d.beneficiary, Outstanding(t))
    BY <1>2, <2>5, PaidOff
  <2>. QED  BY <2>1, <2>4, <2>6
           DEF Accounts!PayRest, Accounts!Pay, Accounts!Keep, Accounts!Credit, AgreementsStay
<1>. QED  BY <1>3, <1>4, <1>5, <1>6 DEF Call, Accounts!Next

LEMMA ReceiptIsOnOneAccount ==
  ASSUME IInv, NEW r \in Receipts, NEW signatures \in SUBSET Operators, Present(r, signatures)
  PROVE  Accounts!Next
<1>. DEFINE t == r.tradeId
            old == escrows[t]
<1>1. /\ t \in Trades /\ TradeIsRight(t, old, ruled[t], now)
      /\ escrows \in [Trades -> Escrow] /\ old \in Escrow
  BY ReceiptsAreTyped DEF IInv, TypeOK, TradesAreRight
<1>2. Owed(old) \in Nat
  BY <1>1, OwedIsACount
<1>. HIDE DEF t
<1>3. ASSUME ReleasePrimary(t, r, signatures) PROVE Accounts!Release(t)
  <2>. DEFINE primary == Primary(old.deal)
              terms == [conditionId |-> r.conditionId,
                        windowSeconds |-> r.exposureWindowSeconds]
              new == [old EXCEPT !.state = "PRIMARY_RELEASED", !.terms = terms,
                        !.expiry = r.decidedAtKnowledge + r.exposureWindowSeconds,
                        !.nextNonce = old.nextNonce + 1, !.sharesReleased = primary]
  <2>1. old.state = "HELD" /\ Transfer("this", old.deal.beneficiary, primary)
    BY <1>3 DEF ReleasePrimary
  <2>2. escrows' = [escrows EXCEPT ![t] = new]
    BY <1>3 DEF ReleasePrimary
  <2>3. old.deal \in Deals /\ PrimaryFits(old.deal) /\ old.sharesReleased = 0
    BY <1>1, <2>1 DEF TradeIsRight
  <2>4. /\ primary \in Nat /\ primary <= old.deal.shares
        /\ old.deal.shares \in Nat /\ old.deal.beneficiary \in Parties
    BY <2>3, DealsAreTyped DEF PrimaryFits
  <2>. HIDE DEF primary, terms
  <2>5. /\ Owed(old) = old.deal.shares /\ Owed(new) = old.deal.shares - primary
        /\ new.state = "PRIMARY_RELEASED" /\ new.deal = old.deal
    BY <1>1, <2>1, <2>3, <2>4 DEF Owed, Escrow
  <2>. HIDE DEF new
  <2>. PICK e, d, n : e = new /\ d = old.deal /\ n = primary
    OBVIOUS
  <2>6. /\ escrows' = [escrows EXCEPT ![t] = e] /\ Transfer("this", d.beneficiary, n)
        /\ n \in Nat /\ d.beneficiary \in Parties /\ e.deal = old.deal
    BY <2>1, <2>2, <2>4, <2>5
  <2>7. Owed(e) \in Nat /\ Owed(e) = Owed(old) - n /\ n \in 0 .. Owed(old)
    BY <2>4, <2>5
  <2>8. Accounts!Pay(t, d.beneficiary, n)
    BY <1>1, <1>2, <2>6, <2>7, PaidFromItsAccount
  <2>9. Accounts!Moves(t, old.state, e.state) /\ Outstanding(t) = Owed(old) /\ AgreementsStay
    BY <1>1, <2>6, OneAccountMoves
  <2>. QED  BY <1>1, <2>1, <2>5, <2>7, <2>8, <2>9
           DEF Accounts!Release, Accounts!Pay, Accounts!Keep, Accounts!Credit, AgreementsStay
<1>4. ASSUME DivertOnCorrection(t, r, signatures) PROVE Accounts!Divert(t)
  <2>. DEFINE new == [old EXCEPT !.state = "DIVERTED", !.nextNonce = old.nextNonce + 1]
              rest == old.deal.shares - old.sharesReleased
  <2>1. /\ old.state \in {"PRIMARY_RELEASED", "FROZEN_PENDING_RULING"}
        /\ Transfer("this", old.deal.corrector, rest)
    BY <1>4 DEF DivertOnCorrection
  <2>2. escrows' = [escrows EXCEPT ![t] = new]
    BY <1>1, <1>4 DEF DivertOnCorrection, Escrow
  <2>3. old.deal \in Deals
    BY <1>1, <2>1 DEF TradeIsRight
  <2>4. old.deal.corrector \in Parties
    BY <2>3, DealsAreTyped
  <2>5. rest = Owed(old) /\ Owed(new) = 0 /\ new.state = "DIVERTED" /\ new.deal = old.deal
    BY <1>1, <2>1 DEF Owed, Escrow
  <2>. HIDE DEF new, rest
  <2>. PICK e, d : e = new /\ d = old.deal
    OBVIOUS
  <2>6. /\ escrows' = [escrows EXCEPT ![t] = e] /\ Transfer("this", d.corrector, Owed(old))
        /\ Owed(e) = 0 /\ e.deal = old.deal /\ d.corrector \in Parties
    BY <2>1, <2>2, <2>4, <2>5
  <2>7. /\ Accounts!Moves(t, old.state, e.state) /\ AgreementsStay
        /\ Accounts!Pay(t, d.corrector, Outstanding(t))
    BY <1>1, <1>2, <2>6, PaidOff
  <2>. QED  BY <1>1, <2>1, <2>5, <2>7
           DEF Accounts!Divert, Accounts!Pay, Accounts!Keep, Accounts!Credit, AgreementsStay
<1>5. ASSUME FreezeOnWithdrawal(t, r, signatures) PROVE Accounts!Freeze(t)
  <2>. DEFINE expiry == now + old.terms.windowSeconds
              new == [old EXCEPT !.state = "FROZEN_PENDING_RULING", !.expiry = expiry,
                                 !.nextNonce = old.nextNonce + 1]
  <2>1. old.state = "PRIMARY_RELEASED" /\ vault' = vault
    BY <1>5 DEF FreezeOnWithdrawal
  <2>2. escrows' = [escrows EXCEPT ![t] = new]
    BY <1>1, <1>5 DEF FreezeOnWithdrawal, Escrow
  <2>. HIDE DEF expiry
  <2>3. /\ Owed(new) = Owed(old) /\ new.state = "FROZEN_PENDING_RULING" /\ new.deal = old.deal
    BY <1>1, <2>1 DEF Owed, Escrow
  <2>. HIDE DEF new
  <2>. PICK e : e = new
    OBVIOUS
  <2>4. escrows' = [escrows EXCEPT ![t] = e] /\ Owed(e) = Owed(old) /\ e.deal = old.deal
    BY <2>2, <2>3
  <2>5. Accounts!Moves(t, old.state, e.state) /\ AgreementsStay /\ AccountsStay
    BY <1>1, <2>4, OneAccountMoves
  <2>. QED  BY <2>1, <2>3, <2>5 DEF Accounts!Freeze, AgreementsStay, AccountsStay
<1>. QED  BY <1>1, <1>3, <1>4, <1>5 DEF Present, t, Accounts!Next

LEMMA StepsAreOnAccounts == IInv /\ [Next]_vars => [Accounts!Next]_Accounts!avars
<1>. SUFFICES ASSUME IInv, [Next]_vars PROVE [Accounts!Next]_Accounts!avars
  OBVIOUS
<1>1. ASSUME escrows' = escrows, vault' = vault PROVE UNCHANGED Accounts!avars
  BY <1>1 DEF Accounts!avars, Outstanding
<1>2. ASSUME NEW rotation \in Rotations,
             ProposeRotation(rotation) \/ ExecuteRotation(rotation)
      PROVE  UNCHANGED Accounts!avars
  BY <1>1, <1>2 DEF ProposeRotation, ExecuteRotation, contract
<1>3. CASE Tick
  BY <1>1, <1>3 DEF Tick, contract
<1>4. CASE UNCHANGED vars
  BY <1>1, <1>4 DEF vars, contract
<1>. QED  BY <1>2, <1>3, <1>4, CallIsOnOneAccount, ReceiptIsOnOneAccount DEF Next

\* The one balance the contract holds implements an account per trade: for any
\* trades and deals, whoever presents whatever receipts, each step of the contract
\* is one payment out of the account of one trade to the party its own deal names
\* for that stage, or moves no shares.
THEOREM ContractKeepsAccounts == Spec => ImplementsEscrowAccounts
<1>1. Init => Accounts!Init
  <2>1. SUFFICES ASSUME Init PROVE Accounts!Init
    OBVIOUS
  <2>2. \A t \in Trades : escrows[t].state = "NONE" /\ escrows[t].deal = None /\ Outstanding(t) = 0
    BY <2>1 DEF Init, Outstanding
  <2>3. \A p \in Parties : vault[p] = Endowment
    BY <2>1, TheContractIsNoParty DEF Init
  <2>. QED  BY <2>2, <2>3 DEF Accounts!Init
<1>. QED  BY <1>1, StepsAreOnAccounts, EscrowsAreRight, PTL
     DEF Spec, ImplementsEscrowAccounts, Accounts!Spec

-----------------------------------------------------------------------------
(***************************************************************************)
(* For any budgets, limits, proposals, amounts and number of movements.    *)
(*                                                                         *)
(* The argument for the money: the sequence number of a movement counts    *)
(* the movements of its budget before it, so a row computed from an early  *)
(* view repeats the number of the first movement it has not seen and is    *)
(* refused; what is inserted follows the last balance.  And a dispatch     *)
(* takes one hold out of those that no dispatch has named (Free), with     *)
(* exactly its debit: what is dispatched is what was held less what is     *)
(* free.                                                                   *)
(***************************************************************************)

RowsAreKeyed ==
  /\ Written(response) \subseteq Written(proposal)
  /\ \A a \in Written(authorization) : authorization[a].proposal \in Written(proposal)

LinesAreWritten ==
  \A p \in Written(proposal) : proposal[p].revises \in Written(proposal) \cup {Nothing}

MovementsAreCounted ==
  \A i \in DOMAIN movements :
    /\ movements[i].sequence = Cardinality(OnBudget(movements[i].budget, i - 1))
    /\ movements[i].state = "HELD" <=> movements[i].delta < 0

DispatchesAreBacked ==
  /\ \A i \in DOMAIN dispatches :
       /\ dispatches[i].authorization \in Written(authorization)
       /\ dispatches[i].reservation \in DOMAIN movements
       /\ movements[dispatches[i].reservation].delta = -Amount(dispatches[i].authorization)
  /\ \A i, j \in DOMAIN dispatches :
       dispatches[i].reservation = dispatches[j].reservation => i = j

\* The holds that no dispatch has named.
Named == {dispatches[i].reservation : i \in DOMAIN dispatches}
Free == Held \ Named
HoldsAreAccountedFor ==
  Dispatched = SumFunctionOnSet(Deltas, Free) - SumFunctionOnSet(Deltas, Held)

Money ==
  /\ MovementsAreCounted
  /\ ChainAccountsForEveryMovement
  /\ DispatchesAreBacked
  /\ HoldsAreAccountedFor

TreasuryInv == TreasuryTypeOK /\ RowsAreKeyed /\ LinesAreWritten /\ Money

-----------------------------------------------------------------------------
(***************************************************************************)
(* The tables.                                                             *)
(***************************************************************************)
LEMMA TablesAreFinite ==
  ASSUME TreasuryTypeOK
  PROVE  /\ DOMAIN movements = 1 .. Len(movements) /\ Len(movements) \in Nat
         /\ DOMAIN dispatches = 1 .. Len(dispatches) /\ Len(dispatches) \in Nat
         /\ IsFiniteSet(DOMAIN movements) /\ IsFiniteSet(DOMAIN dispatches)
         /\ IsFiniteSet(Held) /\ IsFiniteSet(Free)
         /\ Held \subseteq DOMAIN movements /\ Free \subseteq Held
         /\ \A i \in DOMAIN movements : movements[i] \in Movement /\ Deltas[i] \in Int
<1>1. /\ DOMAIN movements = 1 .. Len(movements) /\ Len(movements) \in Nat
      /\ DOMAIN dispatches = 1 .. Len(dispatches) /\ Len(dispatches) \in Nat
      /\ \A i \in DOMAIN movements : movements[i] \in Movement
  BY DEF TreasuryTypeOK
<1>2. IsFiniteSet(DOMAIN movements) /\ IsFiniteSet(DOMAIN dispatches)
  BY <1>1, FS_Interval
<1>3. Held \subseteq DOMAIN movements /\ Free \subseteq Held
  BY DEF Held, Free
<1>4. IsFiniteSet(Held) /\ IsFiniteSet(Free)
  BY <1>2, <1>3, FS_Subset
<1>5. \A i \in DOMAIN movements : Deltas[i] = movements[i].delta /\ movements[i].delta \in Int
  BY <1>1 DEF Deltas, Movement
<1>. QED  BY <1>1, <1>2, <1>3, <1>4, <1>5

\* The amount of an authority that is written is fixed.
LEMMA AmountsAreFixed ==
  ASSUME TreasuryInv, NEW a \in Written(authorization), authorization'[a] = authorization[a],
         \A p \in Written(proposal) : proposal'[p] = proposal[p]
  PROVE  Amount(a)' = Amount(a)
<1>1. authorization[a].proposal \in Written(proposal)
  BY DEF TreasuryInv, RowsAreKeyed
<1>. QED  BY <1>1 DEF Amount

LEMMA AmountsAreDue ==
  ASSUME TreasuryInv, NEW a \in Written(authorization)
  PROVE  Amount(a) \in Nat \ {0}
<1>1. authorization[a].proposal \in Written(proposal)
  BY DEF TreasuryInv, RowsAreKeyed
<1>2. proposal[authorization[a].proposal] \in ProposalRow
  BY <1>1 DEF TreasuryInv, TreasuryTypeOK, Written
<1>. QED  BY <1>2, AmountsArePositive DEF Amount, ProposalRow

LEMMA MoneyAlone ==
  ASSUME TreasuryInv, UNCHANGED <<movements, dispatches>>,
         \A a \in Written(authorization) :
           a \in Written(authorization') /\ authorization'[a] = authorization[a],
         \A p \in Written(proposal) : proposal'[p] = proposal[p]
  PROVE  Money'
<1>1. MovementsAreCounted' /\ ChainAccountsForEveryMovement'
  BY DEF TreasuryInv, Money, MovementsAreCounted, ChainAccountsForEveryMovement, OnBudget, Deltas
<1>2. \A i \in DOMAIN dispatches : dispatches[i].authorization \in Written(authorization)
  BY DEF TreasuryInv, Money, DispatchesAreBacked
<1>3. \A i \in DOMAIN dispatches :
        Amount(dispatches[i].authorization)' = Amount(dispatches[i].authorization)
  BY <1>2, AmountsAreFixed
<1>4. DispatchesAreBacked'
  BY <1>2, <1>3 DEF TreasuryInv, Money, DispatchesAreBacked, Amount
<1>5. Dispatched' = Dispatched
  <2>1. [i \in DOMAIN dispatches |-> Amount(dispatches[i].authorization)]'
          = [i \in DOMAIN dispatches |-> Amount(dispatches[i].authorization)]
    BY <1>3
  <2>. QED  BY <2>1 DEF Dispatched
<1>6. HoldsAreAccountedFor'
  BY <1>5 DEF TreasuryInv, Money, HoldsAreAccountedFor, Deltas, Free, Held, Named
<1>. QED  BY <1>1, <1>4, <1>6 DEF Money

-----------------------------------------------------------------------------
(***************************************************************************)
(* What is decided.                                                        *)
(***************************************************************************)
LEMMA TreasuryInitial == TreasuryInit => TreasuryInv
<1>. SUFFICES ASSUME TreasuryInit PROVE TreasuryInv
  OBVIOUS
<1>1. TreasuryTypeOK /\ RowsAreKeyed /\ LinesAreWritten
  BY BoundsAreNatural DEF TreasuryInit, TreasuryTypeOK, RowsAreKeyed, LinesAreWritten, Written
<1>2. DOMAIN movements = {} /\ DOMAIN dispatches = {}
  BY DEF TreasuryInit
<1>3. MovementsAreCounted /\ ChainAccountsForEveryMovement /\ DispatchesAreBacked
  BY <1>2 DEF MovementsAreCounted, ChainAccountsForEveryMovement, DispatchesAreBacked
<1>4. HoldsAreAccountedFor
  <2>1. Held = {} /\ Free = {}
    BY <1>2 DEF Held, Free
  <2>. QED  BY <1>2, <2>1, SumOfNothing DEF HoldsAreAccountedFor, Dispatched
<1>. QED  BY <1>1, <1>3, <1>4 DEF TreasuryInv, Money

LEMMA DetermineKeeps ==
  ASSUME TreasuryInv, NEW x \in Assets, NEW state \in Eligibility, Determine(x, state)
  PROVE  TreasuryInv'
<1>1. /\ eligibility' = [eligibility EXCEPT ![x] = state]
      /\ UNCHANGED <<proposal, response, authorization, revokedAt, movements, dispatches>>
  BY DEF Determine
<1>2. TreasuryTypeOK' /\ RowsAreKeyed' /\ LinesAreWritten'
  BY <1>1 DEF TreasuryInv, TreasuryTypeOK, RowsAreKeyed, LinesAreWritten, Written
<1>. QED  BY <1>1, <1>2, MoneyAlone DEF TreasuryInv

LEMMA ProposeKeeps ==
  ASSUME TreasuryInv, NEW p \in Proposals, NEW row \in ProposalRow, Propose(p, row)
  PROVE  TreasuryInv'
<1>1. /\ proposal' = [proposal EXCEPT ![p] = row] /\ proposal[p] = Nothing
      /\ row.revises \in Written(proposal) \cup {Nothing, p}
      /\ UNCHANGED <<eligibility, response, authorization, revokedAt, movements, dispatches>>
  BY DEF Propose
<1>2. proposal' \in [Proposals -> ProposalRow \cup {Nothing}]
  BY <1>1 DEF TreasuryInv, TreasuryTypeOK
<1>3. \A q \in Written(proposal) : q \in Proposals /\ q # p /\ proposal'[q] = proposal[q]
  BY <1>1 DEF TreasuryInv, TreasuryTypeOK, Written
<1>4. Written(proposal) \subseteq Written(proposal')
  BY <1>2, <1>3 DEF Written
<1>5. TreasuryTypeOK' /\ RowsAreKeyed'
  BY <1>1, <1>2, <1>4 DEF TreasuryInv, TreasuryTypeOK, RowsAreKeyed, Written
<1>6. LinesAreWritten'
  <2>1. ASSUME NEW q \in Written(proposal')
        PROVE  proposal'[q].revises \in Written(proposal') \cup {Nothing}
    <3>1. CASE q = p
      BY <1>1, <1>2, <1>4, <2>1, <3>1 DEF TreasuryInv, TreasuryTypeOK, Written
    <3>2. CASE q # p
      <4>1. q \in Written(proposal) /\ proposal'[q] = proposal[q]
        BY <1>1, <1>2, <2>1, <3>2 DEF TreasuryInv, TreasuryTypeOK, Written
      <4>. QED  BY <1>4, <4>1 DEF TreasuryInv, LinesAreWritten
    <3>. QED  BY <3>1, <3>2
  <2>. QED  BY <2>1 DEF LinesAreWritten, Written
<1>. QED  BY <1>1, <1>3, <1>5, <1>6, MoneyAlone DEF TreasuryInv

LEMMA ReviewKeeps ==
  ASSUME TreasuryInv, NEW p \in Proposals, NEW said \in Responses, Review(p, said)
  PROVE  TreasuryInv'
<1>1. /\ response' = [response EXCEPT ![p] = said] /\ proposal[p] # Nothing
      /\ UNCHANGED <<eligibility, proposal, authorization, revokedAt, movements, dispatches>>
  BY DEF Review
<1>2. TreasuryTypeOK' /\ RowsAreKeyed' /\ LinesAreWritten'
  BY <1>1 DEF TreasuryInv, TreasuryTypeOK, RowsAreKeyed, LinesAreWritten, Written
<1>. QED  BY <1>1, <1>2, MoneyAlone DEF TreasuryInv

LEMMA AuthorizeKeeps ==
  ASSUME TreasuryInv, NEW a \in Authorizations, NEW row \in AuthorizationRow, Authorize(a, row)
  PROVE  TreasuryInv'
<1>1. /\ authorization' = [authorization EXCEPT ![a] = row] /\ authorization[a] = Nothing
      /\ response[row.proposal] = "APPROVE" /\ row.proposal \in Proposals
      /\ UNCHANGED <<eligibility, proposal, response, revokedAt, movements, dispatches>>
  BY DEF Authorize, decided, AuthorizationRow
<1>2. row.proposal \in Written(proposal)
  BY <1>1, NoneIsNoRow DEF TreasuryInv, TreasuryTypeOK, RowsAreKeyed, Written, Responses
<1>3. authorization' \in [Authorizations -> AuthorizationRow \cup {Nothing}]
  BY <1>1 DEF TreasuryInv, TreasuryTypeOK
<1>4. \A b \in Written(authorization) :
        b \in Written(authorization') /\ authorization'[b] = authorization[b]
  BY <1>1, <1>3 DEF TreasuryInv, TreasuryTypeOK, Written
<1>5. \A b \in Written(authorization') : b = a \/ b \in Written(authorization)
  BY <1>1, <1>3 DEF TreasuryInv, TreasuryTypeOK, Written
<1>6. TreasuryTypeOK' /\ LinesAreWritten'
  BY <1>1, <1>3 DEF TreasuryInv, TreasuryTypeOK, LinesAreWritten, Written
<1>7. RowsAreKeyed'
  <2>1. ASSUME NEW b \in Written(authorization')
        PROVE  authorization'[b].proposal \in Written(proposal)
    <3>1. CASE b = a
      BY <1>1, <1>2, <3>1 DEF TreasuryInv, TreasuryTypeOK
    <3>2. CASE b # a
      BY <1>4, <1>5, <2>1, <3>2 DEF TreasuryInv, RowsAreKeyed
    <3>. QED  BY <3>1, <3>2
  <2>. QED  BY <1>1, <2>1 DEF TreasuryInv, RowsAreKeyed, Written
<1>. QED  BY <1>1, <1>4, <1>6, <1>7, MoneyAlone DEF TreasuryInv

LEMMA RevokeKeeps ==
  ASSUME TreasuryInv, NEW a \in Authorizations, NEW at \in Times, Revoke(a, at)
  PROVE  TreasuryInv'
<1>1. /\ revokedAt' = [revokedAt EXCEPT ![a] = at]
      /\ UNCHANGED <<eligibility, proposal, response, authorization, movements, dispatches>>
  BY DEF Revoke, decided
<1>2. TreasuryTypeOK' /\ RowsAreKeyed' /\ LinesAreWritten'
  BY <1>1 DEF TreasuryInv, TreasuryTypeOK, RowsAreKeyed, LinesAreWritten, Written
<1>. QED  BY <1>1, <1>2, MoneyAlone DEF TreasuryInv

-----------------------------------------------------------------------------
(***************************************************************************)
(* The chain.                                                              *)
(***************************************************************************)

\* The last of the rows a writer has read.
LEMMA LastIsKnown ==
  ASSUME NEW n \in Nat, NEW S \in SUBSET (1 .. n), S # {}
  PROVE  Max(S) \in S /\ \A y \in S : y <= Max(S)
<1>. DEFINE Bounds == {m \in Nat : \A y \in S : y <= m}
<1>1. n \in Bounds
  OBVIOUS
<1>2. PICK m \in Bounds : \A k \in Bounds : ~(k < m)
  BY <1>1, LeastNumber
<1>3. m \in S
  <2>. SUFFICES ASSUME m \notin S PROVE FALSE
    OBVIOUS
  <2>1. PICK y \in S : TRUE
    OBVIOUS
  <2>2. m \in Nat /\ y \in Nat /\ y <= m /\ y # m /\ 1 <= y
    BY <1>2, <2>1
  <2>3. m - 1 \in Nat /\ m - 1 < m
    BY <2>2
  <2>4. \A z \in S : z <= m - 1
    BY <1>2
  <2>. QED  BY <1>2, <2>3, <2>4
<1>4. \A x \in S : \E y \in S : y = m /\ m >= x
  BY <1>2, <1>3
<1>5. \E x \in S : \A y \in S : x >= y
  BY <1>2, <1>3
<1>6. Max(S) \in S /\ \A y \in S : Max(S) >= y
  BY <1>5 DEF Max
<1>. QED  BY <1>6

LEMMA OnBudgetIsFinite ==
  ASSUME NEW b, NEW n \in Nat
  PROVE  /\ OnBudget(b, n) \subseteq 1 .. n /\ IsFiniteSet(OnBudget(b, n))
         /\ Cardinality(OnBudget(b, n)) \in Nat
<1>1. OnBudget(b, n) \subseteq 1 .. n
  BY DEF OnBudget
<1>2. IsFiniteSet(1 .. n)
  BY FS_Interval
<1>3. IsFiniteSet(OnBudget(b, n))
  BY <1>1, <1>2, FS_Subset
<1>. QED  BY <1>1, <1>3, FS_CardinalityType

\* If the row computed from the first `seen' movements is not refused, there is no
\* later movement of that budget: the first of them would bear its number.
LEMMA ViewIsCurrent ==
  ASSUME TreasuryInv, NEW b \in Budgets, NEW seen \in 0 .. Len(movements),
         \A i \in DOMAIN movements :
           <<movements[i].budget, movements[i].sequence>>
             # <<b, Cardinality(OnBudget(b, seen))>>
  PROVE  OnBudget(b, Len(movements)) = OnBudget(b, seen)
<1>. DEFINE n == Len(movements)
            Unseen == {i \in seen + 1 .. n : movements[i].budget = b}
<1>1. DOMAIN movements = 1 .. n /\ n \in Nat /\ seen \in Nat /\ seen <= n
  BY TablesAreFinite DEF TreasuryInv
<1>. HIDE DEF n
<1>2. Unseen = {}
  <2>. SUFFICES ASSUME Unseen # {} PROVE FALSE
    OBVIOUS
  <2>1. Unseen \in SUBSET Nat
    BY <1>1
  <2>. HIDE DEF Unseen
  <2>2. PICK k \in Unseen : \A i \in Unseen : ~(i < k)
    BY <2>1, LeastNumber
  <2>3. k \in seen + 1 .. n /\ movements[k].budget = b /\ k \in Nat
    BY <1>1, <2>2 DEF Unseen
  <2>4. \A i \in seen + 1 .. k - 1 : movements[i].budget # b
    <3>1. ASSUME NEW i \in seen + 1 .. k - 1, movements[i].budget = b PROVE FALSE
      <4>1. i \in seen + 1 .. n /\ i < k
        BY <1>1, <2>3, <3>1
      <4>. QED  BY <2>2, <3>1, <4>1 DEF Unseen
    <3>. QED  BY <3>1
  <2>5. OnBudget(b, k - 1) = OnBudget(b, seen)
    BY <1>1, <2>3, <2>4 DEF OnBudget
  <2>6. k \in DOMAIN movements /\ movements[k].sequence = Cardinality(OnBudget(b, k - 1))
    BY <1>1, <2>3 DEF TreasuryInv, Money, MovementsAreCounted
  <2>. QED  BY <2>3, <2>5, <2>6
<1>3. OnBudget(b, n) = OnBudget(b, seen)
  BY <1>1, <1>2 DEF OnBudget
<1>. QED  BY <1>3 DEF n

\* The balance a computed row starts from is the budget's last.
LEMMA BalanceIsCurrent ==
  ASSUME TreasuryInv, NEW b \in Budgets, NEW seen \in 0 .. Len(movements), NEW state, NEW delta
  PROVE  LET row == NextMovement(b, seen, state, delta)
         IN  /\ row.budget = b /\ row.sequence = Cardinality(OnBudget(b, seen))
             /\ row.state = state /\ row.delta = delta
             /\ row.before = Limit[b] + SumFunctionOnSet(Deltas, OnBudget(b, seen))
             /\ row.before \in Nat /\ row.after = row.before + delta
             /\ row.sequence \in Nat /\ row.follows \in Nat
<1>. DEFINE known == OnBudget(b, seen)
            last == IF known = {} THEN 0 ELSE Max(known)
            before == IF last = 0 THEN Limit[b] ELSE movements[last].after
<1>1. /\ DOMAIN movements = 1 .. Len(movements) /\ Len(movements) \in Nat
      /\ \A i \in DOMAIN movements : movements[i] \in Movement /\ Deltas[i] \in Int
  BY TablesAreFinite DEF TreasuryInv
<1>2. /\ known \subseteq 1 .. seen /\ seen \in Nat /\ seen <= Len(movements)
      /\ Cardinality(known) \in Nat
  BY <1>1, OnBudgetIsFinite
<1>3. Limit[b] \in Nat
  BY LimitsArePositive
<1>4. before = Limit[b] + SumFunctionOnSet(Deltas, known) /\ before \in Nat /\ last \in Nat
  <2>1. CASE known = {}
    <3>1. SumFunctionOnSet(Deltas, known) = 0
      BY <2>1, SumOfNothing
    <3>. QED  BY <1>3, <2>1, <3>1
  <2>2. CASE known # {}
    <3>1. Max(known) \in known /\ \A y \in known : y <= Max(known)
      BY <1>2, <2>2, LastIsKnown
    <3>. DEFINE m == Max(known)
    <3>2. m \in 1 .. seen /\ movements[m].budget = b /\ last = m /\ m # 0
      BY <1>2, <2>2, <3>1 DEF OnBudget
    <3>3. \A i \in 1 .. seen : movements[i].budget = b => i <= m
      BY <3>1 DEF OnBudget
    <3>. HIDE DEF m
    <3>4. OnBudget(b, m) = OnBudget(b, seen)
      BY <1>2, <3>2, <3>3 DEF OnBudget
    <3>5. m \in DOMAIN movements
      BY <1>1, <1>2, <3>2
    <3>6. movements[m].after = Limit[b] + SumFunctionOnSet(Deltas, OnBudget(b, m))
      BY <3>2, <3>5 DEF TreasuryInv, Money, ChainAccountsForEveryMovement
    <3>7. movements[m].after \in Nat
      BY <1>1, <3>5 DEF Movement
    <3>. QED  BY <1>2, <3>2, <3>4, <3>6, <3>7
  <2>. QED  BY <2>1, <2>2
<1>5. NextMovement(b, seen, state, delta) =
        [budget |-> b, sequence |-> Cardinality(known), state |-> state, delta |-> delta,
         before |-> before, after |-> before + delta, follows |-> last]
  BY DEF NextMovement
<1>. HIDE DEF before, last, known
<1>6. before = Limit[b] + SumFunctionOnSet(Deltas, OnBudget(b, seen))
      /\ Cardinality(known) = Cardinality(OnBudget(b, seen))
  BY <1>4 DEF known
<1>. QED  BY <1>2, <1>4, <1>5, <1>6

\* Whatever view a movement was computed from, once it is inserted the chain
\* accounts for it, and a hold is free.
LEMMA MovementKeeps ==
  ASSUME TreasuryInv, NEW b \in Budgets, NEW seen \in 0 .. Len(movements),
         NEW state \in {"HELD", "RELEASED"}, NEW delta \in Int,
         state = "HELD" <=> delta < 0,
         Insert(NextMovement(b, seen, state, delta))
  PROVE  TreasuryInv'
<1>. DEFINE row == NextMovement(b, seen, state, delta)
            n == Len(movements)
<1>1. /\ movements' = Append(movements, row) /\ n < MAX_MOVEMENTS /\ row.after >= 0
      /\ \A i \in DOMAIN movements :
           <<movements[i].budget, movements[i].sequence>> # <<row.budget, row.sequence>>
      /\ UNCHANGED <<eligibility, proposal, response, authorization, revokedAt, dispatches>>
  BY DEF Insert, decided
<1>2. /\ row.budget = b /\ row.sequence = Cardinality(OnBudget(b, seen))
      /\ row.state = state /\ row.delta = delta
      /\ row.before = Limit[b] + SumFunctionOnSet(Deltas, OnBudget(b, seen))
      /\ row.before \in Nat /\ row.after = row.before + delta
      /\ row.sequence \in Nat /\ row.follows \in Nat
  BY BalanceIsCurrent
<1>3. OnBudget(b, n) = OnBudget(b, seen)
  BY <1>1, <1>2, ViewIsCurrent
<1>4. row \in Movement
  <2>1. row.after \in Nat
    BY <1>1, <1>2
  <2>2. DOMAIN row = {"budget", "sequence", "state", "delta", "before", "after", "follows"}
        /\ row = [budget |-> row.budget, sequence |-> row.sequence, state |-> row.state,
                  delta |-> row.delta, before |-> row.before, after |-> row.after,
                  follows |-> row.follows]
    BY DEF NextMovement
  <2>. HIDE DEF row
  <2>. QED  BY <1>2, <2>1, <2>2 DEF Movement
<1>. HIDE DEF row
<1>5. /\ DOMAIN movements = 1 .. n /\ n \in Nat
      /\ IsFiniteSet(DOMAIN movements) /\ IsFiniteSet(Held) /\ IsFiniteSet(Free)
      /\ Held \subseteq DOMAIN movements /\ Free \subseteq Held
      /\ \A i \in DOMAIN movements : movements[i] \in Movement /\ Deltas[i] \in Int
  BY TablesAreFinite DEF TreasuryInv
<1>6. /\ movements' \in Seq(Movement) /\ Len(movements') = n + 1
      /\ DOMAIN movements' = 1 .. n + 1
      /\ \A i \in 1 .. n : movements'[i] = movements[i]
      /\ movements'[n + 1] = row
  BY <1>1, <1>4 DEF TreasuryInv, TreasuryTypeOK
<1>. HIDE DEF n
<1>7. /\ \A i \in 1 .. n : Deltas'[i] = Deltas[i]
      /\ Deltas'[n + 1] = delta
  BY <1>2, <1>5, <1>6 DEF Deltas
<1>8. TreasuryTypeOK'
  <2>1. Len(movements') <= MAX_MOVEMENTS
    BY <1>1, <1>5, <1>6, BoundsAreNatural
  <2>. QED  BY <1>1, <1>6, <2>1 DEF TreasuryInv, TreasuryTypeOK
<1>9. RowsAreKeyed' /\ LinesAreWritten'
  BY <1>1 DEF TreasuryInv, RowsAreKeyed, LinesAreWritten, Written
<1>10. \A c, k : k \in 0 .. n => OnBudget(c, k)' = OnBudget(c, k)
  BY <1>5, <1>6 DEF OnBudget
<1>11. MovementsAreCounted'
  <2>1. ASSUME NEW i \in 1 .. n + 1, NEW c, c = movements'[i].budget
        PROVE  /\ movements'[i].sequence = Cardinality(OnBudget(c, i - 1)')
               /\ movements'[i].state = "HELD" <=> movements'[i].delta < 0
    <3>1. i - 1 \in 0 .. n
      BY <1>5
    <3>2. CASE i \in 1 .. n
      <4>1. i \in DOMAIN movements /\ movements'[i] = movements[i]
        BY <1>5, <1>6, <3>2
      <4>2. OnBudget(c, i - 1)' = OnBudget(c, i - 1)
        BY <1>10, <3>1
      <4>. QED  BY <2>1, <4>1, <4>2 DEF TreasuryInv, Money, MovementsAreCounted
    <3>3. CASE i = n + 1
      <4>1. i - 1 = n /\ movements'[i] = row /\ c = b
        BY <1>2, <1>5, <1>6, <2>1, <3>3
      <4>2. OnBudget(b, i - 1)' = OnBudget(b, n)
        BY <1>10, <3>1, <4>1
      <4>. QED  BY <1>2, <1>3, <4>1, <4>2
    <3>. QED  BY <1>5, <3>2, <3>3
  <2>. QED  BY <1>6, <2>1 DEF MovementsAreCounted, OnBudget
<1>12. ChainAccountsForEveryMovement'
  <2>1. ASSUME NEW i \in 1 .. n + 1, NEW c, c = movements'[i].budget
        PROVE  movements'[i].after
                 = Limit[c] + SumFunctionOnSet(Deltas', OnBudget(c, i)')
    <3>1. CASE i \in 1 .. n
      <4>1. OnBudget(c, i)' = OnBudget(c, i)
        BY <1>5, <1>10, <3>1
      <4>2. OnBudget(c, i) \subseteq 1 .. n /\ IsFiniteSet(OnBudget(c, i))
        BY <1>5, <3>1, OnBudgetIsFinite
      <4>3. SumFunctionOnSet(Deltas', OnBudget(c, i)) = SumFunctionOnSet(Deltas, OnBudget(c, i))
        BY <1>7, <4>2, SumOfTheSame
      <4>4. movements'[i] = movements[i] /\ i \in DOMAIN movements
        BY <1>5, <1>6, <3>1
      <4>5. movements[i].after = Limit[c] + SumFunctionOnSet(Deltas, OnBudget(c, i))
        BY <2>1, <4>4 DEF TreasuryInv, Money, ChainAccountsForEveryMovement
      <4>. QED  BY <4>1, <4>3, <4>4, <4>5
    <3>2. CASE i = n + 1
      <4>1. movements'[i] = row /\ c = b
        BY <1>2, <1>6, <2>1, <3>2
      <4>2. OnBudget(b, i)' = OnBudget(b, n) \cup {n + 1}
        BY <1>2, <1>5, <1>6, <3>2 DEF OnBudget
      <4>3. OnBudget(b, n) \subseteq 1 .. n /\ IsFiniteSet(OnBudget(b, n)) /\ n + 1 \notin OnBudget(b, n)
        BY <1>5, OnBudgetIsFinite
      <4>. DEFINE K == OnBudget(b, n)
                  e == n + 1
                  h == Deltas'
      <4>4. /\ IsFiniteSet(K) /\ e \notin K /\ h[e] \in Int
            /\ \A x \in K : Deltas[x] \in Int /\ h[x] = Deltas[x]
        BY <1>5, <1>7, <4>3
      <4>. HIDE DEF K, e, h
      <4>5. SumFunctionOnSet(h, K \cup {e}) = SumFunctionOnSet(Deltas, K) + h[e]
        BY <4>4, SumExtends
      <4>6. SumFunctionOnSet(Deltas, K) \in Int
        BY <4>4, SumIsInteger
      <4>7. row.after = Limit[b] + SumFunctionOnSet(Deltas, K) + delta /\ Limit[b] \in Nat
        BY <1>2, <1>3, LimitsArePositive DEF K
      <4>8. h[e] = delta /\ OnBudget(b, i)' = K \cup {e}
        BY <1>7, <4>2 DEF K, e, h
      <4>9. row.after = Limit[b] + SumFunctionOnSet(h, OnBudget(b, i)')
        BY <4>5, <4>6, <4>7, <4>8
      <4>. QED  BY <4>1, <4>9 DEF h
    <3>. QED  BY <1>5, <3>1, <3>2
  <2>. QED  BY <1>6, <2>1 DEF ChainAccountsForEveryMovement, OnBudget, Deltas
<1>13. DispatchesAreBacked'
  BY <1>1, <1>5, <1>6 DEF TreasuryInv, Money, DispatchesAreBacked, Written, Amount
<1>14. HoldsAreAccountedFor'
  <2>1. Dispatched' = Dispatched
    BY <1>1 DEF Dispatched, Amount
  <2>2. Named' = Named /\ n + 1 \notin Named
    BY <1>1, <1>5 DEF TreasuryInv, Money, DispatchesAreBacked, Named
  <2>. DEFINE h == Deltas'
              e == n + 1
  <2>3. \A x \in Held : Deltas[x] \in Int /\ h[x] = Deltas[x]
    BY <1>5, <1>7
  <2>4. SumFunctionOnSet(Deltas, Held) \in Int /\ SumFunctionOnSet(Deltas, Free) \in Int
    BY <1>5, <2>3, SumIsInteger
  <2>5. CASE state = "HELD"
    <3>1. Held' = Held \cup {e} /\ Free' = Free \cup {e}
      <4>1. Held' = Held \cup {e}
        BY <1>2, <1>5, <1>6, <2>5 DEF Held
      <4>. QED  BY <2>2, <4>1 DEF Free
    <3>2. e \notin Held /\ e \notin Free /\ h[e] = delta
      BY <1>5, <1>7
    <3>. HIDE DEF h, e
    <3>. DEFINE g == Deltas
                H == Held
                F == Free
    <3>6. /\ IsFiniteSet(H) /\ e \notin H /\ h[e] \in Int
          /\ \A x \in H : g[x] \in Int /\ h[x] = g[x]
      BY <1>5, <2>3, <3>2
    <3>7. /\ IsFiniteSet(F) /\ e \notin F
          /\ \A x \in F : g[x] \in Int /\ h[x] = g[x]
      BY <1>5, <2>3, <3>2
    <3>. HIDE DEF g, H, F
    <3>3. SumFunctionOnSet(h, H \cup {e}) = SumFunctionOnSet(g, H) + h[e]
      BY <3>6, SumExtends
    <3>4. SumFunctionOnSet(h, F \cup {e}) = SumFunctionOnSet(g, F) + h[e]
      BY <3>6, <3>7, SumExtends
    <3>5. SumFunctionOnSet(h, Free') - SumFunctionOnSet(h, Held')
            = SumFunctionOnSet(Deltas, Free) - SumFunctionOnSet(Deltas, Held)
      BY <2>4, <3>1, <3>2, <3>3, <3>4 DEF g, H, F
    <3>. QED  BY <2>1, <3>5 DEF TreasuryInv, Money, HoldsAreAccountedFor, h
  <2>6. CASE state # "HELD"
    <3>1. Held' = Held /\ Free' = Free
      <4>1. Held' = Held
        BY <1>2, <1>5, <1>6, <2>6 DEF Held
      <4>. QED  BY <2>2, <4>1 DEF Free
    <3>. HIDE DEF h, e
    <3>2. /\ SumFunctionOnSet(h, Held) = SumFunctionOnSet(Deltas, Held)
          /\ SumFunctionOnSet(h, Free) = SumFunctionOnSet(Deltas, Free)
      BY <1>5, <2>3, SumOfTheSame
    <3>. QED  BY <2>1, <3>1, <3>2 DEF TreasuryInv, Money, HoldsAreAccountedFor, h
  <2>. QED  BY <2>5, <2>6
<1>. QED  BY <1>8, <1>9, <1>11, <1>12, <1>13, <1>14 DEF TreasuryInv, Money

LEMMA HoldKeeps ==
  ASSUME TreasuryInv, NEW b \in Budgets, NEW seen \in 0 .. Len(movements), NEW amount \in Amounts,
         Hold(b, seen, amount)
  PROVE  TreasuryInv'
<1>1. -amount \in Int /\ -amount < 0
  BY AmountsArePositive
<1>. QED  BY <1>1, MovementKeeps DEF Hold

LEMMA MovementReleaseKeeps ==
  ASSUME TreasuryInv, NEW b \in Budgets, NEW seen \in 0 .. Len(movements),
         NEW hold \in DOMAIN movements, Release(b, seen, hold)
  PROVE  TreasuryInv'
<1>1. movements[hold].delta \in Int /\ movements[hold].delta < 0
  BY TablesAreFinite DEF Release, TreasuryInv, Money, MovementsAreCounted, Movement
<1>2. -movements[hold].delta \in Int /\ ~(-movements[hold].delta < 0)
  BY <1>1
<1>. QED  BY <1>2, MovementKeeps DEF Release

\* A dispatch takes its hold out of those that are free.
LEMMA DispatchKeeps ==
  ASSUME TreasuryInv, NEW row \in DispatchRow, Dispatch(row)
  PROVE  TreasuryInv'
<1>. DEFINE n == Len(dispatches)
            j == row.reservation
            a == row.authorization
<1>1. /\ dispatches' = Append(dispatches, row) /\ n < MAX_DISPATCHES
      /\ a \in Written(authorization) /\ j \in DOMAIN movements
      /\ movements[j].delta = -Amount(a)
      /\ \A i \in DOMAIN dispatches : dispatches[i].reservation # j
      /\ UNCHANGED <<eligibility, proposal, response, authorization, revokedAt, movements>>
  BY DEF Dispatch, decided, DispatchRow, TreasuryInv, TreasuryTypeOK, Written
<1>2. /\ DOMAIN dispatches = 1 .. n /\ n \in Nat /\ IsFiniteSet(DOMAIN dispatches)
      /\ IsFiniteSet(Held) /\ IsFiniteSet(Free)
      /\ Held \subseteq DOMAIN movements /\ Free \subseteq Held
      /\ \A i \in DOMAIN movements : movements[i] \in Movement /\ Deltas[i] \in Int
  BY TablesAreFinite DEF TreasuryInv
<1>3. /\ dispatches' \in Seq(DispatchRow) /\ Len(dispatches') = n + 1
      /\ DOMAIN dispatches' = 1 .. n + 1
      /\ \A i \in 1 .. n : dispatches'[i] = dispatches[i]
      /\ dispatches'[n + 1] = row
  BY <1>1 DEF TreasuryInv, TreasuryTypeOK
<1>4. Amount(a) \in Nat \ {0}
  BY <1>1, AmountsAreDue
<1>. HIDE DEF n, j, a
<1>5. TreasuryTypeOK'
  <2>1. Len(dispatches') <= MAX_DISPATCHES
    BY <1>1, <1>2, <1>3, BoundsAreNatural
  <2>. QED  BY <1>1, <1>3, <2>1 DEF TreasuryInv, TreasuryTypeOK
<1>6. RowsAreKeyed' /\ LinesAreWritten' /\ MovementsAreCounted' /\ ChainAccountsForEveryMovement'
  BY <1>1 DEF TreasuryInv, Money, RowsAreKeyed, LinesAreWritten, Written, MovementsAreCounted,
              ChainAccountsForEveryMovement, OnBudget, Deltas
<1>7. \A x : Amount(x)' = Amount(x)
  BY <1>1 DEF Amount
<1>8. DispatchesAreBacked'
  <2>1. ASSUME NEW i \in 1 .. n + 1
        PROVE  /\ dispatches'[i].authorization \in Written(authorization)
               /\ dispatches'[i].reservation \in DOMAIN movements
               /\ movements[dispatches'[i].reservation].delta
                    = -Amount(dispatches'[i].authorization)
    <3>1. CASE i \in 1 .. n
      BY <1>2, <1>3, <3>1 DEF TreasuryInv, Money, DispatchesAreBacked
    <3>2. CASE i = n + 1
      BY <1>1, <1>3, <3>2 DEF j, a
    <3>. QED  BY <1>2, <3>1, <3>2
  <2>2. ASSUME NEW i \in 1 .. n + 1, NEW k \in 1 .. n + 1,
               dispatches'[i].reservation = dispatches'[k].reservation
        PROVE  i = k
    <3>1. CASE i \in 1 .. n /\ k \in 1 .. n
      BY <1>2, <1>3, <2>2, <3>1 DEF TreasuryInv, Money, DispatchesAreBacked
    <3>2. CASE i = n + 1 \/ k = n + 1
      BY <1>1, <1>2, <1>3, <2>2, <3>2 DEF j
    <3>. QED  BY <1>2, <3>1, <3>2
  <2>. QED  BY <1>1, <1>3, <1>7, <2>1, <2>2 DEF DispatchesAreBacked, Written
<1>9. HoldsAreAccountedFor'
  <2>. DEFINE g == [i \in DOMAIN dispatches |-> Amount(dispatches[i].authorization)]
              h == [i \in DOMAIN dispatches' |-> Amount(dispatches'[i].authorization)]
              e == n + 1
  <2>1. Dispatched = SumFunctionOnSet(g, 1 .. n) /\ Dispatched' = SumFunctionOnSet(h, (1 .. n) \cup {e})
    <3>1. 1 .. n + 1 = (1 .. n) \cup {n + 1}
      BY <1>2
    <3>2. [i \in DOMAIN dispatches |-> Amount(dispatches[i].authorization)]' = h
      BY <1>7
    <3>. QED  BY <1>2, <1>3, <3>1, <3>2 DEF Dispatched
  <2>2. \A i \in 1 .. n : g[i] \in Int /\ h[i] = g[i]
    <3>1. ASSUME NEW i \in 1 .. n
          PROVE  Amount(dispatches[i].authorization) \in Int
      <4>1. dispatches[i].authorization \in Written(authorization)
        BY <1>2 DEF TreasuryInv, Money, DispatchesAreBacked
      <4>. QED  BY <4>1, AmountsAreDue
    <3>. QED  BY <1>2, <1>3, <3>1
  <2>3. h[e] = Amount(a) /\ h[e] \in Int /\ e \notin 1 .. n /\ IsFiniteSet(1 .. n)
    BY <1>2, <1>3, <1>4, FS_Interval DEF a
  <2>. DEFINE K == 1 .. n
  <2>12. /\ IsFiniteSet(K) /\ e \notin K /\ h[e] \in Int
         /\ \A x \in K : g[x] \in Int /\ h[x] = g[x]
    BY <2>2, <2>3
  <2>. HIDE DEF g, h, e, K
  <2>13. SumFunctionOnSet(h, K \cup {e}) = SumFunctionOnSet(g, K) + h[e]
    <3>1. PICK then, rows, last : then = h /\ rows = K /\ last = e
      OBVIOUS
    <3>2. SumFunctionOnSet(then, rows \cup {last}) = SumFunctionOnSet(g, rows) + then[last]
      BY <2>12, <3>1, SumExtends
    <3>. QED  BY <3>1, <3>2
  <2>4. Dispatched' = Dispatched + Amount(a)
    BY <2>1, <2>3, <2>13 DEF K
  <2>5. j \in Free /\ Deltas[j] = -Amount(a)
    <3>1. movements[j].delta < 0 /\ Deltas[j] = movements[j].delta
      BY <1>1, <1>4 DEF Deltas
    <3>2. j \in Held
      BY <1>1, <3>1 DEF TreasuryInv, Money, MovementsAreCounted, Held
    <3>. QED  BY <1>1, <3>1, <3>2 DEF Free, Named
  <2>6. Free' = Free \ {j} /\ Held' = Held /\ Deltas' = Deltas
    <3>1. Named' = Named \cup {j}
      BY <1>2, <1>3 DEF Named, j
    <3>2. Held' = Held /\ Deltas' = Deltas
      BY <1>1 DEF Held, Deltas
    <3>. QED  BY <3>1, <3>2 DEF Free
  <2>7. \A x \in Held : Deltas[x] \in Int
    BY <1>2
  <2>8. SumFunctionOnSet(Deltas, Free) = Deltas[j] + SumFunctionOnSet(Deltas, Free \ {j})
    BY <1>2, <2>5, <2>7, SumSplits
  <2>9. /\ SumFunctionOnSet(Deltas, Held) \in Int /\ IsFiniteSet(Free \ {j})
        /\ SumFunctionOnSet(Deltas, Free \ {j}) \in Int
    BY <1>2, <2>7, FS_RemoveElement, SumIsInteger
  <2>10. Dispatched = SumFunctionOnSet(Deltas, Free) - SumFunctionOnSet(Deltas, Held)
    BY DEF TreasuryInv, Money, HoldsAreAccountedFor
  <2>11. Dispatched' = SumFunctionOnSet(Deltas, Free \ {j}) - SumFunctionOnSet(Deltas, Held)
    BY <1>4, <2>4, <2>5, <2>8, <2>9, <2>10
  <2>. QED  BY <2>6, <2>11 DEF HoldsAreAccountedFor
<1>. QED  BY <1>5, <1>6, <1>8, <1>9 DEF TreasuryInv, Money

LEMMA InvariantKept == TreasuryInv /\ [TreasuryNext]_treasury => TreasuryInv'
<1>. SUFFICES ASSUME TreasuryInv, [TreasuryNext]_treasury PROVE TreasuryInv'
  OBVIOUS
<1>1. CASE UNCHANGED treasury
  <2>1. UNCHANGED <<eligibility, proposal, response, authorization, revokedAt,
                    movements, dispatches>>
    BY <1>1 DEF treasury, decided
  <2>2. TreasuryTypeOK' /\ RowsAreKeyed' /\ LinesAreWritten'
    BY <2>1 DEF TreasuryInv, TreasuryTypeOK, RowsAreKeyed, LinesAreWritten, Written
  <2>3. \A a \in Written(authorization) : a \in Written(authorization')
    BY <2>1 DEF Written
  <2>. QED  BY <2>1, <2>2, <2>3, MoneyAlone DEF TreasuryInv
<1>2. CASE TreasuryNext
  BY <1>2, DetermineKeeps, ProposeKeeps, ReviewKeeps, AuthorizeKeeps, RevokeKeeps,
     HoldKeeps, MovementReleaseKeeps, DispatchKeeps DEF TreasuryNext
<1>. QED  BY <1>1, <1>2

LEMMA IInvHolds == TreasurySpec => []TreasuryInv
BY TreasuryInitial, InvariantKept, PTL DEF TreasurySpec

\* The tables keep their types; above all, no balance of a budget is negative,
\* whatever views its movements were computed from.
THEOREM TablesAreTyped == TreasurySpec => []TreasuryTypeOK
<1>1. TreasuryInv => TreasuryTypeOK
  BY DEF TreasuryInv
<1>. QED  BY <1>1, IInvHolds, PTL

\* Each balance is the limit and all the movements of its budget so far: the
\* keys of budget_reservation refuse every row that was computed from a view
\* that is no longer current.
THEOREM BalancesAccountForEverything == TreasurySpec => []ChainAccountsForEveryMovement
<1>1. TreasuryInv => ChainAccountsForEveryMovement
  BY DEF TreasuryInv, Money
<1>. QED  BY <1>1, IInvHolds, PTL

\* The dispatches together move no more than was held.
LEMMA BackedIsHeld ==
  ASSUME TreasuryInv
  PROVE  DispatchesAreHeld
<1>1. /\ IsFiniteSet(Held) /\ IsFiniteSet(Free) /\ Free \subseteq Held
      /\ Held \subseteq DOMAIN movements
      /\ \A i \in DOMAIN movements : Deltas[i] \in Int
  BY TablesAreFinite DEF TreasuryInv
<1>2. \A i \in Free : Deltas[i] <= 0
  BY <1>1 DEF TreasuryInv, Money, MovementsAreCounted, Deltas, Held
<1>3. SumFunctionOnSet(Deltas, Free) <= 0
  BY <1>1, <1>2, SumOfDebits
<1>4. SumFunctionOnSet(Deltas, Free) \in Int /\ SumFunctionOnSet(Deltas, Held) \in Int
  BY <1>1, SumIsInteger
<1>. QED  BY <1>3, <1>4 DEF TreasuryInv, Money, HoldsAreAccountedFor, DispatchesAreHeld

\* No dispatch moves money that was not debited for it: a hold serves one dispatch
\* of exactly its amount (dispatch_hold_once, and the key on its debit).
THEOREM NothingIsDispatchedUnheld == TreasurySpec => []DispatchesAreHeld
BY BackedIsHeld, IInvHolds, PTL

-----------------------------------------------------------------------------
(***************************************************************************)
(* Lines do not grow behind an authority: as in ExecutionLedgerProofs, a   *)
(* row inserted later is on no line there is.                              *)
(***************************************************************************)

\* A row inserted for p is on no line that was there: what is closed under
\* "revises" before stays so, once cut down to what was written.
LEMMA LineKept ==
  ASSUME TreasuryInv, NEW p \in Proposals, NEW row \in ProposalRow, Propose(p, row),
         NEW x \in Written(proposal)
  PROVE  Line(x)' = Line(x)
<1>1. /\ proposal' = [proposal EXCEPT ![p] = row] /\ proposal[p] = Nothing
      /\ proposal \in [Proposals -> ProposalRow \cup {Nothing}]
  BY DEF Propose, TreasuryInv, TreasuryTypeOK
<1>2. \A q \in Written(proposal) :
        q \in Proposals /\ q # p /\ proposal'[q] = proposal[q] /\ q \in Written(proposal')
  BY <1>1 DEF Written
<1>3. ASSUME NEW S \in SUBSET Proposals, Climbs(S)'
      PROVE  Climbs(S)
  BY <1>2, <1>3 DEF Climbs
<1>4. \A q \in Written(proposal) : proposal[q].revises \in Written(proposal) \cup {Nothing}
  BY DEF TreasuryInv, LinesAreWritten
<1>5. PICK W \in SUBSET Proposals : W = Written(proposal) BY <1>2
<1>6. ASSUME NEW S \in SUBSET Proposals, Climbs(S)
      PROVE  Climbs(S \cap W)'
  <2>1. ASSUME NEW q \in S \cap W
        PROVE  proposal'[q].revises \in (S \cap W) \cup {Nothing}
    BY <1>2, <1>4, <1>5, <1>6, <2>1 DEF Climbs
  <2>. QED BY <2>1 DEF Climbs
<1>7. Line(x)' \subseteq Line(x)
  <2>1. ASSUME NEW q \in Proposals,
               \A S \in SUBSET Proposals : x \in S /\ Climbs(S)' => q \in S,
               NEW S \in SUBSET Proposals, x \in S, Climbs(S)
        PROVE  q \in S
    <3>1. S \cap W \in SUBSET Proposals /\ x \in S \cap W BY <1>5, <2>1
    <3>2. Climbs(S \cap W)' BY <1>6, <2>1
    <3>. QED BY <2>1, <3>1, <3>2
  <2>. QED BY <2>1 DEF Line
<1>8. Line(x) \subseteq Line(x)' BY <1>3 DEF Line
<1>. QED BY <1>7, <1>8

LEMMA LineAlone == ASSUME UNCHANGED proposal, NEW x PROVE Line(x)' = Line(x)
BY DEF Line, Climbs, Written

\* Inserting a row changes no authority that is over p, as long as the lines of
\* written proposals stay what they are.
LEMMA AuthorityStays ==
  ASSUME TreasuryInv, NEW p \in Proposals, NEW a \in Written(authorization),
         authorization'[a] = authorization[a],
         \A x \in Written(proposal) : Line(x)' = Line(x)
  PROVE  (p \in Line(authorization[a].proposal))' <=> p \in Line(authorization[a].proposal)
<1>1. PICK x \in Written(proposal) : x = authorization[a].proposal
  BY DEF TreasuryInv, RowsAreKeyed
<1>2. p \in Line(x)' <=> p \in Line(x)
  BY <1>1
<1>3. x = authorization'[a].proposal
  BY <1>1
<1>. QED  BY <1>1, <1>2, <1>3 DEF Line

LEMMA DenialStays ==
  ASSUME TreasuryInv, [TreasuryNext]_treasury, NEW p \in Proposals, response[p] = "DENY"
  PROVE  AuthorityOver(p)' = AuthorityOver(p)
<1>1. ASSUME UNCHANGED authorization, \A x \in Written(proposal) : Line(x)' = Line(x)
      PROVE  AuthorityOver(p)' = AuthorityOver(p)
  BY <1>1, AuthorityStays DEF AuthorityOver, Written
<1>2. ASSUME UNCHANGED <<proposal, authorization>>
      PROVE  AuthorityOver(p)' = AuthorityOver(p)
  BY <1>1, <1>2, LineAlone
<1>3. CASE UNCHANGED treasury
  BY <1>2, <1>3 DEF treasury, decided
<1>4. ASSUME NEW q \in Proposals, NEW row \in ProposalRow, Propose(q, row)
      PROVE  AuthorityOver(p)' = AuthorityOver(p)
  BY <1>1, <1>4, LineKept DEF Propose
<1>5. ASSUME NEW a \in Authorizations, NEW row \in AuthorizationRow, Authorize(a, row)
      PROVE  AuthorityOver(p)' = AuthorityOver(p)
  <2>1. /\ authorization' = [authorization EXCEPT ![a] = row] /\ authorization[a] = Nothing
        /\ UNCHANGED proposal
        /\ authorization \in [Authorizations -> AuthorizationRow \cup {Nothing}]
    BY <1>5 DEF Authorize, decided, TreasuryInv, TreasuryTypeOK
  <2>2. p \notin Line(row.proposal)
    BY <1>5 DEF Authorize
  <2>3. ~(p \in Line(authorization[a].proposal))'
    <3>1. PICK x : x = row.proposal
      OBVIOUS
    <3>2. p \notin Line(x)'
      BY <2>1, <2>2, <3>1, LineAlone
    <3>3. authorization'[a].proposal = x
      BY <2>1, <3>1
    <3>. QED  BY <3>2, <3>3 DEF Line
  <2>4. \A b \in Written(authorization) : b # a /\ authorization'[b] = authorization[b]
    BY <2>1 DEF Written
  <2>5. \A b \in Written(authorization) :
          (p \in Line(authorization[b].proposal))' <=> p \in Line(authorization[b].proposal)
    BY <2>1, <2>4, AuthorityStays, LineAlone
  <2>6. \A b \in Authorizations \ {a} :
          b \in Written(authorization') <=> b \in Written(authorization)
    BY <2>1 DEF Written
  <2>7. DOMAIN authorization = Authorizations /\ DOMAIN authorization' = Authorizations
    BY <2>1
  <2>8. ASSUME NEW b \in Authorizations
        PROVE  b \in AuthorityOver(p)' <=> b \in AuthorityOver(p)
    <3>1. CASE b = a
      BY <2>1, <2>3, <3>1 DEF AuthorityOver, Written
    <3>2. CASE b # a
      BY <2>5, <2>6, <3>2 DEF AuthorityOver
    <3>. QED  BY <3>1, <3>2
  <2>. QED  BY <2>7, <2>8 DEF AuthorityOver, Written
<1>6. ASSUME TreasuryNext PROVE AuthorityOver(p)' = AuthorityOver(p)
  <2>1. ASSUME NEW asset, NEW state, Determine(asset, state) PROVE UNCHANGED <<proposal, authorization>>
    BY <2>1 DEF Determine
  <2>2. ASSUME NEW q, NEW said, Review(q, said) PROVE UNCHANGED <<proposal, authorization>>
    BY <2>2 DEF Review
  <2>3. ASSUME NEW a, NEW at, Revoke(a, at) PROVE UNCHANGED <<proposal, authorization>>
    BY <2>3 DEF Revoke, decided
  <2>4. ASSUME NEW b, NEW seen, NEW amount, Hold(b, seen, amount) PROVE UNCHANGED <<proposal, authorization>>
    BY <2>4 DEF Hold, Insert, decided
  <2>5. ASSUME NEW b, NEW seen, NEW hold, Release(b, seen, hold) PROVE UNCHANGED <<proposal, authorization>>
    BY <2>5 DEF Release, Insert, decided
  <2>6. ASSUME NEW row, Dispatch(row) PROVE UNCHANGED <<proposal, authorization>>
    BY <2>6 DEF Dispatch, decided
  <2>. QED BY <1>2, <1>4, <1>5, <1>6, <2>1, <2>2, <2>3, <2>4, <2>5, <2>6 DEF TreasuryNext
<1>. QED  BY <1>3, <1>6

\* Once a proposal is denied nothing in a line through it gains an authority over
\* money: the walk happens at the insertion, and later rows change no line.
THEOREM DenialsPersist == TreasurySpec => DenialIsPersistent
<1>1. TreasuryInv /\ [TreasuryNext]_treasury =>
        [\A p \in Proposals : response[p] = "DENY" =>
           AuthorityOver(p)' = AuthorityOver(p)]_treasury
  BY DenialStays
<1>. QED  BY <1>1, IInvHolds, PTL DEF TreasurySpec, DenialIsPersistent
=============================================================================
