------------------------ MODULE ContractReviewProofs ------------------------
(***************************************************************************)
(* For any calls, callers, commands, seed and limits: the board is one,    *)
(* and a reviewer's receipt stands for one result.                         *)
(*                                                                         *)
(* The argument: only the call that holds the lock is past its load, so    *)
(* the log it writes is the log it judged, and the log grows by one        *)
(* accepted command at a time.  A board that grew keeps its messages at    *)
(* their numbers, its definitions and its receipts, so that what a pass    *)
(* has read of it, or has been answered, stays so.                         *)
(***************************************************************************)
EXTENDS ContractReview, FiniteSetTheorems, SequenceTheorems, NaturalsInduction,
        WellFoundedInduction, TLAPS

-----------------------------------------------------------------------------
(* Replaying a log: the fold is the last row of a table over the sets of   *)
(* positions, each computed from the one without its largest position.     *)

LOCAL Row(l, t, s) == IF s = {} THEN Empty ELSE Applied(t[s \ {Max(s)}], l[Max(s)])
LOCAL IsTable(l, t, n) == t = [s \in SUBSET (1 .. n) |-> Row(l, t, s)]

\* A nonempty set of natural numbers has a least member.
LEMMA LeastNumber ==
  ASSUME NEW T \in SUBSET Nat, T # {}
  PROVE  \E n \in T : \A m \in T : ~(m < n)
<1>1. IsWellFoundedOn(OpToRel(<, Nat), Nat)
  BY NatLessThanWellFounded
<1>2. PICK n \in T : \A m \in T : ~(<<m, n>> \in OpToRel(<, Nat))
  BY <1>1, WFMin
<1>3. ASSUME NEW m \in T PROVE ~(m < n)
  BY <1>2, <1>3 DEF OpToRel
<1>. QED BY <1>3

LEMMA MinIsLeast ==
  ASSUME NEW s \in SUBSET Nat, s # {}
  PROVE  Min(s) \in s /\ \A x \in s : Min(s) <= x
<1>1. PICK n \in s : \A m \in s : ~(m < n)
  BY LeastNumber
<1>2. n \in s /\ \A m \in s : n <= m
  BY <1>1
<1>. QED BY <1>2 DEF Min

LEMMA MaxIsLargest ==
  ASSUME NEW n \in Nat, NEW s \in SUBSET (1 .. n), s # {}
  PROVE  Max(s) \in s /\ \A x \in s : x <= Max(s)
<1>. DEFINE Bounds == {k \in Nat : \A x \in s : x <= k}
<1>1. n \in Bounds
  OBVIOUS
<1>2. PICK k \in Bounds : \A j \in Bounds : ~(j < k)
  BY <1>1, LeastNumber
<1>3. k \in s
  <2>. SUFFICES ASSUME k \notin s PROVE FALSE
    OBVIOUS
  <2>1. k \in Nat /\ \A x \in s : x \in Nat /\ 1 <= x /\ x <= k /\ x # k
    BY <1>2
  <2>2. PICK x \in s : TRUE
    OBVIOUS
  <2>3. k - 1 \in Nat /\ k - 1 < k
    BY <2>1, <2>2
  <2>4. \A y \in s : y <= k - 1
    BY <2>1
  <2>. QED BY <1>2, <2>3, <2>4
<1>4. k \in s /\ \A x \in s : k >= x
  BY <1>2, <1>3
<1>5. Max(s) \in s /\ \A x \in s : Max(s) >= x
  BY <1>4 DEF Max
<1>. QED BY <1>5

LEMMA WithoutTheLargest ==
  ASSUME NEW n \in Nat, NEW s \in SUBSET (1 .. n + 1), s # {}
  PROVE  s \ {Max(s)} \in SUBSET (1 .. n) /\ Max(s) \in 1 .. n + 1
<1>1. n + 1 \in Nat
  OBVIOUS
<1>2. PICK m : m = Max(s)
  OBVIOUS
<1>3. m \in s /\ \A x \in s : x <= m
  BY <1>1, <1>2, MaxIsLargest
<1>4. \A x \in s \ {m} : x \in 1 .. n
  BY <1>3
<1>. QED BY <1>2, <1>3, <1>4

\* The largest of the first numbers is the last.
LEMMA MaxOfFirst ==
  ASSUME NEW n \in Nat \ {0}
  PROVE  Max(1 .. n) = n
<1>1. PICK m : m = Max(1 .. n)
  OBVIOUS
<1>2. 1 .. n # {} /\ n \in 1 .. n
  OBVIOUS
<1>3. m \in 1 .. n /\ n <= m
  BY <1>1, <1>2, MaxIsLargest
<1>. QED BY <1>1, <1>3

LEMMA TableGrows ==
  ASSUME NEW l, NEW n \in Nat, NEW t, IsTable(l, t, n)
  PROVE  \E u : IsTable(l, u, n + 1)
<1>. DEFINE u == [s \in SUBSET (1 .. n + 1) |-> Row(l, t, s)]
<1>1. ASSUME NEW s \in SUBSET (1 .. n)
      PROVE  u[s] = t[s]
  <2>1. s \in SUBSET (1 .. n + 1)
    OBVIOUS
  <2>. QED BY <2>1 DEF IsTable
<1>2. ASSUME NEW s \in SUBSET (1 .. n + 1)
      PROVE  Row(l, u, s) = Row(l, t, s)
  <2>1. CASE s = {}
    BY <2>1 DEF Row
  <2>2. CASE s # {}
    <3>1. u[s \ {Max(s)}] = t[s \ {Max(s)}]
      BY <1>1, <2>2, WithoutTheLargest
    <3>. QED BY <2>2, <3>1 DEF Row
  <2>. QED BY <2>1, <2>2
<1>3. u = [s \in SUBSET (1 .. n + 1) |-> Row(l, u, s)]
  BY <1>2
<1>. QED BY <1>3 DEF IsTable

LEMMA TableExists ==
  ASSUME NEW l, NEW n \in Nat
  PROVE  \E t : IsTable(l, t, n)
<1>. DEFINE Bad == {k \in Nat : ~ \E t : IsTable(l, t, k)}
<1>1. Bad = {}
  <2>. SUFFICES ASSUME Bad # {} PROVE FALSE
    OBVIOUS
  <2>1. PICK k \in Bad : \A j \in Bad : ~(j < k)
    BY LeastNumber
  <2>2. CASE k = 0
    <3>. DEFINE t == [s \in SUBSET (1 .. 0) |-> Empty]
    <3>1. \A s \in SUBSET (1 .. 0) : s = {}
      OBVIOUS
    <3>2. \A s \in SUBSET (1 .. 0) : Row(l, t, s) = Empty
      BY <3>1 DEF Row
    <3>3. t = [s \in SUBSET (1 .. 0) |-> Row(l, t, s)]
      BY <3>2
    <3>. QED BY <3>3, <2>1, <2>2 DEF IsTable
  <2>3. CASE k # 0
    <3>1. k - 1 \in Nat /\ k - 1 < k /\ k - 1 + 1 = k
      BY <2>3
    <3>2. PICK t : IsTable(l, t, k - 1)
      BY <2>1, <3>1
    <3>. QED BY <2>1, <3>1, <3>2, TableGrows
  <2>. QED BY <2>2, <2>3
<1>. QED BY <1>1

LEMMA ReplayIsInATable ==
  ASSUME NEW l, NEW n \in Nat, DOMAIN l = 1 .. n
  PROVE  \E t : IsTable(l, t, n) /\ Replay(l) = t[1 .. n]
<1>. DEFINE Chosen == CHOOSE t : IsTable(l, t, n)
<1>1. IsTable(l, Chosen, n)
  BY TableExists
<1>2. Replay(l) = Chosen[1 .. n]
  BY DEF Replay, FoldLeft, MapThenFoldSet, IsTable, Row
<1>. QED BY <1>1, <1>2

\* Tables of logs that begin alike agree on the beginning.
LEMMA TablesAgree ==
  ASSUME NEW l, NEW h, NEW n \in Nat, NEW m \in Nat, NEW k \in Nat, k <= n, k <= m,
         \A i \in 1 .. k : l[i] = h[i],
         NEW t, IsTable(l, t, n), NEW u, IsTable(h, u, m)
  PROVE  t[1 .. k] = u[1 .. k]
<1>. DEFINE Bad == {j \in Nat : j <= k /\ t[1 .. j] # u[1 .. j]}
<1>1. Bad = {}
  <2>. SUFFICES ASSUME Bad # {} PROVE FALSE
    OBVIOUS
  <2>1. PICK j \in Bad : \A i \in Bad : ~(i < j)
    BY LeastNumber
  <2>2. t[1 .. j] = Row(l, t, 1 .. j) /\ u[1 .. j] = Row(h, u, 1 .. j)
    <3>1. 1 .. j \in SUBSET (1 .. n) /\ 1 .. j \in SUBSET (1 .. m)
      BY <2>1
    <3>. QED BY <3>1 DEF IsTable
  <2>3. j # 0
    <3>1. 1 .. 0 = {}
      OBVIOUS
    <3>. QED BY <2>1, <2>2, <3>1 DEF Row
  <2>4. /\ 1 .. j # {} /\ j - 1 \in Nat /\ j - 1 < j
        /\ (1 .. j) \ {j} = 1 .. (j - 1)
    <3>1. j \in Nat /\ j - 1 \in Nat /\ j - 1 < j /\ 1 \in 1 .. j
      BY <2>1, <2>3
    <3>2. (1 .. j) \ {j} = 1 .. (j - 1)
      BY <3>1
    <3>. QED BY <3>1, <3>2
  <2>5. Max(1 .. j) = j
    BY <2>1, <2>3, MaxOfFirst
  <2>6. t[1 .. (j - 1)] = u[1 .. (j - 1)]
    BY <2>1, <2>4
  <2>7. l[j] = h[j]
    BY <2>1, <2>4
  <2>. QED BY <2>1, <2>2, <2>4, <2>5, <2>6, <2>7 DEF Row
<1>. QED BY <1>1

\* What the fold computes: the board of a log with one more command.
LEMMA ReplayBegins == Replay(<< >>) = Empty
<1>1. DOMAIN << >> = 1 .. 0 /\ 1 .. 0 = {}
  OBVIOUS
<1>2. PICK t : IsTable(<< >>, t, 0) /\ Replay(<< >>) = t[1 .. 0]
  BY <1>1, ReplayIsInATable
<1>. QED BY <1>1, <1>2 DEF IsTable, Row

LEMMA ReplayGoesOn ==
  ASSUME NEW S, NEW l \in Seq(S), NEW c
  PROVE  Replay(Append(l, c)) = Applied(Replay(l), c)
<1>. DEFINE n == Len(l)
            h == Append(l, c)
<1>1. n \in Nat /\ DOMAIN l = 1 .. n
  BY LenProperties
<1>2. DOMAIN h = 1 .. n + 1 /\ h[n + 1] = c /\ \A i \in 1 .. n : l[i] = h[i]
  <2>1. l \in Seq(S \cup {c}) /\ c \in S \cup {c}
    BY <1>1, ElementOfSeq, IsASeq
  <2>. QED BY <2>1, AppendProperties, LenProperties
<1>. HIDE DEF h, n
<1>3. PICK t : IsTable(l, t, n) /\ Replay(l) = t[1 .. n]
  BY <1>1, ReplayIsInATable
<1>4. PICK u : IsTable(h, u, n + 1) /\ Replay(h) = u[1 .. n + 1]
  BY <1>1, <1>2, ReplayIsInATable
<1>5. t[1 .. n] = u[1 .. n]
  <2>1. n <= n /\ n <= n + 1 /\ n + 1 \in Nat
    BY <1>1
  <2>. QED BY <1>1, <1>2, <1>3, <1>4, <2>1, TablesAgree
<1>6. /\ 1 .. n + 1 # {} /\ (1 .. n + 1) \ {n + 1} = 1 .. n
      /\ 1 .. n + 1 \in SUBSET (1 .. n + 1)
  BY <1>1
<1>7. Max(1 .. n + 1) = n + 1
  BY <1>1, MaxOfFirst
<1>8. u[1 .. n + 1] = Applied(u[1 .. n], h[n + 1])
  BY <1>4, <1>6, <1>7 DEF IsTable, Row
<1>. QED BY <1>2, <1>3, <1>4, <1>5, <1>8 DEF h

-----------------------------------------------------------------------------
(* What a command does to a board that is right, and what stays of it.     *)

LOCAL IsSequence(s) == s \in Seq(ToSet(s))

IsBoard(b) ==
  /\ b = [definitions |-> b.definitions, messages |-> b.messages, receipts |-> b.receipts]
  /\ IsSequence(b.messages)

\* An id has one definition, a request id one message, and who a message is for
\* was registered, with its domain.
BoardIsRight(b) ==
  /\ IsBoard(b)
  /\ \A d, e \in b.definitions : d.id = e.id => d = e
  /\ \A i, j \in DOMAIN b.messages : SamePost(b.messages[i], b.messages[j]) => i = j
  /\ \A i \in DOMAIN b.messages :
       LET m == b.messages[i] IN
       m.recipient # None => Registered(b, m.recipient) /\ Declares(b, m.recipient, m.context)

\* Board a is board b or a later one.
Grows(b, a) ==
  /\ b.definitions \subseteq a.definitions
  /\ b.receipts \subseteq a.receipts
  /\ DOMAIN b.messages \subseteq DOMAIN a.messages
  /\ \A i \in DOMAIN b.messages : a.messages[i] = b.messages[i]

LEMMA Appended ==
  ASSUME NEW s, IsSequence(s), NEW e
  PROVE  /\ IsSequence(Append(s, e))
         /\ Len(s) \in Nat /\ DOMAIN s = 1 .. Len(s)
         /\ Len(Append(s, e)) = Len(s) + 1 /\ DOMAIN Append(s, e) = 1 .. Len(s) + 1
         /\ Append(s, e)[Len(s) + 1] = e
         /\ \A i \in 1 .. Len(s) : Append(s, e)[i] = s[i]
         /\ Append(s, e) # s
<1>1. s \in Seq(ToSet(s) \cup {e}) /\ e \in ToSet(s) \cup {e}
  <2>1. Len(s) \in Nat /\ DOMAIN s = 1 .. Len(s) /\ \A i \in 1 .. Len(s) : s[i] \in ToSet(s)
    BY LenProperties, ElementOfSeq DEF IsSequence
  <2>2. s = [i \in 1 .. Len(s) |-> s[i]]
    BY LenProperties DEF IsSequence
  <2>. QED BY <2>1, <2>2, IsASeq
<1>2. /\ Len(s) \in Nat /\ DOMAIN s = 1 .. Len(s)
      /\ Append(s, e) \in Seq(ToSet(s) \cup {e})
      /\ Len(Append(s, e)) = Len(s) + 1 /\ DOMAIN Append(s, e) = 1 .. Len(s) + 1
      /\ Append(s, e)[Len(s) + 1] = e
      /\ \A i \in 1 .. Len(s) : Append(s, e)[i] = s[i]
  BY <1>1, AppendProperties, LenProperties
<1>3. IsSequence(Append(s, e))
  <2>1. PICK a : a = Append(s, e)
    OBVIOUS
  <2>2. a \in Seq(ToSet(s) \cup {e}) /\ \A i \in DOMAIN a : a[i] \in ToSet(a)
    BY <1>2, <2>1 DEF ToSet
  <2>3. a = [i \in 1 .. Len(a) |-> a[i]] /\ Len(a) \in Nat /\ DOMAIN a = 1 .. Len(a)
    BY <2>2, LenProperties
  <2>. QED BY <2>1, <2>2, <2>3, IsASeq DEF IsSequence
<1>4. Append(s, e) # s
  <2>1. PICK n \in Nat : n = Len(s)
    BY <1>2, Zenon
  <2>2. n + 1 # n
    BY <2>1
  <2>3. Len(Append(s, e)) = Len(s) + 1
    BY <1>2
  <2>. QED BY <2>1, <2>2, <2>3, Zenon
<1>. QED BY <1>2, <1>3, <1>4

LEMMA AppliedRegister ==
  ASSUME NEW b, IsBoard(b), NEW c, c.operation = "register"
  PROVE  /\ Applied(b, c) = [definitions |-> b.definitions \cup {c.definition},
                             messages |-> b.messages, receipts |-> b.receipts]
         /\ Accepts(b, c) <=> AcceptsRegister(b, c.definition)
<1>1. Accepts(b, c) = AcceptsRegister(b, c.definition)
  BY DEF Accepts
<1>2. Applied(b, c) = [b EXCEPT !.definitions = @ \cup {c.definition}]
  BY DEF Applied
<1>. QED BY <1>1, <1>2 DEF IsBoard

LEMMA AppliedPost ==
  ASSUME NEW b, IsBoard(b), NEW c, c.operation = "post"
  PROVE  /\ Applied(b, c) =
              [definitions |-> b.definitions,
               messages |-> IF c.post \in ToSet(b.messages) THEN b.messages
                            ELSE Append(b.messages, c.post),
               receipts |-> b.receipts]
         /\ Accepts(b, c) <=> AcceptsPost(b, c.post)
<1>1. Accepts(b, c) = AcceptsPost(b, c.post)
  BY DEF Accepts
<1>2. Applied(b, c) = [b EXCEPT !.messages = IF c.post \in ToSet(@) THEN @ ELSE Append(@, c.post)]
  BY DEF Applied
<1>. QED BY <1>1, <1>2 DEF IsBoard

LEMMA AppliedAcknowledge ==
  ASSUME NEW b, IsBoard(b), NEW c, c.operation = "acknowledge"
  PROVE  /\ Applied(b, c) = [definitions |-> b.definitions, messages |-> b.messages,
                             receipts |-> b.receipts \cup {Receipt(c)}]
         /\ Accepts(b, c) <=> AcceptsAcknowledge(b, Receipt(c))
<1>1. Accepts(b, c) = AcceptsAcknowledge(b, Receipt(c))
  BY DEF Accepts
<1>2. Applied(b, c) = [b EXCEPT !.receipts = @ \cup {Receipt(c)}]
  BY DEF Applied
<1>. QED BY <1>1, <1>2 DEF IsBoard

\* A definition stays the one of its id.
LEMMA DefinitionStays ==
  ASSUME NEW b, BoardIsRight(b), NEW a, BoardIsRight(a), Grows(b, a), NEW id, Registered(b, id)
  PROVE  Registered(a, id) /\ Definition(a, id) = Definition(b, id)
<1>1. PICK d \in b.definitions : d.id = id
  BY DEF Registered
<1>2. Definition(b, id) = d
  BY <1>1 DEF Definition, BoardIsRight
<1>3. d \in a.definitions /\ Definition(a, id) = d
  BY <1>1 DEF Definition, BoardIsRight, Grows
<1>. QED BY <1>1, <1>2, <1>3 DEF Registered

LEMMA DeclaresStays ==
  ASSUME NEW b, BoardIsRight(b), NEW a, BoardIsRight(a), Grows(b, a),
         NEW id, Registered(b, id), NEW context, Declares(b, id, context)
  PROVE  Registered(a, id) /\ Declares(a, id, context)
BY DefinitionStays DEF Declares

\* An accepted command makes a later board that is right, and is on it.
LEMMA AcceptedRegister ==
  ASSUME NEW b, BoardIsRight(b), NEW c, c.operation = "register", Accepts(b, c)
  PROVE  BoardIsRight(Applied(b, c)) /\ Grows(b, Applied(b, c)) /\ IsOn(Applied(b, c), c)
<1>1. PICK a : a = Applied(b, c)
  OBVIOUS
<1>2. /\ a = [definitions |-> b.definitions \cup {c.definition},
              messages |-> b.messages, receipts |-> b.receipts]
      /\ AcceptsRegister(b, c.definition) /\ IsBoard(b)
  BY <1>1, AppliedRegister DEF BoardIsRight
<1>3. /\ a.definitions = b.definitions \cup {c.definition}
      /\ a.messages = b.messages /\ a.receipts = b.receipts /\ IsBoard(a)
  BY <1>2 DEF IsBoard
<1>4. Grows(b, a)
  BY <1>3 DEF Grows
<1>5. \A d, e \in a.definitions : d.id = e.id => d = e
  BY <1>2, <1>3 DEF BoardIsRight, AcceptsRegister, Registered
<1>6. \A id : Registered(b, id) => Registered(a, id) /\ Definition(a, id) = Definition(b, id)
  BY <1>3, <1>5 DEF Registered, Definition
<1>7. BoardIsRight(a)
  <2>1. \A i \in DOMAIN a.messages :
          LET m == a.messages[i] IN
          m.recipient # None => Registered(a, m.recipient) /\ Declares(a, m.recipient, m.context)
    BY <1>3, <1>6 DEF BoardIsRight, Declares
  <2>. QED BY <1>3, <1>5, <2>1 DEF BoardIsRight
<1>8. IsOn(a, c)
  <2>1. /\ Applied(a, c) = [definitions |-> a.definitions \cup {c.definition},
                            messages |-> a.messages, receipts |-> a.receipts]
        /\ Accepts(a, c) <=> AcceptsRegister(a, c.definition)
    BY <1>3, AppliedRegister
  <2>2. AcceptsRegister(a, c.definition)
    BY <1>3 DEF AcceptsRegister
  <2>. QED BY <1>2, <1>3, <2>1, <2>2 DEF IsOn
<1>. QED BY <1>1, <1>4, <1>7, <1>8

LEMMA AcceptedPost ==
  ASSUME NEW b, BoardIsRight(b), NEW c, c.operation = "post", Accepts(b, c)
  PROVE  BoardIsRight(Applied(b, c)) /\ Grows(b, Applied(b, c)) /\ IsOn(Applied(b, c), c)
<1>. DEFINE m == c.post
<1>1. PICK a : a = Applied(b, c)
  OBVIOUS
<1>2. /\ a = [definitions |-> b.definitions,
              messages |-> IF m \in ToSet(b.messages) THEN b.messages ELSE Append(b.messages, m),
              receipts |-> b.receipts]
      /\ AcceptsPost(b, m) /\ IsBoard(b)
  BY <1>1, AppliedPost DEF BoardIsRight
<1>3. /\ a.definitions = b.definitions /\ a.receipts = b.receipts
      /\ a.messages = IF m \in ToSet(b.messages) THEN b.messages ELSE Append(b.messages, m)
      /\ a = [definitions |-> a.definitions, messages |-> a.messages, receipts |-> a.receipts]
  BY <1>2
<1>4. PICK n \in Nat : n = Len(b.messages) /\ DOMAIN b.messages = 1 .. n
  BY <1>2, Appended DEF IsBoard
<1>5. \/ a.messages = b.messages /\ m \in ToSet(b.messages)
      \/ /\ DOMAIN a.messages = 1 .. n + 1 /\ a.messages[n + 1] = m
         /\ \A i \in 1 .. n : a.messages[i] = b.messages[i]
         /\ m \notin ToSet(b.messages)
  BY <1>2, <1>3, <1>4, Appended DEF IsBoard
<1>6. IsBoard(a)
  BY <1>2, <1>3, Appended DEF IsBoard
<1>7. Grows(b, a)
  BY <1>3, <1>4, <1>5 DEF Grows
<1>8. m \in ToSet(a.messages)
  <2>1. n + 1 \in 1 .. n + 1
    OBVIOUS
  <2>. QED BY <1>5, <2>1 DEF ToSet
<1>9. \A i, j \in DOMAIN a.messages : SamePost(a.messages[i], a.messages[j]) => i = j
  <2>1. CASE a.messages = b.messages
    BY <2>1 DEF BoardIsRight
  <2>2. CASE a.messages # b.messages
    <3>1. \A i \in 1 .. n : ~SamePost(b.messages[i], m)
      BY <1>2, <1>4, <1>5, <2>2 DEF AcceptsPost, ToSet
    <3>2. \A i \in 1 .. n : ~SamePost(m, b.messages[i])
      BY <3>1 DEF SamePost
    <3>3. \A i \in 1 .. n + 1 : i \in 1 .. n \/ i = n + 1
      OBVIOUS
    <3>4. \A i, j \in 1 .. n : SamePost(a.messages[i], a.messages[j]) => i = j
      BY <1>4, <1>5, <2>2 DEF BoardIsRight
    <3>. QED BY <1>5, <2>2, <3>1, <3>2, <3>3, <3>4
  <2>. QED BY <2>1, <2>2
<1>10. \A id, x : Registered(a, id) = Registered(b, id) /\ Declares(a, id, x) = Declares(b, id, x)
  BY <1>3 DEF Registered, Declares, Definition
<1>11. \A i \in DOMAIN a.messages : \/ i \in DOMAIN b.messages /\ a.messages[i] = b.messages[i]
                                    \/ a.messages[i] = m
  <2>1. \A i \in 1 .. n + 1 : i \in 1 .. n \/ i = n + 1
    OBVIOUS
  <2>. QED BY <1>4, <1>5, <2>1
<1>12. BoardIsRight(a)
  <2>1. m.recipient # None => Registered(b, m.recipient) /\ Declares(b, m.recipient, m.context)
    BY <1>2 DEF AcceptsPost, Addressed
  <2>2. \A i \in DOMAIN a.messages :
          LET k == a.messages[i] IN
          k.recipient # None => Registered(a, k.recipient) /\ Declares(a, k.recipient, k.context)
    BY <1>10, <1>11, <2>1 DEF BoardIsRight
  <2>. QED BY <1>3, <1>6, <1>9, <2>2 DEF BoardIsRight
<1>13. Applied(a, c) = a
  BY <1>3, <1>6, <1>8, AppliedPost
<1>14. Addressed(a, m)
  BY <1>2, <1>10 DEF AcceptsPost, Addressed
<1>15. Threaded(a, m)
  BY <1>2, <1>7 DEF AcceptsPost, Threaded, Grows
<1>16. ASSUME NEW i \in DOMAIN a.messages, SamePost(a.messages[i], m)
       PROVE  a.messages[i] = m
  BY <1>2, <1>11, <1>16 DEF AcceptsPost
<1>17. Accepts(a, c)
  <2>1. AcceptsPost(a, m)
    BY <1>8, <1>14, <1>15, <1>16 DEF AcceptsPost
  <2>. QED BY <1>6, <2>1, AppliedPost
<1>. QED BY <1>1, <1>7, <1>12, <1>13, <1>17 DEF IsOn

LEMMA AcceptedAcknowledge ==
  ASSUME NEW b, BoardIsRight(b), NEW c, c.operation = "acknowledge", Accepts(b, c)
  PROVE  BoardIsRight(Applied(b, c)) /\ Grows(b, Applied(b, c)) /\ IsOn(Applied(b, c), c)
<1>1. PICK a : a = Applied(b, c)
  OBVIOUS
<1>2. /\ a = [definitions |-> b.definitions, messages |-> b.messages,
              receipts |-> b.receipts \cup {Receipt(c)}]
      /\ AcceptsAcknowledge(b, Receipt(c)) /\ IsBoard(b)
  BY <1>1, AppliedAcknowledge DEF BoardIsRight
<1>3. /\ a.definitions = b.definitions /\ a.messages = b.messages
      /\ a.receipts = b.receipts \cup {Receipt(c)} /\ IsBoard(a)
  BY <1>2 DEF IsBoard
<1>4. Grows(b, a)
  BY <1>3 DEF Grows
<1>5. \A id, x : Registered(a, id) = Registered(b, id) /\ Declares(a, id, x) = Declares(b, id, x)
  BY <1>3 DEF Registered, Declares, Definition
<1>6. BoardIsRight(a)
  BY <1>3, <1>5 DEF BoardIsRight
<1>7. IsOn(a, c)
  <2>1. /\ Applied(a, c) = [definitions |-> a.definitions, messages |-> a.messages,
                            receipts |-> a.receipts \cup {Receipt(c)}]
        /\ Accepts(a, c) <=> AcceptsAcknowledge(a, Receipt(c))
    BY <1>3, AppliedAcknowledge
  <2>2. AcceptsAcknowledge(a, Receipt(c))
    BY <1>2, <1>3, <1>5 DEF AcceptsAcknowledge
  <2>. QED BY <1>2, <1>3, <2>1, <2>2 DEF IsOn
<1>. QED BY <1>1, <1>4, <1>6, <1>7

LEMMA AcceptedCommand ==
  ASSUME NEW b, BoardIsRight(b), NEW c, c.operation \in Operations, Accepts(b, c)
  PROVE  BoardIsRight(Applied(b, c)) /\ Grows(b, Applied(b, c)) /\ IsOn(Applied(b, c), c)
BY AcceptedRegister, AcceptedPost, AcceptedAcknowledge DEF Operations

\* A command on the board stays on it.
LEMMA StaysOn ==
  ASSUME NEW b, BoardIsRight(b), NEW a, BoardIsRight(a), Grows(b, a),
         NEW c, c.operation \in Operations, IsOn(b, c)
  PROVE  IsOn(a, c)
<1>. USE DEF BoardIsRight
<1>1. CASE c.operation = "register"
  <2>1. c.definition \in b.definitions
    BY <1>1, AppliedRegister DEF IsOn
  <2>2. c.definition \in a.definitions
    BY <2>1 DEF Grows
  <2>3. a.definitions \cup {c.definition} = a.definitions /\ AcceptsRegister(a, c.definition)
    BY <2>2 DEF AcceptsRegister
  <2>. QED BY <1>1, <2>3, AppliedRegister DEF IsOn, IsBoard
<1>2. CASE c.operation = "post"
  <2>. DEFINE m == c.post
  <2>1. AcceptsPost(b, m) /\ m \in ToSet(b.messages)
    BY <1>2, AppliedPost, Appended DEF IsOn, IsBoard
  <2>2. PICK i \in DOMAIN b.messages : m = b.messages[i]
    BY <2>1 DEF ToSet
  <2>3. i \in DOMAIN a.messages /\ m = a.messages[i] /\ m \in ToSet(a.messages)
    BY <2>2 DEF Grows, ToSet
  <2>4. Addressed(a, m)
    BY <2>1, DeclaresStays DEF AcceptsPost, Addressed
  <2>5. Threaded(a, m)
    BY <2>1 DEF AcceptsPost, Threaded, Grows
  <2>6. \A j \in DOMAIN a.messages : SamePost(a.messages[j], m) => a.messages[j] = m
    BY <2>3
  <2>7. AcceptsPost(a, m)
    BY <2>3, <2>4, <2>5, <2>6 DEF AcceptsPost
  <2>. QED BY <1>2, <2>3, <2>7, AppliedPost DEF IsOn, IsBoard
<1>3. CASE c.operation = "acknowledge"
  <2>1. AcceptsAcknowledge(b, Receipt(c)) /\ Receipt(c) \in b.receipts
    BY <1>3, AppliedAcknowledge DEF IsOn
  <2>2. Receipt(c) \in a.receipts
    BY <2>1 DEF Grows
  <2>3. AcceptsAcknowledge(a, Receipt(c))
    BY <2>1, DeclaresStays DEF AcceptsAcknowledge, Grows
  <2>4. a.receipts \cup {Receipt(c)} = a.receipts
    BY <2>2
  <2>. QED BY <1>3, <2>3, <2>4, AppliedAcknowledge DEF IsOn, IsBoard
<1>. QED BY <1>1, <1>2, <1>3 DEF Operations

-----------------------------------------------------------------------------
(* The calls and the exchanges.                                            *)

LOCAL Holding == {"load", "write", "unlock"}

LogIsRight ==
  /\ IsSequence(log) /\ Len(log) \in Nat /\ Len(log) <= MAX_LOG
  /\ BoardIsRight(Board)

\* Who is past the lock holds it; who writes has judged the log there is.
CallIsRight(c) ==
  /\ pc[c] \in {"idle", "lock"} \cup Holding
  /\ pc[c] = "unlock" => answer[c] \in Answers
  /\ pc[c] # "unlock" => answer[c] = None
  /\ pc[c] # "idle" => command[c].operation \in Operations
  /\ pc[c] \in Holding => lock = c
  /\ pc[c] = "write" => /\ loaded[c] = log /\ Len(log) < MAX_LOG
                        /\ Accepts(Board, command[c])
                        /\ Applied(Board, command[c]) # Board
  /\ answer[c] = "OK" => IsOn(Board, command[c])

CallerIsRight(w) ==
  /\ exchange[w] \in Calls \cup Answers \cup {None}
  /\ exchange[w] \in Calls => pc[exchange[w]] # "idle" /\ command[exchange[w]] = sent[w]
  /\ exchange[w] # None => sent[w].operation \in Operations
  /\ exchange[w] = "OK" => IsOn(Board, sent[w])

LOCAL Functions ==
  /\ DOMAIN pc = Calls /\ pc = [c \in Calls |-> pc[c]]
  /\ DOMAIN command = Calls /\ DOMAIN loaded = Calls
  /\ DOMAIN answer = Calls /\ answer = [c \in Calls |-> answer[c]]
  /\ DOMAIN exchange = Callers /\ exchange = [w \in Callers |-> exchange[w]]
  /\ DOMAIN sent = Callers

BoardInv ==
  /\ Functions /\ LogIsRight
  /\ lock \in Calls \cup {None, Abandoned}
  /\ \A c \in Calls : CallIsRight(c)
  /\ \A w \in Callers : CallerIsRight(w)

\* A step as the board sees it.
Move ==
  \/ \E c \in Calls : Lock(c) \/ Load(c) \/ Write(c) \/ Unlock(c) \/ Kill(c)
  \/ Recover
  \/ \E c \in Calls : \E cmd :
       /\ cmd.operation \in Operations /\ Begin(c, cmd)
       /\ \/ UNCHANGED client
          \/ \E w \in Callers : /\ exchange' = [exchange EXCEPT ![w] = c]
                                /\ sent' = [sent EXCEPT ![w] = cmd]
  \/ \E w \in Callers : TimeOut(w) \/ Hang(w)
  \/ UNCHANGED board

LEMMA SentIsAMove ==
  ASSUME NEW w \in Callers, NEW cmd, cmd.operation \in Operations, Send(w, cmd)
  PROVE  Move
BY DEF Send, Move

LEMMA EveryStepIsAMove ==
  ASSUME BoardInv, [Next]_vars
  PROVE  Move
<1>1. ASSUME NEW w \in Callers, Retry(w) PROVE Move
  <2>1. sent[w].operation \in Operations
    BY <1>1, LockValues DEF Retry, BoardInv, CallerIsRight, Answers
  <2>2. Send(w, sent[w])
    BY <1>1 DEF Retry
  <2>. QED BY <2>1, <2>2, SentIsAMove
<1>2. ASSUME NEW cmd \in Commands, Ask(cmd) PROVE Move
  <2>1. cmd.operation \in Operations
    BY CommandsAreKnown
  <2>. QED BY <1>2, <2>1 DEF Ask, Move
<1>3. CASE Transport
  BY <1>1, <1>2, <1>3 DEF Transport, Execute, Move
<1>4. ASSUME NEW w \in Callers, Pass(w) PROVE Move
  <2>1. RegisterReviewer.operation \in Operations
    BY DEF RegisterReviewer, Operations
  <2>2. \A m : PostOf(m).operation \in Operations
    BY DEF PostOf, Operations
  <2>3. \A i : AcknowledgeOf(i).operation \in Operations
    BY DEF AcknowledgeOf, Operations
  <2>4. CASE Start(w)
    BY <2>1, <2>4, SentIsAMove DEF Start
  <2>5. CASE Registering(w)
    BY <2>5 DEF Registering, Move
  <2>6. CASE Scan(w)
    BY <2>6 DEF Scan, Move
  <2>7. CASE Take(w)
    <3>1. (\E m : Send(w, PostOf(m))) \/ \E i : Send(w, AcknowledgeOf(i))
      BY <2>7 DEF Take
    <3>. QED BY <2>2, <2>3, <3>1, SentIsAMove
  <2>8. CASE Posted(w)
    BY <2>3, <2>8, SentIsAMove DEF Posted
  <2>9. CASE ReadBack(w)
    BY <2>3, <2>9, SentIsAMove DEF ReadBack
  <2>10. CASE Acknowledged(w)
    BY <2>10 DEF Acknowledged, Move
  <2>11. CASE NextPage(w)
    BY <2>11 DEF NextPage, Move
  <2>12. CASE Stop(w)
    BY <2>12 DEF Stop, Move
  <2>. QED BY <1>4, <2>4, <2>5, <2>6, <2>7, <2>8, <2>9, <2>10, <2>11, <2>12 DEF Pass
<1>5. CASE UNCHANGED vars
  BY <1>5 DEF vars, Move
<1>. QED BY <1>3, <1>4, <1>5 DEF Next

\* The log grows only by the command a call judged on it.
LEMMA TheLogGrows ==
  ASSUME BoardInv, Move
  PROVE  \/ log' = log /\ Board' = Board
         \/ \E c \in Calls :
              /\ Write(c) /\ log' = Append(log, command[c])
              /\ Board' = Applied(Board, command[c]) /\ answer'[c] = "OK"
<1>1. CASE log' = log
  BY <1>1 DEF Board
<1>2. CASE log' # log
  <2>1. PICK c \in Calls : Write(c) /\ log' = Append(loaded[c], command[c]) /\ Answer(c, "OK")
    <3>1. ASSUME NEW c \in Calls, Lock(c) \/ Load(c) \/ Unlock(c) \/ Kill(c) PROVE FALSE
      BY <1>2, <3>1 DEF Lock, Load, Unlock, Kill
    <3>2. ASSUME NEW c \in Calls, NEW cmd, Begin(c, cmd) PROVE FALSE
      BY <1>2, <3>2 DEF Begin
    <3>3. ASSUME NEW w \in Callers, TimeOut(w) \/ Hang(w) PROVE FALSE
      BY <1>2, <3>3 DEF TimeOut, Hang, server
    <3>4. ~Recover /\ ~UNCHANGED board
      BY <1>2 DEF Recover, board, server
    <3>5. PICK c \in Calls : Write(c)
      BY <3>1, <3>2, <3>3, <3>4 DEF Move
    <3>. QED BY <1>2, <3>5 DEF Write
  <2>2. loaded[c] = log /\ IsSequence(log)
    BY <2>1 DEF BoardInv, CallIsRight, LogIsRight, Write
  <2>3. Board' = Applied(Board, command[c])
    BY <2>1, <2>2, ReplayGoesOn DEF Board, IsSequence
  <2>4. answer'[c] = "OK"
    BY <2>1 DEF Answer, BoardInv, Functions
  <2>. QED BY <2>1, <2>2, <2>3, <2>4
<1>. QED BY <1>1, <1>2

LEMMA LogStaysRight ==
  ASSUME BoardInv, Move
  PROVE  LogIsRight' /\ Grows(Board, Board')
<1>1. CASE log' = log /\ Board' = Board
  <2>1. Grows(Board, Board)
    BY DEF Grows
  <2>. QED BY <1>1, <2>1 DEF BoardInv, LogIsRight
<1>2. ASSUME NEW c \in Calls, Write(c), log' = Append(log, command[c]),
             Board' = Applied(Board, command[c])
      PROVE  LogIsRight' /\ Grows(Board, Board')
  <2>1. /\ Accepts(Board, command[c]) /\ command[c].operation \in Operations
        /\ Len(log) < MAX_LOG
    BY <1>2 DEF BoardInv, CallIsRight, Write
  <2>2. PICK n \in Nat : n = Len(log)
    BY DEF BoardInv, LogIsRight
  <2>3. Len(log') = n + 1 /\ IsSequence(log')
    BY <1>2, <2>2, Appended DEF BoardInv, LogIsRight
  <2>4. n + 1 \in Nat /\ n + 1 <= MAX_LOG
    BY <2>1, <2>2, LimitsAreNatural
  <2>5. BoardIsRight(Board') /\ Grows(Board, Board')
    BY <1>2, <2>1, AcceptedCommand DEF BoardInv, LogIsRight
  <2>. QED BY <2>3, <2>4, <2>5 DEF LogIsRight
<1>. QED BY <1>1, <1>2, TheLogGrows

\* A call that does not step is as right as it was.
LEMMA CallStays ==
  ASSUME BoardInv, NEW c \in Calls,
         pc'[c] = pc[c], command'[c] = command[c], loaded'[c] = loaded[c],
         answer'[c] = answer[c],
         pc[c] \in Holding => lock' = c /\ log' = log
  PROVE  CallIsRight(c)'
<1>1. CallIsRight(c)
  BY DEF BoardInv
<1>2. CASE pc[c] \in Holding
  <2>1. Board' = Board
    BY <1>2 DEF Board
  <2>. QED BY <1>1, <1>2, <2>1 DEF CallIsRight
<1>3. CASE pc[c] \notin Holding
  <2>1. answer[c] # "OK" /\ pc[c] # "write" /\ pc[c] # "unlock"
    BY <1>1, <1>3, LockValues DEF CallIsRight, Holding, Answers
  <2>. QED BY <1>1, <1>3, <2>1 DEF CallIsRight
<1>. QED BY <1>2, <1>3

LEMMA CallerStays ==
  ASSUME BoardInv, Move, NEW w \in Callers,
         exchange'[w] = exchange[w], sent'[w] = sent[w],
         exchange[w] \in Calls =>
           pc'[exchange[w]] # "idle" /\ command'[exchange[w]] = command[exchange[w]]
  PROVE  CallerIsRight(w)'
<1>1. CallerIsRight(w) /\ BoardIsRight(Board)
  BY DEF BoardInv, LogIsRight
<1>2. BoardIsRight(Board') /\ Grows(Board, Board')
  BY LogStaysRight DEF LogIsRight
<1>3. exchange[w] = "OK" => IsOn(Board', sent[w])
  BY <1>1, <1>2, StaysOn, LockValues DEF CallerIsRight, Answers
<1>. QED BY <1>1, <1>3 DEF CallerIsRight

LEMMA Returned ==
  ASSUME BoardInv, Move, NEW c \in Calls, NEW code \in Answers, Return(c, code),
         log' = log, code = "OK" => IsOn(Board, command[c]) /\ pc[c] # "idle",
         lock' \in Calls \cup {None, Abandoned},
         \A d \in Calls : d # c /\ pc[d] \in Holding => lock' = d
  PROVE  BoardInv'
<1>1. Functions /\ Board' = Board
  BY DEF BoardInv, Board
<1>2. /\ pc' = [pc EXCEPT ![c] = "idle"] /\ answer' = [answer EXCEPT ![c] = None]
      /\ command' = [command EXCEPT ![c] = None] /\ loaded' = [loaded EXCEPT ![c] = <<>>]
      /\ exchange' = [w \in Callers |-> IF exchange[w] = c THEN code ELSE exchange[w]]
      /\ sent' = sent
  BY DEF Return, Forget, Goto, Answer
<1>3. Functions'
  BY <1>1, <1>2 DEF Functions
<1>4. ASSUME NEW d \in Calls PROVE CallIsRight(d)'
  <2>1. CASE d = c
    <3>1. pc'[c] = "idle" /\ answer'[c] = None /\ None # "OK"
      BY <1>1, <1>2, LockValues DEF Functions, Answers
    <3>. QED BY <2>1, <3>1 DEF CallIsRight, Holding
  <2>2. CASE d # c
    <3>1. /\ pc'[d] = pc[d] /\ command'[d] = command[d] /\ loaded'[d] = loaded[d]
          /\ answer'[d] = answer[d]
      BY <1>1, <1>2, <2>2 DEF Functions
    <3>. QED BY <2>2, <3>1, CallStays
  <2>. QED BY <2>1, <2>2
<1>5. ASSUME NEW w \in Callers PROVE CallerIsRight(w)'
  <2>1. CASE exchange[w] = c
    <3>1. exchange'[w] = code /\ sent'[w] = sent[w] /\ code \notin Calls /\ c # None
      BY <1>2, <2>1, LockValues
    <3>2. command[c] = sent[w] /\ sent[w].operation \in Operations
      BY <2>1, <3>1 DEF BoardInv, CallerIsRight
    <3>. QED BY <1>1, <3>1, <3>2 DEF CallerIsRight
  <2>2. CASE exchange[w] # c
    <3>1. exchange'[w] = exchange[w] /\ sent'[w] = sent[w]
      BY <1>2, <2>2
    <3>2. ASSUME exchange[w] \in Calls
          PROVE  pc'[exchange[w]] # "idle" /\ command'[exchange[w]] = command[exchange[w]]
      <4>1. pc[exchange[w]] # "idle"
        BY <3>2 DEF BoardInv, CallerIsRight
      <4>. QED BY <1>1, <1>2, <2>2, <3>2, <4>1 DEF Functions
    <3>. QED BY <3>1, <3>2, CallerStays
  <2>. QED BY <2>1, <2>2
<1>6. LogIsRight'
  BY LogStaysRight
<1>. QED BY <1>3, <1>4, <1>5, <1>6 DEF BoardInv

\* A call goes on: the others do not see it.
LEMMA WentOn ==
  ASSUME BoardInv, Move, NEW c \in Calls, NEW step, pc' = [pc EXCEPT ![c] = step],
         NEW code, answer' = [answer EXCEPT ![c] = code],
         DOMAIN loaded' = Calls, \A d \in Calls : d # c => loaded'[d] = loaded[d],
         pc[c] # "idle", step # "idle", UNCHANGED <<command, client>>,
         CallIsRight(c)',
         lock' \in Calls \cup {None, Abandoned},
         \A d \in Calls : d # c /\ pc[d] \in Holding => lock' = d /\ log' = log
  PROVE  BoardInv'
<1>1. Functions
  BY DEF BoardInv
<1>2. Functions'
  BY <1>1 DEF Functions, client
<1>3. ASSUME NEW d \in Calls PROVE CallIsRight(d)'
  <2>1. CASE d = c
    BY <2>1
  <2>2. CASE d # c
    <3>1. /\ pc'[d] = pc[d] /\ command'[d] = command[d] /\ loaded'[d] = loaded[d]
          /\ answer'[d] = answer[d]
      BY <1>1, <2>2 DEF Functions
    <3>. QED BY <2>2, <3>1, CallStays
  <2>. QED BY <2>1, <2>2
<1>4. ASSUME NEW w \in Callers PROVE CallerIsRight(w)'
  <2>1. exchange'[w] = exchange[w] /\ sent'[w] = sent[w]
    BY DEF client
  <2>2. ASSUME exchange[w] \in Calls
        PROVE  pc'[exchange[w]] # "idle" /\ command'[exchange[w]] = command[exchange[w]]
    <3>1. pc[exchange[w]] # "idle"
      BY <2>2 DEF BoardInv, CallerIsRight
    <3>. QED BY <1>1, <2>2, <3>1 DEF Functions
  <2>. QED BY <2>1, <2>2, CallerStays
<1>5. LogIsRight'
  BY LogStaysRight
<1>. QED BY <1>2, <1>3, <1>4, <1>5 DEF BoardInv

LEMMA LockKeeps ==
  ASSUME BoardInv, Move, NEW c \in Calls, Lock(c)
  PROVE  BoardInv'
<1>1. Functions /\ CallIsRight(c) /\ lock \in Calls \cup {None, Abandoned}
      /\ \A d \in Calls : pc[d] \in Holding => lock = d
  BY DEF BoardInv, CallIsRight
<1>2. CASE lock = None
  <2>1. /\ lock' = c /\ pc' = [pc EXCEPT ![c] = "load"] /\ pc[c] = "lock"
        /\ UNCHANGED <<command, loaded, answer, client, log>>
    BY <1>2 DEF Lock, Goto
  <2>2. answer' = [answer EXCEPT ![c] = answer[c]] /\ loaded' = loaded /\ DOMAIN loaded' = Calls
    BY <1>1, <2>1 DEF Functions
  <2>3. CallIsRight(c)'
    <3>1. pc'[c] = "load" /\ answer'[c] = answer[c] /\ command'[c] = command[c]
      BY <1>1, <2>1 DEF Functions
    <3>2. answer[c] = None /\ None # "OK" /\ command[c].operation \in Operations
      BY <1>1, <2>1, LockValues DEF CallIsRight, Answers
    <3>. QED BY <2>1, <3>1, <3>2 DEF CallIsRight, Holding
  <2>4. \A d \in Calls : pc[d] \notin Holding
    BY <1>1, <1>2, LockValues
  <2>5. /\ pc[c] # "idle" /\ "load" # "idle" /\ UNCHANGED <<command, client>>
        /\ lock' \in Calls \cup {None, Abandoned}
        /\ \A d \in Calls : d # c => loaded'[d] = loaded[d]
        /\ \A d \in Calls : d # c /\ pc[d] \in Holding => lock' = d /\ log' = log
    BY <2>1, <2>2, <2>4
  <2>. QED BY <2>1, <2>2, <2>3, <2>5, WentOn
<1>3. CASE lock # None
  <2>1. lock' = lock /\ Return(c, "RETRY") /\ log' = log /\ "RETRY" \in Answers
    BY <1>3 DEF Lock, Answers
  <2>. QED BY <1>1, <2>1, Returned
<1>. QED BY <1>2, <1>3

LEMMA LoadKeeps ==
  ASSUME BoardInv, Move, NEW c \in Calls, Load(c)
  PROVE  BoardInv'
<1>1. /\ Functions /\ CallIsRight(c) /\ pc[c] = "load" /\ lock = c
      /\ \A d \in Calls : pc[d] \in Holding => lock = d
  BY DEF BoardInv, CallIsRight, Load, Holding
<1>2. /\ loaded' = [loaded EXCEPT ![c] = log]
      /\ DOMAIN loaded' = Calls /\ \A d \in Calls : d # c => loaded'[d] = loaded[d]
      /\ UNCHANGED <<log, lock, command, client>> /\ Board' = Board
  BY <1>1 DEF Load, Board, Functions
<1>3. \/ /\ pc' = [pc EXCEPT ![c] = "unlock"] /\ answer' = [answer EXCEPT ![c] = "REFUSED"]
      \/ /\ pc' = [pc EXCEPT ![c] = "unlock"] /\ answer' = [answer EXCEPT ![c] = "OK"]
         /\ IsOn(Board, command[c])
      \/ /\ pc' = [pc EXCEPT ![c] = "write"] /\ answer' = [answer EXCEPT ![c] = answer[c]]
         /\ ~(Len(log) >= MAX_LOG) /\ Accepts(Board, command[c])
         /\ Applied(Board, command[c]) # Board
  <2>1. answer = [answer EXCEPT ![c] = answer[c]]
    BY <1>1 DEF Functions
  <2>2. CASE ~Accepts(Board, command[c])
    BY <2>2 DEF Load, Goto, Answer, Board
  <2>3. CASE Accepts(Board, command[c]) /\ Applied(Board, command[c]) = Board
    BY <2>3 DEF Load, Goto, Answer, Board, IsOn
  <2>4. CASE Accepts(Board, command[c]) /\ Applied(Board, command[c]) # Board
    BY <2>1, <2>4 DEF Load, Goto, Answer, Board
  <2>. QED BY <2>2, <2>3, <2>4
<1>4. Len(log) \in Nat /\ MAX_LOG \in Nat
  BY LimitsAreNatural DEF BoardInv, LogIsRight
<1>5. command[c].operation \in Operations /\ answer[c] = None /\ None # "OK"
  BY <1>1, LockValues DEF CallIsRight, Answers
<1>6. PICK step, code : /\ pc' = [pc EXCEPT ![c] = step] /\ answer' = [answer EXCEPT ![c] = code]
                        /\ step # "idle" /\ CallIsRight(c)'
  <2>1. loaded'[c] = log
    BY <1>1, <1>2 DEF Functions
  <2>2. CASE pc' = [pc EXCEPT ![c] = "unlock"] /\ answer' = [answer EXCEPT ![c] = "REFUSED"]
    <3>1. pc'[c] = "unlock" /\ answer'[c] = "REFUSED"
      BY <1>1, <2>2 DEF Functions
    <3>2. CallIsRight(c)'
      BY <1>1, <1>2, <1>5, <3>1 DEF CallIsRight, Holding, Answers
    <3>. QED BY <2>2, <3>2
  <2>3. CASE /\ pc' = [pc EXCEPT ![c] = "unlock"] /\ answer' = [answer EXCEPT ![c] = "OK"]
             /\ IsOn(Board, command[c])
    <3>1. pc'[c] = "unlock" /\ answer'[c] = "OK"
      BY <1>1, <2>3 DEF Functions
    <3>2. CallIsRight(c)'
      BY <1>1, <1>2, <1>5, <2>3, <3>1 DEF CallIsRight, Holding, Answers
    <3>. QED BY <2>3, <3>2
  <2>4. CASE /\ pc' = [pc EXCEPT ![c] = "write"] /\ answer' = [answer EXCEPT ![c] = answer[c]]
             /\ ~(Len(log) >= MAX_LOG) /\ Accepts(Board, command[c])
             /\ Applied(Board, command[c]) # Board
    <3>1. pc'[c] = "write" /\ answer'[c] = None
      BY <1>1, <1>5, <2>4 DEF Functions
    <3>2. Len(log) < MAX_LOG
      BY <1>4, <2>4
    <3>3. CallIsRight(c)'
      BY <1>1, <1>2, <1>5, <2>1, <2>4, <3>1, <3>2 DEF CallIsRight, Holding
    <3>. QED BY <2>4, <3>3
  <2>. QED BY <1>3, <2>2, <2>3, <2>4
<1>7. lock' \in Calls \cup {None, Abandoned} /\ pc[c] # "idle" /\ UNCHANGED <<command, client>>
  BY <1>1, <1>2
<1>8. \A d \in Calls : d # c /\ pc[d] \in Holding => lock' = d /\ log' = log
  BY <1>1, <1>2
<1>. QED BY <1>2, <1>6, <1>7, <1>8, WentOn

LEMMA WriteKeeps ==
  ASSUME BoardInv, Move, NEW c \in Calls, Write(c)
  PROVE  BoardInv'
<1>1. /\ Functions /\ CallIsRight(c) /\ pc[c] = "write" /\ lock = c
      /\ \A d \in Calls : pc[d] \in Holding => lock = d
  BY DEF BoardInv, CallIsRight, Write, Holding
<1>2. /\ pc' = [pc EXCEPT ![c] = "unlock"]
      /\ loaded' = loaded /\ DOMAIN loaded' = Calls
      /\ UNCHANGED <<lock, command, client>>
  BY <1>1 DEF Write, Goto, Functions
<1>3. command[c].operation \in Operations /\ loaded[c] = log
  BY <1>1 DEF CallIsRight
<1>4. PICK code : answer' = [answer EXCEPT ![c] = code] /\ CallIsRight(c)'
  <2>1. CASE log' = Append(loaded[c], command[c]) /\ Answer(c, "OK")
    <3>1. Board' = Applied(Board, command[c])
      BY <1>3, <2>1, ReplayGoesOn DEF Board, BoardInv, LogIsRight, IsSequence
    <3>2. IsOn(Board', command[c])
      BY <1>1, <1>3, <3>1, AcceptedCommand DEF BoardInv, LogIsRight, CallIsRight
    <3>3. pc'[c] = "unlock" /\ answer'[c] = "OK" /\ "OK" \in Answers
      BY <1>1, <1>2, <2>1 DEF Functions, Answer, Answers
    <3>4. CallIsRight(c)'
      BY <1>1, <1>2, <1>3, <3>2, <3>3 DEF CallIsRight, Holding
    <3>. QED BY <2>1, <3>4 DEF Answer
  <2>2. CASE log' = log /\ Answer(c, "RETRY")
    <3>1. pc'[c] = "unlock" /\ answer'[c] = "RETRY" /\ "RETRY" \in Answers
      BY <1>1, <1>2, <2>2 DEF Functions, Answer, Answers
    <3>2. CallIsRight(c)'
      BY <1>1, <1>2, <1>3, <3>1 DEF CallIsRight, Holding
    <3>. QED BY <2>2, <3>2 DEF Answer
  <2>. QED BY <2>1, <2>2 DEF Write
<1>5. /\ lock' \in Calls \cup {None, Abandoned} /\ pc[c] # "idle" /\ "unlock" # "idle"
      /\ UNCHANGED <<command, client>> /\ \A d \in Calls : d # c => loaded'[d] = loaded[d]
  BY <1>1, <1>2
<1>6. \A d \in Calls : d # c /\ pc[d] \in Holding => lock' = d /\ log' = log
  BY <1>1
<1>. QED BY <1>2, <1>4, <1>5, <1>6, WentOn

LEMMA UnlockKeeps ==
  ASSUME BoardInv, Move, NEW c \in Calls, Unlock(c)
  PROVE  BoardInv'
<1>1. /\ CallIsRight(c) /\ pc[c] = "unlock" /\ lock = c
      /\ \A d \in Calls : pc[d] \in Holding => lock = d
  BY DEF BoardInv, CallIsRight, Unlock, Holding
<1>2. lock' = None /\ Return(c, answer[c]) /\ log' = log
  BY DEF Unlock
<1>3. answer[c] \in Answers /\ (answer[c] = "OK" => IsOn(Board, command[c]))
  BY <1>1 DEF CallIsRight
<1>4. \A d \in Calls : d # c /\ pc[d] \in Holding => lock' = d
  BY <1>1
<1>. QED BY <1>1, <1>2, <1>3, <1>4, Returned

LEMMA KillKeeps ==
  ASSUME BoardInv, Move, NEW c \in Calls, Kill(c)
  PROVE  BoardInv'
<1>1. /\ lock \in Calls \cup {None, Abandoned}
      /\ \A d \in Calls : pc[d] \in Holding => lock = d
  BY DEF BoardInv, CallIsRight
<1>2. Return(c, "RETRY") /\ log' = log /\ "RETRY" \in Answers /\ "RETRY" # "OK"
  BY DEF Kill, Answers
<1>3. lock' = IF lock = c THEN Abandoned ELSE lock
  BY DEF Kill
<1>4. \A d \in Calls : d # c /\ pc[d] \in Holding => lock' = d
  BY <1>1, <1>3
<1>. QED BY <1>1, <1>2, <1>3, <1>4, Returned

LEMMA RecoverKeeps ==
  ASSUME BoardInv, Move, Recover
  PROVE  BoardInv'
<1>1. /\ Functions /\ lock' = None /\ UNCHANGED <<log, pc, command, loaded, answer, client>>
      /\ \A c \in Calls : pc[c] \notin Holding
  BY DEF Recover, Holding, BoardInv
<1>2. \A c \in Calls : CallIsRight(c)'
  BY <1>1, CallStays
<1>3. ASSUME NEW w \in Callers PROVE CallerIsRight(w)'
  <2>1. exchange[w] \in Calls => pc[exchange[w]] # "idle"
    BY DEF BoardInv, CallerIsRight
  <2>. QED BY <1>1, <2>1, CallerStays DEF client
<1>4. LogIsRight'
  BY LogStaysRight
<1>. QED BY <1>1, <1>2, <1>3, <1>4 DEF BoardInv, Functions, client

LEMMA BeginKeeps ==
  ASSUME BoardInv, Move, NEW c \in Calls, NEW cmd, cmd.operation \in Operations, Begin(c, cmd),
         \/ UNCHANGED client
         \/ \E w \in Callers : /\ exchange' = [exchange EXCEPT ![w] = c]
                               /\ sent' = [sent EXCEPT ![w] = cmd]
  PROVE  BoardInv'
<1>1. /\ Functions /\ pc[c] = "idle" /\ CallIsRight(c)
      /\ pc' = [pc EXCEPT ![c] = "lock"] /\ command' = [command EXCEPT ![c] = cmd]
      /\ UNCHANGED <<log, lock, loaded, answer>>
  BY DEF Begin, Goto, BoardInv
<1>2. Functions'
  BY <1>1 DEF Functions, client
<1>3. ASSUME NEW d \in Calls PROVE CallIsRight(d)'
  <2>1. CASE d = c
    <3>1. pc'[c] = "lock" /\ command'[c] = cmd /\ answer'[c] = None /\ None # "OK"
      BY <1>1, LockValues DEF Functions, CallIsRight, Answers
    <3>. QED BY <2>1, <3>1 DEF CallIsRight, Holding
  <2>2. CASE d # c
    <3>1. /\ pc'[d] = pc[d] /\ command'[d] = command[d] /\ loaded'[d] = loaded[d]
          /\ answer'[d] = answer[d]
      BY <1>1, <2>2 DEF Functions
    <3>2. pc[d] \in Holding => lock' = d /\ log' = log
      BY <1>1 DEF BoardInv, CallIsRight
    <3>. QED BY <3>1, <3>2, CallStays
  <2>. QED BY <2>1, <2>2
<1>4. ASSUME NEW w \in Callers PROVE CallerIsRight(w)'
  <2>1. CASE exchange'[w] = c /\ sent'[w] = cmd
    <3>1. pc'[c] = "lock" /\ command'[c] = cmd /\ c # "OK"
      BY <1>1, LockValues DEF Functions, Answers
    <3>. QED BY <2>1, <3>1 DEF CallerIsRight
  <2>2. CASE exchange'[w] = exchange[w] /\ sent'[w] = sent[w]
    <3>1. ASSUME exchange[w] \in Calls
          PROVE  pc'[exchange[w]] # "idle" /\ command'[exchange[w]] = command[exchange[w]]
      <4>1. pc[exchange[w]] # "idle"
        BY <3>1 DEF BoardInv, CallerIsRight
      <4>. QED BY <1>1, <3>1, <4>1 DEF Functions
    <3>. QED BY <2>2, <3>1, CallerStays
  <2>3. CASE UNCHANGED client
    BY <2>2, <2>3 DEF client
  <2>4. ASSUME NEW v \in Callers, exchange' = [exchange EXCEPT ![v] = c],
               sent' = [sent EXCEPT ![v] = cmd]
        PROVE  \/ exchange'[w] = c /\ sent'[w] = cmd
               \/ exchange'[w] = exchange[w] /\ sent'[w] = sent[w]
    BY <1>1, <2>4 DEF Functions
  <2>. QED BY <2>1, <2>2, <2>3, <2>4
<1>5. LogIsRight'
  BY LogStaysRight
<1>. QED BY <1>1, <1>2, <1>3, <1>4, <1>5 DEF BoardInv

LEMMA ClientKeeps ==
  ASSUME BoardInv, Move, NEW w \in Callers, TimeOut(w) \/ Hang(w)
  PROVE  BoardInv'
<1>1. /\ Functions /\ UNCHANGED <<log, lock, pc, command, loaded, answer>>
  BY DEF TimeOut, Hang, server, BoardInv
<1>2. /\ \/ exchange[w] \in Calls /\ exchange' = [exchange EXCEPT ![w] = "RETRY"] /\ sent' = sent
         \/ /\ exchange' = [exchange EXCEPT ![w] = None]
            /\ sent' = [sent EXCEPT ![w] = None]
      /\ DOMAIN sent' = Callers
  BY <1>1 DEF TimeOut, Hang, Functions
<1>3. Functions'
  BY <1>1, <1>2 DEF Functions
<1>4. ASSUME NEW d \in Calls PROVE CallIsRight(d)'
  <2>1. pc[d] \in Holding => lock' = d /\ log' = log
    BY <1>1 DEF BoardInv, CallIsRight
  <2>. QED BY <1>1, <2>1, CallStays
<1>5. ASSUME NEW v \in Callers PROVE CallerIsRight(v)'
  <2>1. CASE v # w
    <3>1. exchange'[v] = exchange[v] /\ sent'[v] = sent[v]
      BY <1>1, <1>2, <2>1 DEF Functions
    <3>2. exchange[v] \in Calls =>
            pc'[exchange[v]] # "idle" /\ command'[exchange[v]] = command[exchange[v]]
      BY <1>1 DEF BoardInv, CallerIsRight
    <3>. QED BY <3>1, <3>2, CallerStays
  <2>2. CASE v = w
    <3>1. "RETRY" \notin Calls \cup {None} /\ None \notin Calls /\ None # "OK" /\ "RETRY" \in Answers
      BY LockValues DEF Answers
    <3>2. CASE exchange[w] \in Calls /\ exchange' = [exchange EXCEPT ![w] = "RETRY"] /\ sent' = sent
      <4>1. exchange'[w] = "RETRY" /\ sent'[w] = sent[w]
        BY <1>1, <3>2 DEF Functions
      <4>2. sent[w].operation \in Operations
        BY <3>1, <3>2 DEF BoardInv, CallerIsRight
      <4>. QED BY <2>2, <3>1, <4>1, <4>2 DEF CallerIsRight
    <3>3. CASE exchange' = [exchange EXCEPT ![w] = None]
      <4>1. exchange'[w] = None
        BY <1>1, <3>3 DEF Functions
      <4>. QED BY <2>2, <3>1, <4>1 DEF CallerIsRight
    <3>. QED BY <1>2, <3>2, <3>3
  <2>. QED BY <2>1, <2>2
<1>6. LogIsRight'
  BY LogStaysRight
<1>. QED BY <1>1, <1>3, <1>4, <1>5, <1>6 DEF BoardInv

LEMMA BoardInductive ==
  ASSUME BoardInv, [Next]_vars
  PROVE  BoardInv' /\ Move
<1>1. Move
  BY EveryStepIsAMove
<1>2. CASE UNCHANGED board
  <2>1. UNCHANGED <<log, lock, pc, command, loaded, answer, exchange, sent>> /\ Board' = Board
    BY <1>2 DEF board, server, client, Board
  <2>2. Functions' /\ LogIsRight'
    BY <1>1, <2>1, LogStaysRight DEF BoardInv, Functions
  <2>3. \A c \in Calls : CallIsRight(c)'
    BY <2>1 DEF BoardInv, CallIsRight
  <2>4. \A w \in Callers : CallerIsRight(w)'
    BY <2>1 DEF BoardInv, CallerIsRight
  <2>. QED BY <1>1, <2>1, <2>2, <2>3, <2>4 DEF BoardInv
<1>3. ASSUME NEW c \in Calls, NEW cmd, cmd.operation \in Operations, Begin(c, cmd),
             \/ UNCHANGED client
             \/ \E w \in Callers : /\ exchange' = [exchange EXCEPT ![w] = c]
                                   /\ sent' = [sent EXCEPT ![w] = cmd]
      PROVE  BoardInv'
  BY <1>1, <1>3, BeginKeeps
<1>4. ASSUME NEW c \in Calls, Lock(c) \/ Load(c) \/ Write(c) \/ Unlock(c) \/ Kill(c)
      PROVE  BoardInv'
  BY <1>1, <1>4, LockKeeps, LoadKeeps, WriteKeeps, UnlockKeeps, KillKeeps
<1>5. ASSUME NEW w \in Callers, TimeOut(w) \/ Hang(w)
      PROVE  BoardInv'
  BY <1>1, <1>5, ClientKeeps
<1>6. CASE Recover
  BY <1>1, <1>6, RecoverKeeps
<1>. QED BY <1>1, <1>2, <1>3, <1>4, <1>5, <1>6 DEF Move

LEMMA BoardInitial ==
  ASSUME Init
  PROVE  BoardInv
<1>1. BoardInit
  BY DEF Init
<1>2. Functions
  BY <1>1 DEF BoardInit, Functions
<1>3. Board = Empty
  BY <1>1, ReplayBegins DEF BoardInit, Board
<1>4. << >> \in Seq(ToSet(<< >>)) /\ Len(<< >>) = 0 /\ DOMAIN << >> = {}
  OBVIOUS
<1>5. BoardIsRight(Empty)
  <2>1. /\ Empty = [definitions |-> Seed, messages |-> << >>, receipts |-> {}]
        /\ Empty.definitions = Seed /\ Empty.messages = << >> /\ Empty.receipts = {}
    BY DEF Empty
  <2>. QED BY <1>4, <2>1, SeedIdsDiffer DEF BoardIsRight, IsBoard, IsSequence
<1>6. LogIsRight
  <2>1. 0 \in Nat /\ 0 <= MAX_LOG
    BY LimitsAreNatural
  <2>. QED BY <1>1, <1>3, <1>4, <1>5, <2>1 DEF BoardInit, LogIsRight, IsSequence
<1>7. \A c \in Calls : CallIsRight(c)
  BY <1>1, LockValues DEF BoardInit, CallIsRight, Holding, Answers
<1>8. \A w \in Callers : CallerIsRight(w)
  BY <1>1, LockValues DEF BoardInit, CallerIsRight, Answers
<1>. QED BY <1>1, <1>2, <1>6, <1>7, <1>8 DEF BoardInit, BoardInv

-----------------------------------------------------------------------------
(* The types, and the two properties of the board.                         *)

LOCAL PassTypes == DOMAIN at = Callers /\ at \in [Callers -> Steps] /\ program \in Programs

LEMMA PassTypesInductive ==
  ASSUME PassTypes, [Next]_vars
  PROVE  PassTypes'
<1>1. CASE UNCHANGED <<pass, program>>
  BY <1>1 DEF PassTypes, pass
<1>2. ASSUME NEW w \in Callers, Pass(w), UNCHANGED program
      PROVE  PassTypes'
  <2>1. \/ \E step \in Steps : at' = [at EXCEPT ![w] = step]
        \/ at' = at
    BY <1>2 DEF Pass, Start, Registering, Scan, Take, Posted, ReadBack, Acknowledged, NextPage, Stop,
       To, Steps
  <2>. QED BY <1>2, <2>1 DEF PassTypes
<1>. QED BY <1>1, <1>2 DEF Next, vars

LEMMA TypesAndBoard == Spec => [](BoardInv /\ PassTypes)
<1>1. Init => BoardInv /\ PassTypes
  BY BoardInitial DEF Init, PassTypes, Steps
<1>2. BoardInv /\ PassTypes /\ [Next]_vars => BoardInv' /\ PassTypes'
  BY BoardInductive, PassTypesInductive
<1>. QED BY <1>1, <1>2, PTL DEF Spec

\* Whatever calls overlap, are given up or killed, the lock has one holder, and
\* it is the one call past lock().
THEOREM ReviewTypes == Spec => []TypeOK
<1>1. BoardInv /\ PassTypes => TypeOK
  <2>. SUFFICES ASSUME BoardInv, PassTypes PROVE TypeOK
    OBVIOUS
  <2>1. pc \in [Calls -> {"idle", "lock", "load", "write", "unlock"}]
    BY DEF BoardInv, Functions, CallIsRight, Holding
  <2>2. answer \in [Calls -> Answers \cup {None}]
    BY DEF BoardInv, Functions, CallIsRight
  <2>3. exchange \in [Callers -> Calls \cup Answers \cup {None}]
    BY DEF BoardInv, Functions, CallerIsRight
  <2>4. \A c \in Calls : pc[c] \in {"load", "write", "unlock"} => lock = c
    BY DEF BoardInv, CallIsRight, Holding
  <2>. QED BY <2>1, <2>2, <2>3, <2>4 DEF TypeOK, BoardInv, PassTypes, LogIsRight
<1>. QED BY <1>1, TypesAndBoard, PTL

\* What the log holds are commands.
LOCAL LogOfCommands == \A i \in DOMAIN log : log[i].operation \in Operations

LEMMA LogOfCommandsStays ==
  ASSUME BoardInv, LogOfCommands, Move
  PROVE  LogOfCommands'
<1>1. ASSUME NEW c \in Calls, Write(c), log' = Append(log, command[c])
      PROVE  LogOfCommands'
  <2>1. IsSequence(log) /\ command[c].operation \in Operations
    BY <1>1 DEF BoardInv, LogIsRight, CallIsRight, Write
  <2>2. PICK n \in Nat : n = Len(log)
    BY DEF BoardInv, LogIsRight
  <2>3. /\ DOMAIN log = 1 .. n /\ DOMAIN log' = 1 .. n + 1
        /\ log'[n + 1] = command[c] /\ \A i \in 1 .. n : log'[i] = log[i]
    BY <1>1, <2>1, <2>2, Appended
  <2>4. \A i \in 1 .. n + 1 : i \in 1 .. n \/ i = n + 1
    BY <2>2
  <2>. QED BY <2>1, <2>3, <2>4 DEF LogOfCommands
<1>. QED BY <1>1, TheLogGrows DEF LogOfCommands

\* execute() answers "OK" only for a command that is on the board, and what is on
\* the board stays on it whatever is written later, by whichever call.
THEOREM AnswersStayOnTheBoard == Spec => AnsweredCommandsStayOnTheBoard
<1>1. Init => LogOfCommands
  BY DEF Init, BoardInit, LogOfCommands
<1>2. BoardInv /\ LogOfCommands /\ [Next]_vars => LogOfCommands'
  BY EveryStepIsAMove, LogOfCommandsStays
<1>3. ASSUME BoardInv, BoardInv', LogOfCommands, [Next]_vars
      PROVE  /\ \A c \in Calls : answer'[c] = "OK" => IsOn(Board', command'[c])
             /\ \A cmd \in Commands \cup ToSet(log) : IsOn(Board, cmd) => IsOn(Replay(log'), cmd)
  <2>1. \A c \in Calls : answer'[c] = "OK" => IsOn(Board', command'[c])
    BY <1>3 DEF BoardInv, CallIsRight
  <2>2. BoardIsRight(Board) /\ BoardIsRight(Board') /\ Grows(Board, Board')
    BY <1>3, EveryStepIsAMove, LogStaysRight DEF BoardInv, LogIsRight
  <2>3. \A cmd \in Commands \cup ToSet(log) : cmd.operation \in Operations
    BY <1>3, CommandsAreKnown DEF LogOfCommands, ToSet
  <2>4. Board' = Replay(log')
    BY DEF Board
  <2>. QED BY <2>1, <2>2, <2>3, <2>4, StaysOn
<1>4. BoardInv /\ BoardInv' /\ LogOfCommands /\ [Next]_vars => [AnswersStand]_board
  BY <1>3 DEF AnswersStand
<1>. QED BY <1>1, <1>2, <1>4, TypesAndBoard, PTL DEF Spec, AnsweredCommandsStayOnTheBoard

\* However often a post is sent, and however late it is carried out, the board has
\* one message of its author under its request id.
THEOREM RequestsNameOneMessage == Spec => []OneMessagePerRequest
<1>1. BoardInv => OneMessagePerRequest
  BY DEF BoardInv, LogIsRight, BoardIsRight, OneMessagePerRequest
<1>. QED BY <1>1, TypesAndBoard, PTL

-----------------------------------------------------------------------------
(* Every step of the board is one of the atomic board, or none.            *)

LOCAL Asked == [c \in Calls |-> IF pc[c] = "idle" THEN {} ELSE {command[c]}]

LEMMA SameBoard == Atomic!board = Board
BY DEF Board, Replay, Atomic!board, Atomic!FoldLeft, FoldLeft, MapThenFoldSet,
   Atomic!MapThenFoldSet, Atomic!Max, Max

LEMMA NothingHappens ==
  ASSUME Asked' = Asked, log' = log, answer' = answer
  PROVE  UNCHANGED Atomic!avars
BY DEF Asked, Atomic!avars

LEMMA ACallEnds ==
  ASSUME BoardInv, NEW c \in Calls, Forget(c), log' = log
  PROVE  Atomic!End(c)
<1>1. /\ pc' = [pc EXCEPT ![c] = "idle"] /\ answer' = [answer EXCEPT ![c] = None]
      /\ command' = [command EXCEPT ![c] = None]
  BY DEF Forget, Goto, Answer
<1>2. Asked' = [Asked EXCEPT ![c] = {}]
  BY <1>1 DEF Asked, BoardInv, Functions
<1>. QED BY <1>1, <1>2 DEF Asked, Atomic!End

LEMMA ACallBegins ==
  ASSUME BoardInv, NEW c \in Calls, NEW cmd, Begin(c, cmd)
  PROVE  Atomic!Begin(c)
<1>1. /\ pc[c] = "idle" /\ pc' = [pc EXCEPT ![c] = "lock"]
      /\ command' = [command EXCEPT ![c] = cmd] /\ UNCHANGED <<log, answer>>
  BY DEF Begin, Goto
<1>2. Asked' = [Asked EXCEPT ![c] = {cmd}] /\ Asked[c] = {}
  BY <1>1 DEF Asked, BoardInv, Functions
<1>3. cmd \in Asked'[c]
  BY <1>2 DEF Asked
<1>. QED BY <1>1, <1>2, <1>3 DEF Asked, Atomic!Begin

\* Between lock and unlock, what is asked stays.
LEMMA ACallGoesOn ==
  ASSUME BoardInv, NEW c \in Calls, pc[c] # "idle", NEW step, step # "idle",
         Goto(c, step), command' = command
  PROVE  Asked' = Asked /\ Asked[c] = {command[c]}
BY DEF Goto, Asked, BoardInv, Functions

LEMMA ALoadAnswers ==
  ASSUME BoardInv, NEW c \in Calls, Load(c)
  PROVE  Atomic!CarryOut(c, command[c]) \/ UNCHANGED Atomic!avars
<1>1. pc[c] = "load" /\ answer[c] = None /\ UNCHANGED <<log, command>>
  BY DEF Load, BoardInv, CallIsRight
<1>2. Asked' = Asked
  BY <1>1, ACallGoesOn DEF Load
<1>3. CASE ~Accepts(Board, command[c])
  <2>1. answer' = [answer EXCEPT ![c] = "REFUSED"]
    BY <1>3 DEF Load, Answer, Board
  <2>. QED BY <1>1, <1>2, <1>3, <2>1, SameBoard DEF Asked, Atomic!CarryOut
<1>4. CASE Accepts(Board, command[c]) /\ Applied(Board, command[c]) = Board
  <2>1. answer' = [answer EXCEPT ![c] = "OK"]
    BY <1>4 DEF Load, Answer, Board
  <2>. QED BY <1>1, <1>2, <1>4, <2>1, SameBoard DEF Asked, Atomic!CarryOut
<1>5. CASE Accepts(Board, command[c]) /\ Applied(Board, command[c]) # Board
  <2>1. CASE Len(log) >= MAX_LOG
    <3>1. answer' = [answer EXCEPT ![c] = "REFUSED"]
      BY <1>5, <2>1 DEF Load, Answer, Board
    <3>. QED BY <1>1, <1>2, <1>5, <2>1, <3>1, SameBoard DEF Asked, Atomic!CarryOut
  <2>2. CASE ~(Len(log) >= MAX_LOG)
    <3>1. answer' = answer
      BY <1>5, <2>2 DEF Load, Board
    <3>. QED BY <1>1, <1>2, <3>1, NothingHappens
  <2>. QED BY <2>1, <2>2
<1>. QED BY <1>3, <1>4, <1>5

LEMMA AWriteAnswers ==
  ASSUME BoardInv, NEW c \in Calls, Write(c)
  PROVE  Atomic!CarryOut(c, command[c]) \/ Atomic!DoNothing(c)
<1>1. /\ pc[c] = "write" /\ answer[c] = None /\ command' = command /\ loaded[c] = log
      /\ Accepts(Board, command[c]) /\ Applied(Board, command[c]) # Board /\ Len(log) < MAX_LOG
  BY DEF Write, BoardInv, CallIsRight
<1>2. Asked' = Asked /\ Asked[c] = {command[c]}
  BY <1>1, ACallGoesOn DEF Write
<1>3. CASE log' = Append(loaded[c], command[c]) /\ Answer(c, "OK")
  BY <1>1, <1>2, <1>3, SameBoard DEF Asked, Answer, Atomic!CarryOut
<1>4. CASE log' = log /\ Answer(c, "RETRY")
  BY <1>1, <1>2, <1>4 DEF Asked, Answer, Atomic!DoNothing
<1>. QED BY <1>3, <1>4 DEF Write

LEMMA EveryMoveIsAtomic ==
  ASSUME BoardInv, Move
  PROVE  [Atomic!Next]_Atomic!avars
<1>1. ASSUME NEW c \in Calls, Atomic!Begin(c) \/ Atomic!DoNothing(c) \/ Atomic!End(c)
      PROVE  Atomic!Next
  BY <1>1 DEF Atomic!Next
<1>2. ASSUME NEW c \in Calls, pc[c] # "idle", Atomic!CarryOut(c, command[c])
      PROVE  Atomic!Next
  <2>1. command[c] \in Asked[c]
    BY <1>2 DEF Asked
  <2>. QED BY <1>2, <2>1 DEF Asked, Atomic!Next
<1>3. ASSUME NEW c \in Calls, Lock(c)
      PROVE  Atomic!End(c) \/ UNCHANGED Atomic!avars
  <2>1. CASE lock = None
    <3>1. pc[c] = "lock" /\ Goto(c, "load") /\ UNCHANGED <<log, command, answer>>
      BY <1>3, <2>1 DEF Lock
    <3>. QED BY <3>1, ACallGoesOn, NothingHappens
  <2>2. CASE lock # None
    <3>1. Forget(c) /\ log' = log
      BY <1>3, <2>2 DEF Lock, Return
    <3>. QED BY <3>1, ACallEnds
  <2>. QED BY <2>1, <2>2
<1>4. ASSUME NEW c \in Calls, Unlock(c) \/ Kill(c) PROVE Atomic!End(c)
  BY <1>4, ACallEnds DEF Unlock, Kill, Return
<1>5. ASSUME NEW c \in Calls, Load(c) \/ Write(c) PROVE pc[c] # "idle"
  BY <1>5 DEF Load, Write
<1>6. ASSUME NEW c \in Calls, Lock(c) \/ Load(c) \/ Write(c) \/ Unlock(c) \/ Kill(c)
      PROVE  [Atomic!Next]_Atomic!avars
  BY <1>1, <1>2, <1>3, <1>4, <1>5, <1>6, ALoadAnswers, AWriteAnswers
<1>7. ASSUME NEW c \in Calls, NEW cmd, Begin(c, cmd) PROVE Atomic!Next
  BY <1>1, <1>7, ACallBegins
<1>8. ASSUME UNCHANGED <<log, pc, command, answer>> PROVE UNCHANGED Atomic!avars
  BY <1>8, NothingHappens DEF Asked
<1>9. CASE Recover
  BY <1>8, <1>9 DEF Recover
<1>10. ASSUME NEW w \in Callers, TimeOut(w) \/ Hang(w) PROVE UNCHANGED Atomic!avars
  BY <1>8, <1>10 DEF TimeOut, Hang, server
<1>11. CASE UNCHANGED board
  BY <1>8, <1>11 DEF board, server
<1>. QED BY <1>6, <1>7, <1>9, <1>10, <1>11 DEF Move

\* The lock, the copy of the log and the replaced file carry out each command at
\* one moment, on the board of that moment.
THEOREM TheBoardIsAtomic == Spec => ImplementsAtomicBoard
<1>1. Init => Atomic!Init
  BY DEF Init, BoardInit, Atomic!Init
<1>2. BoardInv /\ [Next]_vars => [Atomic!Next]_Atomic!avars
  BY EveryStepIsAMove, EveryMoveIsAtomic
<1>. QED BY <1>1, <1>2, TypesAndBoard, PTL DEF Spec, ImplementsAtomicBoard, Atomic!Spec

-----------------------------------------------------------------------------
(* The results: what the reviewer says on the board, when only the workers *)
(* speak as the reviewer.                                                  *)

\* The message is a result for request i under the request id of that result.
IsResult(m, i) ==
  /\ m.author = Reviewer.id /\ m.request = <<Reviewer.id, i>>
  /\ m.kind = "RESULT" /\ m.reply = i

\* What the reviewer posts are results; it acknowledges what has one.
Fits(b, c) ==
  /\ c.operation = "post" /\ c.post.author = Reviewer.id => IsResult(c.post, c.post.reply)
  /\ c.operation = "acknowledge" /\ c.by = Reviewer.id => Results(b, c.message) # {}

BoardFits(b) ==
  /\ \A j \in DOMAIN b.messages :
       b.messages[j].author = Reviewer.id => IsResult(b.messages[j], b.messages[j].reply)
  /\ \A r \in b.receipts : r.by = Reviewer.id => Results(b, r.message) # {}

LEMMA ResultsStay ==
  ASSUME NEW b, NEW a, Grows(b, a), NEW i, Results(b, i) # {}
  PROVE  Results(a, i) # {}
BY DEF Grows, Results

LEMMA FitsStays ==
  ASSUME NEW b, NEW a, Grows(b, a), NEW c, Fits(b, c)
  PROVE  Fits(a, c)
BY ResultsStay DEF Fits

LEMMA BoardFitsStays ==
  ASSUME NEW b, BoardIsRight(b), BoardFits(b), NEW c, c.operation \in Operations,
         Accepts(b, c), Fits(b, c)
  PROVE  BoardFits(Applied(b, c))
<1>1. PICK a : a = Applied(b, c)
  OBVIOUS
<1>2. Grows(b, a) /\ IsBoard(b)
  BY <1>1, AcceptedCommand DEF BoardIsRight
<1>3. \A i : Results(b, i) # {} => Results(a, i) # {}
  BY <1>2, ResultsStay
<1>4. CASE c.operation = "register"
  <2>1. a.messages = b.messages /\ a.receipts = b.receipts
    BY <1>1, <1>2, <1>4, AppliedRegister
  <2>. QED BY <1>1, <1>3, <2>1 DEF BoardFits
<1>5. CASE c.operation = "post"
  <2>1. /\ a.messages = IF c.post \in ToSet(b.messages) THEN b.messages
                        ELSE Append(b.messages, c.post)
        /\ a.receipts = b.receipts
    <3>1. Applied(b, c) = [definitions |-> b.definitions,
                           messages |-> IF c.post \in ToSet(b.messages) THEN b.messages
                                        ELSE Append(b.messages, c.post),
                           receipts |-> b.receipts]
      BY <1>2, <1>5, AppliedPost
    <3>. QED BY <1>1, <3>1
  <2>2. \A j \in DOMAIN a.messages :
          \/ j \in DOMAIN b.messages /\ a.messages[j] = b.messages[j]
          \/ a.messages[j] = c.post
    <3>1. PICK n \in Nat : n = Len(b.messages) /\ DOMAIN b.messages = 1 .. n
      BY <1>2, Appended DEF IsBoard
    <3>2. \A j \in 1 .. n + 1 : j \in 1 .. n \/ j = n + 1
      BY <3>1
    <3>. QED BY <1>2, <2>1, <3>1, <3>2, Appended DEF IsBoard
  <2>. QED BY <1>1, <1>3, <1>5, <2>1, <2>2 DEF BoardFits, Fits
<1>6. CASE c.operation = "acknowledge"
  <2>1. a.messages = b.messages /\ a.receipts = b.receipts \cup {Receipt(c)}
    BY <1>1, <1>2, <1>6, AppliedAcknowledge
  <2>2. Receipt(c).by = c.by /\ Receipt(c).message = c.message
    BY DEF Receipt
  <2>. QED BY <1>1, <1>3, <1>6, <2>1, <2>2 DEF BoardFits, Fits
<1>. QED BY <1>4, <1>5, <1>6 DEF Operations

\* A saved result is a result for the request whose review it was found for.
LEMMA SavedIsAResult ==
  ASSUME NEW b, BoardFits(b), NEW i, Saved(b, i) # {}
  PROVE  Results(b, i) # {}
<1>1. PICK j \in DOMAIN b.messages : SamePost(b.messages[j], Review(b, i))
  BY DEF Saved
<1>2. b.messages[j].author = Reviewer.id /\ b.messages[j].request = <<Reviewer.id, i>>
  BY <1>1 DEF SamePost, Review
<1>3. /\ b.messages[j].request = <<Reviewer.id, b.messages[j].reply>>
      /\ b.messages[j].kind = "RESULT"
  BY <1>1, <1>2 DEF BoardFits, IsResult
<1>4. b.messages[j].reply = i
  BY <1>2, <1>3
<1>. QED BY <1>1, <1>2, <1>3, <1>4 DEF Results

LEMMA ReportsAreResults ==
  ASSUME NEW b, NEW i, NEW m \in Reports(b, i)
  PROVE  IsResult(m, i)
<1>1. IsResult(Review(b, i), i)
  BY DEF Review, IsResult
<1>2. ASSUME NEW found PROVE IsResult(Inspection(b, i, found), i)
  BY DEF Review, Inspection, IsResult
<1>. QED BY <1>1, <1>2 DEF Reports

\* A post of a result that is on the board, and an acknowledgement that is.
LEMMA PostedResult ==
  ASSUME NEW b, BoardIsRight(b), NEW m, NEW i, IsResult(m, i), IsOn(b, PostOf(m))
  PROVE  Results(b, i) # {}
<1>1. PostOf(m).operation = "post" /\ PostOf(m).post = m
  BY DEF PostOf
<1>2. m \in ToSet(b.messages)
  BY <1>1, AppliedPost, Appended DEF IsOn, BoardIsRight, IsBoard
<1>. QED BY <1>2 DEF ToSet, Results, IsResult

LEMMA AcknowledgedRequest ==
  ASSUME NEW b, BoardIsRight(b), NEW i, IsOn(b, AcknowledgeOf(i))
  PROVE  i \in Receipts(b)
<1>1. /\ AcknowledgeOf(i).operation = "acknowledge"
      /\ Receipt(AcknowledgeOf(i)) = [message |-> i, by |-> Reviewer.id]
  BY DEF AcknowledgeOf, Receipt
<1>2. [message |-> i, by |-> Reviewer.id] \in b.receipts
  BY <1>1, AppliedAcknowledge DEF IsOn, BoardIsRight
<1>. QED BY <1>2 DEF Receipts

-----------------------------------------------------------------------------
(* Who sends what: every command under way, and every one that a caller    *)
(* may send again, fits the board.                                         *)

LOCAL AllFit ==
  /\ BoardFits(Board)
  /\ \A c \in Calls : pc[c] # "idle" => Fits(Board, command[c])
  /\ \A w \in Callers : exchange[w] # None => Fits(Board, sent[w])

\* A step starts no command but a fitting one.
LOCAL OnlyFitting ==
  /\ \A c \in Calls : pc'[c] # "idle" =>
       (pc[c] # "idle" /\ command'[c] = command[c]) \/ Fits(Board, command'[c])
  /\ \A w \in Callers : exchange'[w] # None =>
       (exchange[w] # None /\ sent'[w] = sent[w]) \/ Fits(Board, sent'[w])

LEMMA AllFitStays ==
  ASSUME BoardInv, AllFit, Move, OnlyFitting
  PROVE  AllFit'
<1>1. Grows(Board, Board')
  BY LogStaysRight
<1>2. BoardFits(Board')
  <2>1. ASSUME NEW c \in Calls, Write(c), Board' = Applied(Board, command[c])
        PROVE  BoardFits(Board')
    <3>1. /\ command[c].operation \in Operations /\ Accepts(Board, command[c])
          /\ BoardIsRight(Board) /\ pc[c] # "idle"
      BY <2>1 DEF Write, BoardInv, CallIsRight, LogIsRight
    <3>. QED BY <2>1, <3>1, BoardFitsStays DEF AllFit
  <2>. QED BY <2>1, TheLogGrows DEF AllFit
<1>3. \A c \in Calls : pc'[c] # "idle" => Fits(Board', command'[c])
  BY <1>1, FitsStays DEF AllFit, OnlyFitting
<1>4. \A w \in Callers : exchange'[w] # None => Fits(Board', sent'[w])
  BY <1>1, FitsStays DEF AllFit, OnlyFitting
<1>. QED BY <1>2, <1>3, <1>4 DEF AllFit

\* A call that begins.
LEMMA BeginFits ==
  ASSUME BoardInv, NEW c \in Calls, NEW cmd, Fits(Board, cmd), Begin(c, cmd)
  PROVE  \A d \in Calls : pc'[d] # "idle" =>
           (pc[d] # "idle" /\ command'[d] = command[d]) \/ Fits(Board, command'[d])
BY DEF Begin, Goto, BoardInv, Functions

LEMMA SendFits ==
  ASSUME BoardInv, NEW w \in Callers, NEW cmd, Fits(Board, cmd), Send(w, cmd)
  PROVE  OnlyFitting /\ sent'[w] = cmd /\ \A v \in Callers \ {w} : sent'[v] = sent[v]
<1>1. PICK c \in Calls : /\ Begin(c, cmd) /\ exchange' = [exchange EXCEPT ![w] = c]
                         /\ sent' = [sent EXCEPT ![w] = cmd]
  BY DEF Send
<1>2. /\ sent'[w] = cmd
      /\ \A v \in Callers \ {w} : exchange'[v] = exchange[v] /\ sent'[v] = sent[v]
  BY <1>1 DEF BoardInv, Functions
<1>. QED BY <1>1, <1>2, BeginFits DEF OnlyFitting

LEMMA HangFits ==
  ASSUME BoardInv, NEW w \in Callers, Hang(w)
  PROVE  OnlyFitting /\ \A v \in Callers \ {w} : sent'[v] = sent[v]
BY DEF Hang, server, BoardInv, Functions, OnlyFitting

\* Within the transport a caller keeps what it has sent.
LEMMA TransportFits ==
  ASSUME OthersActForThemselves, BoardInv, AllFit, Transport
  PROVE  OnlyFitting /\ \A v \in Callers : sent'[v] = sent[v]
<1>1. ASSUME NEW c \in Calls, NEW code, Return(c, code), pc[c] # "idle"
      PROVE  OnlyFitting /\ sent' = sent
  <2>1. /\ pc' = [pc EXCEPT ![c] = "idle"] /\ command' = [command EXCEPT ![c] = None]
        /\ exchange' = [w \in Callers |-> IF exchange[w] = c THEN code ELSE exchange[w]]
        /\ sent' = sent
    BY <1>1 DEF Return, Forget, Goto
  <2>2. \A d \in Calls : pc'[d] # "idle" => pc[d] # "idle" /\ command'[d] = command[d]
    BY <2>1 DEF BoardInv, Functions
  <2>3. \A w \in Callers : exchange'[w] # None => exchange[w] # None
    BY <2>1, LockValues
  <2>. QED BY <2>1, <2>2, <2>3 DEF OnlyFitting
<1>2. ASSUME NEW c \in Calls, NEW step, Goto(c, step), pc[c] # "idle",
             UNCHANGED <<command, client>>
      PROVE  OnlyFitting /\ sent' = sent
  BY <1>2 DEF Goto, client, BoardInv, Functions, OnlyFitting
<1>3. ASSUME NEW c \in Calls, Execute(c) \/ Kill(c)
      PROVE  OnlyFitting /\ sent' = sent
  <2>1. CASE Lock(c)
    BY <1>1, <1>2, <2>1 DEF Lock
  <2>2. CASE Load(c)
    <3>1. pc[c] # "idle" /\ (Goto(c, "unlock") \/ Goto(c, "write")) /\ UNCHANGED <<command, client>>
      BY <2>2 DEF Load
    <3>. QED BY <1>2, <3>1
  <2>3. CASE Write(c)
    BY <1>2, <2>3 DEF Write
  <2>4. CASE Unlock(c) \/ Kill(c)
    BY <1>1, <2>4 DEF Unlock, Kill
  <2>. QED BY <1>3, <2>1, <2>2, <2>3, <2>4 DEF Execute
<1>4. CASE Recover
  BY <1>4 DEF Recover, client, OnlyFitting
<1>5. ASSUME NEW w \in Callers, TimeOut(w) PROVE OnlyFitting /\ sent' = sent
  <2>1. \A v \in Callers : exchange'[v] # None => exchange[v] # None
    BY <1>5, LockValues DEF TimeOut, BoardInv, Functions
  <2>. QED BY <1>5, <2>1 DEF TimeOut, server, OnlyFitting
<1>6. ASSUME NEW w \in Callers, Retry(w)
      PROVE  OnlyFitting /\ \A v \in Callers : sent'[v] = sent[v]
  <2>1. Fits(Board, sent[w]) /\ Send(w, sent[w])
    BY <1>6, LockValues DEF Retry, AllFit, Answers
  <2>. QED BY <2>1, SendFits
<1>7. ASSUME NEW cmd \in Commands, Ask(cmd) PROVE OnlyFitting /\ sent' = sent
  <2>1. Fits(Board, cmd)
    BY DEF OthersActForThemselves, Fits
  <2>. QED BY <1>7, <2>1, BeginFits DEF Ask, client, OnlyFitting
<1>. QED BY <1>3, <1>4, <1>5, <1>6, <1>7 DEF Transport

-----------------------------------------------------------------------------
(* A page of the inbox leaves no request behind it.                        *)

LEMMA FirstAreClosed ==
  ASSUME NEW n \in Nat, NEW s \in SUBSET (1 .. n), NEW limit \in Nat,
         NEW j \in FirstOf(s, limit), NEW i \in s, i <= j
  PROVE  i \in FirstOf(s, limit)
<1>1. j \in s /\ Cardinality({k \in s : k <= j}) <= limit
  BY DEF FirstOf
<1>2. i \in Int /\ j \in Int
  BY <1>1
<1>3. {k \in s : k <= i} \subseteq {k \in s : k <= j}
  <2>1. ASSUME NEW k \in s, k <= i PROVE k <= j
    <3>1. k \in Int
      OBVIOUS
    <3>. QED BY <1>2, <2>1, <3>1
  <2>. QED BY <2>1
<1>4. IsFiniteSet({k \in s : k <= j})
  <2>1. IsFiniteSet(1 .. n)
    BY FS_Interval
  <2>2. {k \in s : k <= j} \subseteq 1 .. n
    OBVIOUS
  <2>. QED BY <2>1, <2>2, FS_Subset
<1>5. /\ Cardinality({k \in s : k <= i}) <= Cardinality({k \in s : k <= j})
      /\ IsFiniteSet({k \in s : k <= i})
  BY <1>3, <1>4, FS_Subset
<1>6. Cardinality({k \in s : k <= i}) \in Nat /\ Cardinality({k \in s : k <= j}) \in Nat
  BY <1>4, <1>5, FS_CardinalityType
<1>7. PICK x \in Nat, y \in Nat : /\ x = Cardinality({k \in s : k <= i})
                                  /\ y = Cardinality({k \in s : k <= j})
  BY <1>6
<1>8. x <= limit
  BY <1>1, <1>5, <1>7
<1>. QED BY <1>7, <1>8 DEF FirstOf

LEMMA FirstAreSome ==
  ASSUME NEW n \in Nat, NEW s \in SUBSET (1 .. n), s # {}, NEW limit \in Nat \ {0}
  PROVE  FirstOf(s, limit) # {}
<1>1. s \in SUBSET Nat
  OBVIOUS
<1>2. PICK i \in s : \A j \in s : ~(j < i)
  BY <1>1, LeastNumber
<1>3. {k \in s : k <= i} = {i}
  <2>1. ASSUME NEW k \in s, k <= i PROVE k = i
    <3>1. k \in Nat /\ i \in Nat /\ ~(k < i)
      BY <1>1, <1>2
    <3>. QED BY <2>1, <3>1
  <2>2. i <= i
    BY <1>1, <1>2
  <2>. QED BY <2>1, <2>2
<1>4. Cardinality({k \in s : k <= i}) = 1
  BY <1>3, FS_Singleton
<1>5. 1 <= limit
  OBVIOUS
<1>. QED BY <1>4, <1>5 DEF FirstOf

\* What the inbox has scanned over it returns.
LEMMA TheInboxReturns ==
  ASSUME NEW b, BoardIsRight(b), NEW p, NEW after \in Nat, after <= Len(b.messages),
         NEW limit \in Nat \ {0}
  PROVE  LET inbox == Inbox(b, p, after, limit) IN
         /\ inbox.nextSequence \in Nat /\ inbox.nextSequence <= Len(b.messages)
         /\ inbox.messages \subseteq DOMAIN b.messages
         /\ \A i \in Eligible(b, p, after) : i <= inbox.nextSequence => i \in inbox.messages
<1>1. PICK n \in Nat : n = Len(b.messages) /\ DOMAIN b.messages = 1 .. n
  BY Appended DEF BoardIsRight, IsBoard
<1>2. PICK s \in SUBSET (1 .. n) : s = Eligible(b, p, after)
  BY <1>1 DEF Eligible
<1>3. PICK first : first = FirstOf(s, limit)
  OBVIOUS
<1>4. first \in SUBSET s
  BY <1>3 DEF FirstOf
<1>5. PICK inbox : inbox = Inbox(b, p, after, limit)
  OBVIOUS
<1>6. inbox = [messages |-> first, hasMore |-> first # s,
               nextSequence |-> IF first # s THEN Max(first) ELSE n]
  BY <1>1, <1>2, <1>3, <1>5 DEF Inbox
<1>7. CASE first = s
  <2>1. inbox.messages = s /\ inbox.nextSequence = n
    BY <1>6, <1>7
  <2>. QED BY <1>1, <1>2, <1>5, <2>1
<1>8. CASE first # s
  <2>1. inbox.messages = first /\ inbox.nextSequence = Max(first)
    BY <1>6, <1>8
  <2>2. first # {}
    BY <1>3, <1>4, <1>8, FirstAreSome
  <2>3. Max(first) \in first
    BY <1>4, <2>2, MaxIsLargest
  <2>4. PICK j \in first : j = Max(first)
    BY <2>3
  <2>5. j \in 1 .. n
    BY <1>4
  <2>6. \A i \in s : i <= j => i \in first
    BY <1>3, FirstAreClosed
  <2>. QED BY <1>1, <1>2, <1>4, <1>5, <2>1, <2>4, <2>5, <2>6
<1>. QED BY <1>5, <1>7, <1>8

LOCAL Behind(b, i, c) == i \in DOMAIN b.messages /\ i <= c /\ Assigned(b, i)

\* A request the worker handles is eligible until it has a receipt.
LEMMA AssignedIsEligible ==
  ASSUME NEW b, BoardIsRight(b), BoardFits(b), NEW i \in DOMAIN b.messages, Assigned(b, i),
         i \notin Receipts(b), NEW after, i > after
  PROVE  i \in Eligible(b, Reviewer.id, after)
<1>1. /\ b.messages[i].kind \in {"REQUEST", "HANDOFF"}
      /\ b.messages[i].recipient = Reviewer.id
  BY DEF Assigned, Work, Inspects
<1>2. b.messages[i].author # Reviewer.id
  BY <1>1 DEF BoardFits, IsResult
<1>3. Declares(b, Reviewer.id, b.messages[i].context)
  BY <1>1, ReviewerIsNamed DEF BoardIsRight
<1>4. [message |-> i, by |-> Reviewer.id] \notin b.receipts
  BY DEF Receipts
<1>. QED BY <1>1, <1>2, <1>3, <1>4 DEF Eligible

-----------------------------------------------------------------------------
(* The passes.                                                             *)

PassIsRight(w) ==
  /\ cursor[w] \in Nat /\ cursor[w] <= Len(Board.messages)
  /\ page[w] \subseteq DOMAIN Board.messages
  /\ at[w] \in {"idle", "register"} => cursor[w] = 0
  /\ at[w] \in {"idle", "register", "scan"} => page[w] = {}
  /\ at[w] = "post" => /\ page[w] # {}
                       /\ \E m : sent[w] = PostOf(m) /\ IsResult(m, Min(page[w]))
  /\ at[w] = "acknowledge" => page[w] # {} /\ sent[w] = AcknowledgeOf(Min(page[w]))
  /\ \A i : Behind(Board, i, cursor[w]) => i \in Receipts(Board) \cup page[w]

LOCAL PassFunctions ==
  DOMAIN cursor = Callers /\ DOMAIN page = Callers /\ DOMAIN hasMore = Callers

PassInv ==
  /\ PassTypes /\ PassFunctions /\ AllFit
  /\ \A w \in Callers : PassIsRight(w)

\* What is to be done for a message does not change.
LEMMA WorkStays ==
  ASSUME NEW b, NEW a, Grows(b, a), NEW i \in DOMAIN b.messages
  PROVE  Work(a, i) = Work(b, i) /\ Inspects(a, i) = Inspects(b, i)
BY DEF Grows, Work, Inspects

LEMMA ReceiptsStay ==
  ASSUME NEW b, NEW a, Grows(b, a)
  PROVE  Receipts(b) \subseteq Receipts(a)
BY DEF Grows, Receipts

\* A board that grew keeps the numbers of its messages.
LEMMA NumbersStay ==
  ASSUME NEW b, BoardIsRight(b), NEW a, BoardIsRight(a), Grows(b, a)
  PROVE  \E n, m \in Nat : /\ n = Len(b.messages) /\ DOMAIN b.messages = 1 .. n
                          /\ m = Len(a.messages) /\ DOMAIN a.messages = 1 .. m /\ n <= m
<1>1. PICK n \in Nat : n = Len(b.messages) /\ DOMAIN b.messages = 1 .. n
  BY Appended DEF BoardIsRight, IsBoard
<1>2. PICK m \in Nat : m = Len(a.messages) /\ DOMAIN a.messages = 1 .. m
  BY Appended DEF BoardIsRight, IsBoard
<1>3. 1 .. n \subseteq 1 .. m
  BY <1>1, <1>2 DEF Grows
<1>4. n <= m
  <2>1. CASE n = 0
    BY <2>1
  <2>2. CASE n # 0
    <3>1. n \in 1 .. n
      BY <2>2
    <3>. QED BY <1>3, <3>1
  <2>. QED BY <2>1, <2>2
<1>. QED BY <1>1, <1>2, <1>4

\* A pass that does not step is as right as it was.
LEMMA PassStays ==
  ASSUME BoardInv, Move, program' = program, NEW w \in Callers, PassIsRight(w),
         at'[w] = at[w], cursor'[w] = cursor[w], page'[w] = page[w], sent'[w] = sent[w]
  PROVE  PassIsRight(w)'
<1>1. PICK b, a : b = Board /\ a = Board'
  OBVIOUS
<1>2. BoardIsRight(b) /\ BoardIsRight(a) /\ Grows(b, a)
  BY <1>1, LogStaysRight DEF LogIsRight, BoardInv
<1>3. PICK n, m \in Nat : /\ n = Len(b.messages) /\ DOMAIN b.messages = 1 .. n
                         /\ m = Len(a.messages) /\ DOMAIN a.messages = 1 .. m /\ n <= m
  BY <1>2, NumbersStay
<1>4. cursor[w] \in Nat /\ cursor[w] <= n /\ cursor[w] <= m
  BY <1>1, <1>3 DEF PassIsRight
<1>5. \A i : i \in 1 .. m /\ i <= cursor[w] => i \in 1 .. n
  BY <1>4
<1>6. page[w] \subseteq DOMAIN a.messages
  BY <1>1, <1>2 DEF PassIsRight, Grows
<1>7. ASSUME NEW i, Behind(Board, i, cursor[w])'
      PROVE  i \in Receipts(a) \cup page[w]
  <2>1. i \in DOMAIN a.messages /\ i <= cursor[w]
    BY <1>1, <1>7 DEF Behind
  <2>2. i \in DOMAIN b.messages
    BY <1>3, <1>5, <2>1
  <2>3. Work(a, i) = Work(b, i) /\ Inspects(a, i) = Inspects(b, i)
    BY <1>2, <2>2, WorkStays
  <2>4. IF program = "contract-review" THEN Work(a, i) ELSE Inspects(a, i)
    BY <1>1, <1>7 DEF Behind, Assigned
  <2>5. Behind(Board, i, cursor[w])
    BY <1>1, <2>1, <2>2, <2>3, <2>4 DEF Behind, Assigned
  <2>6. i \in Receipts(b) \cup page[w]
    BY <1>1, <2>5 DEF PassIsRight
  <2>. QED BY <1>2, <2>6, ReceiptsStay
<1>8. Len(Board'.messages) = m /\ DOMAIN Board'.messages = DOMAIN a.messages
  BY <1>1, <1>3
<1>9. \A i : Behind(Board, i, cursor[w])' => i \in Receipts(Board') \cup page[w]
  BY <1>1, <1>7
<1>. QED BY <1>4, <1>6, <1>8, <1>9 DEF PassIsRight

\* A pass that steps finds the board as it is.
LEMMA PassBecomes ==
  ASSUME log' = log, program' = program, NEW w \in Callers,
         cursor'[w] \in Nat, cursor'[w] <= Len(Board.messages),
         page'[w] \subseteq DOMAIN Board.messages,
         at'[w] \in {"idle", "register"} => cursor'[w] = 0,
         at'[w] \in {"idle", "register", "scan"} => page'[w] = {},
         at'[w] = "post" => /\ page'[w] # {}
                            /\ \E m : sent'[w] = PostOf(m) /\ IsResult(m, Min(page'[w])),
         at'[w] = "acknowledge" => page'[w] # {} /\ sent'[w] = AcknowledgeOf(Min(page'[w])),
         \A i : Behind(Board, i, cursor'[w]) => i \in Receipts(Board) \cup page'[w]
  PROVE  PassIsRight(w)'
<1>1. Board' = Board
  BY DEF Board
<1>2. ASSUME NEW i, Behind(Board, i, cursor[w])'
      PROVE  Behind(Board, i, cursor'[w])
  <2>1. i \in DOMAIN Board.messages /\ i <= cursor'[w]
    BY <1>1, <1>2 DEF Behind
  <2>2. IF program = "contract-review" THEN Work(Board, i) ELSE Inspects(Board, i)
    BY <1>1, <1>2 DEF Behind, Assigned
  <2>. QED BY <2>1, <2>2 DEF Behind, Assigned
<1>3. \A i : Behind(Board, i, cursor[w])' => i \in Receipts(Board') \cup page'[w]
  BY <1>1, <1>2
<1>. QED BY <1>1, <1>3 DEF PassIsRight

LOCAL Others(w) ==
  \A v \in Callers \ {w} :
    at'[v] = at[v] /\ cursor'[v] = cursor[v] /\ page'[v] = page[v] /\ sent'[v] = sent[v]

LOCAL GoodStep(w) == OnlyFitting /\ PassIsRight(w)' /\ Others(w) /\ PassFunctions'

LEMMA SetsOff ==
  ASSUME BoardInv, PassInv, NEW w \in Callers, NEW step, To(w, step)
  PROVE  at'[w] = step /\ \A v \in Callers \ {w} : at'[v] = at[v]
BY DEF To, PassInv, PassTypes

LEMMA AcknowledgementFits ==
  ASSUME NEW i, Results(Board, i) # {}
  PROVE  Fits(Board, AcknowledgeOf(i))
BY DEF Fits, AcknowledgeOf

\* From a page or a post to the acknowledgement of the first request.
LEMMA AcknowledgesWell ==
  ASSUME BoardInv, PassInv, NEW w \in Callers, page[w] # {}, UNCHANGED <<cursor, page, hasMore>>,
         program' = program, Results(Board, Min(page[w])) # {},
         Send(w, AcknowledgeOf(Min(page[w]))), To(w, "acknowledge")
  PROVE  GoodStep(w)
<1>1. PICK i : i = Min(page[w])
  OBVIOUS
<1>2. Fits(Board, AcknowledgeOf(i))
  BY <1>1, AcknowledgementFits
<1>3. OnlyFitting /\ sent'[w] = AcknowledgeOf(i) /\ \A v \in Callers \ {w} : sent'[v] = sent[v]
  BY <1>1, <1>2, SendFits
<1>4. at'[w] = "acknowledge" /\ \A v \in Callers \ {w} : at'[v] = at[v]
  BY SetsOff
<1>5. log' = log
  BY DEF Send, Begin
<1>6. PassIsRight(w)'
  <2>1. PassIsRight(w)
    BY DEF PassInv
  <2>. QED BY <1>1, <1>3, <1>4, <1>5, <2>1, PassBecomes DEF PassIsRight
<1>. QED BY <1>3, <1>4, <1>6 DEF GoodStep, Others, PassInv, PassFunctions

LEMMA StartIsGood ==
  ASSUME BoardInv, PassInv, NEW w \in Callers, Start(w), program' = program
  PROVE  GoodStep(w)
<1>1. Fits(Board, RegisterReviewer)
  BY DEF Fits, RegisterReviewer
<1>2. OnlyFitting /\ \A v \in Callers \ {w} : sent'[v] = sent[v]
  BY <1>1, SendFits DEF Start
<1>3. at'[w] = "register" /\ \A v \in Callers \ {w} : at'[v] = at[v]
  BY SetsOff DEF Start
<1>4. log' = log /\ UNCHANGED <<cursor, page, hasMore>> /\ at[w] = "idle"
  BY DEF Start, Send, Begin
<1>5. PassIsRight(w)'
  <2>1. PassIsRight(w)
    BY DEF PassInv
  <2>. QED BY <1>3, <1>4, <2>1, PassBecomes DEF PassIsRight
<1>. QED BY <1>2, <1>3, <1>4, <1>5 DEF GoodStep, Others, PassInv, PassFunctions

LEMMA RegisteringIsGood ==
  ASSUME BoardInv, PassInv, NEW w \in Callers, Registering(w), program' = program
  PROVE  GoodStep(w)
<1>1. OnlyFitting /\ \A v \in Callers \ {w} : sent'[v] = sent[v]
  BY HangFits DEF Registering
<1>2. at'[w] = "scan" /\ \A v \in Callers \ {w} : at'[v] = at[v]
  BY SetsOff DEF Registering
<1>3. log' = log /\ UNCHANGED <<cursor, page, hasMore>> /\ at[w] = "register"
  BY DEF Registering, Hang, server
<1>4. PassIsRight(w)'
  <2>1. PassIsRight(w)
    BY DEF PassInv
  <2>. QED BY <1>2, <1>3, <2>1, PassBecomes DEF PassIsRight
<1>. QED BY <1>1, <1>2, <1>3, <1>4 DEF GoodStep, Others, PassInv, PassFunctions

LEMMA QuietStep ==
  ASSUME BoardInv, UNCHANGED board
  PROVE  OnlyFitting /\ sent' = sent /\ log' = log
BY DEF board, server, client, OnlyFitting

LEMMA ScanIsGood ==
  ASSUME BoardInv, PassInv, NEW w \in Callers, Scan(w), program' = program
  PROVE  GoodStep(w)
<1>1. OnlyFitting /\ sent' = sent /\ log' = log
  BY QuietStep DEF Scan
<1>2. at'[w] = "page" /\ \A v \in Callers \ {w} : at'[v] = at[v]
  BY SetsOff DEF Scan
<1>3. PICK b : b = Board
  OBVIOUS
<1>4. PICK inbox : inbox = Inbox(b, Reviewer.id, cursor[w], PAGE)
  OBVIOUS
<1>5. /\ page' = [page EXCEPT ![w] = {i \in inbox.messages : Assigned(b, i)}]
      /\ hasMore' = [hasMore EXCEPT ![w] = inbox.hasMore]
      /\ cursor' = [cursor EXCEPT ![w] = inbox.nextSequence]
  BY <1>3, <1>4 DEF Scan
<1>6. /\ page'[w] = {i \in inbox.messages : Assigned(b, i)} /\ cursor'[w] = inbox.nextSequence
      /\ \A v \in Callers \ {w} : page'[v] = page[v] /\ cursor'[v] = cursor[v]
      /\ PassFunctions'
  BY <1>5 DEF PassInv, PassFunctions
<1>7. BoardIsRight(b) /\ BoardFits(b) /\ PassIsRight(w) /\ at[w] = "scan"
  BY <1>3 DEF BoardInv, LogIsRight, PassInv, AllFit, Scan
<1>8. cursor[w] \in Nat /\ cursor[w] <= Len(b.messages) /\ page[w] = {}
  BY <1>3, <1>7 DEF PassIsRight
<1>9. /\ inbox.nextSequence \in Nat /\ inbox.nextSequence <= Len(b.messages)
      /\ inbox.messages \subseteq DOMAIN b.messages
      /\ \A i \in Eligible(b, Reviewer.id, cursor[w]) :
           i <= inbox.nextSequence => i \in inbox.messages
  BY <1>4, <1>7, <1>8, PageIsNotEmpty, TheInboxReturns
<1>10. ASSUME NEW i, Behind(b, i, inbox.nextSequence), i \notin Receipts(b)
       PROVE  i \in page'[w]
  <2>1. i \in DOMAIN b.messages /\ i <= inbox.nextSequence /\ Assigned(b, i)
    BY <1>10 DEF Behind
  <2>2. ~(i <= cursor[w])
    <3>1. \A j : Behind(b, j, cursor[w]) => j \in Receipts(b)
      BY <1>3, <1>7, <1>8 DEF PassIsRight
    <3>. QED BY <1>10, <2>1, <3>1 DEF Behind
  <2>3. i \in Nat
    BY <1>7, <2>1, Appended DEF BoardIsRight, IsBoard
  <2>4. i > cursor[w]
    BY <1>8, <2>2, <2>3
  <2>5. i \in Eligible(b, Reviewer.id, cursor[w])
    BY <1>7, <1>10, <2>1, <2>4, AssignedIsEligible
  <2>. QED BY <1>6, <1>9, <2>1, <2>5
<1>11. \A i : Behind(b, i, cursor'[w]) => i \in Receipts(b) \cup page'[w]
  BY <1>6, <1>10
<1>12. page'[w] \subseteq DOMAIN b.messages /\ cursor'[w] \in Nat /\ cursor'[w] <= Len(b.messages)
  BY <1>6, <1>9
<1>13. PassIsRight(w)'
  BY <1>1, <1>2, <1>3, <1>11, <1>12, PassBecomes
<1>. QED BY <1>1, <1>2, <1>6, <1>13 DEF GoodStep, Others

LEMMA TakeIsGood ==
  ASSUME BoardInv, PassInv, NEW w \in Callers, Take(w), program' = program
  PROVE  GoodStep(w)
<1>1. PassIsRight(w) /\ BoardFits(Board) /\ page[w] # {} /\ UNCHANGED <<cursor, page, hasMore>>
  BY DEF PassInv, AllFit, Take
<1>2. PICK i : i = Min(page[w])
  OBVIOUS
<1>3. CASE Saved(Board, i) = {}
  <2>1. PICK m \in Reports(Board, i) : Send(w, PostOf(m)) /\ To(w, "post")
    BY <1>2, <1>3 DEF Take
  <2>2. IsResult(m, i)
    BY ReportsAreResults
  <2>3. Fits(Board, PostOf(m))
    BY <2>2 DEF Fits, PostOf, IsResult
  <2>4. OnlyFitting /\ sent'[w] = PostOf(m) /\ \A v \in Callers \ {w} : sent'[v] = sent[v]
    BY <2>1, <2>3, SendFits
  <2>5. at'[w] = "post" /\ \A v \in Callers \ {w} : at'[v] = at[v]
    BY <2>1, SetsOff
  <2>6. log' = log
    BY <2>1 DEF Send, Begin
  <2>7. \E n : sent'[w] = PostOf(n) /\ IsResult(n, Min(page'[w]))
    BY <1>1, <1>2, <2>2, <2>4
  <2>8. PassIsRight(w)'
    BY <1>1, <2>5, <2>6, <2>7, PassBecomes DEF PassIsRight
  <2>. QED BY <1>1, <2>4, <2>5, <2>8 DEF GoodStep, Others, PassInv, PassFunctions
<1>4. CASE Saved(Board, i) # {}
  <2>1. Send(w, AcknowledgeOf(i)) /\ To(w, "acknowledge")
    BY <1>2, <1>4 DEF Take
  <2>2. Results(Board, i) # {}
    BY <1>1, <1>4, SavedIsAResult
  <2>. QED BY <1>1, <1>2, <2>1, <2>2, AcknowledgesWell
<1>. QED BY <1>3, <1>4

LEMMA PostedIsGood ==
  ASSUME BoardInv, PassInv, NEW w \in Callers, Posted(w), program' = program
  PROVE  GoodStep(w)
<1>1. /\ PassIsRight(w) /\ CallerIsRight(w) /\ at[w] = "post" /\ exchange[w] = "OK"
      /\ BoardIsRight(Board) /\ UNCHANGED <<cursor, page, hasMore>>
      /\ Send(w, AcknowledgeOf(Min(page[w]))) /\ To(w, "acknowledge")
  BY DEF PassInv, BoardInv, LogIsRight, Posted
<1>2. PICK m : sent[w] = PostOf(m) /\ IsResult(m, Min(page[w])) /\ page[w] # {}
  BY <1>1 DEF PassIsRight
<1>3. IsOn(Board, PostOf(m))
  BY <1>1, <1>2 DEF CallerIsRight
<1>4. Results(Board, Min(page[w])) # {}
  BY <1>1, <1>2, <1>3, PostedResult
<1>. QED BY <1>1, <1>2, <1>4, AcknowledgesWell

LEMMA ReadBackIsGood ==
  ASSUME BoardInv, PassInv, NEW w \in Callers, ReadBack(w), program' = program
  PROVE  GoodStep(w)
<1>1. /\ PassIsRight(w) /\ at[w] = "post" /\ BoardFits(Board)
      /\ Saved(Board, Min(page[w])) # {} /\ UNCHANGED <<cursor, page, hasMore>>
      /\ Send(w, AcknowledgeOf(Min(page[w]))) /\ To(w, "acknowledge")
  BY DEF PassInv, AllFit, ReadBack
<1>2. page[w] # {} /\ Results(Board, Min(page[w])) # {}
  BY <1>1, SavedIsAResult DEF PassIsRight
<1>. QED BY <1>1, <1>2, AcknowledgesWell

LEMMA AcknowledgedIsGood ==
  ASSUME BoardInv, PassInv, NEW w \in Callers, Acknowledged(w), program' = program
  PROVE  GoodStep(w)
<1>1. /\ PassIsRight(w) /\ CallerIsRight(w) /\ BoardIsRight(Board)
      /\ at[w] = "acknowledge" /\ exchange[w] = "OK" /\ Hang(w) /\ log' = log
      /\ cursor' = cursor /\ hasMore' = hasMore
      /\ page' = [page EXCEPT ![w] = @ \ {Min(@)}]
  BY DEF PassInv, BoardInv, LogIsRight, Acknowledged, Hang, server
<1>2. OnlyFitting /\ \A v \in Callers \ {w} : sent'[v] = sent[v]
  BY <1>1, HangFits
<1>3. at'[w] = "page" /\ \A v \in Callers \ {w} : at'[v] = at[v]
  BY SetsOff DEF Acknowledged
<1>4. PICK i : i = Min(page[w])
  OBVIOUS
<1>5. i \in Receipts(Board)
  <2>1. IsOn(Board, AcknowledgeOf(i))
    BY <1>1, <1>4 DEF PassIsRight, CallerIsRight
  <2>. QED BY <1>1, <2>1, AcknowledgedRequest
<1>6. /\ page'[w] = page[w] \ {i} /\ \A v \in Callers \ {w} : page'[v] = page[v]
      /\ PassFunctions'
  BY <1>1, <1>4 DEF PassInv, PassFunctions
<1>7. \A j : Behind(Board, j, cursor'[w]) => j \in Receipts(Board) \cup page'[w]
  BY <1>1, <1>5, <1>6 DEF PassIsRight
<1>8. PassIsRight(w)'
  BY <1>1, <1>3, <1>6, <1>7, PassBecomes DEF PassIsRight
<1>. QED BY <1>1, <1>2, <1>3, <1>6, <1>8 DEF GoodStep, Others

LEMMA NextPageIsGood ==
  ASSUME BoardInv, PassInv, NEW w \in Callers, NextPage(w), program' = program
  PROVE  GoodStep(w)
<1>1. PassIsRight(w) /\ page[w] = {} /\ at[w] = "page" /\ UNCHANGED <<cursor, page, hasMore>>
  BY DEF PassInv, NextPage
<1>2. OnlyFitting /\ sent' = sent /\ log' = log
  BY QuietStep DEF NextPage
<1>3. at'[w] = "scan" /\ \A v \in Callers \ {w} : at'[v] = at[v]
  BY SetsOff DEF NextPage
<1>4. PassIsRight(w)'
  BY <1>1, <1>2, <1>3, PassBecomes DEF PassIsRight
<1>. QED BY <1>1, <1>2, <1>3, <1>4 DEF GoodStep, Others, PassInv, PassFunctions

LEMMA StopIsGood ==
  ASSUME BoardInv, PassInv, NEW w \in Callers, Stop(w), program' = program
  PROVE  GoodStep(w)
<1>1. OnlyFitting /\ log' = log /\ \A v \in Callers \ {w} : sent'[v] = sent[v]
  BY HangFits DEF Stop, Hang, server
<1>2. at'[w] = "idle" /\ \A v \in Callers \ {w} : at'[v] = at[v]
  BY SetsOff DEF Stop
<1>3. /\ cursor'[w] = 0 /\ page'[w] = {} /\ PassFunctions'
      /\ \A v \in Callers \ {w} : cursor'[v] = cursor[v] /\ page'[v] = page[v]
  BY DEF Stop, PassInv, PassFunctions
<1>4. PICK n \in Nat : n = Len(Board.messages) /\ DOMAIN Board.messages = 1 .. n
  BY Appended DEF BoardInv, LogIsRight, BoardIsRight, IsBoard
<1>5. \A i : ~Behind(Board, i, 0)
  BY <1>4 DEF Behind
<1>6. 0 \in Nat /\ 0 <= Len(Board.messages)
  BY <1>4
<1>7. PassIsRight(w)'
  BY <1>1, <1>2, <1>3, <1>5, <1>6, PassBecomes
<1>. QED BY <1>1, <1>2, <1>3, <1>7 DEF GoodStep, Others

LEMMA EveryPassStepIsGood ==
  ASSUME BoardInv, PassInv, NEW w \in Callers, Pass(w), program' = program
  PROVE  GoodStep(w)
BY StartIsGood, RegisteringIsGood, ScanIsGood, TakeIsGood, PostedIsGood, ReadBackIsGood,
   AcknowledgedIsGood, NextPageIsGood, StopIsGood DEF Pass

LEMMA PassInductive ==
  ASSUME OthersActForThemselves, BoardInv, PassInv, [Next]_vars
  PROVE  PassInv'
<1>1. Move /\ PassTypes' /\ program' = program
  BY EveryStepIsAMove, PassTypesInductive DEF PassInv, Next, vars
<1>2. CASE Transport /\ UNCHANGED pass
  <2>1. OnlyFitting /\ \A v \in Callers : sent'[v] = sent[v]
    BY <1>2, TransportFits DEF PassInv
  <2>2. AllFit'
    BY <1>1, <2>1, AllFitStays DEF PassInv
  <2>3. ASSUME NEW v \in Callers PROVE PassIsRight(v)'
    BY <1>1, <1>2, <2>1, PassStays DEF PassInv, pass
  <2>. QED BY <1>1, <1>2, <2>2, <2>3 DEF PassInv, PassFunctions, pass
<1>3. ASSUME NEW w \in Callers, Pass(w) PROVE PassInv'
  <2>1. GoodStep(w)
    BY <1>1, <1>3, EveryPassStepIsGood
  <2>2. AllFit'
    BY <1>1, <2>1, AllFitStays DEF PassInv, GoodStep
  <2>3. ASSUME NEW v \in Callers PROVE PassIsRight(v)'
    <3>1. CASE v = w
      BY <2>1, <3>1 DEF GoodStep
    <3>2. CASE v # w
      BY <1>1, <2>1, <3>2, PassStays DEF PassInv, GoodStep, Others
    <3>. QED BY <3>1, <3>2
  <2>. QED BY <1>1, <2>1, <2>2, <2>3 DEF PassInv, GoodStep
<1>4. CASE UNCHANGED vars
  <2>1. UNCHANGED board /\ UNCHANGED pass
    BY <1>4 DEF vars
  <2>2. OnlyFitting /\ sent' = sent
    BY <2>1, QuietStep
  <2>3. AllFit'
    BY <1>1, <2>2, AllFitStays DEF PassInv
  <2>4. ASSUME NEW v \in Callers PROVE PassIsRight(v)'
    BY <1>1, <2>1, <2>2, PassStays DEF PassInv, pass
  <2>. QED BY <1>1, <2>1, <2>3, <2>4 DEF PassInv, PassFunctions, pass
<1>. QED BY <1>2, <1>3, <1>4 DEF Next

LEMMA PassInitial ==
  ASSUME Init
  PROVE  PassInv
<1>1. BoardInit /\ BoardInv
  BY BoardInitial DEF Init
<1>2. Board = Empty
  BY <1>1, ReplayBegins DEF BoardInit, Board
<1>3. Empty.messages = << >> /\ Empty.receipts = {} /\ DOMAIN << >> = {} /\ Len(<< >>) = 0
  BY DEF Empty
<1>4. AllFit
  BY <1>1, <1>2, <1>3 DEF BoardInit, AllFit, BoardFits
<1>5. ASSUME NEW w \in Callers PROVE PassIsRight(w)
  <2>1. at[w] = "idle" /\ cursor[w] = 0 /\ page[w] = {}
    BY DEF Init
  <2>2. \A i : ~Behind(Board, i, cursor[w])
    BY <1>2, <1>3 DEF Behind
  <2>. QED BY <1>2, <1>3, <2>1, <2>2 DEF PassIsRight
<1>. QED BY <1>4, <1>5 DEF Init, PassInv, PassTypes, PassFunctions, Steps

LEMMA PassesAreRight ==
  ASSUME OthersActForThemselves
  PROVE  Spec => [](BoardInv /\ PassInv)
<1>1. Init => BoardInv /\ PassInv
  BY BoardInitial, PassInitial
<1>2. BoardInv /\ PassInv /\ [Next]_vars => BoardInv' /\ PassInv'
  BY BoardInductive, PassInductive
<1>. QED BY <1>1, <1>2, PTL DEF Spec

\* Of however many passes at once, stopped and repeated, one made the result of
\* a request that has the reviewer's receipt.
THEOREM ReceiptsStandForOneResult ==
  ASSUME OthersActForThemselves
  PROVE  Spec => []ReceiptFollowsOneResult
<1>1. BoardInv /\ PassInv => ReceiptFollowsOneResult
  <2>. SUFFICES ASSUME BoardInv, PassInv, NEW i \in Receipts(Board)
                PROVE  Cardinality(Results(Board, i)) = 1
    BY DEF ReceiptFollowsOneResult
  <2>1. BoardIsRight(Board) /\ BoardFits(Board)
    BY DEF BoardInv, LogIsRight, PassInv, AllFit
  <2>2. PICK j : j \in Results(Board, i)
    BY <2>1 DEF Receipts, BoardFits
  <2>3. ASSUME NEW k \in Results(Board, i) PROVE k = j
    <3>1. /\ j \in DOMAIN Board.messages /\ k \in DOMAIN Board.messages
          /\ IsResult(Board.messages[j], i) /\ IsResult(Board.messages[k], i)
      BY <2>1, <2>2 DEF Results, BoardFits
    <3>2. SamePost(Board.messages[k], Board.messages[j])
      BY <3>1 DEF SamePost, IsResult
    <3>. QED BY <2>1, <3>1, <3>2 DEF BoardIsRight
  <2>4. Results(Board, i) = {j}
    BY <2>2, <2>3
  <2>. QED BY <2>4, FS_Singleton
<1>. QED BY <1>1, PassesAreRight, PTL

\* No request is left behind a pass, however the board grows between its pages.
THEOREM ScansMissNothing ==
  ASSUME OthersActForThemselves
  PROVE  Spec => []ScanMissesNothing
<1>1. BoardInv /\ PassInv => ScanMissesNothing
  BY DEF PassInv, PassIsRight, Behind, ScanMissesNothing
<1>. QED BY <1>1, PassesAreRight, PTL
=============================================================================
