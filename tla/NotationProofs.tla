--------------------------- MODULE NotationProofs ---------------------------
(***************************************************************************)
(* The two halves of the native notations: the kernel that replays the     *)
(* commands of a session, and the repository that keeps their batches.     *)
(***************************************************************************)
EXTENDS StateKernel, MCNotationStore, FiniteSetTheorems, SequenceTheorems,
        NaturalsInduction, WellFoundedInduction, TLAPS

-----------------------------------------------------------------------------
(***************************************************************************)
(* For every set of identifiers, every text and every limit: the kernel's  *)
(* type correctness, that its validation can never fail, that an           *)
(* identifier is created once, and that it implements LinearHistory.       *)
(*                                                                         *)
(* The argument is about the linear history Hist and a cursor in it.  An   *)
(* undo and a redo leave Hist as it is and move the cursor, an edit cuts   *)
(* Hist at the cursor and appends one change.  WellFormed says what every  *)
(* change of a history owes to the ones before it, Matches that the maps   *)
(* are what the changes before the cursor made them.                       *)
(***************************************************************************)

\* The identifiers of map m created among the first n changes of h.
CreatedAt(h, n, m) ==
  {id \in Ids : \E i \in 1 .. n : /\ h[i].map = m
                                  /\ h[i].before = Absent
                                  /\ h[i].id = id}

\* A change against the history before it, at position n + 1.
Follows(h, n, c) ==
  /\ c.before # Absent => c.id \in CreatedAt(h, n, "notation")
  /\ c.map = "relation" =>
       /\ c.after.from # c.after.to
       /\ {c.after.from, c.after.to} \subseteq CreatedAt(h, n, "notation")

WellFormed(h, used) ==
  /\ \A i \in 1 .. Len(h) : Follows(h, i - 1, h[i])
  /\ \A i \in 1 .. Len(h) : h[i].before = Absent => h[i].id \in used
  /\ \A i, j \in 1 .. Len(h) :
       h[i].before = Absent /\ h[j].before = Absent /\ h[i].id = h[j].id => i = j
  /\ IsFiniteSet(CreatedAt(h, Len(h), "notation"))
  /\ IsFiniteSet(CreatedAt(h, Len(h), "relation"))
  /\ Cardinality(CreatedAt(h, Len(h), "notation")) <= MAX_NOTATIONS
  /\ Cardinality(CreatedAt(h, Len(h), "relation")) <= MAX_RELATIONS

\* The two maps are those of a replay of the first n changes of h, as far as
\* validation looks: their identifiers, and the ends of the relations.
Matches(h, n, notes, rels) ==
  /\ notes \in [Ids -> Texts \cup {Absent}]
  /\ rels \in [Ids -> Links \cup {Absent}]
  /\ Keys(notes) = CreatedAt(h, n, "notation")
  /\ Keys(rels) = CreatedAt(h, n, "relation")
  /\ \A i \in 1 .. n : h[i].map = "relation" => rels[h[i].id] = h[i].after

KernelInv ==
  /\ KernelTypeOK
  /\ WellFormed(Hist, usedObjects)
  /\ Matches(Hist, Len(undo), notations, relations)
  /\ NoInternalError

-----------------------------------------------------------------------------
(***************************************************************************)
(* Facts about histories.                                                  *)
(***************************************************************************)

\* A change is on one of the two maps, with the fields of that map; a change
\* of the relation map is always a creation.
LEMMA ChangeShape ==
  ASSUME NEW c \in Change
  PROVE  /\ c.map \in {"notation", "relation"} /\ c.id \in Ids
         /\ c.map = "notation" => /\ c.before \in Texts \cup {Absent}
                                  /\ c.after \in Texts
         /\ c.map = "relation" => c.before = Absent /\ c.after \in Links
         /\ c.after # Absent
BY AbsentIsNoValue DEF Change

\* Appending c behind the first n changes of h, as an edit does.
LEMMA Extension ==
  ASSUME NEW h \in Seq(Change), NEW n \in 0 .. Len(h), NEW c \in Change,
         NEW g, g = Append(SubSeq(h, 1, n), c)
  PROVE  /\ g \in Seq(Change) /\ Len(g) = n + 1
         /\ \A i \in 1 .. n : g[i] = h[i]
         /\ g[n + 1] = c
<1>. DEFINE s == SubSeq(h, 1, n)
<1>1. /\ s \in Seq(Change) /\ Len(s) = n
      /\ \A i \in 1 .. n : s[i] = h[i]
  <2>1. \A i \in 1 .. n : h[i] \in Change
    BY ElementOfSeq
  <2>2. CASE n = 0
    BY <2>2, SubSeqEmpty
  <2>3. CASE n # 0
    BY <2>1, <2>3, SubSeqProperties
  <2>. QED BY <2>2, <2>3
<1>. HIDE DEF s
<1>2. g = Append(s, c)
  BY DEF s
<1>. QED BY <1>1, <1>2

\* One more change adds its identifier when it is a creation.
LEMMA CreatedStep ==
  ASSUME NEW h, NEW n \in Nat, NEW m, h[n + 1].id \in Ids
  PROVE  CreatedAt(h, n + 1, m) =
           IF h[n + 1].map = m /\ h[n + 1].before = Absent
           THEN CreatedAt(h, n, m) \cup {h[n + 1].id}
           ELSE CreatedAt(h, n, m)
BY DEF CreatedAt

\* validate() accepts the maps of any prefix of a well-formed history.
LEMMA MatchedIsValid ==
  ASSUME NEW h \in Seq(Change), NEW n \in 0 .. Len(h), NEW used,
         NEW notes, NEW rels,
         WellFormed(h, used), Matches(h, n, notes, rels)
  PROVE  Valid(notes, rels)
<1>0. Len(h) \in Nat /\ \A i \in 1 .. Len(h) : h[i] \in Change
  BY LenProperties, ElementOfSeq
<1>1. /\ CreatedAt(h, n, "notation") \subseteq CreatedAt(h, Len(h), "notation")
      /\ CreatedAt(h, n, "relation") \subseteq CreatedAt(h, Len(h), "relation")
  BY <1>0 DEF CreatedAt
<1>2. /\ Cardinality(Keys(notes)) <= Cardinality(CreatedAt(h, Len(h), "notation"))
      /\ Cardinality(Keys(notes)) \in Nat
  BY <1>1, FS_Subset, FS_CardinalityType DEF WellFormed, Matches
<1>3. /\ Cardinality(Keys(rels)) <= Cardinality(CreatedAt(h, Len(h), "relation"))
      /\ Cardinality(Keys(rels)) \in Nat
  BY <1>1, FS_Subset, FS_CardinalityType DEF WellFormed, Matches
<1>4. /\ Cardinality(CreatedAt(h, Len(h), "notation")) \in Nat
      /\ Cardinality(CreatedAt(h, Len(h), "relation")) \in Nat
  BY FS_CardinalityType DEF WellFormed
<1>5. Cardinality(Keys(notes)) <= MAX_NOTATIONS /\ Cardinality(Keys(rels)) <= MAX_RELATIONS
  BY <1>2, <1>3, <1>4, LimitsAreNatural DEF WellFormed
<1>6. ASSUME NEW id \in Keys(rels)
      PROVE  /\ rels[id].from # rels[id].to
             /\ {rels[id].from, rels[id].to} \subseteq Keys(notes)
             /\ id \notin Keys(notes)
  <2>1. PICK i \in 1 .. n : h[i].map = "relation" /\ h[i].before = Absent /\ h[i].id = id
    BY <1>6 DEF Matches, CreatedAt
  <2>2. rels[id] = h[i].after
    BY <2>1 DEF Matches
  <2>3. Follows(h, i - 1, h[i])
    BY <1>0 DEF WellFormed
  <2>4. CreatedAt(h, i - 1, "notation") \subseteq CreatedAt(h, n, "notation")
    BY <1>0 DEF CreatedAt
  <2>5. id \notin CreatedAt(h, n, "notation")
    <3>1. SUFFICES ASSUME NEW j \in 1 .. n, h[j].map = "notation",
                          h[j].before = Absent, h[j].id = id
                   PROVE  FALSE
      BY DEF CreatedAt
    <3>2. i = j
      BY <1>0, <2>1, <3>1 DEF WellFormed
    <3>. QED BY <2>1, <3>1, <3>2
  <2>. QED BY <2>1, <2>2, <2>3, <2>4, <2>5 DEF Follows, Matches
<1>. QED BY <1>5, <1>6 DEF Valid

\* Applying the change behind the cursor forward moves the match forward.
LEMMA ForwardMatches ==
  ASSUME NEW h \in Seq(Change), NEW n \in Nat, n < Len(h), NEW used,
         WellFormed(h, used),
         Matches(h, n, notations, relations),
         Forward(h[n + 1])
  PROVE  Matches(h, n + 1, notations', relations')
<1>. DEFINE c == h[n + 1]
<1>0. /\ Len(h) \in Nat /\ \A i \in 1 .. Len(h) : h[i] \in Change
      /\ n + 1 \in 1 .. Len(h) /\ (n + 1) - 1 = n
  BY LenProperties, ElementOfSeq
<1>1. c \in Change /\ Follows(h, n, c)
  BY <1>0 DEF WellFormed
<1>. HIDE DEF c
<1>2. /\ CreatedAt(h, n + 1, "notation") =
           IF c.map = "notation" /\ c.before = Absent
           THEN CreatedAt(h, n, "notation") \cup {c.id}
           ELSE CreatedAt(h, n, "notation")
      /\ CreatedAt(h, n + 1, "relation") =
           IF c.map = "relation" /\ c.before = Absent
           THEN CreatedAt(h, n, "relation") \cup {c.id}
           ELSE CreatedAt(h, n, "relation")
  BY <1>1, CreatedStep, ChangeShape DEF c
<1>3. /\ notations' = IF c.map = "notation"
                      THEN [notations EXCEPT ![c.id] = c.after] ELSE notations
      /\ relations' = IF c.map = "relation"
                      THEN [relations EXCEPT ![c.id] = c.after] ELSE relations
  BY DEF Forward, Write, c
<1>4. /\ notations' \in [Ids -> Texts \cup {Absent}]
      /\ relations' \in [Ids -> Links \cup {Absent}]
  BY <1>1, <1>3, ChangeShape DEF Matches
<1>5. Keys(notations') = CreatedAt(h, n + 1, "notation")
  BY <1>1, <1>2, <1>3, ChangeShape DEF Matches, Keys, Follows
<1>6. Keys(relations') = CreatedAt(h, n + 1, "relation")
  BY <1>1, <1>2, <1>3, ChangeShape DEF Matches, Keys, Follows
<1>7. ASSUME NEW i \in 1 .. n + 1, h[i].map = "relation"
      PROVE  relations'[h[i].id] = h[i].after
  <2>1. CASE i = n + 1
    BY <1>1, <1>3, <1>7, <2>1, ChangeShape DEF Matches, c
  <2>2. CASE i # n + 1
    <3>1. i \in 1 .. n /\ i \in 1 .. Len(h) /\ h[i] \in Change
      BY <1>0, <2>2
    <3>2. relations[h[i].id] = h[i].after /\ h[i].before = Absent
      BY <1>7, <3>1, ChangeShape DEF Matches
    <3>3. c.map = "relation" => c.id # h[i].id
      BY <1>0, <1>1, <3>1, <3>2, ChangeShape DEF WellFormed, c
    <3>. QED BY <1>1, <1>3, <3>1, <3>2, <3>3, ChangeShape DEF Matches
  <2>. QED BY <2>1, <2>2
<1>. QED BY <1>4, <1>5, <1>6, <1>7 DEF Matches

\* Applying the change before the cursor backward moves the match back.
LEMMA BackwardMatches ==
  ASSUME NEW h \in Seq(Change), NEW n \in Nat, n < Len(h), NEW used,
         WellFormed(h, used),
         Matches(h, n + 1, notations, relations),
         Backward(h[n + 1])
  PROVE  Matches(h, n, notations', relations')
<1>. DEFINE c == h[n + 1]
<1>0. /\ Len(h) \in Nat /\ \A i \in 1 .. Len(h) : h[i] \in Change
      /\ n + 1 \in 1 .. Len(h) /\ (n + 1) - 1 = n
  BY LenProperties, ElementOfSeq
<1>1. c \in Change /\ Follows(h, n, c)
  BY <1>0 DEF WellFormed
<1>1a. ASSUME NEW i \in 1 .. n, h[i].before = Absent, c.before = Absent
       PROVE  h[i].id # c.id
  BY <1>0, <1>1a DEF WellFormed
<1>1b. c.before = Absent => /\ c.id \notin CreatedAt(h, n, "notation")
                            /\ c.id \notin CreatedAt(h, n, "relation")
  BY <1>1a DEF CreatedAt
<1>. HIDE DEF c
<1>2. /\ CreatedAt(h, n + 1, "notation") =
           IF c.map = "notation" /\ c.before = Absent
           THEN CreatedAt(h, n, "notation") \cup {c.id}
           ELSE CreatedAt(h, n, "notation")
      /\ CreatedAt(h, n + 1, "relation") =
           IF c.map = "relation" /\ c.before = Absent
           THEN CreatedAt(h, n, "relation") \cup {c.id}
           ELSE CreatedAt(h, n, "relation")
  BY <1>1, CreatedStep, ChangeShape DEF c
<1>3. /\ notations' = IF c.map = "notation"
                      THEN [notations EXCEPT ![c.id] = c.before] ELSE notations
      /\ relations' = IF c.map = "relation"
                      THEN [relations EXCEPT ![c.id] = c.before] ELSE relations
  BY DEF Backward, Write, c
<1>4. /\ notations' \in [Ids -> Texts \cup {Absent}]
      /\ relations' \in [Ids -> Links \cup {Absent}]
  BY <1>1, <1>3, ChangeShape DEF Matches
<1>5. Keys(notations') = CreatedAt(h, n, "notation")
  BY <1>1, <1>1b, <1>2, <1>3, ChangeShape DEF Matches, Keys, Follows
<1>6. Keys(relations') = CreatedAt(h, n, "relation")
  BY <1>1, <1>1b, <1>2, <1>3, ChangeShape DEF Matches, Keys
<1>7. ASSUME NEW i \in 1 .. n, h[i].map = "relation"
      PROVE  relations'[h[i].id] = h[i].after
  <2>1. /\ h[i] \in Change /\ h[i].before = Absent
        /\ relations[h[i].id] = h[i].after
    BY <1>0, <1>7, ChangeShape DEF Matches
  <2>2. c.map = "relation" => c.id # h[i].id
    BY <1>1, <1>1a, <2>1, ChangeShape
  <2>. QED BY <1>1, <1>3, <2>1, <2>2, ChangeShape DEF Matches
<1>. QED BY <1>4, <1>5, <1>6, <1>7 DEF Matches

LEMMA AddOne ==
  ASSUME NEW S, NEW x, IsFiniteSet(S), Cardinality(S) \in Nat
  PROVE  /\ IsFiniteSet(S \cup {x})
         /\ Cardinality(S \cup {x}) <= Cardinality(S) + 1
BY FS_AddElement

\* The history an edit leaves is well formed when the change it appends
\* follows from the changes it keeps and its identifier, if it creates, is new.
LEMMA EditWellFormed ==
  ASSUME NEW h \in Seq(Change), NEW n \in 0 .. Len(h), NEW c \in Change,
         NEW g, g = Append(SubSeq(h, 1, n), c),
         NEW used, NEW used2, used \subseteq used2,
         WellFormed(h, used), Follows(h, n, c),
         c.before = Absent => c.id \in used2 \ used,
         c.before = Absent /\ c.map = "notation" =>
           Cardinality(CreatedAt(h, n, "notation")) < MAX_NOTATIONS,
         c.before = Absent /\ c.map = "relation" =>
           Cardinality(CreatedAt(h, n, "relation")) < MAX_RELATIONS
  PROVE  WellFormed(g, used2)
<1>0. /\ Len(h) \in Nat /\ n \in Nat /\ n <= Len(h)
      /\ \A i \in 1 .. Len(h) : h[i] \in Change
  BY LenProperties, ElementOfSeq
<1>1. /\ g \in Seq(Change) /\ Len(g) = n + 1
      /\ \A i \in 1 .. n : g[i] = h[i]
      /\ g[n + 1] = c
  BY Extension
<1>2. \A k \in 0 .. n, m \in {"notation", "relation"} :
         CreatedAt(g, k, m) = CreatedAt(h, k, m)
  BY <1>0, <1>1 DEF CreatedAt
<1>3. \A i \in 1 .. Len(g) : Follows(g, i - 1, g[i])
  <2>1. SUFFICES ASSUME NEW i \in 1 .. n + 1 PROVE Follows(g, i - 1, g[i])
    BY <1>1
  <2>2. CASE i = n + 1
    BY <1>0, <1>1, <1>2, <2>2 DEF Follows
  <2>3. CASE i \in 1 .. n
    <3>1. Follows(h, i - 1, h[i])
      BY <1>0, <2>3 DEF WellFormed
    <3>. QED BY <1>0, <1>1, <1>2, <2>3, <3>1 DEF Follows
  <2>. QED BY <1>0, <2>2, <2>3
<1>4. \A i \in 1 .. Len(g) : g[i].before = Absent => g[i].id \in used2
  BY <1>0, <1>1 DEF WellFormed
<1>5. \A i, j \in 1 .. Len(g) :
        g[i].before = Absent /\ g[j].before = Absent /\ g[i].id = g[j].id => i = j
  BY <1>0, <1>1 DEF WellFormed
<1>6. ASSUME NEW m \in {"notation", "relation"}, NEW limit \in Nat,
             IsFiniteSet(CreatedAt(h, Len(h), m)),
             Cardinality(CreatedAt(h, Len(h), m)) <= limit,
             c.before = Absent /\ c.map = m => Cardinality(CreatedAt(h, n, m)) < limit
      PROVE  /\ IsFiniteSet(CreatedAt(g, Len(g), m))
             /\ Cardinality(CreatedAt(g, Len(g), m)) <= limit
  <2>1. CreatedAt(h, n, m) \subseteq CreatedAt(h, Len(h), m)
    BY <1>0 DEF CreatedAt
  <2>2. /\ IsFiniteSet(CreatedAt(h, n, m))
        /\ Cardinality(CreatedAt(h, n, m)) \in Nat
        /\ Cardinality(CreatedAt(h, n, m)) <= limit
    BY <1>6, <2>1, FS_Subset, FS_CardinalityType
  <2>3. CreatedAt(g, n + 1, m) =
          IF c.map = m /\ c.before = Absent
          THEN CreatedAt(h, n, m) \cup {c.id} ELSE CreatedAt(h, n, m)
    <3>1. CreatedAt(g, n, m) = CreatedAt(h, n, m)
      BY <1>0, <1>2
    <3>2. g[n + 1].id \in Ids
      BY <1>1, ChangeShape
    <3>3. CreatedAt(g, n + 1, m) =
            IF g[n + 1].map = m /\ g[n + 1].before = Absent
            THEN CreatedAt(g, n, m) \cup {g[n + 1].id} ELSE CreatedAt(g, n, m)
      BY <1>0, <3>2, CreatedStep
    <3>. QED BY <1>1, <3>1, <3>3
  <2>4. /\ IsFiniteSet(CreatedAt(h, n, m) \cup {c.id})
        /\ Cardinality(CreatedAt(h, n, m) \cup {c.id}) <=
             Cardinality(CreatedAt(h, n, m)) + 1
    BY <2>2, AddOne
  <2>5. Cardinality(CreatedAt(h, n, m) \cup {c.id}) \in Nat
    BY <2>4, FS_CardinalityType
  <2>. QED BY <1>1, <1>6, <2>2, <2>3, <2>4, <2>5
<1>. QED BY <1>3, <1>4, <1>5, <1>6, LimitsAreNatural DEF WellFormed


-----------------------------------------------------------------------------
(***************************************************************************)
(* The history under the operations.                                       *)
(***************************************************************************)

LEMMA HistType ==
  ASSUME KernelTypeOK
  PROVE  /\ Hist \in Seq(Change) /\ Len(Hist) = Len(undo) + Len(redo)
         /\ Len(undo) \in 0 .. Len(Hist)
         /\ DOMAIN Hist = 1 .. Len(Hist)
<1>0. /\ undo \in Seq(Change) /\ redo \in Seq(Change)
      /\ Len(undo) \in Nat /\ Len(redo) \in Nat
  BY LenProperties DEF KernelTypeOK
<1>1. \A i \in 1 .. Len(undo) + Len(redo) :
        (IF i <= Len(undo) THEN undo[i]
         ELSE redo[Len(undo) + Len(redo) + 1 - i]) \in Change
  BY <1>0, ElementOfSeq
<1>2. Hist \in [1 .. Len(undo) + Len(redo) -> Change]
  BY <1>1 DEF Hist
<1>. QED BY <1>0, <1>2

LEMMA PopProperties ==
  ASSUME NEW s \in Seq(Change), s # <<>>
  PROVE  /\ Len(s) \in Nat \ {0} /\ Top(s) \in Change
         /\ Pop(s) \in Seq(Change) /\ Len(Pop(s)) = Len(s) - 1
         /\ \A i \in 1 .. Len(s) - 1 : Pop(s)[i] = s[i]
<1>1. Len(s) \in Nat \ {0}
  BY EmptySeq
<1>2. \A i \in 1 .. Len(s) : s[i] \in Change
  BY ElementOfSeq
<1>3. CASE Len(s) = 1
  BY <1>1, <1>2, <1>3, SubSeqEmpty DEF Pop, Top
<1>4. CASE Len(s) > 1
  BY <1>1, <1>2, <1>4, SubSeqProperties DEF Pop, Top
<1>5. Len(s) = 1 \/ Len(s) > 1
  <2>1. \A k \in Nat \ {0} : k = 1 \/ k > 1
    OBVIOUS
  <2>. QED BY <1>1, <2>1
<1>. QED BY <1>1, <1>3, <1>4, <1>5, Zenon

\* An undo and a redo leave the history as it is.
LEMMA UndoKeepsHist ==
  ASSUME KernelTypeOK, undo # <<>>, undo' = Pop(undo), redo' = Append(redo, Top(undo))
  PROVE  /\ Hist' = Hist /\ Len(undo') = Len(undo) - 1
         /\ Len(undo) \in Nat \ {0} /\ Top(undo) = Hist[Len(undo)]
         /\ undo' \in Seq(Change) /\ redo' \in Seq(Change)
<1>0. /\ undo \in Seq(Change) /\ redo \in Seq(Change)
      /\ Len(undo) \in Nat \ {0} /\ Len(redo) \in Nat
      /\ undo[Len(undo)] \in Change
  BY LenProperties, EmptySeq, ElementOfSeq DEF KernelTypeOK
<1>1. /\ undo' \in Seq(Change) /\ Len(undo') = Len(undo) - 1
      /\ \A i \in 1 .. Len(undo) - 1 : undo'[i] = undo[i]
  BY <1>0, PopProperties
<1>2. /\ redo' \in Seq(Change) /\ Len(redo') = Len(redo) + 1
      /\ \A i \in 1 .. Len(redo) : redo'[i] = redo[i]
      /\ redo'[Len(redo) + 1] = undo[Len(undo)]
  BY <1>0 DEF Top
<1>3. Hist' = Hist
  <2>1. Len(undo') + Len(redo') = Len(undo) + Len(redo)
    BY <1>0, <1>1, <1>2
  <2>2. ASSUME NEW i \in 1 .. Len(undo) + Len(redo)
        PROVE  (IF i <= Len(undo') THEN undo'[i]
                ELSE redo'[Len(undo') + Len(redo') + 1 - i])
               = (IF i <= Len(undo) THEN undo[i]
                  ELSE redo[Len(undo) + Len(redo) + 1 - i])
    <3>1. CASE i < Len(undo)
      BY <1>0, <1>1, <3>1
    <3>2. CASE i = Len(undo)
      <4>1. /\ ~(i <= Len(undo')) /\ i <= Len(undo)
            /\ Len(undo') + Len(redo') + 1 - i = Len(redo) + 1
        BY <1>0, <1>1, <1>2, <3>2
      <4>. QED BY <1>2, <3>2, <4>1
    <3>3. CASE i > Len(undo)
      <4>1. /\ ~(i <= Len(undo')) /\ ~(i <= Len(undo))
            /\ Len(undo') + Len(redo') + 1 - i = Len(undo) + Len(redo) + 1 - i
            /\ Len(undo) + Len(redo) + 1 - i \in 1 .. Len(redo)
        BY <1>0, <1>1, <1>2, <3>3
      <4>. QED BY <1>2, <4>1
    <3>4. i \in Nat
      BY <1>0
    <3>5. \A k \in Nat : i < k \/ i = k \/ i > k
      BY <3>4
    <3>. QED BY <1>0, <3>1, <3>2, <3>3, <3>5
  <2>. QED BY <2>1, <2>2 DEF Hist
<1>4. Top(undo) = Hist[Len(undo)]
  <2>1. Len(undo) \in 1 .. Len(undo) + Len(redo)
    BY <1>0
  <2>. QED BY <2>1 DEF Top, Hist
<1>. QED BY <1>0, <1>1, <1>2, <1>3, <1>4

LEMMA RedoKeepsHist ==
  ASSUME KernelTypeOK, redo # <<>>, redo' = Pop(redo), undo' = Append(undo, Top(redo))
  PROVE  /\ Hist' = Hist /\ Len(undo') = Len(undo) + 1
         /\ Len(undo) \in Nat /\ Len(undo) < Len(Hist)
         /\ Top(redo) = Hist[Len(undo) + 1]
         /\ undo' \in Seq(Change) /\ redo' \in Seq(Change)
<1>0. /\ undo \in Seq(Change) /\ redo \in Seq(Change)
      /\ Len(undo) \in Nat /\ Len(redo) \in Nat \ {0}
      /\ redo[Len(redo)] \in Change
  BY LenProperties, EmptySeq, ElementOfSeq DEF KernelTypeOK
<1>1. /\ redo' \in Seq(Change) /\ Len(redo') = Len(redo) - 1
      /\ \A i \in 1 .. Len(redo) - 1 : redo'[i] = redo[i]
  BY <1>0, PopProperties
<1>2. /\ undo' \in Seq(Change) /\ Len(undo') = Len(undo) + 1
      /\ \A i \in 1 .. Len(undo) : undo'[i] = undo[i]
      /\ undo'[Len(undo) + 1] = redo[Len(redo)]
  BY <1>0 DEF Top
<1>3. Hist' = Hist
  <2>1. Len(undo') + Len(redo') = Len(undo) + Len(redo)
    BY <1>0, <1>1, <1>2
  <2>2. ASSUME NEW i \in 1 .. Len(undo) + Len(redo)
        PROVE  (IF i <= Len(undo') THEN undo'[i]
                ELSE redo'[Len(undo') + Len(redo') + 1 - i])
               = (IF i <= Len(undo) THEN undo[i]
                  ELSE redo[Len(undo) + Len(redo) + 1 - i])
    <3>1. CASE i <= Len(undo)
      BY <1>0, <1>1, <1>2, <3>1
    <3>2. CASE i = Len(undo) + 1
      <4>1. /\ i <= Len(undo') /\ ~(i <= Len(undo))
            /\ Len(undo) + Len(redo) + 1 - i = Len(redo)
        BY <1>0, <1>1, <1>2, <3>2
      <4>. QED BY <1>2, <3>2, <4>1
    <3>3. CASE i > Len(undo) + 1
      <4>1. /\ ~(i <= Len(undo')) /\ ~(i <= Len(undo))
            /\ Len(undo') + Len(redo') + 1 - i = Len(undo) + Len(redo) + 1 - i
            /\ Len(undo) + Len(redo) + 1 - i \in 1 .. Len(redo) - 1
        BY <1>0, <1>1, <1>2, <3>3
      <4>. QED BY <1>1, <4>1
    <3>. QED BY <1>0, <3>1, <3>2, <3>3
  <2>. QED BY <2>1, <2>2 DEF Hist
<1>4. Len(Hist) = Len(undo) + Len(redo)
  BY HistType
<1>5. Top(redo) = Hist[Len(undo) + 1]
  <2>1. /\ Len(undo) + 1 \in 1 .. Len(undo) + Len(redo)
        /\ ~(Len(undo) + 1 <= Len(undo))
        /\ Len(undo) + Len(redo) + 1 - (Len(undo) + 1) = Len(redo)
    BY <1>0
  <2>. QED BY <2>1 DEF Top, Hist
<1>. QED BY <1>0, <1>1, <1>2, <1>3, <1>4, <1>5

\* An edit cuts the history at the cursor and appends its change.
LEMMA EditExtendsHist ==
  ASSUME KernelTypeOK, NEW c \in Change, undo' = Append(undo, c), redo' = <<>>
  PROVE  /\ Hist' = Append(SubSeq(Hist, 1, Len(undo)), c)
         /\ Len(undo') = Len(undo) + 1
         /\ undo' \in Seq(Change) /\ redo' \in Seq(Change)
<1>0. /\ undo \in Seq(Change) /\ redo \in Seq(Change)
      /\ Len(undo) \in Nat /\ Len(redo) \in Nat
  BY LenProperties DEF KernelTypeOK
<1>1. /\ undo' \in Seq(Change) /\ Len(undo') = Len(undo) + 1
      /\ \A i \in 1 .. Len(undo) : undo'[i] = undo[i]
      /\ undo'[Len(undo) + 1] = c
      /\ redo' \in Seq(Change) /\ Len(redo') = 0
  BY <1>0
<1>. DEFINE n == Len(undo)
            h == Hist
            g == Append(SubSeq(h, 1, n), c)
<1>2. h \in Seq(Change) /\ n \in 0 .. Len(h)
  BY HistType
<1>3. \A i \in 1 .. n : h[i] = undo[i]
  BY <1>0 DEF Hist
<1>. HIDE DEF h, n
<1>4. /\ g \in Seq(Change) /\ Len(g) = n + 1
      /\ \A i \in 1 .. n : g[i] = h[i]
      /\ g[n + 1] = c
  BY <1>2, Extension
<1>. HIDE DEF g
<1>5. Hist' = undo'
  <2>1. Hist' = [i \in 1 .. Len(undo') |-> undo'[i]]
    BY <1>0, <1>1 DEF Hist
  <2>2. undo' = [i \in 1 .. Len(undo') |-> undo'[i]]
    BY <1>1, LenProperties
  <2>. QED BY <2>1, <2>2
<1>6. undo' = g
  BY <1>0, <1>1, <1>3, <1>4, SeqEqual DEF n
<1>. QED BY <1>1, <1>5, <1>6 DEF g, h, n

-----------------------------------------------------------------------------
(***************************************************************************)
(* The inductive invariant.                                                *)
(***************************************************************************)

\* The end of accept(): maps that match a well-formed history pass validation.
LEMMA ValidatedStep ==
  ASSUME KernelTypeOK, result = "RUNNING", revision < MAX_COMMANDS, Validated,
         undo' \in Seq(Change), redo' \in Seq(Change),
         Hist' \in Seq(Change), Len(undo') \in 0 .. Len(Hist'),
         usedObjects' \subseteq Ids, usedCommands' \subseteq CommandIds,
         WellFormed(Hist', usedObjects'),
         Matches(Hist', Len(undo'), notations', relations')
  PROVE  KernelInv'
<1>1. Valid(notations', relations')
  BY MatchedIsValid
<1>2. revision' = revision + 1 /\ result' = "RUNNING"
  BY <1>1 DEF Validated
<1>3. KernelTypeOK'
  BY <1>2, LimitsAreNatural DEF KernelTypeOK, Matches
<1>. QED BY <1>2, <1>3 DEF KernelInv, NoInternalError

LEMMA EditStep ==
  ASSUME KernelInv, NEW cmd \in CommandIds, NextCommand(cmd), NEW c \in Change, Edit(cmd, c),
         usedObjects \subseteq usedObjects', usedObjects' \subseteq Ids,
         Follows(Hist, Len(undo), c),
         c.before = Absent => c.id \in usedObjects' \ usedObjects,
         c.before = Absent /\ c.map = "notation" =>
           Cardinality(Keys(notations)) < MAX_NOTATIONS,
         c.before = Absent /\ c.map = "relation" =>
           Cardinality(Keys(relations)) < MAX_RELATIONS
  PROVE  KernelInv'
<1>. DEFINE h == Hist
            n == Len(undo)
            g == Append(SubSeq(h, 1, n), c)
<1>0. KernelTypeOK /\ WellFormed(h, usedObjects) /\ Matches(h, n, notations, relations)
  BY DEF KernelInv
<1>1. h \in Seq(Change) /\ n \in 0 .. Len(h) /\ n \in Nat
  BY <1>0, HistType
<1>2. /\ Hist' = g /\ Len(undo') = n + 1
      /\ undo' \in Seq(Change) /\ redo' \in Seq(Change)
  BY <1>0, EditExtendsHist DEF Edit
<1>. HIDE DEF h, n
<1>3. /\ g \in Seq(Change) /\ Len(g) = n + 1
      /\ \A i \in 1 .. n : g[i] = h[i]
      /\ g[n + 1] = c
  BY <1>1, Extension
<1>4. WellFormed(g, usedObjects')
  <2>1. /\ CreatedAt(h, n, "notation") = Keys(notations)
        /\ CreatedAt(h, n, "relation") = Keys(relations)
        /\ Follows(h, n, c)
    BY <1>0 DEF Matches, h, n
  <2>. QED BY <1>0, <1>1, <2>1, EditWellFormed
<1>. HIDE DEF g
<1>5. Matches(g, n, notations, relations)
  <2>1. \A m \in {"notation", "relation"} : CreatedAt(g, n, m) = CreatedAt(h, n, m)
    BY <1>1, <1>3 DEF CreatedAt
  <2>. QED BY <1>0, <1>1, <1>3, <2>1 DEF Matches
<1>6. Matches(g, n + 1, notations', relations')
  BY <1>1, <1>3, <1>4, <1>5, ForwardMatches DEF Edit
<1>7. n + 1 \in 0 .. Len(g)
  BY <1>1, <1>3
<1>8. usedCommands' \subseteq CommandIds /\ Validated
  BY <1>0 DEF Edit, KernelTypeOK
<1>9. result = "RUNNING" /\ revision < MAX_COMMANDS
  BY DEF NextCommand
<1>. QED BY <1>0, <1>2, <1>3, <1>4, <1>6, <1>7, <1>8, <1>9, ValidatedStep

LEMMA KernelInitial == KernelInit => KernelInv
<1>1. SUFFICES ASSUME KernelInit PROVE KernelInv
  OBVIOUS
<1>2. KernelTypeOK
  BY <1>1, LimitsAreNatural DEF KernelInit, KernelTypeOK
<1>3. Hist \in Seq(Change) /\ Len(Hist) = 0 /\ Len(undo) = 0
  BY <1>1, <1>2, HistType DEF KernelInit
<1>4. \A m \in {"notation", "relation"} : CreatedAt(Hist, 0, m) = {}
  BY DEF CreatedAt
<1>5. WellFormed(Hist, usedObjects)
  <2>1. /\ CreatedAt(Hist, Len(Hist), "notation") = {}
        /\ CreatedAt(Hist, Len(Hist), "relation") = {}
    BY <1>3, <1>4
  <2>2. 1 .. Len(Hist) = {}
    BY <1>3
  <2>3. IsFiniteSet({}) /\ Cardinality({}) <= MAX_NOTATIONS
        /\ Cardinality({}) <= MAX_RELATIONS
    BY FS_EmptySet, LimitsAreNatural
  <2>. QED BY <2>1, <2>2, <2>3 DEF WellFormed
<1>6. Matches(Hist, Len(undo), notations, relations)
  BY <1>1, <1>3, <1>4 DEF KernelInit, Matches, Keys
<1>. QED BY <1>1, <1>2, <1>5, <1>6 DEF KernelInv, KernelInit, NoInternalError

\* A step that leaves the two maps, the stacks and the identifiers alone.
LEMMA OutcomeStep ==
  ASSUME KernelInv,
         UNCHANGED <<notations, relations, usedObjects, usedCommands, undo, redo,
                     revision>>,
         result' \in (Errors \cup {"RUNNING", "OK"}) \ {"INTERNAL_STATE_ERROR"}
  PROVE  KernelInv'
<1>1. Hist' = Hist
  BY DEF Hist
<1>2. KernelTypeOK'
  BY DEF KernelInv, KernelTypeOK
<1>. QED BY <1>1, <1>2 DEF KernelInv, NoInternalError

LEMMA KernelInductive == KernelInv /\ [KernelNext]_kernel => KernelInv'
<1>. SUFFICES ASSUME KernelInv, [KernelNext]_kernel PROVE KernelInv'
  OBVIOUS
<1>0. /\ KernelTypeOK /\ WellFormed(Hist, usedObjects)
      /\ Matches(Hist, Len(undo), notations, relations)
      /\ Hist \in Seq(Change) /\ Len(undo) \in Nat
      /\ Len(undo) \in 0 .. Len(Hist)
  BY HistType DEF KernelInv
<1>1. ASSUME NEW cmd \in CommandIds, NEW id \in Ids, NEW text \in Texts,
             CreateNotation(cmd, id, text)
      PROVE  KernelInv'
  <2>. DEFINE c == [map |-> "notation", id |-> id, before |-> Absent, after |-> text]
  <2>1. c \in Change
    BY DEF Change
  <2>2. Follows(Hist, Len(undo), c)
    BY DEF Follows
  <2>. QED BY <1>0, <1>1, <2>1, <2>2, EditStep DEF CreateNotation, KernelTypeOK
<1>2. ASSUME NEW cmd \in CommandIds, NEW id \in Ids, NEW text \in Texts,
             UpdateNotation(cmd, id, text)
      PROVE  KernelInv'
  <2>. DEFINE c == [map |-> "notation", id |-> id,
                    before |-> notations[id], after |-> text]
  <2>1. notations[id] \in Texts
    BY <1>0, <1>2 DEF UpdateNotation, Keys, KernelTypeOK
  <2>2. c \in Change /\ c.before # Absent
    BY <2>1, AbsentIsNoValue DEF Change
  <2>3. Follows(Hist, Len(undo), c)
    BY <1>0, <1>2 DEF Follows, UpdateNotation, Matches
  <2>. QED BY <1>0, <1>2, <2>2, <2>3, EditStep DEF UpdateNotation, KernelTypeOK
<1>3. ASSUME NEW cmd \in CommandIds, NEW id \in Ids, NEW link \in Links,
             CreateRelation(cmd, id, link)
      PROVE  KernelInv'
  <2>. DEFINE c == [map |-> "relation", id |-> id, before |-> Absent, after |-> link]
  <2>1. c \in Change
    BY DEF Change
  <2>2. Follows(Hist, Len(undo), c)
    BY <1>0, <1>3 DEF Follows, CreateRelation, Matches
  <2>. QED BY <1>0, <1>3, <2>1, <2>2, EditStep DEF CreateRelation, KernelTypeOK
<1>4. ASSUME NEW cmd \in CommandIds, Undo(cmd)
      PROVE  KernelInv'
  <2>1. /\ Hist' = Hist /\ Len(undo') = Len(undo) - 1
        /\ Len(undo) \in Nat \ {0} /\ Top(undo) = Hist[Len(undo)]
        /\ undo' \in Seq(Change) /\ redo' \in Seq(Change)
    BY <1>0, <1>4, UndoKeepsHist DEF Undo
  <2>2. PICK n \in Nat : n + 1 = Len(undo)
    <3>1. \A k \in Nat \ {0} : k - 1 \in Nat /\ (k - 1) + 1 = k
      OBVIOUS
    <3>. QED BY <2>1, <3>1
  <2>3. Len(undo') = n /\ n < Len(Hist) /\ n \in 0 .. Len(Hist)
    BY <1>0, <2>1, <2>2
  <2>4. Matches(Hist', Len(undo'), notations', relations')
    BY <1>0, <1>4, <2>1, <2>2, <2>3, BackwardMatches DEF Undo
  <2>5. usedObjects' = usedObjects /\ usedCommands' = usedCommands \cup {cmd}
    BY <1>4 DEF Undo
  <2>. QED BY <1>0, <1>4, <2>1, <2>3, <2>4, <2>5, ValidatedStep
           DEF Undo, NextCommand, KernelTypeOK
<1>5. ASSUME NEW cmd \in CommandIds, Redo(cmd)
      PROVE  KernelInv'
  <2>1. /\ Hist' = Hist /\ Len(undo') = Len(undo) + 1
        /\ Len(undo) \in Nat /\ Len(undo) < Len(Hist)
        /\ Top(redo) = Hist[Len(undo) + 1]
        /\ undo' \in Seq(Change) /\ redo' \in Seq(Change)
    BY <1>0, <1>5, RedoKeepsHist DEF Redo
  <2>2. Matches(Hist', Len(undo'), notations', relations')
    BY <1>0, <1>5, <2>1, ForwardMatches DEF Redo
  <2>3. usedObjects' = usedObjects /\ usedCommands' = usedCommands \cup {cmd}
    BY <1>5 DEF Redo
  <2>4. Len(undo') \in 0 .. Len(Hist')
    BY <1>0, <2>1
  <2>. QED BY <1>0, <1>5, <2>1, <2>2, <2>3, <2>4, ValidatedStep
           DEF Redo, NextCommand, KernelTypeOK
<1>6. ASSUME NEW code \in Errors \ {"INTERNAL_STATE_ERROR"}, Fail(code)
      PROVE  KernelInv'
  BY <1>6, OutcomeStep DEF Fail
<1>7. ASSUME NEW cmd \in CommandIds,
             \/ RefuseCommandId(cmd) \/ RefuseMove(cmd)
             \/ \E id \in Ids : RefuseNotation(cmd, id)
             \/ \E id \in Ids, text \in Texts : RefuseUpdate(cmd, id, text)
             \/ \E id \in Ids, link \in Links : RefuseRelation(cmd, id, link)
      PROVE  \E code \in Errors \ {"INTERNAL_STATE_ERROR"} : Fail(code)
  <2>1. CASE RefuseCommandId(cmd)
    BY <2>1 DEF RefuseCommandId, Errors
  <2>2. CASE RefuseMove(cmd)
    BY <2>2 DEF RefuseMove, Errors
  <2>3. CASE \E id \in Ids : RefuseNotation(cmd, id)
    BY <2>3 DEF RefuseNotation, Errors
  <2>4. CASE \E id \in Ids, text \in Texts : RefuseUpdate(cmd, id, text)
    BY <2>4 DEF RefuseUpdate, Errors
  <2>5. CASE \E id \in Ids, link \in Links : RefuseRelation(cmd, id, link)
    BY <2>5 DEF RefuseRelation, Errors
  <2>. QED BY <1>7, <2>1, <2>2, <2>3, <2>4, <2>5
<1>8. CASE RefuseLength
  BY <1>6, <1>8 DEF RefuseLength, Errors
<1>9. CASE ReturnState
  BY <1>9, OutcomeStep DEF ReturnState
<1>10. CASE UNCHANGED kernel
  <2>1. result \in (Errors \cup {"RUNNING", "OK"}) \ {"INTERNAL_STATE_ERROR"}
    BY DEF KernelInv, KernelTypeOK, NoInternalError
  <2>. QED BY <1>10, <2>1, OutcomeStep DEF kernel
<1>. QED BY <1>1, <1>2, <1>3, <1>4, <1>5, <1>6, <1>7, <1>8, <1>9, <1>10
         DEF KernelNext, Command

LEMMA Invariance == KernelSpec => []KernelInv
BY KernelInitial, KernelInductive, PTL DEF KernelSpec

\* Every state a replay passes through has well-typed maps, stacks and counters.
THEOREM KernelTypes == KernelSpec => []KernelTypeOK
<1>1. KernelInv => KernelTypeOK
  BY DEF KernelInv
<1>. QED BY <1>1, Invariance, PTL

\* No history of commands, however edits, undos and redos are mixed and at
\* whatever limits, makes validate() fail: INTERNAL_STATE_ERROR is unreachable.
THEOREM InternalErrorUnreachable == KernelSpec => []NoInternalError
<1>1. KernelInv => NoInternalError
  BY DEF KernelInv
<1>. QED BY <1>1, Invariance, PTL

\* What was created is what is reserved, once, and the stacks hold nothing else.
CreatedOnce ==
  created = [id \in Ids |-> IF id \in usedObjects THEN 1 ELSE 0]

LEMMA CountedStep ==
  ASSUME KernelInv, CreatedOnce, [KernelNext]_kernel
  PROVE  CreatedOnce'
<1>. USE DEF CreatedOnce
<1>1. ASSUME NEW cmd, NEW c, Edit(cmd, c), c.id \in Ids, c.before = Absent,
             c.id \notin usedObjects, usedObjects' = usedObjects \cup {c.id}
      PROVE  CreatedOnce'
  <2>1. created' = [created EXCEPT ![c.id] = created[c.id] + 1]
    BY <1>1 DEF Edit, Count
  <2>. QED BY <1>1, <2>1
<1>2. ASSUME NEW cmd \in CommandIds, NEW id \in Ids, NEW text \in Texts,
             CreateNotation(cmd, id, text)
      PROVE  CreatedOnce'
  BY <1>1, <1>2 DEF CreateNotation
<1>3. ASSUME NEW cmd \in CommandIds, NEW id \in Ids, NEW link \in Links,
             CreateRelation(cmd, id, link)
      PROVE  CreatedOnce'
  BY <1>1, <1>3 DEF CreateRelation
<1>4. ASSUME NEW cmd \in CommandIds, NEW id \in Ids, NEW text \in Texts,
             UpdateNotation(cmd, id, text)
      PROVE  UNCHANGED <<created, usedObjects>>
  BY <1>4 DEF UpdateNotation, Edit, Count, Keys
<1>5. ASSUME NEW cmd \in CommandIds,
             \/ Undo(cmd) \/ Redo(cmd) \/ RefuseCommandId(cmd) \/ RefuseMove(cmd)
             \/ \E id \in Ids : RefuseNotation(cmd, id)
             \/ \E id \in Ids, text \in Texts : RefuseUpdate(cmd, id, text)
             \/ \E id \in Ids, link \in Links : RefuseRelation(cmd, id, link)
      PROVE  UNCHANGED <<created, usedObjects>>
  BY <1>5 DEF Undo, Redo, RefuseCommandId, RefuseMove, RefuseNotation, RefuseUpdate,
              RefuseRelation, Fail
<1>6. CASE RefuseLength \/ ReturnState \/ UNCHANGED kernel
  BY <1>6 DEF RefuseLength, ReturnState, Fail, kernel
<1>7. ASSUME UNCHANGED <<created, usedObjects>> PROVE CreatedOnce'
  BY <1>7
<1>. QED BY <1>2, <1>3, <1>4, <1>5, <1>6, <1>7 DEF KernelNext, Command

\* Over the whole replay an identifier is created at most once, on whichever
\* map, and is reserved from then on, whether its creation is applied, undone or
\* gone with a discarded redo branch.
THEOREM ReservedIdentities == KernelSpec => []IdentitiesAreReserved
<1>1. KernelInit => CreatedOnce
  BY DEF KernelInit, CreatedOnce
<1>2. KernelInv /\ CreatedOnce => IdentitiesAreReserved
  <2>1. SUFFICES ASSUME KernelInv, CreatedOnce PROVE IdentitiesAreReserved
    OBVIOUS
  <2>2. /\ \A i \in Creations : Hist[i].id \in usedObjects
        /\ \A i, j \in Creations : Hist[i].id = Hist[j].id => i = j
    BY <2>1, HistType DEF KernelInv, WellFormed, Creations
  <2>3. usedObjects \subseteq Ids
    BY <2>1 DEF KernelInv, KernelTypeOK
  <2>. QED BY <2>1, <2>2, <2>3 DEF CreatedOnce, IdentitiesAreReserved
<1>. QED BY <1>1, <1>2, CountedStep, Invariance, PTL DEF KernelSpec

-----------------------------------------------------------------------------
(***************************************************************************)
(* The refinement of LinearHistory.  DInv adds to the invariant that the   *)
(* document is the replay of the assignments before the cursor, and that   *)
(* the `before' of every change, undone or not, is what the replay has for *)
(* its identifier at its place: this is what makes an inverse record right *)
(* whenever its turn comes.                                                *)
(***************************************************************************)
DInv ==
  /\ KernelInv
  /\ Document = Linear!DocumentAt(Assignments, Len(undo))
  /\ \A i \in 1 .. Len(Hist) :
       Hist[i].before = Linear!DocumentAt(Assignments, i - 1)[Hist[i].id]

\* A nonempty set of positions up to n has a greatest member.
LEMMA GreatestNumber ==
  ASSUME NEW n \in Nat, NEW T \in SUBSET (1 .. n), T # {}
  PROVE  Linear!Latest(T) \in T /\ \A j \in T : j <= Linear!Latest(T)
<1>. DEFINE U == {n - i : i \in T}
<1>1. U \in SUBSET Nat /\ U # {}
  <2>1. \A i \in 1 .. n : n - i \in Nat
    OBVIOUS
  <2>2. \A u \in U : u \in Nat
    BY <2>1
  <2>. QED BY <2>2
<1>2. IsWellFoundedOn(OpToRel(<, Nat), Nat)
  BY NatLessThanWellFounded
<1>. HIDE DEF U
<1>3. PICK u \in U : \A m \in U : ~(<<m, u>> \in OpToRel(<, Nat))
  BY <1>1, <1>2, WFMin
<1>4. \A m \in U : ~(m < u)
  BY <1>1, <1>3 DEF OpToRel
<1>5. PICK i \in T : u = n - i
  BY <1>3 DEF U
<1>6. \A j \in T : j <= i
  <2>1. ASSUME NEW j \in T PROVE ~(n - j < n - i)
    BY <1>4, <1>5 DEF U
  <2>. QED BY <2>1
<1>7. \E k \in T : \A j \in T : j <= k
  BY <1>6
<1>. HIDE DEF U
<1>. QED BY <1>7, Zenon DEF Linear!Latest

\* One more assignment writes its value at its identifier.
LEMMA OneMoreAssignment ==
  ASSUME NEW a, NEW n \in Nat
  PROVE  Linear!DocumentAt(a, n + 1)
           = [Linear!DocumentAt(a, n) EXCEPT ![a[n + 1].id] = a[n + 1].value]
<1>1. ASSUME NEW id \in Ids, id = a[n + 1].id
      PROVE  Linear!DocumentAt(a, n + 1)[id] = a[n + 1].value
  <2>. DEFINE T == Linear!Touching(a, n + 1, id)
  <2>1. n + 1 \in T /\ T \in SUBSET (1 .. n + 1)
    BY <1>1 DEF Linear!Touching
  <2>. HIDE DEF T
  <2>2. n + 1 \in Nat /\ T # {}
    BY <2>1
  <2>3. Linear!Latest(T) \in T /\ \A j \in T : j <= Linear!Latest(T)
    BY <2>1, <2>2, GreatestNumber
  <2>4. ASSUME NEW m \in 1 .. n + 1, n + 1 <= m  PROVE m = n + 1
    BY <2>4
  <2>5. Linear!Latest(T) = n + 1
    BY <2>1, <2>3, <2>4
  <2>. QED BY <2>1, <2>5 DEF T, Linear!DocumentAt
<1>2. ASSUME NEW id \in Ids, id # a[n + 1].id
      PROVE  Linear!DocumentAt(a, n + 1)[id] = Linear!DocumentAt(a, n)[id]
  <2>1. Linear!Touching(a, n + 1, id) = Linear!Touching(a, n, id)
    BY <1>2 DEF Linear!Touching
  <2>. QED BY <2>1 DEF Linear!DocumentAt
<1>3. \A k \in Nat : /\ DOMAIN Linear!DocumentAt(a, k) = Ids
                     /\ Linear!DocumentAt(a, k) = [id \in Ids |-> Linear!DocumentAt(a, k)[id]]
  BY DEF Linear!DocumentAt
<1>. HIDE DEF Linear!DocumentAt
<1>. QED BY <1>1, <1>2, <1>3

\* The replay of a prefix looks at nothing behind it.
LEMMA SamePrefix ==
  ASSUME NEW a, NEW b, NEW n \in Nat, \A i \in 1 .. n : a[i] = b[i]
  PROVE  Linear!DocumentAt(a, n) = Linear!DocumentAt(b, n)
<1>1. ASSUME NEW id \in Ids
      PROVE  Linear!Touching(a, n, id) = Linear!Touching(b, n, id)
  BY DEF Linear!Touching
<1>2. ASSUME NEW id \in Ids, Linear!Touching(a, n, id) # {}
      PROVE  Linear!Latest(Linear!Touching(a, n, id)) \in 1 .. n
  <2>1. Linear!Touching(a, n, id) \in SUBSET (1 .. n)
    BY DEF Linear!Touching
  <2>. QED BY <1>2, <2>1, GreatestNumber
<1>. QED BY <1>1, <1>2 DEF Linear!DocumentAt

\* Writing a change forward or backward writes the document, because the
\* identifier of an object on one map is on the other map never.
LEMMA ForwardWrites ==
  ASSUME KernelTypeOK, NEW c \in Change, Forward(c),
         c.map = "relation" => notations[c.id] = Absent
  PROVE  Document' = [Document EXCEPT ![c.id] = c.after]
<1>1. CASE c.map = "notation"
  BY <1>1, ChangeShape DEF KernelTypeOK, Forward, Write, Document
<1>2. CASE c.map = "relation"
  BY <1>2, ChangeShape DEF KernelTypeOK, Forward, Write, Document
<1>. QED BY <1>1, <1>2, ChangeShape

LEMMA BackwardWrites ==
  ASSUME KernelTypeOK, NEW c \in Change, Backward(c),
         c.map = "relation" => notations[c.id] = Absent,
         c.map = "notation" /\ c.before = Absent => relations[c.id] = Absent
  PROVE  Document' = [Document EXCEPT ![c.id] = c.before]
<1>1. CASE c.map = "notation"
  BY <1>1, ChangeShape DEF KernelTypeOK, Backward, Write, Document
<1>2. CASE c.map = "relation"
  BY <1>2, ChangeShape DEF KernelTypeOK, Backward, Write, Document
<1>. QED BY <1>1, <1>2, ChangeShape

\* An object created on one map is created on the other one nowhere.
LEMMA MapsAreApart ==
  ASSUME KernelInv, NEW n \in 1 .. Len(Hist), Hist[n].before = Absent,
         NEW k \in 0 .. Len(Hist), NEW m, Hist[n].map # m
  PROVE  Hist[n].id \notin CreatedAt(Hist, k, m)
<1>. SUFFICES ASSUME Hist[n].id \in CreatedAt(Hist, k, m) PROVE FALSE
  OBVIOUS
<1>1. WellFormed(Hist, usedObjects) /\ Len(Hist) \in Nat
  BY HistType, LenProperties DEF KernelInv
<1>2. PICK j \in 1 .. k : Hist[j].before = Absent /\ Hist[j].map = m /\ Hist[j].id = Hist[n].id
  BY DEF CreatedAt
<1>3. j \in 1 .. Len(Hist)
  BY <1>1, <1>2
<1>4. j = n
  BY <1>1, <1>2, <1>3 DEF WellFormed
<1>. QED BY <1>2, <1>4

\* The assignments are those of the changes.
LEMMA AssignmentsType ==
  ASSUME KernelTypeOK
  PROVE  /\ Assignments \in Seq([id : Ids, value : Texts \cup Links])
         /\ Len(Assignments) = Len(Hist)
         /\ \A i \in 1 .. Len(Hist) :
              Assignments[i] = [id |-> Hist[i].id, value |-> Hist[i].after]
<1>1. /\ Hist \in Seq(Change) /\ Len(Hist) \in Nat
      /\ DOMAIN Hist = 1 .. Len(Hist)
  BY HistType, LenProperties
<1>2. \A i \in 1 .. Len(Hist) :
        [id |-> Hist[i].id, value |-> Hist[i].after] \in [id : Ids, value : Texts \cup Links]
  BY <1>1, ElementOfSeq, ChangeShape
<1>. QED BY <1>1, <1>2 DEF Assignments

\* What the types and the invariant say of the history, for the step lemmas.
LEMMA HistoryFacts ==
  ASSUME KernelInv
  PROVE  /\ KernelTypeOK
         /\ Len(undo) \in Nat /\ Len(Hist) \in Nat /\ Len(undo) <= Len(Hist)
         /\ \A i \in 1 .. Len(Hist) : Hist[i] \in Change
         /\ Keys(notations) = CreatedAt(Hist, Len(undo), "notation")
         /\ Keys(relations) = CreatedAt(Hist, Len(undo), "relation")
<1>1. Hist \in Seq(Change) /\ Len(undo) \in 0 .. Len(Hist)
  BY HistType DEF KernelInv
<1>. QED BY <1>1, LenProperties, ElementOfSeq DEF KernelInv, Matches

\* An edit is an Extend, and the change it appends knows what it replaces.
LEMMA EditExtends ==
  ASSUME DInv, NEW cmd, NEW c \in Change, Edit(cmd, c),
         c.before = Document[c.id],
         c.map = "relation" => notations[c.id] = Absent
  PROVE  /\ Linear!Extend(c.id, c.after)
         /\ Document' = Linear!DocumentAt(Assignments', Len(undo'))
         /\ \A i \in 1 .. Len(Hist') :
              Hist'[i].before = Linear!DocumentAt(Assignments', i - 1)[Hist'[i].id]
<1>. DEFINE n == Len(undo)
            h == Hist
            a == Assignments
            g == Append(SubSeq(h, 1, n), c)
            V == [id : Ids, value : Texts \cup Links]
            b == Append(SubSeq(a, 1, n), [id |-> c.id, value |-> c.after])
<1>0. KernelTypeOK /\ h \in Seq(Change) /\ n \in 0 .. Len(h) /\ n \in Nat /\ Len(h) \in Nat
  BY HistType, HistoryFacts DEF DInv, KernelInv
<1>1. Hist' = g /\ Len(undo') = n + 1
  BY <1>0, EditExtendsHist DEF Edit
<1>2. /\ a \in Seq(V) /\ Len(a) = Len(h)
      /\ \A i \in 1 .. Len(h) : a[i] = [id |-> h[i].id, value |-> h[i].after]
  BY <1>0, AssignmentsType
<1>3. /\ Document = Linear!DocumentAt(a, n)
      /\ \A i \in 1 .. Len(h) : h[i].before = Linear!DocumentAt(a, i - 1)[h[i].id]
  BY DEF DInv
<1>4. Document' = [Document EXCEPT ![c.id] = c.after]
  BY <1>0, ForwardWrites DEF Edit
<1>5. Assignments' = [i \in DOMAIN g |-> [id |-> g[i].id, value |-> g[i].after]]
  BY <1>1 DEF Assignments
<1>. HIDE DEF h, a, n, V
<1>6. /\ g \in Seq(Change) /\ Len(g) = n + 1 /\ DOMAIN g = 1 .. n + 1
      /\ \A i \in 1 .. n : g[i] = h[i]
      /\ g[n + 1] = c
  <2>1. g \in Seq(Change) /\ Len(g) = n + 1
    BY <1>0, Extension
  <2>2. DOMAIN g = 1 .. n + 1
    BY <2>1
  <2>. QED BY <1>0, <2>1, <2>2, Extension
<1>. HIDE DEF g
<1>7. /\ b \in Seq(V) /\ Len(b) = n + 1 /\ DOMAIN b = 1 .. n + 1
      /\ \A i \in 1 .. n : b[i] = a[i]
      /\ b[n + 1] = [id |-> c.id, value |-> c.after]
  <2>. DEFINE s == SubSeq(a, 1, n)
  <2>1. /\ s \in Seq(V) /\ Len(s) = n
        /\ \A i \in 1 .. n : s[i] = a[i]
    <3>1. \A i \in 1 .. n : a[i] \in V
      BY <1>0, <1>2, ElementOfSeq
    <3>2. CASE n = 0
      BY <3>2, SubSeqEmpty
    <3>3. CASE n # 0
      BY <1>0, <1>2, <3>1, <3>3, SubSeqProperties
    <3>. QED BY <3>2, <3>3
  <2>2. [id |-> c.id, value |-> c.after] \in V
    BY ChangeShape DEF V
  <2>. HIDE DEF s
  <2>3. b = Append(s, [id |-> c.id, value |-> c.after])
    BY DEF s
  <2>. HIDE DEF b
  <2>. QED BY <1>0, <2>1, <2>2, <2>3
<1>8. Assignments' = b
  <2>1. \A i \in 1 .. n + 1 : b[i] = [id |-> g[i].id, value |-> g[i].after]
    <3>1. \A i \in 1 .. n : b[i] = [id |-> g[i].id, value |-> g[i].after]
      BY <1>0, <1>2, <1>6, <1>7
    <3>2. b[n + 1] = [id |-> g[n + 1].id, value |-> g[n + 1].after]
      BY <1>6, <1>7
    <3>. HIDE DEF b
    <3>3. \A i \in 1 .. n + 1 : i \in 1 .. n \/ i = n + 1
      BY <1>0
    <3>. QED BY <3>1, <3>2, <3>3
  <2>2. b = [i \in 1 .. n + 1 |-> b[i]]
    BY <1>7
  <2>. HIDE DEF b
  <2>. QED BY <1>5, <1>6, <2>1, <2>2
<1>. HIDE DEF b
<1>9. \A k \in 0 .. n : Linear!DocumentAt(b, k) = Linear!DocumentAt(a, k)
  <2>1. SUFFICES ASSUME NEW k \in 0 .. n
                 PROVE  Linear!DocumentAt(b, k) = Linear!DocumentAt(a, k)
    OBVIOUS
  <2>2. k \in Nat /\ \A i \in 1 .. k : b[i] = a[i]
    BY <1>0, <1>7
  <2>. QED BY <2>2, SamePrefix
<1>10. Document' = Linear!DocumentAt(b, n + 1)
  <2>1. Linear!DocumentAt(b, n + 1)
          = [Linear!DocumentAt(b, n) EXCEPT ![b[n + 1].id] = b[n + 1].value]
    BY <1>0, OneMoreAssignment
  <2>2. Linear!DocumentAt(b, n) = Document
    BY <1>0, <1>3, <1>9
  <2>. QED BY <1>4, <1>7, <2>1, <2>2
<1>11. \A i \in 1 .. Len(Hist') :
         Hist'[i].before = Linear!DocumentAt(b, i - 1)[Hist'[i].id]
  <2>1. SUFFICES ASSUME NEW i \in 1 .. n + 1
                 PROVE  g[i].before = Linear!DocumentAt(b, i - 1)[g[i].id]
    BY <1>1, <1>6
  <2>2. CASE i = n + 1
    BY <1>0, <1>3, <1>6, <1>9, <2>2
  <2>3. CASE i \in 1 .. n
    <3>1. i \in 1 .. Len(h) /\ i - 1 \in 0 .. n /\ g[i] = h[i]
      BY <1>0, <1>6, <2>3
    <3>. QED BY <1>3, <1>9, <3>1
  <2>4. i = n + 1 \/ i \in 1 .. n
    BY <1>0
  <2>. QED BY <2>2, <2>3, <2>4
<1>12. Linear!Extend(c.id, c.after)
  BY <1>1, <1>8 DEF Linear!Extend, b, a, n
<1>. QED BY <1>1, <1>8, <1>10, <1>11, <1>12

\* The identifier of a change is on the other map at no time.
LEMMA OtherMapIsFree ==
  ASSUME KernelInv, NEW k \in 1 .. Len(Hist)
  PROVE  /\ Hist[k].map = "relation" => notations[Hist[k].id] = Absent
         /\ Hist[k].map = "notation" /\ Hist[k].before = Absent =>
              relations[Hist[k].id] = Absent
<1>1. /\ Hist[k] \in Change /\ Len(undo) \in 0 .. Len(Hist)
      /\ Keys(notations) = CreatedAt(Hist, Len(undo), "notation")
      /\ Keys(relations) = CreatedAt(Hist, Len(undo), "relation")
  BY HistoryFacts
<1>2. Hist[k].map = "relation" => Hist[k].id \notin Keys(notations)
  BY <1>1, ChangeShape, MapsAreApart
<1>3. Hist[k].map = "notation" /\ Hist[k].before = Absent =>
        Hist[k].id \notin Keys(relations)
  BY <1>1, MapsAreApart
<1>. QED BY <1>1, <1>2, <1>3, ChangeShape DEF Keys

\* An undo is a StepBack.
LEMMA UndoStepsBack ==
  ASSUME DInv, NEW cmd, Undo(cmd)
  PROVE  /\ Hist' = Hist /\ Linear!StepBack
         /\ Document' = Linear!DocumentAt(Assignments', Len(undo'))
<1>1. /\ Hist' = Hist /\ Len(undo') = Len(undo) - 1
      /\ Len(undo) \in Nat \ {0} /\ Top(undo) = Hist[Len(undo)]
  BY UndoKeepsHist DEF DInv, KernelInv, Undo
<1>2. PICK n \in Nat : n + 1 = Len(undo)
  <2>1. \A k \in Nat \ {0} : k - 1 \in Nat /\ (k - 1) + 1 = k
    OBVIOUS
  <2>. QED BY <1>1, <2>1
<1>3. /\ n + 1 \in 1 .. Len(Hist) /\ (n + 1) - 1 = n /\ Len(undo') = n
      /\ Hist[n + 1] \in Change /\ KernelTypeOK
  BY <1>1, <1>2, HistoryFacts DEF DInv
<1>. DEFINE c == Hist[n + 1]
            d == Linear!DocumentAt(Assignments, n)
<1>4. Assignments[n + 1] = [id |-> c.id, value |-> c.after]
  BY <1>3, AssignmentsType
<1>5. Document = [d EXCEPT ![c.id] = c.after]
  <2>1. Linear!DocumentAt(Assignments, n + 1)
          = [Linear!DocumentAt(Assignments, n)
               EXCEPT ![Assignments[n + 1].id] = Assignments[n + 1].value]
    BY OneMoreAssignment
  <2>2. Document = Linear!DocumentAt(Assignments, n + 1)
    BY <1>2 DEF DInv
  <2>3. Assignments[n + 1].id = c.id /\ Assignments[n + 1].value = c.after
    BY <1>4
  <2>. HIDE DEF c
  <2>. QED BY <2>1, <2>2, <2>3
<1>6. c.before = d[c.id]
  BY <1>3 DEF DInv
<1>7. Document' = [Document EXCEPT ![c.id] = c.before]
  <2>1. Backward(c)
    BY <1>1, <1>2 DEF Undo
  <2>. QED BY <1>3, <2>1, BackwardWrites, OtherMapIsFree DEF DInv
<1>8. d = [id \in Ids |-> d[id]]
  BY DEF Linear!DocumentAt
<1>9. Assignments' = Assignments
  BY <1>1 DEF Assignments
<1>. HIDE DEF c, d
<1>10. Document' = d
  BY <1>5, <1>6, <1>7, <1>8
<1>11. Linear!StepBack
  BY <1>1, <1>2, <1>3, <1>9 DEF Undo, Linear!StepBack
<1>. QED BY <1>1, <1>3, <1>9, <1>10, <1>11 DEF d

\* A redo is a StepForward.
LEMMA RedoStepsForward ==
  ASSUME DInv, NEW cmd, Redo(cmd)
  PROVE  /\ Hist' = Hist /\ Linear!StepForward
         /\ Document' = Linear!DocumentAt(Assignments', Len(undo'))
<1>1. /\ Hist' = Hist /\ Len(undo') = Len(undo) + 1
      /\ Len(undo) \in Nat /\ Len(undo) < Len(Hist)
      /\ Top(redo) = Hist[Len(undo) + 1]
  BY RedoKeepsHist DEF DInv, KernelInv, Redo
<1>. DEFINE n == Len(undo)
            c == Hist[n + 1]
<1>2. /\ n + 1 \in 1 .. Len(Hist) /\ n \in Nat
      /\ c \in Change /\ KernelTypeOK
  BY <1>1, HistoryFacts DEF DInv
<1>3. Len(Assignments) = Len(Hist) /\ Assignments[n + 1] = [id |-> c.id, value |-> c.after]
  BY <1>2, AssignmentsType
<1>4. Document' = [Document EXCEPT ![c.id] = c.after]
  <2>1. Forward(c)
    BY <1>1 DEF Redo
  <2>. QED BY <1>2, <2>1, ForwardWrites, OtherMapIsFree DEF DInv
<1>5. Assignments' = Assignments
  BY <1>1 DEF Assignments
<1>. HIDE DEF n, c
<1>6. Document' = Linear!DocumentAt(Assignments, n + 1)
  <2>1. Linear!DocumentAt(Assignments, n + 1)
          = [Linear!DocumentAt(Assignments, n)
               EXCEPT ![Assignments[n + 1].id] = Assignments[n + 1].value]
    BY <1>2, OneMoreAssignment
  <2>2. Document = Linear!DocumentAt(Assignments, n)
    BY DEF DInv, n
  <2>3. Assignments[n + 1].id = c.id /\ Assignments[n + 1].value = c.after
    BY <1>3
  <2>. QED BY <1>4, <2>1, <2>2, <2>3
<1>7. Linear!StepForward
  BY <1>1, <1>3, <1>5 DEF Redo, Linear!StepForward
<1>. QED BY <1>1, <1>5, <1>6, <1>7 DEF n

\* An identifier that was never accepted is on neither map.
LEMMA FreshIsAbsent ==
  ASSUME KernelInv, NEW id \in Ids, id \notin usedObjects
  PROVE  notations[id] = Absent /\ relations[id] = Absent
<1>1. \A m : id \notin CreatedAt(Hist, Len(undo), m)
  BY HistoryFacts DEF KernelInv, WellFormed, CreatedAt
<1>. QED BY <1>1, HistoryFacts DEF Keys

\* Every step of the kernel is one of the history, and DInv survives it.
LEMMA KernelSteps ==
  ASSUME DInv, [KernelNext]_kernel
  PROVE  /\ [Linear!Next]_Linear!lvars
         /\ KernelInv' => DInv'
<1>0. KernelInv /\ KernelTypeOK
  BY DEF DInv, KernelInv
<1>1. ASSUME NEW cmd \in CommandIds, NEW id \in Ids, NEW text \in Texts,
             CreateNotation(cmd, id, text)
      PROVE  Linear!Next /\ (KernelInv' => DInv')
  <2>. DEFINE c == [map |-> "notation", id |-> id, before |-> Absent, after |-> text]
  <2>1. c \in Change /\ Edit(cmd, c) /\ id \notin usedObjects
    BY <1>1 DEF Change, CreateNotation
  <2>2. c.before = Document[c.id] /\ c.map # "relation"
    BY <1>0, <2>1, FreshIsAbsent DEF Document
  <2>3. /\ Linear!Extend(id, text)
        /\ Document' = Linear!DocumentAt(Assignments', Len(undo'))
        /\ KernelInv' => DInv'
    BY <2>1, <2>2, EditExtends DEF DInv
  <2>4. Linear!Create(id, text)
    BY <1>1, <2>3 DEF CreateNotation, Linear!Create
  <2>. QED BY <2>3, <2>4 DEF Linear!Next
<1>2. ASSUME NEW cmd \in CommandIds, NEW id \in Ids, NEW text \in Texts,
             UpdateNotation(cmd, id, text)
      PROVE  Linear!Next /\ (KernelInv' => DInv')
  <2>. DEFINE c == [map |-> "notation", id |-> id,
                    before |-> notations[id], after |-> text]
  <2>1. /\ notations[id] \in Texts /\ notations[id] # Absent /\ notations[id] # text
        /\ Edit(cmd, c)
    BY <1>0, <1>2 DEF UpdateNotation, Keys, KernelTypeOK
  <2>2. c \in Change /\ c.before = Document[c.id] /\ c.map # "relation"
    BY <2>1 DEF Change, Document
  <2>3. /\ Linear!Extend(id, text)
        /\ Document' = Linear!DocumentAt(Assignments', Len(undo'))
        /\ KernelInv' => DInv'
    BY <2>1, <2>2, EditExtends DEF DInv
  <2>4. Document[id] \notin {Absent, text}
    BY <2>1 DEF Document
  <2>5. Linear!Update(id, text)
    BY <1>2, <2>3, <2>4 DEF UpdateNotation, Linear!Update
  <2>. QED BY <2>3, <2>5 DEF Linear!Next
<1>3. ASSUME NEW cmd \in CommandIds, NEW id \in Ids, NEW link \in Links,
             CreateRelation(cmd, id, link)
      PROVE  Linear!Next /\ (KernelInv' => DInv')
  <2>. DEFINE c == [map |-> "relation", id |-> id, before |-> Absent, after |-> link]
  <2>1. c \in Change /\ Edit(cmd, c) /\ id \notin usedObjects
    BY <1>3 DEF Change, CreateRelation
  <2>2. c.before = Document[c.id] /\ notations[c.id] = Absent
    BY <1>0, <2>1, FreshIsAbsent DEF Document
  <2>3. /\ Linear!Extend(id, link)
        /\ Document' = Linear!DocumentAt(Assignments', Len(undo'))
        /\ KernelInv' => DInv'
    BY <2>1, <2>2, EditExtends DEF DInv
  <2>4. Linear!Create(id, link)
    BY <1>3, <2>3 DEF CreateRelation, Linear!Create
  <2>. QED BY <2>3, <2>4 DEF Linear!Next
<1>4. ASSUME NEW cmd \in CommandIds, Undo(cmd)
      PROVE  Linear!Next /\ (KernelInv' => DInv')
  <2>1. Assignments' = Assignments
    BY <1>4, UndoStepsBack DEF Assignments
  <2>. QED BY <1>4, <2>1, UndoStepsBack DEF DInv, Linear!Next
<1>5. ASSUME NEW cmd \in CommandIds, Redo(cmd)
      PROVE  Linear!Next /\ (KernelInv' => DInv')
  <2>1. Assignments' = Assignments
    BY <1>5, RedoStepsForward DEF Assignments
  <2>. QED BY <1>5, <2>1, RedoStepsForward DEF DInv, Linear!Next
<1>6. ASSUME UNCHANGED <<notations, relations, usedObjects, undo, redo>>
      PROVE  (UNCHANGED Linear!lvars) /\ (KernelInv' => DInv')
  <2>1. Hist' = Hist /\ Assignments' = Assignments /\ Document' = Document
    BY <1>6 DEF Hist, Assignments, Document
  <2>. QED BY <1>6, <2>1 DEF DInv, Linear!lvars
<1>7. ASSUME NEW cmd \in CommandIds,
             \/ RefuseCommandId(cmd) \/ RefuseMove(cmd)
             \/ \E id \in Ids : RefuseNotation(cmd, id)
             \/ \E id \in Ids, text \in Texts : RefuseUpdate(cmd, id, text)
             \/ \E id \in Ids, link \in Links : RefuseRelation(cmd, id, link)
      PROVE  UNCHANGED <<notations, relations, usedObjects, undo, redo>>
  BY <1>7 DEF RefuseCommandId, RefuseMove, RefuseNotation, RefuseUpdate,
              RefuseRelation, Fail
<1>8. CASE RefuseLength \/ ReturnState \/ UNCHANGED kernel
  BY <1>6, <1>8 DEF RefuseLength, ReturnState, Fail, kernel
<1>. QED BY <1>1, <1>2, <1>3, <1>4, <1>5, <1>6, <1>7, <1>8 DEF KernelNext, Command

\* The kernel, which restores what it undoes from inverse records, implements the
\* history that replays its assignments up to the cursor, for any identifiers,
\* texts and limits.
THEOREM KernelImplementsHistory == KernelSpec => ImplementsLinearHistory
<1>1. KernelInit => DInv
  <2>1. SUFFICES ASSUME KernelInit PROVE DInv
    OBVIOUS
  <2>2. KernelInv /\ undo = <<>> /\ redo = <<>> /\ Len(undo) = 0
    BY <2>1, KernelInitial DEF KernelInit
  <2>3. Len(Hist) = 0
    BY <2>2, HistType DEF KernelInv
  <2>4. Document = [id \in Ids |-> Absent]
    BY <2>1 DEF KernelInit, Document
  <2>5. \A id \in Ids : Linear!Touching(Assignments, 0, id) = {}
    BY DEF Linear!Touching
  <2>6. Linear!DocumentAt(Assignments, 0) = [id \in Ids |-> Absent]
    BY <2>5 DEF Linear!DocumentAt
  <2>. QED BY <2>2, <2>3, <2>4, <2>6 DEF DInv
<1>2. KernelInit => Linear!Init
  <2>1. SUFFICES ASSUME KernelInit PROVE Linear!Init
    OBVIOUS
  <2>2. KernelTypeOK /\ Len(Hist) = 0 /\ Len(undo) = 0
    BY <2>1, KernelInitial, HistType DEF KernelInv, KernelInit
  <2>3. Assignments = <<>>
    BY <2>2, AssignmentsType, EmptySeq
  <2>4. Document = [id \in Ids |-> Absent]
    BY <2>1 DEF KernelInit, Document
  <2>. QED BY <2>1, <2>2, <2>3, <2>4 DEF KernelInit, Linear!Init
<1>3. DInv /\ [KernelNext]_kernel /\ KernelInv' => DInv' /\ [Linear!Next]_Linear!lvars
  BY KernelSteps
<1>. QED BY <1>1, <1>2, <1>3, Invariance, PTL DEF KernelSpec, ImplementsLinearHistory, Linear!Spec

-----------------------------------------------------------------------------
(***************************************************************************)
(* For any writers, batches and limit: the repository is safe whatever     *)
(* calls do at the same time and wherever they are killed.                 *)
(*                                                                         *)
(* The argument: the calls that hold the lock file take turns, so that the *)
(* one past its second load has seen every version there is; what it found *)
(* (its base is the newest version, its batch is new, there is room) is    *)
(* still so when it publishes.  An answer SAVED is only given for a        *)
(* request that is in the history, at the version after its base.          *)
(***************************************************************************)

\* Request r is in the history, where its base says.
Stored(r) == r.base + 1 \in DOMAIN versions /\ versions[r.base + 1] = r

\* A request that may be appended: what the second load has checked.
Due(r) ==
  /\ r.base = Len(versions)
  /\ Len(versions) < MAX_VERSIONS
  /\ KernelAccepts(r)

\* What a call knows at each of its steps is so.
CallIsRight(w) ==
  /\ pc[w] # "idle" => request[w] \in Requests
  /\ pc[w] = "publish" => loaded[w] = Len(versions) /\ Due(request[w])
  /\ pc[w] = "readback" => /\ Len(versions) = loaded[w] + 1
                           /\ versions[Len(versions)] = request[w]
                           /\ request[w].base = loaded[w]
  /\ pc[w] = "unlock" => answer[w] # None
  /\ answer[w] = "SAVED" => pc[w] = "unlock" /\ Stored(request[w])

IInv ==
  /\ TypeOK
  /\ NoBatchTwice
  /\ ConfirmedSavesAreKept
  /\ WritersTakeTurns
  /\ \A w \in Writers : CallIsRight(w)

-----------------------------------------------------------------------------
\* What append does to the list of versions.
LEMMA Appended ==
  ASSUME TypeOK, NEW r \in Requests, versions' = Append(versions, r)
  PROVE  /\ versions' \in Seq(Requests)
         /\ Len(versions') = Len(versions) + 1
         /\ \A i \in 1 .. Len(versions) : versions'[i] = versions[i]
         /\ versions'[Len(versions) + 1] = r
BY AppendProperties DEF TypeOK

\* The newest version being the request, it is where the request's base says.
LEMMA IdenticalIsStored ==
  ASSUME TypeOK, NoBatchTwice, NEW r \in Requests, versions # <<>>, Identical(r)
  PROVE  Stored(r)
<1>1. Len(versions) \in Nat /\ Len(versions) # 0 /\ DOMAIN versions = 1 .. Len(versions)
  BY EmptySeq, LenProperties DEF TypeOK
<1>2. r.base = Len(versions) - 1
  BY <1>1 DEF NoBatchTwice, Identical
<1>. QED BY <1>1, <1>2 DEF Stored, Identical

\* What a load finds out: SAVED for a stored request, None for one that is due.
LEMMA VerdictIsRight ==
  ASSUME TypeOK, NoBatchTwice, NEW r \in Requests, NEW code \in Verdict(r)
  PROVE  /\ code \in Refusals \cup {"SAVED", None}
         /\ code # "SAVE_UNCONFIRMED"
         /\ code = "SAVED" => Stored(r)
         /\ code = None => Due(r)
<1>0. Len(versions) \in Nat /\ MAX_VERSIONS \in Nat
  BY LenProperties, LimitIsNatural DEF TypeOK
<1>. QED BY <1>0, IdenticalIsStored, NoneIsNoAnswer DEF Verdict, Refusals, Due

LEMMA InitialInvariant == Init => IInv
BY NoneIsNoAnswer, LockValues, LimitIsNatural
   DEF Init, IInv, TypeOK, NoBatchTwice, ConfirmedSavesAreKept, WritersTakeTurns,
       CallIsRight, Refusals, Steps, Holding

-----------------------------------------------------------------------------
\* The end of a call, answered or killed: no other call is disturbed, and what
\* its client is told is saved is stored.
LEMMA ForgetKeeps ==
  ASSUME IInv, NEW w \in Writers, Forget(w), pc[w] # "idle", UNCHANGED versions,
         lock' \in {None, Abandoned, lock},
         \A v \in Writers \ {w} : lock = v => lock' = v,
         \/ UNCHANGED confirmed
         \/ Stored(request[w]) /\ confirmed' = confirmed \cup {request[w]}
  PROVE  IInv'
<1>1. TypeOK'
  BY NoneIsNoAnswer, LimitIsNatural DEF IInv, TypeOK, Forget, Goto, Answer, Steps, CallIsRight
<1>2. NoBatchTwice'
  BY DEF IInv, NoBatchTwice
<1>3. ConfirmedSavesAreKept'
  BY DEF IInv, ConfirmedSavesAreKept, Stored
<1>4. WritersTakeTurns'
  BY NoneIsNoAnswer
     DEF IInv, TypeOK, WritersTakeTurns, Forget, Goto, Answer, Holding, Refusals
<1>5. ASSUME NEW v \in Writers  PROVE CallIsRight(v)'
  <2>1. CASE v = w
    BY <2>1, NoneIsNoAnswer DEF IInv, TypeOK, CallIsRight, Forget, Goto, Answer
  <2>2. CASE v # w
    BY <2>2 DEF IInv, TypeOK, CallIsRight, Forget, Goto, Answer, Due, Stored, KernelAccepts
  <2>. QED BY <2>1, <2>2
<1>. QED BY <1>1, <1>2, <1>3, <1>4, <1>5 DEF IInv

LEMMA SubmitKeeps ==
  ASSUME IInv, NEW w \in Writers, NEW r \in Requests, Submit(w, r)
  PROVE  IInv'
<1>1. TypeOK'
  BY DEF IInv, TypeOK, Submit, Goto, Steps
<1>2. NoBatchTwice' /\ ConfirmedSavesAreKept'
  BY DEF IInv, NoBatchTwice, ConfirmedSavesAreKept, Submit
<1>3. WritersTakeTurns'
  BY DEF IInv, TypeOK, WritersTakeTurns, Submit, Goto, Holding
<1>4. ASSUME NEW v \in Writers  PROVE CallIsRight(v)'
  BY DEF IInv, TypeOK, CallIsRight, Submit, Goto, Due, Stored, KernelAccepts
<1>. QED BY <1>1, <1>2, <1>3, <1>4 DEF IInv

LEMMA FirstKeeps ==
  ASSUME IInv, NEW w \in Writers, First(w)
  PROVE  IInv'
<1>1. request[w] \in Requests /\ pc[w] = "first"
  BY DEF IInv, CallIsRight, First
<1>2. PICK code \in Verdict(request[w]) :
        IF code = None
        THEN Goto(w, "lock") /\ UNCHANGED <<request, loaded, answer, confirmed>>
        ELSE Return(w, code)
  BY DEF First
<1>3. UNCHANGED <<versions, lock>>
  BY DEF First
<1>4. CASE code = None
  <2>0. Goto(w, "lock") /\ UNCHANGED <<request, loaded, answer, confirmed>>
    BY <1>2, <1>4
  <2>1. TypeOK'
    BY <2>0, <1>3 DEF IInv, TypeOK, Goto, Steps
  <2>2. NoBatchTwice' /\ ConfirmedSavesAreKept'
    BY <2>0, <1>3 DEF IInv, NoBatchTwice, ConfirmedSavesAreKept
  <2>3. WritersTakeTurns'
    BY <2>0, <1>3 DEF IInv, TypeOK, WritersTakeTurns, Goto, Holding
  <2>4. ASSUME NEW v \in Writers  PROVE CallIsRight(v)'
    BY <1>1, <2>0, <1>3 DEF IInv, TypeOK, CallIsRight, Goto, Due, Stored, KernelAccepts
  <2>. QED BY <2>1, <2>2, <2>3, <2>4 DEF IInv
<1>5. CASE code # None
  <2>1. Forget(w) /\ (code # "SAVED" => UNCHANGED confirmed)
                 /\ (code = "SAVED" => confirmed' = confirmed \cup {request[w]})
    BY <1>2, <1>5 DEF Return
  <2>2. code = "SAVED" => Stored(request[w])
    BY <1>1, VerdictIsRight DEF IInv
  <2>. QED BY <1>1, <1>3, <2>1, <2>2, ForgetKeeps
<1>. QED BY <1>4, <1>5

LEMMA LockKeeps ==
  ASSUME IInv, NEW w \in Writers, Lock(w)
  PROVE  IInv'
<1>1. request[w] \in Requests /\ pc[w] = "lock" /\ UNCHANGED versions
  BY DEF IInv, CallIsRight, Lock
<1>2. CASE lock = None
  <2>0. lock' = w /\ Goto(w, "second") /\ UNCHANGED <<request, loaded, answer, confirmed>>
    BY <1>2 DEF Lock
  <2>1. TypeOK'
    BY <1>1, <2>0 DEF IInv, TypeOK, Goto, Steps
  <2>2. NoBatchTwice' /\ ConfirmedSavesAreKept'
    BY <1>1, <2>0 DEF IInv, NoBatchTwice, ConfirmedSavesAreKept
  <2>3. WritersTakeTurns'
    BY <1>2, <2>0, LockValues DEF IInv, TypeOK, WritersTakeTurns, Goto, Holding
  <2>4. ASSUME NEW v \in Writers  PROVE CallIsRight(v)'
    BY <1>1, <2>0 DEF IInv, TypeOK, CallIsRight, Goto, Due, Stored, KernelAccepts
  <2>. QED BY <2>1, <2>2, <2>3, <2>4 DEF IInv
<1>3. CASE lock # None
  <2>1. Forget(w) /\ UNCHANGED <<lock, confirmed>>
    BY <1>3 DEF Lock, Return
  <2>. QED BY <1>1, <2>1, ForgetKeeps
<1>. QED BY <1>2, <1>3

LEMMA SecondKeeps ==
  ASSUME IInv, NEW w \in Writers, Second(w)
  PROVE  IInv'
<1>1. /\ request[w] \in Requests /\ pc[w] = "second"
      /\ loaded' = [loaded EXCEPT ![w] = Len(versions)]
      /\ UNCHANGED <<versions, lock, request, confirmed>>
  BY DEF IInv, CallIsRight, Second
<1>2. PICK code \in Verdict(request[w]) :
        Goto(w, IF code = None THEN "publish" ELSE "unlock") /\ Answer(w, code)
  BY DEF Second
<1>3. /\ code \in Refusals \cup {"SAVED", None} /\ code # "SAVE_UNCONFIRMED"
      /\ code = "SAVED" => Stored(request[w])
      /\ code = None => Due(request[w])
  BY <1>1, VerdictIsRight DEF IInv
<1>4. TypeOK'
  BY <1>1, <1>2, <1>3, LenProperties, LimitIsNatural DEF IInv, TypeOK, Goto, Answer, Steps
<1>5. NoBatchTwice' /\ ConfirmedSavesAreKept'
  BY <1>1 DEF IInv, NoBatchTwice, ConfirmedSavesAreKept
<1>6. WritersTakeTurns'
  BY <1>1, <1>2, <1>3 DEF IInv, TypeOK, WritersTakeTurns, Goto, Answer, Holding
<1>7. ASSUME NEW v \in Writers  PROVE CallIsRight(v)'
  BY <1>1, <1>2, <1>3, NoneIsNoAnswer
     DEF IInv, TypeOK, CallIsRight, Goto, Answer, Due, Stored, KernelAccepts
<1>. QED BY <1>4, <1>5, <1>6, <1>7 DEF IInv

\* The one step that changes the history.  No other call holds the lock.
LEMMA PublishKeeps ==
  ASSUME IInv, NEW w \in Writers, Publish(w)
  PROVE  IInv'
<1>1. /\ request[w] \in Requests /\ pc[w] = "publish" /\ Due(request[w])
      /\ loaded[w] = Len(versions)
      /\ UNCHANGED <<lock, request, loaded, confirmed>>
  BY DEF IInv, CallIsRight, Publish
<1>2. \A v \in Writers \ {w} : pc[v] \notin Holding
  BY <1>1 DEF IInv, WritersTakeTurns, Holding
<1>3. CASE versions' = Append(versions, request[w]) /\ Goto(w, "readback") /\ UNCHANGED answer
  <2>1. /\ versions' \in Seq(Requests) /\ Len(versions') = Len(versions) + 1
        /\ \A i \in 1 .. Len(versions) : versions'[i] = versions[i]
        /\ versions'[Len(versions) + 1] = request[w]
    BY <1>1, <1>3, Appended DEF IInv
  <2>2. /\ Len(versions) \in Nat /\ MAX_VERSIONS \in Nat
        /\ DOMAIN versions = 1 .. Len(versions)
        /\ DOMAIN versions' = 1 .. Len(versions) + 1
    BY <2>1, LenProperties, LimitIsNatural DEF IInv, TypeOK
  <2>3. TypeOK'
    BY <1>1, <1>3, <2>1, <2>2 DEF IInv, TypeOK, Goto, Steps, Due
  <2>4. NoBatchTwice'
    BY <1>1, <2>1, <2>2 DEF IInv, NoBatchTwice, Due, KernelAccepts
  <2>5. ConfirmedSavesAreKept'
    BY <1>1, <2>1, <2>2 DEF IInv, ConfirmedSavesAreKept
  <2>6. WritersTakeTurns'
    BY <1>1, <1>3 DEF IInv, TypeOK, WritersTakeTurns, Goto, Holding
  <2>7. CallIsRight(w)'
    BY <1>1, <1>3, <2>1 DEF IInv, TypeOK, CallIsRight, Goto, Due
  <2>8. ASSUME NEW v \in Writers \ {w}  PROVE CallIsRight(v)'
    BY <1>1, <1>2, <1>3 DEF IInv, TypeOK, CallIsRight, Goto, Holding
  <2>. QED BY <2>3, <2>4, <2>5, <2>6, <2>7, <2>8 DEF IInv
<1>4. CASE Goto(w, "unlock") /\ Answer(w, "LOCAL_STATE_UNAVAILABLE") /\ UNCHANGED versions
  <2>1. TypeOK'
    BY <1>1, <1>4 DEF IInv, TypeOK, Goto, Answer, Steps, Refusals
  <2>2. NoBatchTwice' /\ ConfirmedSavesAreKept'
    BY <1>1, <1>4 DEF IInv, NoBatchTwice, ConfirmedSavesAreKept
  <2>3. WritersTakeTurns'
    BY <1>1, <1>4 DEF IInv, TypeOK, WritersTakeTurns, Goto, Answer, Holding
  <2>4. ASSUME NEW v \in Writers  PROVE CallIsRight(v)'
    BY <1>1, <1>2, <1>4, NoneIsNoAnswer
       DEF IInv, TypeOK, CallIsRight, Goto, Answer, Holding, Refusals
  <2>. QED BY <2>1, <2>2, <2>3, <2>4 DEF IInv
<1>. QED BY <1>3, <1>4 DEF Publish

\* What was published is found again: an answer other than SAVED comes from the kernel.
LEMMA ReadbackKeeps ==
  ASSUME IInv, NEW w \in Writers, Readback(w)
  PROVE  IInv'
<1>1. /\ request[w] \in Requests /\ pc[w] = "readback" /\ Goto(w, "unlock")
      /\ Len(versions) = loaded[w] + 1 /\ versions[Len(versions)] = request[w]
      /\ request[w].base = loaded[w]
      /\ UNCHANGED <<versions, lock, request, loaded, confirmed>>
  BY DEF IInv, CallIsRight, Readback
<1>2. PICK code \in {"KERNEL_UNAVAILABLE", "SAVED"} : Answer(w, code)
  BY <1>1 DEF Readback
<1>3. Stored(request[w])
  <2>1. Len(versions) \in Nat /\ loaded[w] \in Nat /\ DOMAIN versions = 1 .. Len(versions)
    BY LenProperties DEF IInv, TypeOK
  <2>. QED BY <1>1, <2>1 DEF Stored
<1>4. TypeOK'
  BY <1>1, <1>2 DEF IInv, TypeOK, Goto, Answer, Steps, Refusals
<1>5. NoBatchTwice' /\ ConfirmedSavesAreKept'
  BY <1>1 DEF IInv, NoBatchTwice, ConfirmedSavesAreKept
<1>6. WritersTakeTurns'
  BY <1>1, <1>2 DEF IInv, TypeOK, WritersTakeTurns, Goto, Answer, Holding
<1>7. ASSUME NEW v \in Writers  PROVE CallIsRight(v)'
  BY <1>1, <1>2, <1>3, NoneIsNoAnswer
     DEF IInv, TypeOK, CallIsRight, Goto, Answer, Due, Stored, KernelAccepts, Refusals
<1>. QED BY <1>4, <1>5, <1>6, <1>7 DEF IInv

LEMMA UnlockKeeps ==
  ASSUME IInv, NEW w \in Writers, Unlock(w)
  PROVE  IInv'
<1>1. /\ pc[w] = "unlock" /\ lock = w /\ lock' = None /\ Return(w, answer[w])
      /\ answer[w] = "SAVED" => Stored(request[w])
      /\ UNCHANGED versions
  BY DEF IInv, CallIsRight, WritersTakeTurns, Holding, Unlock
<1>. QED BY <1>1, ForgetKeeps DEF Return

LEMMA KillKeeps ==
  ASSUME IInv, NEW w \in Writers, Kill(w)
  PROVE  IInv'
BY ForgetKeeps DEF Kill

LEMMA RecoverKeeps ==
  ASSUME IInv, Recover
  PROVE  IInv'
BY LockValues DEF IInv, TypeOK, NoBatchTwice, ConfirmedSavesAreKept, WritersTakeTurns, Recover,
   call, CallIsRight, Due, Stored, KernelAccepts

LEMMA InductiveInvariant ==
  ASSUME IInv, [Next]_vars
  PROVE  IInv'
<1>1. ASSUME NEW w \in Writers, Save(w)  PROVE IInv'
  BY <1>1, FirstKeeps, LockKeeps, SecondKeeps, PublishKeeps, ReadbackKeeps, UnlockKeeps DEF Save
<1>2. ASSUME NEW w \in Writers, Kill(w)  PROVE IInv'
  BY <1>2, KillKeeps
<1>3. ASSUME NEW w \in Writers, NEW r \in Requests, Submit(w, r)  PROVE IInv'
  BY <1>3, SubmitKeeps
<1>4. CASE Recover
  BY <1>4, RecoverKeeps
<1>5. CASE UNCHANGED vars
  BY <1>5 DEF vars, call, IInv, TypeOK, NoBatchTwice, ConfirmedSavesAreKept, WritersTakeTurns,
     CallIsRight, Due, Stored, KernelAccepts
<1>. QED BY <1>1, <1>2, <1>3, <1>4, <1>5 DEF Next

\* The inductive invariant holds in every behaviour of the repository.
THEOREM StoreIsSafe == Spec => []IInv
<1>1. Init => IInv
  BY InitialInvariant
<1>2. IInv /\ [Next]_vars => IInv'
  BY InductiveInvariant
<1>. QED BY <1>1, <1>2, PTL DEF Spec

\* Calls, lock and version files keep their types, the limit on versions included,
\* which is tested under the lock again.
THEOREM TypeCorrect == Spec => []TypeOK
<1>1. IInv => TypeOK
  BY DEF IInv
<1>. QED BY <1>1, StoreIsSafe, PTL

\* A batch is in the history once, on the version it was written against,
\* however many clients send it, and however often, and whatever is killed.
THEOREM BatchesAppliedOnce == Spec => []NoBatchTwice
<1>1. IInv => NoBatchTwice
  BY DEF IInv
<1>. QED BY <1>1, StoreIsSafe, PTL

\* What save() told a client is saved is in the history, at the version it said.
THEOREM ConfirmationsHold == Spec => []ConfirmedSavesAreKept
<1>1. IInv => ConfirmedSavesAreKept
  BY DEF IInv
<1>. QED BY <1>1, StoreIsSafe, PTL

\* The lock file excludes: of any number of calls one is past it, and no call
\* answers SAVE_UNCONFIRMED.
THEOREM LockExcludes == Spec => []WritersTakeTurns
<1>1. IInv => WritersTakeTurns
  BY DEF IInv
<1>. QED BY <1>1, StoreIsSafe, PTL

-----------------------------------------------------------------------------
\* A call that returns after a load or after the lock: the log is told of a
\* confirmation, or of nothing.
LEMMA ReturnIsConfirm ==
  ASSUME NEW w \in Writers, NEW code, Return(w, code), request[w] \in Requests,
         code = "SAVED" => Stored(request[w]), UNCHANGED versions
  PROVE  [Log!Next]_Log!lvars
<1>1. CASE code = "SAVED"
  <2>1. Log!Confirm(request[w])
    BY <1>1 DEF Return, Stored, Log!Confirm
  <2>. QED BY <2>1 DEF Log!Next
<1>2. CASE code # "SAVED"
  BY <1>2 DEF Return, Log!lvars
<1>. QED BY <1>1, <1>2

LEMMA SaveRefines ==
  ASSUME IInv, NEW w \in Writers, Save(w)
  PROVE  [Log!Next]_Log!lvars
<1>1. CASE First(w)
  <2>1. request[w] \in Requests /\ UNCHANGED versions
    BY <1>1 DEF IInv, CallIsRight, First
  <2>2. PICK code \in Verdict(request[w]) :
          IF code = None
          THEN Goto(w, "lock") /\ UNCHANGED <<request, loaded, answer, confirmed>>
          ELSE Return(w, code)
    BY <1>1 DEF First
  <2>3. code = "SAVED" => Stored(request[w])
    BY <2>1, VerdictIsRight DEF IInv
  <2>. QED BY <2>1, <2>2, <2>3, ReturnIsConfirm DEF Log!lvars
<1>2. CASE Lock(w)
  <2>1. request[w] \in Requests /\ UNCHANGED versions
    BY <1>2 DEF IInv, CallIsRight, Lock
  <2>. QED BY <1>2, <2>1, ReturnIsConfirm DEF Lock, Log!lvars
<1>3. CASE Second(w) \/ Readback(w)
  BY <1>3 DEF Second, Readback, Log!lvars
<1>4. CASE Publish(w)
  <2>1. CASE versions' = Append(versions, request[w])
    <3>1. request[w] \in Requests /\ Due(request[w]) /\ UNCHANGED confirmed
      BY <1>4 DEF IInv, CallIsRight, Publish
    <3>2. Log!Commit(request[w])
      BY <2>1, <3>1 DEF Due, KernelAccepts, Log!Commit
    <3>. QED BY <3>1, <3>2 DEF Log!Next
  <2>2. CASE UNCHANGED versions
    BY <1>4, <2>2 DEF Publish, Log!lvars
  <2>. QED BY <1>4, <2>1, <2>2 DEF Publish
<1>5. CASE Unlock(w)
  <2>1. /\ request[w] \in Requests /\ Return(w, answer[w]) /\ UNCHANGED versions
        /\ answer[w] = "SAVED" => Stored(request[w])
    BY <1>5 DEF IInv, CallIsRight, Unlock
  <2>. QED BY <2>1, ReturnIsConfirm
<1>. QED BY <1>1, <1>2, <1>3, <1>4, <1>5 DEF Save

\* The repository with its lock file, its two loads and its killed calls
\* implements the list of batches that it promises its clients.
THEOREM StoreImplementsLog == Spec => ImplementsVersionedLog
<1>1. Init => Log!Init
  BY DEF Init, Log!Init
<1>2. IInv /\ [Next]_vars => [Log!Next]_Log!lvars
  <2>1. SUFFICES ASSUME IInv, [Next]_vars  PROVE [Log!Next]_Log!lvars
    OBVIOUS
  <2>2. ASSUME NEW w \in Writers, Save(w)  PROVE [Log!Next]_Log!lvars
    BY <2>1, <2>2, SaveRefines
  <2>3. ASSUME NEW w \in Writers, Kill(w)  PROVE [Log!Next]_Log!lvars
    BY <2>3 DEF Kill, Log!lvars
  <2>4. ASSUME NEW w \in Writers, NEW r \in Requests, Submit(w, r)
        PROVE  [Log!Next]_Log!lvars
    BY <2>4 DEF Submit, Log!lvars
  <2>5. CASE Recover \/ UNCHANGED vars
    BY <2>5 DEF Recover, vars, Log!lvars
  <2>. QED BY <2>1, <2>2, <2>3, <2>4, <2>5 DEF Next
<1>. QED BY <1>1, <1>2, StoreIsSafe, PTL DEF Spec, ImplementsVersionedLog, Log!Spec
=============================================================================
