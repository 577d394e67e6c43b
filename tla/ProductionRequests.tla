------------------------- MODULE ProductionRequests -------------------------
(***************************************************************************)
(* What the production store promises of a request, whoever asks for it,   *)
(* asks again or is killed: it is claimed once and begun once, makes its   *)
(* one product only while it is begun, only of products that were there    *)
(* and are not quarantined, and only if the policy allowed it when it was  *)
(* claimed; and it is closed once, with what it has then made.  A request  *)
(* that is interrupted stays as it is for good.  There are no workers,     *)
(* locks, stages, readbacks or lists of outputs here, and no bytes that    *)
(* are kept before their receipt.                                          *)
(***************************************************************************)
EXTENDS Integers, FiniteSets

CONSTANTS
  Requests, Names,
  Sources,       \* request -> the requests whose products it is made of
  Results,     \* request -> what it can make
  Registers,    \* request -> the <<name, record>> it registers, if any
  MaxRequests, MaxNames, None

VARIABLES status, allowed, product, registered

rvars == <<status, allowed, product, registered>>

Init ==
  /\ status = [r \in Requests |-> "ABSENT"]
  /\ allowed = [r \in Requests |-> None]
  /\ product = [r \in Requests |-> None]
  /\ registered = [n \in Names |-> None]

Becomes(r, from, to) == status[r] = from /\ status' = [status EXCEPT ![r] = to]

Claim(r) ==
  /\ Becomes(r, "ABSENT", "CLAIMED")
  /\ Cardinality({q \in Requests : status[q] # "ABSENT"}) < MaxRequests
  /\ \E answer \in BOOLEAN : allowed' = [allowed EXCEPT ![r] = answer]
  /\ UNCHANGED <<product, registered>>

Begin(r) == Becomes(r, "CLAIMED", "BEGUN") /\ UNCHANGED <<allowed, product, registered>>

Make(r) ==
  /\ status[r] = "BEGUN" /\ allowed[r] /\ product[r] = None
  /\ \A q \in Sources[r] : product[q] \notin {None, "QUARANTINED"}
  /\ \E made \in Results[r] : product' = [product EXCEPT ![r] = made]
  /\ UNCHANGED <<status, allowed, registered>>

Register(r) ==
  /\ status[r] = "BEGUN"
  /\ Cardinality({n \in Names : registered[n] # None}) < MaxNames
  /\ \E entry \in Registers[r] :
       /\ registered[entry[1]] = None
       /\ registered' = [registered EXCEPT ![entry[1]] = entry[2]]
  /\ UNCHANGED <<status, allowed, product>>

Made(r) == product[r] # None \/ \E entry \in Registers[r] : registered[entry[1]] = entry[2]

Outcomes(r) ==
  IF ~Made(r) THEN {"FAILED"}
  ELSE IF product[r] = "QUARANTINED" THEN {"FAILED", "QUARANTINED"} ELSE {"FAILED", "COMPLETED"}

Close(r) ==
  (\E outcome \in Outcomes(r) : Becomes(r, "BEGUN", outcome)) /\ UNCHANGED <<allowed, product, registered>>

Next == \E r \in Requests : Claim(r) \/ Begin(r) \/ Make(r) \/ Register(r) \/ Close(r)

Spec == Init /\ [][Next]_rvars
=============================================================================
