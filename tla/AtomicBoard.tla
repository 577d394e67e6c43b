----------------------------- MODULE AtomicBoard -----------------------------
(***************************************************************************)
(* What the board promises whoever calls it: a command is carried out at   *)
(* one moment between call and answer, on the board of that moment, and    *)
(* answered for what the board was then.  An answer may be lost, or be     *)
(* that nothing was done; there is no lock, file, or loaded copy here.     *)
(***************************************************************************)
EXTENDS Naturals, Sequences, SequencesExt

CONSTANTS
  Calls, MAX_LOG,
  Empty,           \* the board before the first command
  Accepts(_, _),   \* whether a board accepts a command
  Applied(_, _),   \* the board after it
  None

VARIABLES
  log,             \* the commands carried out that changed something
  asked,           \* call -> its command, as a set of at most one
  told             \* call -> the answer it has, or None

avars == <<log, asked, told>>
board == FoldLeft(Applied, Empty, log)

Init ==
  /\ log = <<>>
  /\ asked = [c \in Calls |-> {}]
  /\ told = [c \in Calls |-> None]

\* Any command may be asked for.
Begin(c) ==
  /\ asked[c] = {}
  /\ \E command \in asked'[c] : asked' = [asked EXCEPT ![c] = {command}]
  /\ UNCHANGED <<log, told>>

CarryOut(c, command) ==
  LET accepted == Accepts(board, command)
      changes == Applied(board, command) # board
  IN /\ told[c] = None
     /\ \/ /\ told' = [told EXCEPT ![c] = "OK"] /\ log' = log
           /\ accepted /\ ~changes
        \/ /\ told' = [told EXCEPT ![c] = "OK"] /\ log' = Append(log, command)
           /\ accepted /\ changes /\ Len(log) < MAX_LOG
        \/ /\ told' = [told EXCEPT ![c] = "REFUSED"] /\ log' = log
           /\ accepted => changes /\ Len(log) >= MAX_LOG
     /\ UNCHANGED asked

DoNothing(c) ==
  /\ asked[c] # {} /\ told[c] = None
  /\ told' = [told EXCEPT ![c] = "RETRY"]
  /\ UNCHANGED <<log, asked>>

End(c) ==
  /\ asked' = [asked EXCEPT ![c] = {}]
  /\ told' = [told EXCEPT ![c] = None]
  /\ UNCHANGED log

Next ==
  \E c \in Calls :
    \/ Begin(c) \/ DoNothing(c) \/ End(c)
    \/ \E command \in asked[c] : CarryOut(c, command)

Spec == Init /\ [][Next]_avars
=============================================================================
