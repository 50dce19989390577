---------------------------- MODULE SerialInbox ----------------------------
(***************************************************************************)
(* What the debounce layer promises for the simple messages of one user:   *)
(* they wait in arrival order, one turn at a time takes all that wait, and *)
(* a turn either happens or gives its messages back to the front.  What    *)
(* waits may be dropped, or repeated by a call that failed half-way: the   *)
(* promise is about order and overlap.                                     *)
(***************************************************************************)
EXTENDS Sequences, Naturals

CONSTANT MaxMessages  (* messages are named by their arrival number *)

VARIABLES inbox,      (* the messages that wait, oldest first           *)
          turn,       (* the messages of the turn in progress           *)
          accepted,   (* how many messages arrived                      *)
          executed    (* the messages whose turn happened, in run order *)

vars == <<inbox, turn, accepted, executed>>

Init == inbox = <<>> /\ turn = <<>> /\ accepted = 0 /\ executed = <<>>

Accept ==
    /\ accepted < MaxMessages
    /\ accepted' = accepted + 1
    /\ inbox' = Append(inbox, accepted + 1)
    /\ UNCHANGED <<turn, executed>>

\* A turn starts with everything up to some message; what arrives between the
\* drain and the start of the turn waits for the next one.
Begin(n) ==
    /\ turn = <<>> /\ n \in 1..Len(inbox)
    /\ turn' = SubSeq(inbox, 1, n)
    /\ inbox' = SubSeq(inbox, n + 1, Len(inbox))
    /\ UNCHANGED <<accepted, executed>>

\* The turn commits its writes.
Execute ==
    /\ turn # <<>>
    /\ executed' = executed \o turn
    /\ UNCHANGED <<inbox, turn, accepted>>

Done ==
    /\ turn # <<>>
    /\ turn' = <<>>
    /\ UNCHANGED <<inbox, accepted, executed>>

\* The turn failed: its messages wait again, before all the others.
GiveBack ==
    /\ turn # <<>>
    /\ inbox' = turn \o inbox
    /\ turn' = <<>>
    /\ UNCHANGED <<accepted, executed>>

\* Messages that wait are dropped: the first or the last of them.
Drop ==
    /\ \E i \in 1..(Len(inbox) + 1), j \in 0..Len(inbox) : inbox' = SubSeq(inbox, i, j)
    /\ turn' \in {turn, <<>>}
    /\ UNCHANGED <<accepted, executed>>

\* Giving back failed half-way and was done again: the first n messages wait twice.
Repeat(n) ==
    /\ n \in 1..Len(inbox)
    /\ inbox' = SubSeq(inbox, 1, n) \o inbox
    /\ UNCHANGED <<turn, accepted, executed>>

Next == Accept \/ (\E n \in 1..Len(inbox) : Begin(n) \/ Repeat(n)) \/ Execute \/ Done \/ GiveBack \/ Drop

Spec == Init /\ [][Next]_vars
=============================================================================
