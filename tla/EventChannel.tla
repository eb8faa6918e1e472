---------------------------- MODULE EventChannel ----------------------------
(***************************************************************************)
(* What IcBox.h promises about events, without threads, locks or signals:  *)
(* the library sends events, the application receives every one of them    *)
(* once and in the order in which they were sent, and after a cancel the   *)
(* receiving side is told that the stream has ended.                       *)
(***************************************************************************)
EXTENDS Naturals, Sequences

CONSTANT Event

VARIABLES
  sent,       \* the events the library has sent, oldest first
  delivered,  \* the events IcBox_pollEvent has returned, oldest first
  canceled,   \* a cancel was requested
  ended       \* IcBox_pollEvent has returned 0

vars == <<sent, delivered, canceled, ended>>

Init ==
  /\ sent = <<>>
  /\ delivered = <<>>
  /\ canceled = FALSE
  /\ ended = FALSE

Send(e) ==
  /\ sent' = Append(sent, e)
  /\ UNCHANGED <<delivered, canceled, ended>>

Deliver ==
  /\ ~ended
  /\ Len(delivered) < Len(sent)
  /\ delivered' = Append(delivered, sent[Len(delivered) + 1])
  /\ UNCHANGED <<sent, canceled, ended>>

Cancel ==
  /\ canceled' = TRUE
  /\ UNCHANGED <<sent, delivered, ended>>

End ==
  /\ canceled
  /\ ended' = TRUE
  /\ UNCHANGED <<sent, delivered, canceled>>

Next == (\E e \in Event : Send(e)) \/ Deliver \/ Cancel \/ End

SafeSpec == Init /\ [][Next]_vars

\* The receiving side always comes to an end of what there is: it takes the
\* next event or, once canceled, reports the end of the stream.
Spec == SafeSpec /\ WF_vars(Deliver \/ End)

=============================================================================
