------------------------------- MODULE Channel -------------------------------
(***************************************************************************)
(* What a stream, a pipe, a connection or a body reader promises whoever   *)
(* reads it: the items put in come out in the same order, none twice; the  *)
(* end comes once, only after the writer has closed, and after every item. *)
(***************************************************************************)
EXTENDS Sequences, SequencesExt

VARIABLES
  put,   \* the items written, in order
  got,   \* the items delivered to the reader, in order
  closed, \* the writer has said that no item follows
  ended  \* the reader was told that no item follows

ChannelInit == put = << >> /\ got = << >> /\ ~closed /\ ~ended

\* The writer adds items, and may close at once.
Put ==
  /\ ~closed
  /\ put' # put /\ IsPrefix(put, put')
  /\ closed' \in BOOLEAN
  /\ UNCHANGED <<got, ended>>

Close == ~closed /\ closed' /\ UNCHANGED <<put, got, ended>>

\* The reader gets the items that follow the ones it has, and the end with the last.
Deliver ==
  /\ got' # got /\ IsPrefix(got, got') /\ IsPrefix(got', put)
  /\ ~ended
  /\ ended' \in BOOLEAN /\ (ended' => closed /\ got' = put)
  /\ UNCHANGED <<put, closed>>

End ==
  /\ closed /\ got = put /\ ~ended
  /\ ended' /\ UNCHANGED <<put, got, closed>>

ChannelSpec == ChannelInit /\ [][Put \/ Close \/ Deliver \/ End]_<<put, got, closed, ended>>
=============================================================================
