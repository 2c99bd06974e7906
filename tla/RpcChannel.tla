----------------------------- MODULE RpcChannel -----------------------------
(***************************************************************************)
(* What a connection promises the application: a channel each way that     *)
(* ends once.  The strings it is asked to write go out in this order, and  *)
(* none after the end.  What arrives is put into its inbox, and so is the  *)
(* news of the end, in the very step that ends the connection.  Behind the *)
(* news there may be the messages of one read that was complete before.    *)
(* If the connection ends while it is still being opened, no message       *)
(* arrives at all, but the news may come twice.                            *)
(***************************************************************************)
EXTENDS Naturals, Sequences

VARIABLES
  phase,       \* "new", "opening", "open", "ended"
  requested,   \* the strings to be written, in the order of the requests
  sent,        \* the strings the peer gets
  inbox,       \* what the application has still to take: "msg", "broken"
  told,        \* how often the end was reported
  early,       \* it came while the connection was being opened
  late         \* a read was handled after the end

cvars == <<phase, requested, sent, inbox, told, early, late>>

CInit ==
  /\ phase = "new" /\ requested = <<>> /\ sent = <<>> /\ inbox = <<>>
  /\ told = 0 /\ early = FALSE /\ late = FALSE

\* A client's connection is open at once, an accepted one is opened in steps.
COpen ==
  /\ \/ phase = "new" /\ phase' \in {"opening", "open"}
     \/ phase = "opening" /\ phase' = "open"
  /\ UNCHANGED <<requested, sent, inbox, told, early, late>>

CRequest ==
  /\ phase # "new"
  /\ Len(requested') = Len(requested) + 1
  /\ requested' = Append(requested, requested'[Len(requested) + 1])
  /\ UNCHANGED <<phase, sent, inbox, told, early, late>>

CDeliver ==
  /\ phase = "open" /\ Len(sent) < Len(requested)
  /\ sent' = Append(sent, requested[Len(sent) + 1])
  /\ UNCHANGED <<phase, requested, inbox, told, early, late>>

\* A read brings the messages it completes, some or none.
CArrive ==
  /\ \/ phase = "open" /\ UNCHANGED late
     \/ phase = "ended" /\ ~early /\ ~late /\ late' = TRUE
  /\ \E n \in 0..Len(inbox') : inbox' = inbox \o [i \in 1..n |-> "msg"]
  /\ UNCHANGED <<phase, requested, sent, told, early>>

CEnd ==
  /\ phase \in {"opening", "open"} /\ phase' = "ended"
  /\ told' = 1 /\ inbox' = Append(inbox, "broken")
  /\ early' = (phase = "opening")
  /\ UNCHANGED <<requested, sent, late>>

CEndAgain ==
  /\ phase = "ended" /\ early
  /\ told = 1 /\ told' = 2 /\ inbox' = Append(inbox, "broken")
  /\ UNCHANGED <<phase, requested, sent, early, late>>

CTake ==
  /\ inbox # <<>> /\ inbox' = Tail(inbox)
  /\ UNCHANGED <<phase, requested, sent, told, early, late>>

CNext == COpen \/ CRequest \/ CDeliver \/ CArrive \/ CEnd \/ CEndAgain \/ CTake

CSpec == CInit /\ [][CNext]_cvars
=============================================================================
