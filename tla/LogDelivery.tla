----------------------------- MODULE LogDelivery -----------------------------
(***************************************************************************)
(* What ingesting the mail log promises to the rest of the application,    *)
(* without offsets, files, chunks, sockets or restarts: lines are written  *)
(* one after the other; some may go missing in a rotation; the others are  *)
(* applied in the order they were written, each once, and all of them in   *)
(* the end. MailLog implements it (PROPERTY Delivery there).               *)
(***************************************************************************)
EXTENDS Naturals, Sequences

VARIABLES
  written,  \* how many lines there are
  rows,     \* the lines that have been applied, in the order they were
  gone      \* lines that nobody has to apply any more

delivery == <<written, rows, gone>>

\* Lines handed over together: those after `from`, up to and with `upto`.
Block(from, upto) == [i \in 1..(upto - from) |-> from + i]

LastApplied == IF rows = <<>> THEN 0 ELSE rows[Len(rows)]

Due == {n \in 1..written : n > LastApplied /\ n \notin gone}

Init == written = 0 /\ rows = <<>> /\ gone = {}

Write ==
  /\ written' = written + 1
  /\ UNCHANGED <<rows, gone>>

\* Lines go missing; one may be completed as it does.
Lose ==
  /\ written' \in {written, written + 1}
  /\ gone \subseteq gone' /\ gone' \subseteq 1..written'
  /\ UNCHANGED rows

\* A block is applied; a line is passed over only if it is gone.
Deliver ==
  \E from, upto \in 0..written :
    /\ LastApplied <= from /\ from < upto
    /\ (LastApplied + 1)..from \subseteq gone
    /\ rows' = rows \o Block(from, upto)
    /\ UNCHANGED <<written, gone>>

Next == Write \/ Lose \/ Deliver

\* Lines that are due are applied in the end.
Spec == Init /\ [][Next]_delivery /\ WF_delivery(Due # {} /\ Deliver)

-----------------------------------------------------------------------------
\* Each line at most once, and in the order Postfix wrote them.
InOrder == \A i, j \in 1..Len(rows) : i < j => rows[i] < rows[j]

\* What was passed over is gone.
NonePassedOver ==
  \A n \in 1..LastApplied : n \in gone \/ \E i \in 1..Len(rows) : rows[i] = n
=============================================================================
